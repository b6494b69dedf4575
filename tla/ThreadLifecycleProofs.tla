----------------------- MODULE ThreadLifecycleProofs -----------------------
(***************************************************************************)
(* ThreadLifecycle, proved for any number of requests, removals, processors *)
(* and mails: what a removal deletes was moved to the provider's trash      *)
(* before, and a removal that fails for good restores what it found.        *)
(*                                                                         *)
(* The argument is ThreadInv.  A processor knows the mails it has moved     *)
(* (Moved), and a removal that nothing else disturbs is always in one place *)
(* (OneRemoval): a request, a job, or a processor that handles its failure. *)
(***************************************************************************)
EXTENDS ThreadLifecycle, TLAPS

Known == ThreadAssumption /\ ThreadInv

Sound == ThreadInv' /\ LeavesAfterProvider /\ RestoresBefore

Pcs == {"idle", "read", "move", "cleanup", "failed", "restore"}

(***************************************************************************)
(* The records                                                              *)
(***************************************************************************)
LEMMA DeleterFacts ==
  ASSUME NEW x \in DeleterOf
  PROVE  /\ x.pc \in Pcs /\ (x = Idle <=> x.pc = "idle")
         /\ x.pc \in {"read", "move", "cleanup"} => x.job \in Removals
         /\ x.pc \in {"move", "cleanup"} => x.had \subseteq Mails
         /\ x.pc \in {"move", "cleanup"} => x.passed \subseteq Mails
         /\ x.pc = "move" => x.todo \subseteq Mails
         /\ x.pc = "restore" => x.previous \in Previous
PROOF BY DEF DeleterOf, Pcs, Idle

LEMMA DeleterMade ==
  /\ Idle \in DeleterOf /\ [pc |-> "failed"] \in DeleterOf
  /\ \A i \in Removals : [pc |-> "read", job |-> i] \in DeleterOf
  /\ \A i \in Removals, h, t, p \in SUBSET Mails :
       [pc |-> "move", job |-> i, had |-> h, todo |-> t, passed |-> p] \in DeleterOf
  /\ \A i \in Removals, h, p \in SUBSET Mails :
       [pc |-> "cleanup", job |-> i, had |-> h, passed |-> p] \in DeleterOf
  /\ \A p \in Previous : [pc |-> "restore", previous |-> p] \in DeleterOf
PROOF BY DEF DeleterOf

LEMMA RequestFacts ==
  ASSUME ThreadAssumption, NEW x \in RequestOf
  PROVE  /\ x.pc \in Operations \cup {"idle", "enqueue"}
         /\ x = Idle <=> x.pc = "idle"
         /\ "idle" \notin Operations /\ "enqueue" \notin Operations
PROOF
<1>1. "idle" \notin Operations /\ "enqueue" \notin Operations
  BY DEF ThreadAssumption, Handlers
<1>2. QED  BY <1>1 DEF RequestOf, Idle

LEMMA RequestMade ==
  /\ Idle \in RequestOf /\ [pc |-> "enqueue"] \in RequestOf
  /\ \A op \in Operations, s \in Previous \cup {"unread"} :
       [pc |-> op, was |-> s] \in RequestOf
PROOF BY DEF RequestOf

LEMMA ThreadFacts ==
  ASSUME NEW x \in ThreadRow
  PROVE  /\ x.status \in Statuses /\ x.previousStatus \in Previous
         /\ x.archivedAt \in BOOLEAN
PROOF BY DEF ThreadRow, Previous

LEMMA ThreadMade ==
  ASSUME NEW s \in Statuses, NEW p \in Previous, NEW a \in BOOLEAN
  PROVE  [status |-> s, previousStatus |-> p, archivedAt |-> a] \in ThreadRow
PROOF BY DEF ThreadRow, Previous

LEMMA RestoredTyped ==
  ASSUME NEW p \in Previous
  PROVE  Restored(p) \in Statuses /\ (p # "none" => Restored(p) = p)
PROOF BY DEF Restored, Previous, Statuses

\* What the handlers write is a row.
LEMMA WrittenTyped ==
  ASSUME thread \in ThreadRow, NEW r, r.pc \in {"snooze", "unsnooze", "archive",
         "unarchive", "assign"}, r.pc \in UsesStatus => r.was \in Statuses,
         r.pc \in UsesPrevious => r.was \in Previous
  PROVE  Written(r) \in ThreadRow
PROOF
<1>1. CASE r.pc = "snooze"
  <2>1. r.was \in Previous
    BY <1>1 DEF UsesStatus, Previous
  <2>2. Written(r) = [thread EXCEPT !.previousStatus = r.was, !.status = "SNOOZED"]
    BY <1>1 DEF Written
  <2>3. PICK x : x = [thread EXCEPT !.previousStatus = r.was]  OBVIOUS
  <2>4. x \in ThreadRow  BY <2>1, <2>3 DEF ThreadRow, Previous, Statuses
  <2>5. PICK y : y = [x EXCEPT !.status = "SNOOZED"]  OBVIOUS
  <2>6. y \in ThreadRow  BY <2>1, <2>4, <2>5 DEF ThreadRow, Previous, Statuses
  <2>7. Written(r) = y  BY Zenon, <2>2, <2>3, <2>5
  <2>8. QED  BY <2>6, <2>7
<1>2. CASE r.pc = "unsnooze"
  <2>1. Restored(r.was) \in Statuses
    BY <1>2, RestoredTyped DEF UsesPrevious, Previous
  <2>2. Written(r) = [thread EXCEPT !.previousStatus = "none", !.status = Restored(r.was)]
    BY <1>2 DEF Written
  <2>3. PICK x : x = [thread EXCEPT !.previousStatus = "none"]  OBVIOUS
  <2>4. x \in ThreadRow  BY <2>1, <2>3 DEF ThreadRow, Previous, Statuses
  <2>5. PICK y : y = [x EXCEPT !.status = Restored(r.was)]  OBVIOUS
  <2>6. y \in ThreadRow  BY <2>1, <2>4, <2>5 DEF ThreadRow, Previous, Statuses
  <2>7. Written(r) = y  BY Zenon, <2>2, <2>3, <2>5
  <2>8. QED  BY <2>6, <2>7
<1>3. CASE r.pc = "archive"
  <2>1. r.was \in Previous
    BY <1>3 DEF UsesStatus, Previous
  <2>2. Written(r) = [thread EXCEPT !.previousStatus = r.was, !.status = "ARCHIVED",
                                    !.archivedAt = TRUE]
    BY <1>3 DEF Written
  <2>3. PICK x : x = [thread EXCEPT !.previousStatus = r.was]  OBVIOUS
  <2>4. x \in ThreadRow  BY <2>1, <2>3 DEF ThreadRow, Previous, Statuses
  <2>5. PICK y : y = [x EXCEPT !.status = "ARCHIVED"]  OBVIOUS
  <2>6. y \in ThreadRow  BY <2>1, <2>4, <2>5 DEF ThreadRow, Previous, Statuses
  <2>7. PICK z : z = [y EXCEPT !.archivedAt = TRUE]  OBVIOUS
  <2>8. z \in ThreadRow  BY <2>1, <2>6, <2>7 DEF ThreadRow, Previous, Statuses
  <2>9. Written(r) = z  BY Zenon, <2>2, <2>3, <2>5, <2>7
  <2>10. QED  BY <2>8, <2>9
<1>4. CASE r.pc = "unarchive"
  <2>1. Restored(r.was) \in Statuses
    BY <1>4, RestoredTyped DEF UsesPrevious, Previous
  <2>2. Written(r) = [thread EXCEPT !.previousStatus = "none", !.archivedAt = FALSE,
                                    !.status = Restored(r.was)]
    BY <1>4 DEF Written
  <2>3. PICK x : x = [thread EXCEPT !.previousStatus = "none"]  OBVIOUS
  <2>4. x \in ThreadRow  BY <2>1, <2>3 DEF ThreadRow, Previous, Statuses
  <2>5. PICK y : y = [x EXCEPT !.archivedAt = FALSE]  OBVIOUS
  <2>6. y \in ThreadRow  BY <2>1, <2>4, <2>5 DEF ThreadRow, Previous, Statuses
  <2>7. PICK z : z = [y EXCEPT !.status = Restored(r.was)]  OBVIOUS
  <2>8. z \in ThreadRow  BY <2>1, <2>6, <2>7 DEF ThreadRow, Previous, Statuses
  <2>9. Written(r) = z  BY Zenon, <2>2, <2>3, <2>5, <2>7
  <2>10. QED  BY <2>8, <2>9
<1>5. CASE r.pc = "assign"
  <2>1. Written(r) = [thread EXCEPT !.status = "OPEN"]  BY <1>5 DEF Written
  <2>2. [thread EXCEPT !.status = "OPEN"] \in ThreadRow  BY DEF ThreadRow, Statuses
  <2>3. QED  BY <2>1, <2>2
<1>6. QED  BY <1>1, <1>2, <1>3, <1>4, <1>5

(***************************************************************************)
(* Jobs                                                                     *)
(***************************************************************************)
LEMMA JobFacts ==
  ASSUME ThreadAssumption, NEW j \in Queue!Jobs, NEW w \in Deleters
  PROVE  /\ Queue!NoJob \in Queue!Jobs /\ Queue!NoJob.state = "none"
         /\ Queue!Added(FALSE) \in Queue!Jobs /\ Queue!Added(FALSE).state = "waiting"
         /\ /\ Queue!Taken(j, w) \in Queue!Jobs /\ Queue!Taken(j, w).state = "active"
            /\ Queue!Taken(j, w).owner = w
         /\ /\ Queue!Completed(j, w) \in Queue!Jobs
            /\ j.owner = w => Queue!Completed(j, w).state = "completed"
         /\ /\ Queue!AttemptFailed(j, w) \in Queue!Jobs
            /\ j.owner = w => Queue!AttemptFailed(j, w).state \in {"waiting", "failed"}
         /\ /\ Queue!Stalled(j) \in Queue!Jobs
            /\ Queue!Stalled(j).state \in {"waiting", "failed"}
PROOF
<1> USE DEF Queue!Jobs, Queue!JobStates
<1>1. Queue!NoJob \in Queue!Jobs /\ Queue!NoJob.state = "none"  BY DEF Queue!NoJob
<1>2. Queue!Added(FALSE) \in Queue!Jobs /\ Queue!Added(FALSE).state = "waiting"
  BY DEF Queue!NoJob, Queue!Added
<1>3. /\ Queue!Taken(j, w) \in Queue!Jobs /\ Queue!Taken(j, w).state = "active"
      /\ Queue!Taken(j, w).owner = w
  BY DEF Queue!Taken
<1>4. /\ Queue!Completed(j, w) \in Queue!Jobs
      /\ j.owner = w => Queue!Completed(j, w).state = "completed"
  BY DEF Queue!Completed
<1>5. j.attemptsMade + 1 \in Nat /\ j.stalled + 1 \in Nat  OBVIOUS
<1>6. /\ Queue!AttemptFailed(j, w) \in Queue!Jobs
      /\ j.owner = w => Queue!AttemptFailed(j, w).state \in {"waiting", "failed"}
  BY <1>5 DEF Queue!AttemptFailed
<1>7. /\ Queue!Stalled(j) \in Queue!Jobs
      /\ Queue!Stalled(j).state \in {"waiting", "failed"}
  BY <1>5 DEF Queue!Stalled
<1>8. QED  BY <1>1, <1>2, <1>3, <1>4, <1>6, <1>7
(***************************************************************************)
(* What the steps have in common                                            *)
(***************************************************************************)
LEMMA NotPending ==
  ASSUME Known, ~mixed, thread.status # "TRASH"
  PROVE  ~Pending
PROOF BY DEF Known, ThreadInv, OneRemoval

LEMMA NothingPending ==
  ASSUME ~mixed' => ~Pending'
  PROVE  OneRemoval'
PROOF BY DEF OneRemoval, Pending

\* A request is what is left of a step of the users; the mails and the processors
\* stay as they are.
LEMMA UsersSound ==
  ASSUME Known, UNCHANGED <<deleter, mailVars, late>>, Typed', HoldsJob', OneRemoval'
  PROVE  Sound
PROOF
<1>1. UNCHANGED <<provider, stored>>  BY DEF mailVars
<1>2. Moved'  BY <1>1 DEF Known, ThreadInv, Moved, Moving
<1>3. LeavesAfterProvider  BY <1>1 DEF LeavesAfterProvider
<1>4. RestoresBefore  BY DEF RestoresBefore, Restores
<1>5. QED  BY <1>2, <1>3, <1>4 DEF Sound, ThreadInv

LEMMA LocksAlone ==
  ASSUME Known, UNCHANGED <<job, deleter>>
  PROVE  HoldsJob'
PROOF BY DEF Known, ThreadInv, HoldsJob, Working, Moving, Job

LEMMA RequestTyped ==
  ASSUME Known, NEW u \in Users, NEW y \in RequestOf,
         y.pc \in UsesStatus => y.was \in Statuses,
         y.pc \in UsesPrevious => y.was \in Previous,
         request' = [request EXCEPT ![u] = y]
  PROVE  /\ request' \in [Users -> RequestOf]
         /\ \A v \in Users : request'[v].pc \in UsesStatus => request'[v].was \in Statuses
         /\ \A v \in Users : request'[v].pc \in UsesPrevious => request'[v].was \in Previous
         /\ request'[u] = y /\ \A v \in Users : v # u => request'[v] = request[v]
PROOF
<1>1. request \in [Users -> RequestOf]  BY DEF Known, ThreadInv, Typed
<1>2. request' \in [Users -> RequestOf]  BY <1>1
<1>3. request'[u] = y /\ \A v \in Users : v # u => request'[v] = request[v]
  BY <1>1
<1>4. QED  BY <1>2, <1>3 DEF Known, ThreadInv, Typed

LEMMA IdleTyped ==
  ASSUME Known, NEW u \in Users, request' = [request EXCEPT ![u] = Idle]
  PROVE  /\ request' \in [Users -> RequestOf]
         /\ \A v \in Users : request'[v].pc \in UsesStatus => request'[v].was \in Statuses
         /\ \A v \in Users : request'[v].pc \in UsesPrevious => request'[v].was \in Previous
         /\ request'[u] = Idle /\ \A v \in Users : v # u => request'[v] = request[v]
PROOF
<1>1. Idle \in RequestOf /\ Idle.pc \notin UsesStatus /\ Idle.pc \notin UsesPrevious
  BY RequestMade DEF Idle, UsesStatus, UsesPrevious
<1>2. QED  BY <1>1, RequestTyped

\* A request that begins or ends while no removal is pending.
LEMMA RequestAlone ==
  ASSUME Known, NEW u \in Users, NEW y, y.pc # "enqueue",
         request' = [request EXCEPT ![u] = y], UNCHANGED <<job, deleter>>,
         ~mixed' => ~mixed /\ thread.status # "TRASH"
  PROVE  OneRemoval'
PROOF
<1>1. SUFFICES ASSUME ~mixed' PROVE ~Pending'  BY NothingPending
<1>2. ~Pending  BY <1>1, NotPending
<1>3. \A v \in Users : ~Asking(v)'
  BY <1>2 DEF Pending, Asking, Known, ThreadInv, Typed
<1>4. QED  BY <1>2, <1>3 DEF Pending, Unfinished, Failing

(***************************************************************************)
(* The steps of the users                                                   *)
(***************************************************************************)
LEMMA ReadStep ==
  ASSUME Known, NEW u \in Users, NEW op \in Operations, Read(u, op)
  PROVE  Sound
PROOF
<1> DEFINE was == IF op \in UsesStatus THEN thread.status
                  ELSE IF op \in UsesPrevious THEN thread.previousStatus ELSE "unread"
           y == [pc |-> op, was |-> was]
<1>1. thread.status \in Statuses /\ thread.previousStatus \in Previous
  BY ThreadFacts DEF Known, ThreadInv, Typed
<1>2. /\ was \in Previous \cup {"unread"}
      /\ op \in UsesStatus => was \in Statuses
      /\ op \in UsesPrevious => was \in Previous
  BY <1>1 DEF UsesStatus, UsesPrevious, Previous
<1>3. request' = [request EXCEPT ![u] = y]  BY Zenon DEF Read
<1>4. /\ UNCHANGED <<thread, snooze, waker, job, deleter, provider, stored, arriving,
                     zombies, crashes, mixed, late>>
      /\ thread.status \notin {"TRASH", "gone"}
  BY DEF Read, rowVars, mailVars, history, Visible
<1> HIDE DEF was
<1>5. y \in RequestOf /\ y.pc = op /\ y.was = was  BY <1>2, RequestMade
<1>6. y.pc # "enqueue"  BY <1>5, RequestFacts DEF Known
<1> HIDE DEF y
<1>7. OneRemoval'  BY <1>3, <1>4, <1>6, RequestAlone
<1>8. Typed'
  BY <1>2, <1>3, <1>4, <1>5, RequestTyped DEF Known, ThreadInv, Typed
<1>9. QED  BY <1>4, <1>7, <1>8, UsersSound, LocksAlone DEF mailVars

LEMMA WriteStep == ASSUME Known, NEW u \in Users, Write(u) PROVE Sound
PROOF
<1>1. /\ request' = [request EXCEPT ![u] = Idle]
      /\ UNCHANGED <<waker, job, deleter, provider, stored, arriving, zombies, crashes,
                     late>>
      /\ request[u].pc \in {"snooze", "unsnooze", "archive", "unarchive", "assign"}
  BY DEF Write, mailVars
<1>2. /\ thread' \in ThreadRow /\ snooze' \in {"none", "later", "due"}
      /\ mixed' \in BOOLEAN
      /\ ~mixed' => ~mixed /\ thread.status # "TRASH"
  <2>1. CASE Exists
    <3>1. thread' = Written(request[u]) /\ snooze' = SnoozeAfter(request[u])
          /\ mixed' = (mixed \/ thread.status = "TRASH")
      BY <2>1 DEF Write
    <3>2. Written(request[u]) \in ThreadRow
      BY <1>1, WrittenTyped DEF Known, ThreadInv, Typed
    <3>3. SnoozeAfter(request[u]) \in {"none", "later", "due"}
      BY DEF SnoozeAfter, Known, ThreadInv, Typed
    <3>4. QED  BY <3>1, <3>2, <3>3
  <2>2. CASE ~Exists
    BY <2>2 DEF Write, Exists, rowVars, Known, ThreadInv, Typed
  <2>3. QED  BY <2>1, <2>2
<1>3. OneRemoval'
  <2>1. Idle.pc # "enqueue"  BY DEF Idle
  <2>2. QED  BY <1>1, <1>2, <2>1, RequestAlone
<1>4. Typed'  BY <1>1, <1>2, IdleTyped DEF Known, ThreadInv, Typed
<1>5. QED  BY <1>1, <1>3, <1>4, UsersSound, LocksAlone DEF mailVars

LEMMA FileStep ==
  ASSUME Known, NEW u \in Users, NEW status \in {"OPEN", "ARCHIVED", "TRASH"},
         File(u, status)
  PROVE  Sound
PROOF
<1>1. /\ request' = [request EXCEPT ![u] = Idle]
      /\ UNCHANGED <<snooze, waker, job, deleter, provider, stored, arriving, zombies,
                     crashes, late>>
  BY DEF File, mailVars
<1>2. /\ thread' \in ThreadRow /\ mixed' \in BOOLEAN
      /\ ~mixed' => ~mixed /\ thread.status # "TRASH"
  <2>1. CASE Exists
    <3>1. thread' = [thread EXCEPT !.status = status]
          /\ mixed' = (mixed \/ thread.status = "TRASH")
      BY <2>1 DEF File
    <3>2. [thread EXCEPT !.status = status] \in ThreadRow
      BY DEF Known, ThreadInv, Typed, ThreadRow, Statuses
    <3>3. QED  BY <3>1, <3>2
  <2>2. CASE ~Exists  BY <2>2 DEF File, Exists, Known, ThreadInv, Typed
  <2>3. QED  BY <2>1, <2>2
<1>3. OneRemoval'
  <2>1. Idle.pc # "enqueue"  BY DEF Idle
  <2>2. QED  BY <1>1, <1>2, <2>1, RequestAlone
<1>4. Typed'  BY <1>1, <1>2, IdleTyped DEF Known, ThreadInv, Typed
<1>5. QED  BY <1>1, <1>3, <1>4, UsersSound, LocksAlone DEF mailVars
LEMMA RemoveWriteStep == ASSUME Known, NEW u \in Users, RemoveWrite(u) PROVE Sound
PROOF
<1>1. /\ UNCHANGED <<snooze, waker, job, deleter, provider, stored, arriving, zombies,
                     crashes, late>>
      /\ request[u].pc = "remove"
  BY DEF RemoveWrite, mailVars
<1>2. request[u] \in RequestOf /\ request[u].was \in Statuses
  BY <1>1 DEF Known, ThreadInv, Typed, UsesStatus
<1> DEFINE y == [pc |-> "enqueue"]
           x == [status |-> "TRASH", archivedAt |-> TRUE, previousStatus |-> request[u].was]
<1>3. CASE Exists
  <2>1. thread' = x /\ request' = [request EXCEPT ![u] = y] /\ before' = thread.status
    BY Zenon, <1>3 DEF RemoveWrite
  <2>2. mixed' = (\/ thread.status # request[u].was
                  \/ \E v \in Users \ {u} : request[v] # Idle
                  \/ \E k \in WakeUps : waker[k] # Idle
                  \/ \E w \in Deleters : deleter[w] # Idle
                  \/ \E i \in Removals : Unfinished(i))
    BY Zenon, <1>3 DEF RemoveWrite
  <2>3. x \in ThreadRow /\ x.status = "TRASH" /\ x.previousStatus = request[u].was
    BY <1>2, ThreadMade DEF Previous, Statuses
  <2>4. y \in RequestOf /\ y.pc = "enqueue" /\ y.pc \notin UsesStatus
        /\ y.pc \notin UsesPrevious
    BY RequestMade DEF UsesStatus, UsesPrevious
  <2> HIDE DEF x, y
  <2>5. /\ request' \in [Users -> RequestOf]
        /\ \A v \in Users : request'[v].pc \in UsesStatus => request'[v].was \in Statuses
        /\ \A v \in Users : request'[v].pc \in UsesPrevious => request'[v].was \in Previous
        /\ request'[u] = y /\ \A v \in Users : v # u => request'[v] = request[v]
    BY <2>1, <2>4, RequestTyped
  <2>6. Typed'
    <3>1. mixed' \in BOOLEAN  BY <2>2
    <3>2. QED  BY <1>1, <2>1, <2>3, <2>5, <3>1 DEF Known, ThreadInv, Typed
  <2>7. ASSUME ~mixed' PROVE OneRemoval'
    <3>1. /\ thread.status = request[u].was
          /\ \A v \in Users \ {u} : request[v] = Idle
          /\ \A w \in Deleters : deleter[w] = Idle
          /\ \A i \in Removals : ~Unfinished(i)
      BY <2>2, <2>7
    <3>2. thread'.status = "TRASH" /\ thread'.previousStatus = before'
          /\ before' \in Statuses
      BY <2>1, <2>3, <3>1, <1>2
    <3>3. \A i \in Removals : ~Unfinished(i)'  BY <1>1, <3>1 DEF Unfinished
    <3>4. \A w \in Deleters : deleter'[w] = Idle /\ ~Failing(w)'
      BY <1>1, <3>1 DEF Failing, Idle
    <3>5. \A v \in Users \ {u} : request'[v] = Idle /\ ~Asking(v)'
      BY <2>5, <3>1 DEF Asking, Idle
    <3>6. Requested(u)'  BY <3>3, <3>4, <3>5 DEF Requested
    <3>7. QED  BY <3>2, <3>3, <3>4, <3>5, <3>6 DEF OneRemoval
  <2>8. OneRemoval'  BY <2>7 DEF OneRemoval
  <2>9. QED  BY <1>1, <2>6, <2>8, UsersSound, LocksAlone DEF mailVars
<1>4. CASE ~Exists
  <2>1. request' = [request EXCEPT ![u] = Idle] /\ UNCHANGED <<thread, before, mixed>>
    BY <1>4 DEF RemoveWrite
  <2>2. Typed'  BY <1>1, <2>1, IdleTyped DEF Known, ThreadInv, Typed
  <2>3. OneRemoval'
    <3>1. Idle.pc # "enqueue"  BY DEF Idle
    <3>2. thread.status # "TRASH"  BY <1>4 DEF Exists
    <3>3. QED  BY <1>1, <2>1, <3>1, <3>2, RequestAlone
  <2>4. QED  BY <1>1, <2>2, <2>3, UsersSound, LocksAlone DEF mailVars
<1>5. QED  BY <1>3, <1>4

LEMMA RemoveFailsStep == ASSUME Known, NEW u \in Users, RemoveFails(u) PROVE Sound
PROOF
<1>1. /\ request[u].pc = "enqueue" /\ crashes < MaxCrashes /\ crashes' = crashes + 1
      /\ request' = [request EXCEPT ![u] = Idle]
      /\ UNCHANGED <<thread, snooze, waker, job, deleter, provider, stored, arriving,
                     zombies, before, mixed, late>>
  BY DEF RemoveFails, rowVars, mailVars
<1>2. crashes' \in 0..MaxCrashes
  BY <1>1 DEF Known, ThreadInv, Typed, ThreadAssumption
<1>3. Typed'  BY <1>1, <1>2, IdleTyped DEF Known, ThreadInv, Typed
<1>4. ASSUME ~mixed' PROVE ~Pending'
  <2>1. Requested(u)  BY <1>1, <1>4 DEF Known, ThreadInv, OneRemoval, Asking
  <2>2. \A v \in Users : request'[v] = Idle
    BY <1>1, <2>1, IdleTyped DEF Requested
  <2>3. \A i \in Removals : ~Unfinished(i)'  BY <1>1, <2>1 DEF Requested, Unfinished
  <2>4. \A w \in Deleters : ~Failing(w)'  BY <1>1, <2>1 DEF Requested, Failing, Idle
  <2>5. QED  BY <2>2, <2>3, <2>4 DEF Pending, Asking, Idle
<1>5. OneRemoval'  BY <1>4, NothingPending
<1>6. QED  BY <1>1, <1>3, <1>5, UsersSound, LocksAlone DEF mailVars

LEMMA RemoveEnqueueStep ==
  ASSUME Known, NEW u \in Users, NEW i \in Removals, RemoveEnqueue(u, i)
  PROVE  Sound
PROOF
<1> DEFINE j == Queue!Added(FALSE)
<1>1. /\ request[u].pc = "enqueue" /\ job[i] = Queue!NoJob
      /\ job' = [job EXCEPT ![i] = j]
      /\ request' = [request EXCEPT ![u] = Idle]
      /\ UNCHANGED <<thread, snooze, waker, deleter, provider, stored, arriving,
                     zombies, crashes, before, mixed, late>>
  BY DEF RemoveEnqueue, rowVars, mailVars, history
<1>2. /\ job \in [Removals -> Queue!Jobs] /\ job[i].state = "none"
      /\ j \in Queue!Jobs /\ j.state = "waiting"
  <2>1. j \in Queue!Jobs /\ j.state = "waiting"
    BY DEF Queue!Added, Queue!NoJob, Queue!Jobs, Queue!JobStates
  <2>2. job[i].state = "none"  BY <1>1 DEF Queue!NoJob
  <2>3. QED  BY <2>1, <2>2 DEF Known, ThreadInv, Typed
<1> HIDE DEF j
<1>3. /\ job' \in [Removals -> Queue!Jobs] /\ job'[i] = j
      /\ \A k \in Removals : k # i => job'[k] = job[k]
  BY <1>1, <1>2
<1>4. Typed'  BY <1>1, <1>3, IdleTyped DEF Known, ThreadInv, Typed
<1>5. HoldsJob'
  <2>1. SUFFICES ASSUME NEW w \in Deleters, Working(w)'
                 PROVE  job'[deleter'[w].job].state = "active"
                        /\ job'[deleter'[w].job].owner = w
    BY DEF HoldsJob, Job
  <2>2. deleter[w] \in DeleterOf  BY DEF Known, ThreadInv, Typed
  <2>3. Working(w)  BY <2>1, <1>1 DEF Working, Moving
  <2>4. deleter[w].job \in Removals
    BY <2>2, <2>3, DeleterFacts DEF Working, Moving
  <2>5. job[deleter[w].job].state = "active" /\ job[deleter[w].job].owner = w
    BY <2>3 DEF Known, ThreadInv, HoldsJob, Job
  <2>6. deleter[w].job # i  BY <2>5, <1>2
  <2>7. QED  BY <1>1, <1>3, <2>4, <2>5, <2>6
<1>6. ASSUME ~mixed' PROVE OneRemoval'
  <2>1. /\ Requested(u) /\ thread.status = "TRASH" /\ thread.previousStatus = before
        /\ before \in Statuses
    BY <1>1, <1>6 DEF Known, ThreadInv, OneRemoval, Asking, Pending
  <2>2. \A v \in Users : request'[v] = Idle /\ ~Asking(v)'
    <3>1. \A v \in Users : request'[v] = Idle  BY <1>1, <2>1, IdleTyped DEF Requested
    <3>2. Idle.pc # "enqueue"  BY DEF Idle
    <3>3. QED  BY <3>1, <3>2 DEF Asking
  <2>3. \A k \in Removals \ {i} : ~Unfinished(k)'
    BY <1>3, <2>1 DEF Requested, Unfinished
  <2>4. \A w \in Deleters : ~Failing(w)'  BY <1>1, <2>1 DEF Requested, Failing, Idle
  <2>5. Queued(i)'  BY <2>2, <2>3, <2>4 DEF Queued
  <2>6. QED  BY <1>1, <2>1, <2>2, <2>3, <2>4, <2>5 DEF OneRemoval
<1>7. OneRemoval'  BY <1>6 DEF OneRemoval
<1>8. QED  BY <1>1, <1>4, <1>5, <1>7, UsersSound DEF mailVars

(***************************************************************************)
(* Waking up                                                                *)
(***************************************************************************)
LEMMA NobodyMoves ==
  ASSUME Known, UNCHANGED <<request, job, deleter>>,
         ~mixed' => ~mixed /\ thread.status # "TRASH"
  PROVE  OneRemoval'
PROOF
<1>1. SUFFICES ASSUME ~mixed' PROVE ~Pending'  BY NothingPending
<1>2. ~Pending  BY <1>1, NotPending
<1>3. QED  BY <1>2 DEF Pending, Asking, Unfinished, Failing

\* The thread and the removals stay as they are.
LEMMA RemovalAlone ==
  ASSUME Known, UNCHANGED <<thread, request, job, deleter, before, mixed>>
  PROVE  OneRemoval'
PROOF BY DEF Known, ThreadInv, OneRemoval, Pending, Asking, Unfinished, Failing,
             Requested, Queued, Handled

LEMMA SnoozeEndsStep == ASSUME Known, SnoozeEnds PROVE Sound
PROOF
<1>1. /\ UNCHANGED <<thread, request, waker, job, deleter, provider, stored, arriving,
                     zombies, crashes, before, mixed, late>>
      /\ snooze' = "due"
  BY DEF SnoozeEnds, mailVars, history
<1>2. Typed'  BY <1>1 DEF Known, ThreadInv, Typed
<1>3. QED  BY <1>1, <1>2, RemovalAlone, LocksAlone, UsersSound DEF mailVars

LEMMA WakeSelectStep == ASSUME Known, NEW k \in WakeUps, WakeSelect(k) PROVE Sound
PROOF
<1>1. /\ UNCHANGED <<thread, snooze, request, job, deleter, provider, stored, arriving,
                     zombies, crashes, before, mixed, late>>
      /\ waker' = [waker EXCEPT ![k] = [pc |-> "wake", previous |-> thread.previousStatus]]
  BY DEF WakeSelect, rowVars, mailVars, history
<1>2. thread.previousStatus \in Previous
  BY ThreadFacts DEF Known, ThreadInv, Typed
<1>3. waker' \in [WakeUps -> {Idle} \cup [pc : {"wake"}, previous : Previous]]
  BY <1>1, <1>2 DEF Known, ThreadInv, Typed
<1>4. Typed'  BY <1>1, <1>3 DEF Known, ThreadInv, Typed
<1>5. QED  BY <1>1, <1>4, RemovalAlone, LocksAlone, UsersSound DEF mailVars

LEMMA WakeWriteStep == ASSUME Known, NEW k \in WakeUps, WakeWrite(k) PROVE Sound
PROOF
<1>1. /\ UNCHANGED <<request, job, deleter, provider, stored, arriving, zombies,
                     crashes, before, late>>
      /\ waker[k].pc = "wake" /\ waker' = [waker EXCEPT ![k] = Idle]
  BY DEF WakeWrite, mailVars
<1>2. waker[k].previous \in Previous
  <2>1. waker[k] \in {Idle} \cup [pc : {"wake"}, previous : Previous]
    BY DEF Known, ThreadInv, Typed
  <2>2. waker[k] # Idle  BY <1>1 DEF Idle
  <2>3. QED  BY <2>1, <2>2
<1>3. waker' \in [WakeUps -> {Idle} \cup [pc : {"wake"}, previous : Previous]]
  BY <1>1 DEF Known, ThreadInv, Typed
<1>4. /\ thread' \in ThreadRow /\ snooze' \in {"none", "later", "due"}
      /\ mixed' \in BOOLEAN
      /\ ~mixed' => ~mixed /\ thread.status # "TRASH"
  <2>1. CASE Exists
    <3>1. thread' = [thread EXCEPT !.previousStatus = "none",
                                   !.status = Restored(waker[k].previous)]
          /\ snooze' = "none" /\ mixed' = (mixed \/ thread.status = "TRASH")
      BY Zenon, <2>1 DEF WakeWrite
    <3>2. Restored(waker[k].previous) \in Statuses  BY <1>2, RestoredTyped
    <3>3. PICK x : x = [thread EXCEPT !.previousStatus = "none"]  OBVIOUS
    <3>4. x \in ThreadRow  BY <3>3 DEF Known, ThreadInv, Typed, ThreadRow
    <3>5. PICK y : y = [x EXCEPT !.status = Restored(waker[k].previous)]  OBVIOUS
    <3>6. y \in ThreadRow  BY <3>2, <3>4, <3>5 DEF ThreadRow
    <3>7. thread' = y  BY Zenon, <3>1, <3>3, <3>5
    <3>8. snooze' = "none" /\ mixed' = (mixed \/ thread.status = "TRASH")
      BY Zenon, <3>1
    <3>9. QED  BY <3>6, <3>7, <3>8 DEF Known, ThreadInv, Typed
  <2>2. CASE ~Exists
    BY <2>2 DEF WakeWrite, Exists, rowVars, Known, ThreadInv, Typed
  <2>3. QED  BY <2>1, <2>2
<1>5. Typed'
  <2>1. thread' \in ThreadRow /\ snooze' \in {"none", "later", "due"} /\ mixed' \in BOOLEAN
    BY <1>4
  <2>2. UNCHANGED <<request, job, deleter, provider, stored, arriving, zombies, crashes>>
    BY <1>1
  <2>3. Typed  BY DEF Known, ThreadInv
  <2>4. QED  BY <1>3, <2>1, <2>2, <2>3 DEF Typed
<1>6. OneRemoval'
  <2>1. ~mixed' => ~mixed /\ thread.status # "TRASH"  BY <1>4
  <2>2. UNCHANGED <<request, job, deleter>>  BY <1>1
  <2>3. QED  BY <2>1, <2>2, NobodyMoves
<1>7. HoldsJob'
  <2>1. UNCHANGED <<job, deleter>>  BY <1>1
  <2>2. QED  BY <2>1, LocksAlone
<1>8. QED  BY <1>1, <1>5, <1>6, <1>7, UsersSound DEF mailVars

(***************************************************************************)
(* The thread-delete queue                                                  *)
(***************************************************************************)
LEMMA DeleterTurned ==
  ASSUME Known, NEW w \in Deleters, NEW y \in DeleterOf,
         deleter' = [deleter EXCEPT ![w] = y]
  PROVE  /\ deleter' \in [Deleters -> DeleterOf] /\ deleter'[w] = y
         /\ \A x \in Deleters : x # w => deleter'[x] = deleter[x]
PROOF
<1>1. deleter \in [Deleters -> DeleterOf]  BY DEF Known, ThreadInv, Typed
<1>2. QED  BY <1>1

LEMMA JobTurned ==
  ASSUME Known, NEW i \in Removals, NEW j \in Queue!Jobs, job' = [job EXCEPT ![i] = j]
  PROVE  /\ job' \in [Removals -> Queue!Jobs] /\ job'[i] = j
         /\ \A k \in Removals : k # i => job'[k] = job[k]
PROOF
<1>1. job \in [Removals -> Queue!Jobs]  BY DEF Known, ThreadInv, Typed
<1>2. QED  BY <1>1

\* A processor that works on a removal's job, from where it takes the job to where
\* it gives it back: what the step must see to for the invariant to stay.
LEMMA WorkStep ==
  ASSUME Known, NEW w \in Deleters, NEW i \in Removals,
         NEW j \in Queue!Jobs, NEW y \in DeleterOf,
         job' = [job EXCEPT ![i] = j], deleter' = [deleter EXCEPT ![w] = y],
         UNCHANGED <<snooze, request, waker, crashes, before, mixed, late>>,
         ~Failing(w), Unfinished(i), job[i].state = "active" => job[i].owner = w,
         y.pc \in {"read", "move", "cleanup"}
           => y.job = i /\ j.state = "active" /\ j.owner = w,
         y.pc # "restore",
         y.pc = "failed" => j.state = "failed" /\ job[i].state = "active",
         thread' \in ThreadRow,
         j.state \in {"waiting", "active"} \/ y.pc = "failed" => thread' = thread,
         provider' \in [Mails -> {"none", "inbox", "elsewhere", "trash"}],
         \A m \in Mails : provider[m] = "trash" => provider'[m] = "trash",
         stored' \subseteq stored, arriving' \subseteq Mails, zombies' \subseteq Mails,
         y.pc \in {"move", "cleanup"} =>
           /\ stored' \subseteq y.had \cup late
           /\ \A m \in y.had :
                provider'[m] = "trash" \/ m \in y.passed
                \/ (y.pc = "move" /\ m \in y.todo),
         LeavesAfterProvider
  PROVE  Sound
PROOF
<1>1. /\ job' \in [Removals -> Queue!Jobs] /\ job'[i] = j
      /\ \A k \in Removals : k # i => job'[k] = job[k]
  BY JobTurned
<1>2. /\ deleter' \in [Deleters -> DeleterOf] /\ deleter'[w] = y
      /\ \A x \in Deleters : x # w => deleter'[x] = deleter[x]
  BY DeleterTurned
<1>3. Typed'
  <2>1. stored' \subseteq Mails  BY DEF Known, ThreadInv, Typed
  <2>2. QED  BY <1>1, <1>2, <2>1 DEF Known, ThreadInv, Typed
<1>4. \A x \in Deleters : x # w /\ Working(x) =>
        /\ deleter[x].job \in Removals /\ deleter[x].job # i
        /\ job[deleter[x].job].state = "active" /\ job[deleter[x].job].owner = x
  <2>1. TAKE x \in Deleters
  <2>2. HAVE x # w /\ Working(x)
  <2>3. job[deleter[x].job].state = "active" /\ job[deleter[x].job].owner = x
    BY <2>2 DEF Known, ThreadInv, HoldsJob, Job
  <2>4. deleter[x] \in DeleterOf  BY DEF Known, ThreadInv, Typed
  <2>5. deleter[x].job \in Removals  BY <2>2, <2>4, DeleterFacts DEF Working, Moving
  <2>6. deleter[x].job # i  BY <2>2, <2>3
  <2>7. QED  BY <2>3, <2>5, <2>6
<1>5. HoldsJob'
  <2>1. SUFFICES ASSUME NEW x \in Deleters, Working(x)'
                 PROVE  job'[deleter'[x].job].state = "active"
                        /\ job'[deleter'[x].job].owner = x
    BY DEF HoldsJob, Job
  <2>2. CASE x = w
    BY <1>1, <1>2, <2>1, <2>2 DEF Working, Moving
  <2>3. CASE x # w
    <3>1. Working(x)  BY <1>2, <2>1, <2>3 DEF Working, Moving
    <3>2. QED  BY <1>1, <1>2, <1>4, <2>3, <3>1
  <2>4. QED  BY <2>2, <2>3
<1>6. Moved'
  <2>1. SUFFICES ASSUME NEW x \in Deleters, Moving(x)'
                 PROVE  /\ stored' \subseteq deleter'[x].had \cup late'
                        /\ \A m \in deleter'[x].had :
                             provider'[m] = "trash" \/ m \in deleter'[x].passed
                             \/ (deleter'[x].pc = "move" /\ m \in deleter'[x].todo)
    BY DEF Moved
  <2>2. CASE x = w
    BY <1>2, <2>1, <2>2 DEF Moving
  <2>3. CASE x # w
    <3>1. Moving(x) /\ deleter'[x] = deleter[x]  BY <1>2, <2>1, <2>3 DEF Moving
    <3>2. /\ stored \subseteq deleter[x].had \cup late
          /\ \A m \in deleter[x].had :
               provider[m] = "trash" \/ m \in deleter[x].passed
               \/ (deleter[x].pc = "move" /\ m \in deleter[x].todo)
      BY <3>1 DEF Known, ThreadInv, Moved
    <3>3. deleter[x] \in DeleterOf  BY DEF Known, ThreadInv, Typed
    <3>4. deleter[x].had \subseteq Mails  BY <3>1, <3>3, DeleterFacts DEF Moving
    <3>5. QED  BY <3>1, <3>2, <3>4
  <2>4. QED  BY <2>2, <2>3
<1>7. ASSUME ~mixed' PROVE OneRemoval'
  <2>1. /\ Queued(i) /\ thread.status = "TRASH" /\ thread.previousStatus = before
        /\ before \in Statuses
    BY <1>7 DEF Known, ThreadInv, OneRemoval, Pending
  <2>2. \A u \in Users : request'[u] = Idle /\ ~Asking(u)'
    <3>1. Idle.pc # "enqueue"  BY DEF Idle
    <3>2. QED  BY <2>1, <3>1 DEF Queued, Asking
  <2>3. \A k \in Removals \ {i} : ~Unfinished(k) /\ ~Unfinished(k)'
    BY <1>1, <2>1 DEF Queued, Unfinished
  <2>4. \A x \in Deleters \ {w} : ~Failing(x) /\ ~Failing(x)'
    BY <1>2, <2>1 DEF Queued, Failing
  <2>5. Unfinished(i)' <=> j.state \in {"waiting", "active"}
    BY <1>1 DEF Unfinished
  <2>6. CASE y.pc = "failed"
    <3>1. thread' = thread /\ ~Unfinished(i)'  BY <2>5, <2>6
    <3>2. \A x \in Deleters \ {w} : deleter'[x] = Idle
      <4>1. TAKE x \in Deleters \ {w}
      <4>2. ~Working(x)  BY <1>4, <2>3 DEF Unfinished
      <4>3. deleter[x] \in DeleterOf  BY DEF Known, ThreadInv, Typed
      <4>4. deleter[x].pc = "idle"
        BY <2>4, <4>2, <4>3, DeleterFacts DEF Working, Moving, Failing, Pcs
      <4>5. QED  BY <1>2, <4>3, <4>4, DeleterFacts
    <3>3. Handled(w)'  BY <1>2, <2>2, <2>3, <2>6, <3>1, <3>2 DEF Handled
    <3>4. QED  BY <2>1, <2>2, <2>3, <2>4, <3>1, <3>3 DEF OneRemoval
  <2>7. CASE y.pc # "failed"
    <3>1. \A x \in Deleters : ~Failing(x)'  BY <1>2, <2>4, <2>7 DEF Failing
    <3>2. Unfinished(i)' => thread' = thread  BY <2>5
    <3>3. Queued(i)'  BY <2>2, <2>3, <3>1 DEF Queued
    <3>4. CASE Unfinished(i)'
      BY <2>1, <2>2, <2>3, <3>1, <3>2, <3>3, <3>4 DEF OneRemoval
    <3>5. CASE ~Unfinished(i)'
      BY <2>2, <2>3, <3>1, <3>5 DEF OneRemoval, Pending
    <3>6. QED  BY <3>4, <3>5
  <2>8. QED  BY <2>6, <2>7
<1>8. OneRemoval'  BY <1>7 DEF OneRemoval
<1>9. RestoresBefore
  <2>1. ~Restores
    BY <1>2 DEF Restores, Failing
  <2>2. QED  BY <2>1 DEF RestoresBefore
<1>10. QED  BY <1>3, <1>5, <1>6, <1>8, <1>9 DEF Sound, ThreadInv

\* What a processor at work knows.
LEMMA AtWork ==
  ASSUME Known, NEW w \in Deleters, Working(w)
  PROVE  /\ deleter[w] \in DeleterOf /\ Job(w) \in Removals
         /\ job[Job(w)] \in Queue!Jobs
         /\ job[Job(w)].state = "active" /\ job[Job(w)].owner = w
         /\ Unfinished(Job(w)) /\ ~Failing(w)
PROOF
<1>1. deleter[w] \in DeleterOf  BY DEF Known, ThreadInv, Typed
<1>2. Job(w) \in Removals  BY <1>1, DeleterFacts DEF Working, Moving, Job
<1>3. job[Job(w)].state = "active" /\ job[Job(w)].owner = w
  BY DEF Known, ThreadInv, HoldsJob
<1>4. job[Job(w)] \in Queue!Jobs  BY <1>2 DEF Known, ThreadInv, Typed
<1>5. ~Failing(w)  BY DEF Working, Moving, Failing
<1>6. QED  BY <1>1, <1>2, <1>3, <1>4, <1>5 DEF Unfinished

\* A step that gives the thread and its mails back as they were.
LEMMA MailsAlone ==
  ASSUME Known, UNCHANGED <<thread, provider, stored>>
  PROVE  /\ thread' \in ThreadRow
         /\ provider' \in [Mails -> {"none", "inbox", "elsewhere", "trash"}]
         /\ \A m \in Mails : provider[m] = "trash" => provider'[m] = "trash"
         /\ stored' \subseteq stored /\ LeavesAfterProvider
PROOF BY DEF Known, ThreadInv, Typed, LeavesAfterProvider

LEMMA TakeStep ==
  ASSUME Known, NEW w \in Deleters, NEW i \in Removals, Take(w, i)
  PROVE  Sound
PROOF
<1>1. PICK j : j = Queue!Taken(job[i], w)  OBVIOUS
<1>2. PICK y : y = [pc |-> "read", job |-> i]  OBVIOUS
<1>3. /\ deleter[w].pc = "idle" /\ job[i].state = "waiting"
      /\ job' = [job EXCEPT ![i] = j] /\ deleter' = [deleter EXCEPT ![w] = y]
      /\ UNCHANGED <<thread, snooze, request, waker, provider, stored, arriving, zombies,
                     crashes, before, mixed, late>>
  BY <1>1, <1>2 DEF Take, At, Goto, rowVars, mailVars, history
<1>4. j \in Queue!Jobs /\ j.state = "active" /\ j.owner = w
  <2>1. job[i] \in Queue!Jobs  BY DEF Known, ThreadInv, Typed
  <2>2. QED  BY <1>1, <2>1, JobFacts DEF Known
<1>5. y \in DeleterOf /\ y.pc = "read" /\ y.job = i  BY <1>2, DeleterMade
<1>6. ~Failing(w) /\ Unfinished(i)  BY <1>3 DEF Failing, Unfinished
<1>7. arriving' \subseteq Mails /\ zombies' \subseteq Mails
  BY <1>3 DEF Known, ThreadInv, Typed
<1>8. QED  BY <1>3, <1>4, <1>5, <1>6, <1>7, MailsAlone, WorkStep

\* The job is unchanged while its processor goes on.
LEMMA JobKept ==
  ASSUME Known, NEW i \in Removals, UNCHANGED job
  PROVE  job' = [job EXCEPT ![i] = job[i]]
PROOF
<1>1. job \in [Removals -> Queue!Jobs]  BY DEF Known, ThreadInv, Typed
<1>2. QED  BY <1>1

\* The end of a processor's work: the job is completed, or its attempt failed.
LEMMA CompleteFacts ==
  ASSUME Known, NEW w \in Deleters, Working(w), Complete(w)
  PROVE  \E j \in Queue!Jobs, y \in DeleterOf :
           /\ j.state = "completed" /\ y.pc = "idle"
           /\ job' = [job EXCEPT ![Job(w)] = j] /\ deleter' = [deleter EXCEPT ![w] = y]
PROOF
<1>1. PICK j : j = Queue!Completed(job[Job(w)], w)  OBVIOUS
<1>2. job' = [job EXCEPT ![Job(w)] = j] /\ deleter' = [deleter EXCEPT ![w] = Idle]
  BY <1>1 DEF Complete, Goto
<1>3. j \in Queue!Jobs /\ j.state = "completed"
  BY <1>1, AtWork, JobFacts DEF Known
<1>4. Idle \in DeleterOf /\ Idle.pc = "idle"  BY DeleterMade DEF Idle
<1>5. QED  BY <1>2, <1>3, <1>4

LEMMA GiveUpFacts ==
  ASSUME Known, NEW w \in Deleters, Working(w), GiveUp(w)
  PROVE  \E j \in Queue!Jobs, y \in DeleterOf :
           /\ \/ j.state = "failed" /\ y.pc = "failed"
              \/ j.state = "waiting" /\ y.pc = "idle"
           /\ job' = [job EXCEPT ![Job(w)] = j] /\ deleter' = [deleter EXCEPT ![w] = y]
PROOF
<1>1. PICK j : j = Queue!AttemptFailed(job[Job(w)], w)  OBVIOUS
<1>2. PICK y : y = IF j.state = "failed" THEN [pc |-> "failed"] ELSE Idle  OBVIOUS
<1>3. job' = [job EXCEPT ![Job(w)] = j] /\ deleter' = [deleter EXCEPT ![w] = y]
  BY Zenon, <1>1, <1>2 DEF GiveUp, Goto
<1>4. j \in Queue!Jobs /\ j.state \in {"waiting", "failed"}
  BY <1>1, AtWork, JobFacts DEF Known
<1>5. y \in DeleterOf /\ y.pc = IF j.state = "failed" THEN "failed" ELSE "idle"
  BY <1>2, DeleterMade DEF Idle
<1>6. QED  BY <1>3, <1>4, <1>5

LEMMA ReadThreadStep ==
  ASSUME Known, NEW w \in Deleters, ReadThread(w)
  PROVE  Sound
PROOF
<1>1. /\ deleter[w].pc = "read"
      /\ UNCHANGED <<thread, snooze, request, waker, provider, stored, arriving, zombies,
                     crashes, before, mixed, late>>
  BY DEF ReadThread, At, rowVars, mailVars, history
<1>2. Working(w)  BY <1>1 DEF Working
<1>3. /\ Job(w) \in Removals /\ job[Job(w)] \in Queue!Jobs
      /\ job[Job(w)].state = "active" /\ job[Job(w)].owner = w
      /\ Unfinished(Job(w)) /\ ~Failing(w)
  BY <1>2, AtWork
<1>4. stored \subseteq Mails /\ arriving' \subseteq Mails /\ zombies' \subseteq Mails
  BY <1>1 DEF Known, ThreadInv, Typed
<1>5. CASE Exists
  <2>1. PICK y : y = [pc |-> "move", job |-> Job(w), had |-> stored,
                      todo |-> stored \ Unlinked, passed |-> stored \cap Unlinked]
    OBVIOUS
  <2>2. UNCHANGED job /\ deleter' = [deleter EXCEPT ![w] = y]
    BY Zenon, <1>5, <2>1 DEF ReadThread, Goto
  <2>3. job' = [job EXCEPT ![Job(w)] = job[Job(w)]]  BY <1>3, <2>2, JobKept
  <2>4. y \in DeleterOf /\ y.pc = "move" /\ y.job = Job(w) /\ y.had = stored
        /\ y.todo = stored \ Unlinked /\ y.passed = stored \cap Unlinked
    BY <1>3, <1>4, <2>1, DeleterMade
  <2>5. QED  BY <1>1, <1>3, <1>4, <2>2, <2>3, <2>4, MailsAlone, WorkStep
<1>6. CASE ~Exists
  <2>1. Complete(w)  BY <1>6 DEF ReadThread
  <2>2. QED  BY <1>1, <1>2, <1>3, <1>4, <2>1, CompleteFacts, MailsAlone, WorkStep
<1>7. QED  BY <1>5, <1>6

\* A mail is moved where its row says it is, and stays where that is wrong.
LEMMA TrashedFacts ==
  ASSUME Known, NEW m \in Mails, provider' = Trashed(m)
  PROVE  /\ provider' \in [Mails -> {"none", "inbox", "elsewhere", "trash"}]
         /\ provider'[m] = "trash" \/ Lost(m)
         /\ \A k \in Mails : provider[k] = "trash" => provider'[k] = "trash"
PROOF
<1>1. provider \in [Mails -> {"none", "inbox", "elsewhere", "trash"}]
  BY DEF Known, ThreadInv, Typed
<1>2. PICK p : p = IF Lost(m) THEN provider[m] ELSE "trash"  OBVIOUS
<1>3. provider' = [provider EXCEPT ![m] = p]  BY <1>2 DEF Trashed
<1>4. p \in {"none", "inbox", "elsewhere", "trash"}  BY <1>1, <1>2
<1>5. p = "trash" \/ Lost(m)  BY <1>2
<1>6. provider[m] = "trash" => p = "trash"  BY <1>2
<1>7. QED  BY <1>1, <1>3, <1>4, <1>5, <1>6

LEMMA MoveMailStep ==
  ASSUME Known, NEW w \in Deleters, NEW m \in Mails, MoveMail(w, m)
  PROVE  Sound
PROOF
<1>1. PICK y : y = [pc |-> "move", job |-> Job(w), had |-> deleter[w].had,
                    todo |-> deleter[w].todo \ {m},
                    passed |-> deleter[w].passed \cup {k \in {m} : Lost(k)}]
  OBVIOUS
<1>2. /\ deleter[w].pc = "move" /\ m \in deleter[w].todo
      /\ provider' = Trashed(m)
      /\ UNCHANGED <<thread, snooze, request, waker, job, stored, arriving, zombies,
                     crashes, before, mixed, late>>
      /\ deleter' = [deleter EXCEPT ![w] = y]
  BY Zenon, <1>1 DEF MoveMail, At, Goto, rowVars, history
<1>3. Working(w) /\ Moving(w)  BY <1>2 DEF Working, Moving
<1>4. /\ deleter[w] \in DeleterOf
      /\ Job(w) \in Removals /\ job[Job(w)] \in Queue!Jobs
      /\ job[Job(w)].state = "active" /\ job[Job(w)].owner = w
      /\ Unfinished(Job(w)) /\ ~Failing(w)
  BY <1>3, AtWork
<1>5. /\ deleter[w].had \subseteq Mails /\ deleter[w].todo \subseteq Mails
      /\ deleter[w].passed \subseteq Mails
  BY <1>2, <1>4, DeleterFacts
<1>6. /\ y \in DeleterOf /\ y.pc = "move" /\ y.job = Job(w)
      /\ y.had = deleter[w].had /\ y.todo = deleter[w].todo \ {m}
      /\ y.passed = deleter[w].passed \cup {k \in {m} : Lost(k)}
  BY <1>1, <1>4, <1>5, DeleterMade
<1>7. job' = [job EXCEPT ![Job(w)] = job[Job(w)]]  BY <1>2, <1>4, JobKept
<1>8. /\ provider' \in [Mails -> {"none", "inbox", "elsewhere", "trash"}]
      /\ provider'[m] = "trash" \/ m \in y.passed
      /\ \A k \in Mails : provider[k] = "trash" => provider'[k] = "trash"
  BY <1>2, <1>6, TrashedFacts
<1>9. /\ stored \subseteq deleter[w].had \cup late
      /\ \A k \in deleter[w].had :
           provider[k] = "trash" \/ k \in deleter[w].passed \/ k \in deleter[w].todo
  BY <1>2, <1>3 DEF Known, ThreadInv, Moved
<1>10. /\ stored' \subseteq y.had \cup late
       /\ \A k \in y.had : provider'[k] = "trash" \/ k \in y.passed
                            \/ (y.pc = "move" /\ k \in y.todo)
  BY <1>2, <1>5, <1>6, <1>8, <1>9
<1>11. /\ thread' \in ThreadRow /\ stored' \subseteq stored
       /\ arriving' \subseteq Mails /\ zombies' \subseteq Mails
       /\ LeavesAfterProvider
  BY <1>2 DEF Known, ThreadInv, Typed, LeavesAfterProvider
<1>12. QED  BY <1>2, <1>4, <1>6, <1>7, <1>8, <1>10, <1>11, WorkStep

LEMMA MovesDoneStep ==
  ASSUME Known, NEW w \in Deleters, MovesDone(w)
  PROVE  Sound
PROOF
<1>1. PICK y : y = [pc |-> "cleanup", job |-> Job(w), had |-> deleter[w].had,
                    passed |-> deleter[w].passed]
  OBVIOUS
<1>2. /\ deleter[w].pc = "move" /\ deleter[w].todo = {}
      /\ UNCHANGED <<thread, snooze, request, waker, job, provider, stored, arriving,
                     zombies, crashes, before, mixed, late>>
      /\ deleter' = [deleter EXCEPT ![w] = y]
  BY <1>1 DEF MovesDone, At, Goto, rowVars, mailVars, history
<1>3. Working(w) /\ Moving(w)  BY <1>2 DEF Working, Moving
<1>4. /\ deleter[w] \in DeleterOf
      /\ Job(w) \in Removals /\ job[Job(w)] \in Queue!Jobs
      /\ job[Job(w)].state = "active" /\ job[Job(w)].owner = w
      /\ Unfinished(Job(w)) /\ ~Failing(w)
  BY <1>3, AtWork
<1>5. deleter[w].had \subseteq Mails /\ deleter[w].passed \subseteq Mails
  BY <1>2, <1>4, DeleterFacts
<1>6. /\ y \in DeleterOf /\ y.pc = "cleanup" /\ y.job = Job(w)
      /\ y.had = deleter[w].had /\ y.passed = deleter[w].passed
  BY <1>1, <1>4, <1>5, DeleterMade
<1>7. job' = [job EXCEPT ![Job(w)] = job[Job(w)]]  BY <1>2, <1>4, JobKept
<1>8. /\ stored \subseteq deleter[w].had \cup late
      /\ \A k \in deleter[w].had : provider[k] = "trash" \/ k \in deleter[w].passed
  BY <1>2, <1>3 DEF Known, ThreadInv, Moved
<1>9. arriving' \subseteq Mails /\ zombies' \subseteq Mails
  BY <1>2 DEF Known, ThreadInv, Typed
<1>10. QED
  BY <1>2, <1>4, <1>6, <1>7, <1>8, <1>9, MailsAlone, WorkStep

LEMMA MovesFailStep ==
  ASSUME Known, NEW w \in Deleters, MovesFail(w)
  PROVE  Sound
PROOF
<1>1. /\ deleter[w].pc = "move" /\ GiveUp(w)
      /\ zombies' \in {zombies, zombies \cup deleter[w].todo}
      /\ UNCHANGED <<thread, snooze, request, waker, provider, stored, arriving,
                     crashes, before, mixed, late>>
  BY DEF MovesFail, At, rowVars, history
<1>2. Working(w)  BY <1>1 DEF Working, Moving
<1>3. /\ deleter[w] \in DeleterOf
      /\ Job(w) \in Removals /\ job[Job(w)] \in Queue!Jobs
      /\ job[Job(w)].state = "active" /\ job[Job(w)].owner = w
      /\ Unfinished(Job(w)) /\ ~Failing(w)
  BY <1>2, AtWork
<1>4. deleter[w].todo \subseteq Mails  BY <1>1, <1>3, DeleterFacts
<1>5. arriving' \subseteq Mails /\ zombies' \subseteq Mails
  BY <1>1, <1>4 DEF Known, ThreadInv, Typed
<1>6. QED  BY <1>1, <1>2, <1>3, <1>5, GiveUpFacts, MailsAlone, WorkStep

LEMMA CleanupStep ==
  ASSUME Known, NEW w \in Deleters, Cleanup(w)
  PROVE  Sound
PROOF
<1>1. /\ deleter[w].pc = "cleanup"
      /\ UNCHANGED <<snooze, request, waker, provider, arriving, zombies, crashes,
                     before, mixed, late>>
  BY DEF Cleanup, At, history
<1>2. Working(w) /\ Moving(w)  BY <1>1 DEF Working, Moving
<1>3. /\ Job(w) \in Removals /\ job[Job(w)] \in Queue!Jobs
      /\ job[Job(w)].state = "active" /\ job[Job(w)].owner = w
      /\ Unfinished(Job(w)) /\ ~Failing(w)
  BY <1>2, AtWork
<1>4. arriving' \subseteq Mails /\ zombies' \subseteq Mails
  BY <1>1 DEF Known, ThreadInv, Typed
<1>5. CASE (stored \ deleter[w].had) \cap Attached # {}
  <2>1. GiveUp(w) /\ UNCHANGED <<thread, stored>>  BY <1>5 DEF Cleanup
  <2>2. QED  BY <1>1, <1>2, <1>3, <1>4, <2>1, GiveUpFacts, MailsAlone, WorkStep
<1>6. CASE ~((stored \ deleter[w].had) \cap Attached # {})
  <2>1. Complete(w) /\ thread' = [thread EXCEPT !.status = "gone"] /\ stored' = {}
    BY <1>6 DEF Cleanup
  <2>2. thread' \in ThreadRow
    BY <2>1 DEF Known, ThreadInv, Typed, ThreadRow, Statuses
  <2>3. LeavesAfterProvider
    <3>1. /\ stored \subseteq deleter[w].had \cup late
          /\ \A k \in deleter[w].had : provider[k] = "trash" \/ k \in deleter[w].passed
      BY <1>1, <1>2 DEF Known, ThreadInv, Moved
    <3>2. deleter'[w] = Idle
      BY <2>1 DEF Complete, Goto, Known, ThreadInv, Typed
    <3>3. QED  BY <1>1, <3>1, <3>2 DEF LeavesAfterProvider, PassedOver, At
  <2>4. /\ provider' \in [Mails -> {"none", "inbox", "elsewhere", "trash"}]
        /\ \A m \in Mails : provider[m] = "trash" => provider'[m] = "trash"
        /\ stored' \subseteq stored
    BY <1>1, <2>1 DEF Known, ThreadInv, Typed
  <2>5. PICK j \in Queue!Jobs, y \in DeleterOf :
           /\ j.state = "completed" /\ y.pc = "idle"
           /\ job' = [job EXCEPT ![Job(w)] = j] /\ deleter' = [deleter EXCEPT ![w] = y]
    BY <1>2, <2>1, CompleteFacts
  <2>6. QED  BY <1>1, <1>2, <1>3, <1>4, <2>2, <2>3, <2>4, <2>5, WorkStep
<1>7. QED  BY <1>5, <1>6

\* A processor that handles the failure of a removal.
LEMMA FailingStep ==
  ASSUME Known, NEW w \in Deleters, Failing(w), NEW y \in DeleterOf,
         deleter' = [deleter EXCEPT ![w] = y],
         UNCHANGED <<snooze, request, waker, job, provider, stored, arriving, zombies,
                     crashes, before, mixed, late>>,
         thread' \in ThreadRow,
         \/ y.pc = "idle"
         \/ y.pc = "restore" /\ y.previous = thread.previousStatus /\ thread' = thread,
         RestoresBefore
  PROVE  Sound
PROOF
<1>1. /\ deleter' \in [Deleters -> DeleterOf] /\ deleter'[w] = y
      /\ \A x \in Deleters : x # w => deleter'[x] = deleter[x]
  BY DeleterTurned
<1>2. Typed'  BY <1>1 DEF Known, ThreadInv, Typed
<1>3. ~Working(w)'  BY <1>1 DEF Working, Moving
<1>4. \A x \in Deleters : Working(x)' => x # w /\ Working(x) /\ deleter'[x] = deleter[x]
  BY <1>1, <1>3 DEF Working, Moving
<1>5. HoldsJob'
  BY <1>4 DEF Known, ThreadInv, HoldsJob, Job
<1>6. Moved'
  <2>1. \A x \in Deleters : Moving(x)' => Moving(x) /\ deleter'[x] = deleter[x]
    BY <1>4 DEF Working, Moving
  <2>2. QED  BY <2>1 DEF Known, ThreadInv, Moved
<1>7. ASSUME ~mixed' PROVE OneRemoval'
  <2>1. /\ Handled(w) /\ thread.status = "TRASH" /\ thread.previousStatus = before
        /\ before \in Statuses
    BY <1>7 DEF Known, ThreadInv, OneRemoval, Pending
  <2>2. \A u \in Users : request'[u] = Idle /\ ~Asking(u)'
    <3>1. Idle.pc # "enqueue"  BY DEF Idle
    <3>2. QED  BY <2>1, <3>1 DEF Handled, Asking
  <2>3. \A i \in Removals : ~Unfinished(i)'  BY <2>1 DEF Handled, Unfinished
  <2>4. \A x \in Deleters \ {w} : deleter'[x] = Idle /\ ~Failing(x)'
    <3>1. \A x \in Deleters \ {w} : deleter'[x] = Idle  BY <1>1, <2>1 DEF Handled
    <3>2. Idle.pc \notin {"failed", "restore"}  BY DEF Idle
    <3>3. QED  BY <3>1, <3>2 DEF Failing
  <2>5. CASE y.pc = "idle"
    <3>1. ~Failing(w)'  BY <1>1, <2>5 DEF Failing
    <3>2. QED  BY <2>2, <2>3, <2>4, <3>1, NothingPending DEF Pending
  <2>6. CASE y.pc = "restore" /\ y.previous = thread.previousStatus /\ thread' = thread
    <3>1. Handled(w)'  BY <1>1, <2>1, <2>2, <2>3, <2>4, <2>6 DEF Handled
    <3>2. QED  BY <2>1, <2>2, <2>3, <2>4, <2>6, <3>1 DEF OneRemoval
  <2>7. QED  BY <2>5, <2>6
<1>8. OneRemoval'  BY <1>7 DEF OneRemoval
<1>9. LeavesAfterProvider  BY DEF LeavesAfterProvider
<1>10. QED  BY <1>2, <1>5, <1>6, <1>8, <1>9 DEF Sound, ThreadInv

LEMMA ReadFailedStep ==
  ASSUME Known, NEW w \in Deleters, ReadFailed(w)
  PROVE  Sound
PROOF
<1>1. PICK y : y = IF Exists THEN [pc |-> "restore", previous |-> thread.previousStatus]
                   ELSE Idle
  OBVIOUS
<1>2. /\ deleter[w].pc = "failed" /\ deleter' = [deleter EXCEPT ![w] = y]
      /\ UNCHANGED <<thread, snooze, request, waker, job, provider, stored, arriving,
                     zombies, crashes, before, mixed, late>>
  BY Zenon, <1>1 DEF ReadFailed, At, Goto, rowVars, mailVars, history
<1>3. thread \in ThreadRow /\ thread.previousStatus \in Previous
  BY ThreadFacts DEF Known, ThreadInv, Typed
<1>4. /\ y \in DeleterOf
      /\ \/ y.pc = "idle"
         \/ y.pc = "restore" /\ y.previous = thread.previousStatus
  BY <1>1, <1>3, DeleterMade DEF Idle
<1>5. Failing(w)  BY <1>2 DEF Failing
<1>6. RestoresBefore  BY <1>2 DEF RestoresBefore
<1>7. QED  BY <1>2, <1>3, <1>4, <1>5, <1>6, FailingStep

LEMMA RestoreThreadStep ==
  ASSUME Known, NEW w \in Deleters, RestoreThread(w)
  PROVE  Sound
PROOF
<1>1. /\ deleter[w].pc = "restore" /\ deleter' = [deleter EXCEPT ![w] = Idle]
      /\ UNCHANGED <<snooze, request, waker, job, provider, stored, arriving, zombies,
                     crashes, before, mixed, late>>
  BY DEF RestoreThread, At, Goto, mailVars, history
<1>2. Failing(w)  BY <1>1 DEF Failing
<1>3. deleter[w] \in DeleterOf  BY DEF Known, ThreadInv, Typed
<1>4. PICK s : s = Restored(deleter[w].previous)  OBVIOUS
<1>5. s \in Statuses  BY <1>1, <1>3, <1>4, DeleterFacts, RestoredTyped
<1>6. \/ thread' = [status |-> s, archivedAt |-> FALSE, previousStatus |-> "none"]
      \/ thread' = thread
  BY Zenon, <1>4 DEF RestoreThread
<1>7. thread' \in ThreadRow
  <2>1. "none" \in Previous  BY DEF Previous
  <2>2. QED  BY <1>5, <1>6, <2>1, ThreadMade DEF Known, ThreadInv, Typed
<1>8. RestoresBefore
  <2>1. SUFFICES ASSUME thread' # thread, ~mixed PROVE thread'.status = before
    BY DEF RestoresBefore
  <2>2. Handled(w) /\ before \in Statuses
    BY <1>2, <2>1 DEF Known, ThreadInv, OneRemoval, Pending
  <2>3. deleter[w].previous = before  BY <1>1, <2>2 DEF Handled
  <2>4. before # "none"  BY <2>2 DEF Statuses
  <2>5. s = before  BY <1>4, <2>3, <2>4 DEF Restored
  <2>6. QED  BY <1>6, <2>1, <2>5
<1>9. Idle \in DeleterOf /\ Idle.pc = "idle"  BY DeleterMade DEF Idle
<1>10. QED  BY <1>1, <1>2, <1>7, <1>8, <1>9, FailingStep

(***************************************************************************)
(* The mails, and a crash                                                   *)
(***************************************************************************)
\* What the synchronisation does to the mails of the thread: none leaves, and one
\* that comes while a processor works is late.
LEMMA MailsSound ==
  ASSUME Known, Typed', UNCHANGED <<thread, request, job, deleter, before, mixed>>,
         \A m \in Mails : provider[m] = "trash" => provider'[m] = "trash",
         stored \subseteq stored', late \subseteq late',
         (\E w \in Deleters : Moving(w)) => stored' \subseteq stored \cup late'
  PROVE  Sound
PROOF
<1>1. Moved'
  <2>1. SUFFICES ASSUME NEW x \in Deleters, Moving(x)'
                 PROVE  /\ stored' \subseteq deleter'[x].had \cup late'
                        /\ \A m \in deleter'[x].had :
                             provider'[m] = "trash" \/ m \in deleter'[x].passed
                             \/ (deleter'[x].pc = "move" /\ m \in deleter'[x].todo)
    BY DEF Moved
  <2>2. Moving(x)  BY <2>1 DEF Moving
  <2>3. /\ stored \subseteq deleter[x].had \cup late
        /\ \A m \in deleter[x].had :
             provider[m] = "trash" \/ m \in deleter[x].passed
             \/ (deleter[x].pc = "move" /\ m \in deleter[x].todo)
    BY <2>2 DEF Known, ThreadInv, Moved
  <2>4. deleter[x].had \subseteq Mails
    <3>1. deleter[x] \in DeleterOf  BY DEF Known, ThreadInv, Typed
    <3>2. QED  BY <2>2, <3>1, DeleterFacts DEF Moving
  <2>5. stored' \subseteq stored \cup late'  BY <2>2
  <2>6. QED  BY <2>3, <2>4, <2>5
<1>2. HoldsJob'  BY LocksAlone
<1>3. OneRemoval'  BY RemovalAlone
<1>4. LeavesAfterProvider  BY DEF LeavesAfterProvider
<1>5. RestoresBefore  BY DEF RestoresBefore
<1>6. QED  BY <1>1, <1>2, <1>3, <1>4, <1>5 DEF Sound, ThreadInv

LEMMA MailStepSound == ASSUME Known, NEW m \in Mails, MailStep(m) PROVE Sound
PROOF
<1>1. CASE Arrive(m)
  <2>1. /\ provider[m] = "none" /\ provider' = [provider EXCEPT ![m] = "inbox"]
        /\ UNCHANGED <<thread, snooze, request, waker, job, deleter, stored, arriving,
                       zombies, crashes, before, mixed, late>>
    BY <1>1 DEF Arrive, rowVars, history
  <2>2. /\ provider' \in [Mails -> {"none", "inbox", "elsewhere", "trash"}]
        /\ \A k \in Mails : provider[k] = "trash" => provider'[k] = "trash"
    BY <2>1 DEF Known, ThreadInv, Typed
  <2>3. Typed'  BY <2>1, <2>2 DEF Known, ThreadInv, Typed
  <2>4. QED  BY <2>1, <2>2, <2>3, MailsSound
<1>2. CASE Assign(m)
  <2>1. /\ arriving' = arriving \cup {m}
        /\ UNCHANGED <<thread, snooze, request, waker, job, deleter, provider, stored,
                       zombies, crashes, before, mixed, late>>
    BY <1>2 DEF Assign, rowVars, history
  <2>2. Typed'  BY <2>1 DEF Known, ThreadInv, Typed
  <2>3. QED  BY <2>1, <2>2, MailsSound
<1>3. CASE StoreMail(m)
  <2>1. /\ arriving' = arriving \ {m}
        /\ UNCHANGED <<thread, snooze, request, waker, job, deleter, provider, zombies,
                       crashes, before, mixed>>
    BY <1>3 DEF StoreMail, rowVars
  <2>2. /\ stored \subseteq stored' /\ stored' \subseteq stored \cup {m}
        /\ late \subseteq late'
        /\ (\E w \in Deleters : Moving(w)) => stored' \subseteq stored \cup late'
    BY <1>3 DEF StoreMail, Moving
  <2>3. Typed'  BY <2>1, <2>2 DEF Known, ThreadInv, Typed
  <2>4. QED  BY <2>1, <2>2, <2>3, MailsSound
<1>4. CASE ZombieMove(m)
  <2>1. /\ provider' = Trashed(m) /\ zombies' = zombies \ {m}
        /\ UNCHANGED <<thread, snooze, request, waker, job, deleter, stored, arriving,
                       crashes, before, mixed, late>>
    BY <1>4 DEF ZombieMove, rowVars, history
  <2>2. /\ provider' \in [Mails -> {"none", "inbox", "elsewhere", "trash"}]
        /\ \A k \in Mails : provider[k] = "trash" => provider'[k] = "trash"
    BY <2>1, TrashedFacts
  <2>3. Typed'  BY <2>1, <2>2 DEF Known, ThreadInv, Typed
  <2>4. QED  BY <2>1, <2>2, <2>3, MailsSound
<1>5. CASE Wander(m) \/ Refind(m)
  <2>1. PICK p \in {"inbox", "elsewhere"} :
          provider[m] # "trash" /\ provider' = [provider EXCEPT ![m] = p]
    BY <1>5 DEF Wander, Refind, Lost
  <2>2. UNCHANGED <<thread, snooze, request, waker, job, deleter, stored, arriving,
                    zombies, crashes, before, mixed, late>>
    BY <1>5 DEF Wander, Refind, rowVars, history
  <2>3. /\ provider' \in [Mails -> {"none", "inbox", "elsewhere", "trash"}]
        /\ \A k \in Mails : provider[k] = "trash" => provider'[k] = "trash"
    BY <2>1 DEF Known, ThreadInv, Typed
  <2>4. Typed'  BY <2>2, <2>3 DEF Known, ThreadInv, Typed
  <2>5. QED  BY <2>2, <2>3, <2>4, MailsSound
<1>6. QED  BY <1>1, <1>2, <1>3, <1>4, <1>5 DEF MailStep

LEMMA CrashStep == ASSUME Known, Crash PROVE Sound
PROOF
<1>1. /\ crashes < MaxCrashes /\ crashes' = crashes + 1
      /\ request' = [u \in Users |-> Idle] /\ waker' = [k \in WakeUps |-> Idle]
      /\ deleter' = [w \in Deleters |-> Idle]
      /\ job' = [i \in Removals |-> IF job[i].state = "active"
                                    THEN Queue!Stalled(job[i]) ELSE job[i]]
      /\ arriving' = {} /\ zombies' = {}
      /\ UNCHANGED <<thread, snooze, provider, stored, before, mixed, late>>
  BY DEF Crash, rowVars
<1>2. \A i \in Removals :
        /\ job'[i] \in Queue!Jobs
        /\ Unfinished(i)' => Unfinished(i)
  <2>1. TAKE i \in Removals
  <2>2. job[i] \in Queue!Jobs  BY DEF Known, ThreadInv, Typed
  <2>3. Queue!Stalled(job[i]) \in Queue!Jobs
    <3>1. job[i].stalled + 1 \in Nat  BY <2>2 DEF Queue!Jobs
    <3>2. QED  BY <2>2, <3>1 DEF Queue!Jobs, Queue!JobStates, Queue!Stalled
  <2>4. job'[i] = IF job[i].state = "active" THEN Queue!Stalled(job[i]) ELSE job[i]
    BY <1>1
  <2>5. job'[i] \in Queue!Jobs  BY <2>2, <2>3, <2>4
  <2>6. Unfinished(i)' => Unfinished(i)  BY <2>4 DEF Unfinished
  <2>7. QED  BY <2>5, <2>6
<1>3. /\ Idle \in RequestOf /\ Idle \in DeleterOf /\ Idle.pc = "idle"
      /\ Idle.pc \notin UsesStatus \cup UsesPrevious
  BY RequestMade, DeleterMade DEF Idle, UsesStatus, UsesPrevious
<1>4. /\ \A u \in Users : request'[u] = Idle /\ ~Asking(u)'
      /\ \A w \in Deleters : deleter'[w] = Idle /\ ~Working(w)' /\ ~Moving(w)'
                             /\ ~Failing(w)'
  <2>1. \A u \in Users : request'[u] = Idle  BY <1>1
  <2>2. \A w \in Deleters : deleter'[w] = Idle  BY <1>1
  <2>3. QED  BY <1>3, <2>1, <2>2 DEF Asking, Working, Moving, Failing
<1>5. Typed'
  <2>1. job' \in [Removals -> Queue!Jobs]  BY <1>1, <1>2
  <2>2. request' \in [Users -> RequestOf] /\ deleter' \in [Deleters -> DeleterOf]
    BY <1>1, <1>3
  <2>3. waker' \in [WakeUps -> {Idle} \cup [pc : {"wake"}, previous : Previous]]
    BY <1>1
  <2>4. crashes' \in 0..MaxCrashes
    BY <1>1 DEF Known, ThreadInv, Typed, ThreadAssumption
  <2>5. \A u \in Users : request'[u].pc \notin UsesStatus \cup UsesPrevious
    BY <1>3, <1>4
  <2>6. QED  BY <1>1, <2>1, <2>2, <2>3, <2>4, <2>5 DEF Known, ThreadInv, Typed
<1>6. HoldsJob' /\ Moved'  BY <1>4 DEF HoldsJob, Moved
<1>7. ASSUME ~mixed' PROVE OneRemoval'
  <2>1. Pending' => Pending  BY <1>2, <1>4 DEF Pending
  <2>2. Pending => thread.status = "TRASH" /\ thread.previousStatus = before
                   /\ before \in Statuses
    BY <1>1, <1>7 DEF Known, ThreadInv, OneRemoval
  <2>3. ASSUME NEW i \in Removals, Unfinished(i)' PROVE Queued(i)'
    <3>1. Queued(i)  BY <1>1, <1>2, <1>7, <2>3 DEF Known, ThreadInv, OneRemoval
    <3>2. \A k \in Removals \ {i} : ~Unfinished(k)'  BY <1>2, <3>1 DEF Queued
    <3>3. QED  BY <1>4, <3>2 DEF Queued
  <2>4. QED  BY <1>1, <1>4, <2>1, <2>2, <2>3 DEF OneRemoval
<1>8. OneRemoval'  BY <1>7 DEF OneRemoval
<1>9. LeavesAfterProvider  BY <1>1 DEF LeavesAfterProvider
<1>10. RestoresBefore  BY <1>1 DEF RestoresBefore
<1>11. QED  BY <1>5, <1>6, <1>8, <1>9, <1>10 DEF Sound, ThreadInv

LEMMA StutterStep == ASSUME Known, UNCHANGED vars PROVE Sound
PROOF
<1>1. UNCHANGED <<thread, snooze, request, waker, job, deleter, provider, stored,
                  arriving, zombies, crashes, before, mixed, late>>
  BY DEF vars, rowVars, mailVars, history
<1>2. Typed'  BY <1>1 DEF Known, ThreadInv, Typed
<1>3. QED  BY <1>1, <1>2, RemovalAlone, LocksAlone, UsersSound DEF mailVars

(***************************************************************************)
(* The invariant and the theorems                                           *)
(***************************************************************************)
LEMMA InitKnown == ASSUME ThreadAssumption, Init PROVE ThreadInv
PROOF
<1>1. /\ thread = [status |-> "OPEN", previousStatus |-> "none", archivedAt |-> FALSE]
      /\ snooze = "none" /\ request = [u \in Users |-> Idle]
      /\ waker = [k \in WakeUps |-> Idle]
      /\ job = [i \in Removals |-> Queue!NoJob] /\ deleter = [w \in Deleters |-> Idle]
      /\ provider = [m \in Mails |-> "none"]
      /\ stored = {} /\ arriving = {} /\ zombies = {} /\ crashes = 0
      /\ mixed = FALSE
  BY DEF Init
<1>2. /\ Idle \in RequestOf /\ Idle \in DeleterOf /\ Idle.pc = "idle"
      /\ Idle.pc \notin UsesStatus \cup UsesPrevious
  BY RequestMade, DeleterMade DEF Idle, UsesStatus, UsesPrevious
<1>3. Queue!NoJob \in Queue!Jobs /\ Queue!NoJob.state = "none"
  BY DEF Queue!NoJob, Queue!Jobs, Queue!JobStates
<1>4. /\ \A u \in Users : request[u] = Idle /\ ~Asking(u)
      /\ \A i \in Removals : job[i] = Queue!NoJob /\ ~Unfinished(i)
      /\ \A w \in Deleters : deleter[w] = Idle /\ ~Working(w) /\ ~Moving(w) /\ ~Failing(w)
  <2>1. \A u \in Users : request[u] = Idle  BY <1>1
  <2>2. \A w \in Deleters : deleter[w] = Idle  BY <1>1
  <2>3. \A i \in Removals : job[i] = Queue!NoJob  BY <1>1
  <2>4. QED
    BY <1>2, <1>3, <2>1, <2>2, <2>3 DEF Asking, Working, Moving, Failing, Unfinished
<1>5. Typed
  <2>1. thread \in ThreadRow
    <3>1. "OPEN" \in Statuses /\ "none" \in Previous  BY DEF Statuses, Previous
    <3>2. QED  BY <1>1, <3>1, ThreadMade
  <2>2. /\ request \in [Users -> RequestOf] /\ deleter \in [Deleters -> DeleterOf]
        /\ job \in [Removals -> Queue!Jobs]
        /\ waker \in [WakeUps -> {Idle} \cup [pc : {"wake"}, previous : Previous]]
        /\ provider \in [Mails -> {"none", "inbox", "elsewhere", "trash"}]
    BY <1>1, <1>2, <1>3
  <2>3. crashes \in 0..MaxCrashes  BY <1>1 DEF ThreadAssumption
  <2>4. \A u \in Users : request[u].pc \notin UsesStatus \cup UsesPrevious
    BY <1>2, <1>4
  <2>5. QED  BY <1>1, <2>1, <2>2, <2>3, <2>4 DEF Typed
<1>6. HoldsJob /\ Moved /\ OneRemoval
  BY <1>4 DEF HoldsJob, Moved, OneRemoval, Pending
<1>7. QED  BY <1>5, <1>6 DEF ThreadInv

LEMMA StepSound == ASSUME Known, [Next]_vars PROVE Sound
PROOF
<1>1. ASSUME NEW u \in Users, UserStep(u) PROVE Sound
  BY <1>1, ReadStep, WriteStep, FileStep, RemoveWriteStep, RemoveFailsStep,
     RemoveEnqueueStep DEF UserStep
<1>2. ASSUME NEW w \in Deleters, DeleterStep(w) PROVE Sound
  BY <1>2, TakeStep, ReadThreadStep, MoveMailStep, MovesDoneStep, CleanupStep,
     ReadFailedStep, RestoreThreadStep DEF DeleterStep
<1>3. QED
  BY <1>1, <1>2, SnoozeEndsStep, WakeSelectStep, WakeWriteStep, MovesFailStep,
     MailStepSound, CrashStep, StutterStep DEF Next

LEMMA InvHolds == ASSUME ThreadAssumption PROVE Spec => []ThreadInv
PROOF
<1>1. Init => ThreadInv  BY InitKnown
<1>2. ThreadInv /\ [Next]_vars => ThreadInv'  BY StepSound DEF Known, Sound
<1>3. QED  BY <1>1, <1>2, PTL DEF Spec

\* The rows, requests, jobs and processors always have the shapes the code gives
\* them (threads.service.ts, thread-delete.processor.ts).
THEOREM TypeCorrect == ASSUME ThreadAssumption PROVE Spec => []TypeOK
PROOF
<1>1. ASSUME ThreadInv PROVE TypeOK
  <2>1. \A u \in Users : request[u].pc \in Operations \cup {"idle", "enqueue"}
    BY <1>1, RequestFacts DEF ThreadInv, Typed
  <2>2. \A w \in Deleters : deleter[w].pc \in Pcs
    BY <1>1, DeleterFacts DEF ThreadInv, Typed
  <2>3. QED  BY <1>1, <2>1, <2>2 DEF ThreadInv, Typed, TypeOK, Pcs
<1>2. QED  BY <1>1, InvHolds, PTL

\* A mail leaves the database only when the provider has it in the trash, when the
\* job that deletes its row has passed it over (nothing to look for, or nothing found),
\* or when it was stored while the removal was running: processQueuedThreadDelete deals
\* with every mail it has read before it deletes rows.
THEOREM RemovedAfterProvider ==
  ASSUME ThreadAssumption PROVE Spec => DeletedAfterProvider
PROOF
<1>1. ThreadInv /\ [Next]_vars => [LeavesAfterProvider]_vars
  BY StepSound DEF Known, Sound
<1>2. QED  BY <1>1, InvHolds, PTL DEF Spec, DeletedAfterProvider

\* The status a failed removal restores (handleQueuedThreadDeleteFailure) is the
\* one the removal found, unless another request or the job of an earlier
\* removal worked on the thread meanwhile.
THEOREM RestoresAreExact == ASSUME ThreadAssumption PROVE Spec => RestoreIsExact
PROOF
<1>1. ThreadInv /\ [Next]_vars => [RestoresBefore]_vars
  BY StepSound DEF Known, Sound
<1>2. QED  BY <1>1, InvHolds, PTL DEF Spec, RestoreIsExact
=============================================================================
