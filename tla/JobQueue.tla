------------------------------ MODULE JobQueue ------------------------------
(***************************************************************************)
(* A BullMQ job as the processors of src/backend/src/jobs see it: it waits  *)
(* (delayed or ready), is taken by one worker that holds its lock, and ends *)
(* completed or failed.  A thrown error uses up one of the `attempts' the   *)
(* producer asked for; a lock that is not renewed makes the job "stalled",  *)
(* and it is handed out again at most MaxStalled times.  BullMQ is not part *)
(* of the repository: these operators state what src/ relies on.            *)
(*                                                                         *)
(* Modules that own a queue keep their jobs in a variable of their own and  *)
(* rewrite them with these operators.                                       *)
(***************************************************************************)
EXTENDS Naturals

CONSTANTS
  Workers,     \* the concurrent processors of the queue
  NoWorker,    \* the owner of a job nobody holds the lock of
  Attempts,    \* job option `attempts'
  MaxStalled   \* BullMQ's maxStalledCount

ASSUME QueueAssumption ==
  /\ NoWorker \notin Workers
  /\ Attempts \in Nat \ {0}
  /\ MaxStalled \in Nat

JobStates == {"none", "delayed", "waiting", "active", "completed", "failed"}

Jobs == [state : JobStates, attemptsMade : Nat, stalled : Nat,
         owner : Workers \cup {NoWorker}]

NoJob == [state |-> "none", attemptsMade |-> 0, stalled |-> 0,
          owner |-> NoWorker]

\* queue.add(name, data, { delay }): a job with a delay is not ready yet.
Added(delayed) ==
  [NoJob EXCEPT !.state = IF delayed THEN "delayed" ELSE "waiting"]

Promoted(j) == [j EXCEPT !.state = "waiting"]

Taken(j, w) == [j EXCEPT !.state = "active", !.owner = w]

\* The processor returned.  Without the lock BullMQ refuses the result.
Completed(j, w) ==
  IF j.owner = w
    THEN [j EXCEPT !.state = "completed", !.owner = NoWorker]
    ELSE j

\* The processor threw: another attempt (its backoff is the freedom of the
\* job to wait), or the end of the job.
AttemptFailed(j, w) ==
  IF j.owner = w
    THEN [j EXCEPT !.attemptsMade = j.attemptsMade + 1,
                   !.owner = NoWorker,
                   !.state = IF j.attemptsMade + 1 < Attempts THEN "waiting"
                                                              ELSE "failed"]
    ELSE j

\* The lock expired: the stalled check hands the job out again, or gives up.
Stalled(j) ==
  [j EXCEPT !.stalled = j.stalled + 1,
            !.owner = NoWorker,
            !.state = IF j.stalled + 1 <= MaxStalled THEN "waiting"
                                                     ELSE "failed"]

Finished(j) == j.state \in {"completed", "failed"}
=============================================================================
