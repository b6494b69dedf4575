------------------------------ MODULE Exports ------------------------------
(***************************************************************************)
(* ExportImportService: export jobs of one organisation, which run in the   *)
(* memory of the backend after the request that created them has been       *)
(* answered, and the downloads of their artifacts, which are counted.       *)
(***************************************************************************)
EXTENDS Naturals, FiniteSets

CONSTANTS
  MaxJobs,       \* bound: rows
  Requests,      \* requests to create an export
  Downloads,     \* requests to download one
  Limit,         \* jobs under way per organisation (10)
  MaxDownloads,  \* ExportJob.maxDownloads (5)
  MaxRestarts    \* bound: restarts of the backend

Jobs == 1..MaxJobs

ExportsAssumption ==
  /\ MaxJobs \in Nat
  /\ IsFiniteSet(Requests) /\ IsFiniteSet(Downloads)
  /\ Limit \in Nat \ {0} /\ MaxDownloads \in Nat \ {0} /\ MaxRestarts \in Nat

VARIABLES
  status,        \* status[j]: ExportJob.status, "none" without a row
  artifact,      \* the jobs whose artifactUrl is set
  count,         \* count[j]: ExportJob.downloadCount
  runner,        \* the jobs whose runExport is in memory
  request, download,
  delivered,     \* history, delivered[j]: downloads that reached the client
  restarts

vars == <<status, artifact, count, runner, request, download, delivered, restarts>>

Idle == [pc |-> "idle"]
Done == [pc |-> "done"]

TypeOK ==
  /\ status \in [Jobs -> {"none", "pending", "processing", "completed", "failed",
                          "expired"}]
  /\ artifact \subseteq Jobs /\ runner \subseteq Jobs
  /\ count \in [Jobs -> 0..MaxDownloads]
  /\ \A r \in Requests : request[r] \in {Idle, [pc |-> "counted"]}
  /\ \A d \in Downloads : download[d].pc \in
       {"idle", "checked", "reserved", "streaming", "failing"}
  /\ restarts \in 0..MaxRestarts

Init ==
  /\ status = [j \in Jobs |-> "none"]
  /\ artifact = {} /\ runner = {}
  /\ count = [j \in Jobs |-> 0]
  /\ request = [r \in Requests |-> Idle]
  /\ download = [d \in Downloads |-> Idle]
  /\ delivered = [j \in Jobs |-> 0]
  /\ restarts = 0

(***************************************************************************)
(* Creating and running                                                     *)
(***************************************************************************)
Active == {j \in Jobs : status[j] \in {"pending", "processing"}}

\* Mutant: the limit itself still passes.
BelowLimitOrAt == Cardinality(Active) <= Limit
BelowLimit == Cardinality(Active) < Limit

\* createExport counts the jobs under way ...
Count(r) ==
  /\ request[r] = Idle /\ BelowLimit
  /\ request' = [request EXCEPT ![r] = [pc |-> "counted"]]
  /\ UNCHANGED <<status, artifact, count, runner, download, delivered, restarts>>

\* ... and creates another, whose run it does not wait for.
Create(r, j) ==
  /\ request[r].pc = "counted"
  /\ status[j] = "none" /\ \A i \in 1..(j - 1) : status[i] # "none"
  /\ status' = [status EXCEPT ![j] = "pending"]
  /\ runner' = runner \cup {j}
  /\ request' = [request EXCEPT ![r] = Idle]
  /\ UNCHANGED <<artifact, count, download, delivered, restarts>>

\* runExport.
Start(j) ==
  /\ j \in runner /\ status[j] = "pending"
  /\ status' = [status EXCEPT ![j] = "processing"]
  /\ UNCHANGED <<artifact, count, runner, request, download, delivered, restarts>>

\* Mutant: an error is logged only (the catch of createExport).
FinishLogged(j) ==
  /\ j \in runner /\ status[j] = "processing"
  /\ runner' = runner \ {j}
  /\ \/ /\ status' = [status EXCEPT ![j] = "completed"]
        /\ artifact' = artifact \cup {j}
     \/ UNCHANGED <<status, artifact>>
  /\ UNCHANGED <<count, request, download, delivered, restarts>>

Finish(j) ==
  /\ j \in runner /\ status[j] = "processing"
  /\ runner' = runner \ {j}
  /\ \/ /\ status' = [status EXCEPT ![j] = "completed"]
        /\ artifact' = artifact \cup {j}
     \/ status' = [status EXCEPT ![j] = "failed"] /\ UNCHANGED artifact
  /\ UNCHANGED <<count, request, download, delivered, restarts>>

(***************************************************************************)
(* Downloading                                                              *)
(***************************************************************************)
\* assertDownloadableExport, on the row as it is read; seven days after its
\* creation the job is expired by whoever asks for it.
Check(d, j) ==
  /\ download[d] = Idle /\ status[j] = "completed"
  /\ \/ /\ download' = [download EXCEPT ![d] = [pc |-> "checked", of |-> j]]
        /\ UNCHANGED status
     \/ status' = [status EXCEPT ![j] = "expired"] /\ UNCHANGED download
  /\ UNCHANGED <<artifact, count, runner, request, delivered, restarts>>

\* Mutant: the condition is left to assertDownloadableExport.
ReserveAlways(d) ==
  LET j == download[d].of
  IN /\ download[d].pc = "checked"
     /\ count' = [count EXCEPT ![j] = @ + 1]
     /\ download' = [download EXCEPT ![d] = [@ EXCEPT !.pc = "reserved"]]
     /\ UNCHANGED <<status, artifact, runner, request, delivered, restarts>>

\* reserveDownloadSlot: one conditional UPDATE.
Reserve(d) ==
  LET j == download[d].of
  IN /\ download[d].pc = "checked"
     /\ IF count[j] < MaxDownloads
        THEN /\ count' = [count EXCEPT ![j] = @ + 1]
             /\ download' = [download EXCEPT ![d] = [@ EXCEPT !.pc = "reserved"]]
        ELSE download' = [download EXCEPT ![d] = Idle] /\ UNCHANGED count
     /\ UNCHANGED <<status, artifact, runner, request, delivered, restarts>>

\* The artifact is looked up, in the row and on disk, where it may be missing.
Look(d) ==
  /\ download[d].pc = "reserved"
  /\ \E pc \in {"streaming", "failing"} :
       /\ download[d].of \notin artifact => pc = "failing"
       /\ download' = [download EXCEPT ![d] = [@ EXCEPT !.pc = pc]]
  /\ UNCHANGED <<status, artifact, count, runner, request, delivered, restarts>>

\* The stream reaches the client, or breaks.
Stream(d) ==
  LET j == download[d].of
  IN /\ download[d].pc = "streaming"
     /\ \/ /\ delivered' = [delivered EXCEPT ![j] = @ + 1]
           /\ download' = [download EXCEPT ![d] = Idle]
        \/ /\ download' = [download EXCEPT ![d] = [@ EXCEPT !.pc = "failing"]]
           /\ UNCHANGED delivered
     /\ UNCHANGED <<status, artifact, count, runner, request, restarts>>

\* Mutant: the reservation is returned twice (by the service and the controller).
RollbackTwice(d) ==
  LET j == download[d].of
  IN /\ download[d].pc = "failing"
     /\ count' = [count EXCEPT ![j] = IF @ > 1 THEN @ - 2 ELSE 0]
     /\ download' = [download EXCEPT ![d] = Idle]
     /\ UNCHANGED <<status, artifact, runner, request, delivered, restarts>>

\* rollbackDownloadReservation.
Rollback(d) ==
  LET j == download[d].of
  IN /\ download[d].pc = "failing"
     /\ count' = [count EXCEPT ![j] = IF @ > 0 THEN @ - 1 ELSE @]
     /\ download' = [download EXCEPT ![d] = Idle]
     /\ UNCHANGED <<status, artifact, runner, request, delivered, restarts>>

\* Runs and requests end with the backend; the rows stay as they are.
Restart ==
  /\ restarts < MaxRestarts /\ restarts' = restarts + 1
  /\ runner' = {}
  /\ request' = [r \in Requests |-> Idle]
  /\ download' = [d \in Downloads |-> Idle]
  /\ UNCHANGED <<status, artifact, count, delivered>>

Next ==
  \/ \E r \in Requests : Count(r) \/ \E j \in Jobs : Create(r, j)
  \/ \E j \in Jobs : Start(j) \/ Finish(j) \/ \E d \in Downloads : Check(d, j)
  \/ \E d \in Downloads : Reserve(d) \/ Look(d) \/ Stream(d) \/ Rollback(d)
  \/ Restart

Spec == Init /\ [][Next]_vars

(***************************************************************************)
(* Properties                                                               *)
(***************************************************************************)
\* The limit is overrun by requests that count at the same time, and by no more
\* than those: one request at a time keeps it.
LimitOverrun == Cardinality(Active) < Limit + Cardinality(Requests)

\* No client gets a file more often than the job allows, however downloads
\* overlap and fail; the count never falls behind what was delivered.
DownloadsCounted ==
  \A j \in Jobs : delivered[j] <= count[j] /\ count[j] <= MaxDownloads

\* A job under way has its run, so that it leaves the limit one day, unless the
\* backend was restarted under it.
ActiveHasRun == Active \subseteq runner \/ restarts > 0

(***************************************************************************)
(* What they rest on                                                        *)
(***************************************************************************)
Typed ==
  /\ status \in [Jobs -> {"none", "pending", "processing", "completed", "failed",
                          "expired"}]
  /\ artifact \subseteq Jobs /\ runner \subseteq Jobs
  /\ count \in [Jobs -> 0..MaxDownloads]
  /\ request \in [Requests -> {Idle, [pc |-> "counted"]}]
  /\ download \in [Downloads -> {Idle} \cup
       [pc : {"checked", "reserved", "streaming", "failing"}, of : Jobs]]
  /\ delivered \in [Jobs -> Nat]
  /\ restarts \in 0..MaxRestarts

\* The requests that have counted and will create; the downloads that hold a
\* place in the count of j.
Counted == {r \in Requests : request[r] # Idle}
Holding(j) ==
  {d \in Downloads : download[d] # Idle /\ download[d].pc # "checked"
                     /\ download[d].of = j}

\* A request that has counted found room, and takes it to be there still.
Overrun == Cardinality(Active) + Cardinality(Counted) < Limit + Cardinality(Requests)

\* A place is taken before the file is sent, and given back only by its holder.
Placed ==
  \A j \in Jobs : delivered[j] + Cardinality(Holding(j)) <= count[j]

ExportsInv == Typed /\ Overrun /\ Placed /\ ActiveHasRun
=============================================================================
