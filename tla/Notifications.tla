--------------------------- MODULE Notifications ---------------------------
(***************************************************************************)
(* Notifications of one user: NotificationsService.dispatch, which writes   *)
(* the row and hands mail and push to queues; the dispatch processor; the   *)
(* digest processor, which collects mails per window; and the push          *)
(* registrations of the accounts that share a browser.                      *)
(***************************************************************************)
EXTENDS Naturals, Sequences, FiniteSets

CONSTANTS
  Notes,        \* events that notify the user
  Digested,     \* those whose type is mailed in a digest; the others at once
  Devices,      \* browsers that may be registered for push
  Accounts,     \* accounts, the first user's one being Me
  Me,
  DigestRuns,   \* workers of the digest queue (two)
  Attempts,     \* attempts of a dispatch job
  MaxFaults,    \* bound: errors, lost locks and restarts
  MaxMails      \* bound: digest mails

NotificationsAssumption ==
  /\ Digested \subseteq Notes /\ Me \in Accounts /\ IsFiniteSet(DigestRuns)
  /\ Attempts \in Nat \ {0} /\ MaxFaults \in Nat /\ MaxMails \in Nat

VARIABLES
  quiet,        \* the quiet hours of the user
  dispatch,     \* dispatch[n]: how far the request that dispatches n is
  mailJob,      \* mailJob[n]: its job in the dispatch queue
  pushJob,      \* pushJob[n]
  item,         \* item[n]: its NotificationDigestItem
  closed,       \* the items whose window is over
  digestRun,    \* digestRun[k]
  digestMails,  \* the digest mails in the dispatch queue
  owners,       \* owners[v]: the accounts device v is actively registered for
  claim,        \* claim[a]: the request of account a to register a device
  faults,
  mailed, pushed, collected, overlapped   \* history

queues == <<mailJob, pushJob, digestMails>>
digest == <<item, closed, digestRun>>
push == <<owners, claim, overlapped>>
history == <<mailed, pushed, collected>>
vars == <<quiet, dispatch, queues, digest, push, faults, history>>

Idle == [pc |-> "idle"]

\* The job of a mail: attempts that failed, stalls, and whether a run that has lost the
\* lock is still to send; and of a push, with the devices its run still has to serve,
\* and those that a run without the lock has.
MailJob == [pc : {"none", "waiting", "sent", "done"}, tries : 0..(Attempts - 1),
            stalls : {0, 1}, ghost : {0, 1}]
PushJob == [pc : {"none", "waiting", "sending", "done"}, tries : 0..(Attempts - 1),
            stalls : {0, 1}, left : SUBSET Devices, ghost : SUBSET Devices]

NoMail == [pc |-> "none", tries |-> 0, stalls |-> 0, ghost |-> 0]
NoPush == [pc |-> "none", tries |-> 0, stalls |-> 0, left |-> {}, ghost |-> {}]
NewMail == [pc |-> "waiting", tries |-> 0, stalls |-> 0, ghost |-> 0]
NewPush == [pc |-> "waiting", tries |-> 0, stalls |-> 0, left |-> {}, ghost |-> {}]
Group == [pc : {"read", "queued"}, items : SUBSET Notes]
Request == [pc : {"checked"}, of : Devices]

TypeOK ==
  /\ quiet \in BOOLEAN
  /\ dispatch \in [Notes -> {"idle", "created", "mail", "done"}]
  /\ mailJob \in [Notes -> MailJob]
  /\ pushJob \in [Notes -> PushJob]
  /\ item \in [Notes -> {"none", "pending", "processed", "failed"}]
  /\ closed \subseteq Notes
  /\ digestRun \in [DigestRuns -> {Idle} \cup Group]
  /\ digestMails \in Seq(SUBSET Notes)
  /\ owners \in [Devices -> SUBSET Accounts]
  /\ claim \in [Accounts -> {Idle} \cup Request]
  /\ faults \in 0..MaxFaults
  /\ overlapped \subseteq Devices

Init ==
  /\ quiet \in BOOLEAN
  /\ dispatch = [n \in Notes |-> "idle"]
  /\ mailJob = [n \in Notes |-> NoMail] /\ pushJob = [n \in Notes |-> NoPush]
  /\ item = [n \in Notes |-> "none"] /\ closed = {}
  /\ digestRun = [k \in DigestRuns |-> Idle]
  /\ digestMails = <<>>
  /\ owners = [v \in Devices |-> {}]
  /\ claim = [a \in Accounts |-> Idle]
  /\ faults = 0 /\ overlapped = {}
  /\ mailed = [n \in Notes |-> 0]
  /\ pushed = [n \in Notes |-> [v \in Devices |-> 0]]
  /\ collected = [n \in Notes |-> 0]

Fault == faults < MaxFaults /\ faults' = faults + 1

\* The clock: quiet hours begin and end.
QuietHours ==
  /\ quiet' = ~quiet
  /\ UNCHANGED <<dispatch, queues, digest, push, faults, history>>

(***************************************************************************)
(* dispatch                                                                 *)
(***************************************************************************)
Go(n, pc) == dispatch' = [dispatch EXCEPT ![n] = pc]

\* The row is created, unless the settings of the organisation, the user or the
\* contact say no.
Create(n) ==
  /\ dispatch[n] = "idle"
  /\ Go(n, "created")
  /\ UNCHANGED <<quiet, queues, digest, push, faults, history>>

\* The mail: at once, unless it is quiet; or as an item of a digest.
PassMail(n) ==
  /\ dispatch[n] = "created"
  /\ Go(n, "mail")
  /\ IF n \in Digested
     THEN item' = [item EXCEPT ![n] = "pending"] /\ UNCHANGED mailJob
     ELSE /\ mailJob' = [mailJob EXCEPT ![n] = IF quiet THEN NoMail ELSE NewMail]
          /\ UNCHANGED item
  /\ UNCHANGED <<quiet, pushJob, digestMails, closed, digestRun, push, faults,
                 history>>

PassPush(n) ==
  /\ dispatch[n] = "mail"
  /\ Go(n, "done")
  /\ pushJob' = [pushJob EXCEPT ![n] = IF quiet THEN NoPush ELSE NewPush]
  /\ UNCHANGED <<quiet, mailJob, digestMails, digest, push, faults, history>>

\* Redis or the database fails, or the backend stops: the rest is not done.
DispatchFails(n) ==
  /\ dispatch[n] \in {"created", "mail"} /\ Fault
  /\ Go(n, "done")
  /\ UNCHANGED <<quiet, queues, digest, push, history>>

(***************************************************************************)
(* The dispatch processor                                                   *)
(***************************************************************************)
Ended(job) == [job EXCEPT !.pc = "done"]

\* A failed attempt: the job is tried again while attempts are left.
Again(job) ==
  IF job.tries + 1 < Attempts
  THEN [job EXCEPT !.pc = "waiting", !.tries = @ + 1] ELSE Ended(job)

\* A job whose lock is lost is handed out once more without using an attempt (BullMQ's
\* maxStalledCount of 1), and given up the second time; a run that only lost the lock
\* goes on, and nothing follows it.
HandedOut(job, ghost) ==
  [job EXCEPT !.pc = "waiting", !.stalls = 1, !.ghost = ghost]
LastRun(job) == [job EXCEPT !.tries = Attempts - 1]

SendMail(n) ==
  /\ mailJob[n].pc = "waiting"
  /\ \/ /\ mailJob' = [mailJob EXCEPT ![n].pc = "sent"]
        /\ mailed' = [mailed EXCEPT ![n] = @ + 1]
        /\ UNCHANGED faults
     \/ /\ Fault
        /\ mailJob' = [mailJob EXCEPT ![n] = Again(mailJob[n])]
        /\ UNCHANGED mailed
  /\ UNCHANGED <<quiet, dispatch, pushJob, digestMails, digest, push, pushed,
                 collected>>

\* Mutant: the job of a mail that was sent is tried again.
MailRetried(n) ==
  /\ mailJob[n].pc = "sent"
  /\ mailJob' = [mailJob EXCEPT ![n] = Again(mailJob[n])]
  /\ UNCHANGED <<quiet, dispatch, pushJob, digestMails, digest, push, faults, history>>

\* sentAt is written; an error of that write repeats the job.
MailSent(n) ==
  /\ mailJob[n].pc = "sent"
  /\ \/ mailJob' = [mailJob EXCEPT ![n] = Ended(mailJob[n])] /\ UNCHANGED faults
     \/ mailJob' = [mailJob EXCEPT ![n] = Again(mailJob[n])] /\ Fault
  /\ UNCHANGED <<quiet, dispatch, pushJob, digestMails, digest, push, history>>

\* With its process, or without: then the run is still to send, or has sent.
StallMail(n) ==
  LET job == mailJob[n]
  IN /\ job.pc \in {"waiting", "sent"} /\ Fault
     /\ \E y \in IF job.stalls = 1 THEN {Ended(job), LastRun(job)}
                 ELSE {HandedOut(job, 0),
                       HandedOut(job, IF job.pc = "sent" THEN 0 ELSE 1)} :
          mailJob' = [mailJob EXCEPT ![n] = y]
     /\ UNCHANGED <<quiet, dispatch, pushJob, digestMails, digest, push, history>>

GhostMails(n) ==
  /\ mailJob[n].ghost = 1
  /\ mailJob' = [mailJob EXCEPT ![n].ghost = 0]
  /\ mailed' = [mailed EXCEPT ![n] = @ + 1]
  /\ UNCHANGED <<quiet, dispatch, pushJob, digestMails, digest, push, faults, pushed,
                 collected>>

\* deliverToUser reads the active registrations of the user ...
ReadDevices(n) ==
  /\ pushJob[n].pc = "waiting"
  /\ pushJob' = [pushJob EXCEPT ![n].pc = "sending",
                                ![n].left = {v \in Devices : Me \in owners[v]}]
  /\ UNCHANGED <<quiet, dispatch, mailJob, digestMails, digest, push, faults,
                 history>>

Served(job, v) == [job EXCEPT !.left = @ \ {v}]
GhostServed(job, v) == [job EXCEPT !.ghost = @ \ {v}]

\* The provider takes the message, or says that the device is gone, which is deactivated.
Serve(n, v, y) ==
  /\ pushJob' = [pushJob EXCEPT ![n] = y]
  /\ \/ /\ pushed' = [pushed EXCEPT ![n] = [pushed[n] EXCEPT ![v] = pushed[n][v] + 1]]
        /\ UNCHANGED owners
     \/ /\ owners' = [owners EXCEPT ![v] = @ \ {Me}]
        /\ UNCHANGED pushed

\* ... and serves one after the other.  Any other error ends the attempt, and the next
\* one starts anew with all of them.
Push(n, v) ==
  /\ pushJob[n].pc = "sending" /\ v \in pushJob[n].left
  /\ \/ Serve(n, v, Served(pushJob[n], v)) /\ UNCHANGED faults
     \/ /\ Fault
        /\ pushJob' = [pushJob EXCEPT ![n] = Again(pushJob[n])]
        /\ UNCHANGED <<pushed, owners>>
  /\ UNCHANGED <<quiet, dispatch, mailJob, digestMails, digest, claim, overlapped,
                 mailed, collected>>

PushDone(n) ==
  /\ pushJob[n].pc = "sending" /\ pushJob[n].left = {}
  /\ \/ pushJob' = [pushJob EXCEPT ![n] = Ended(pushJob[n])] /\ UNCHANGED faults
     \/ pushJob' = [pushJob EXCEPT ![n] = Again(pushJob[n])] /\ Fault
  /\ UNCHANGED <<quiet, dispatch, mailJob, digestMails, digest, push, history>>

StallPush(n) ==
  LET job == pushJob[n]
  IN /\ job.pc = "sending" /\ Fault
     /\ \E y \in IF job.stalls = 1 THEN {Ended(job), LastRun(job)}
                 ELSE {HandedOut(job, {}), HandedOut(job, job.left)} :
          pushJob' = [pushJob EXCEPT ![n] = y]
     /\ UNCHANGED <<quiet, dispatch, mailJob, digestMails, digest, push, history>>

GhostPushes(n, v) ==
  /\ v \in pushJob[n].ghost
  /\ Serve(n, v, GhostServed(pushJob[n], v))
  /\ UNCHANGED <<quiet, dispatch, mailJob, digestMails, digest, claim, overlapped, faults,
                 mailed, collected>>

\* The processor takes the recipient of a mail from the job (to) or, for a
\* notification, from its user.  A digest mail has a user, but no notification.
Recipients(job) ==
  IF job.to # "none" THEN {job.to} ELSE IF job.note # {} THEN {job.user} ELSE {}

SendDigest ==
  LET job == [to |-> "none", user |-> Me, note |-> {}]
  IN /\ digestMails # <<>>
     /\ digestMails' = Tail(digestMails)
     /\ mailed' = [n \in Notes |->
          IF n \in Head(digestMails) THEN mailed[n] + Cardinality(Recipients(job))
          ELSE mailed[n]]
     /\ UNCHANGED <<quiet, dispatch, mailJob, pushJob, digest, push, faults, pushed,
                    collected>>

(***************************************************************************)
(* The digest processor                                                     *)
(***************************************************************************)
WindowEnds(n) ==
  /\ item[n] = "pending" /\ n \notin closed
  /\ closed' = closed \cup {n}
  /\ UNCHANGED <<quiet, dispatch, queues, item, digestRun, push, faults, history>>

\* Mutant: windows that are over are left out.
ReadItemsOpen(k) ==
  LET due == {n \in Notes : item[n] = "pending" /\ n \notin closed}
  IN /\ digestRun[k].pc = "idle" /\ due # {}
     /\ digestRun' = [digestRun EXCEPT ![k] = [pc |-> "read", items |-> due]]
     /\ UNCHANGED <<quiet, dispatch, queues, item, closed, push, faults, history>>

\* flushMode, every hour and after every new item, two at a time.
ReadItems(k) ==
  LET due == {n \in closed : item[n] = "pending"}
  IN /\ digestRun[k].pc = "idle" /\ due # {}
     /\ digestRun' = [digestRun EXCEPT ![k] = [pc |-> "read", items |-> due]]
     /\ UNCHANGED <<quiet, dispatch, queues, item, closed, push, faults, history>>

\* processGroup: the mail is queued ...
QueueDigest(k) ==
  /\ digestRun[k].pc = "read" /\ Len(digestMails) < MaxMails
  /\ digestMails' = Append(digestMails, digestRun[k].items)
  /\ collected' = [n \in Notes |-> IF n \in digestRun[k].items THEN collected[n] + 1
                                   ELSE collected[n]]
  /\ digestRun' = [digestRun EXCEPT ![k] = [pc |-> "queued", items |-> digestRun[k].items]]
  /\ UNCHANGED <<quiet, dispatch, mailJob, pushJob, item, closed, push, faults,
                 mailed, pushed>>

Mark(k, status) ==
  /\ item' = [n \in Notes |-> IF n \in digestRun[k].items THEN status ELSE item[n]]
  /\ digestRun' = [digestRun EXCEPT ![k] = Idle]

\* Mutant: the items stay pending.
MarkItemsLater(k) ==
  /\ digestRun[k].pc = "queued"
  /\ digestRun' = [digestRun EXCEPT ![k] = Idle]
  /\ UNCHANGED <<quiet, dispatch, queues, item, closed, push, faults, history>>

\* ... and then its items are marked, in a transaction of their own.
MarkItems(k) ==
  /\ digestRun[k].pc = "queued"
  /\ Mark(k, "processed")
  /\ UNCHANGED <<quiet, dispatch, queues, closed, push, faults, history>>

\* An error of either step marks them failed, which no run looks at again; a
\* restart leaves them as they are.
DigestFails(k) ==
  /\ digestRun[k].pc \in {"read", "queued"} /\ Fault
  /\ \/ Mark(k, "failed")
     \/ digestRun' = [digestRun EXCEPT ![k] = Idle] /\ UNCHANGED item
  /\ UNCHANGED <<quiet, dispatch, queues, closed, push, history>>

(***************************************************************************)
(* Push registrations                                                       *)
(***************************************************************************)
\* Mutant: any device is taken.
ClaimAny(a, v) ==
  /\ claim[a] = Idle
  /\ claim' = [claim EXCEPT ![a] = [pc |-> "checked", of |-> v]]
  /\ overlapped' = IF \E b \in Accounts \ {a} : claim[b] = [pc |-> "checked", of |-> v]
                   THEN overlapped \cup {v} ELSE overlapped
  /\ UNCHANGED <<quiet, dispatch, queues, digest, owners, faults, history>>

\* register: a device another account holds is refused ...
Claim(a, v) ==
  /\ claim[a] = Idle /\ owners[v] \subseteq {a}
  /\ claim' = [claim EXCEPT ![a] = [pc |-> "checked", of |-> v]]
  /\ overlapped' = IF \E b \in Accounts \ {a} : claim[b] = [pc |-> "checked", of |-> v]
                   THEN overlapped \cup {v} ELSE overlapped
  /\ UNCHANGED <<quiet, dispatch, queues, digest, owners, faults, history>>

\* ... and the row is updated or created.
Register(a) ==
  /\ claim[a].pc = "checked"
  /\ owners' = [owners EXCEPT ![claim[a].of] = @ \cup {a}]
  /\ claim' = [claim EXCEPT ![a] = Idle]
  /\ UNCHANGED <<quiet, dispatch, queues, digest, overlapped, faults, history>>

Revoke(a, v) ==
  /\ a \in owners[v]
  /\ owners' = [owners EXCEPT ![v] = @ \ {a}]
  /\ UNCHANGED <<quiet, dispatch, queues, digest, claim, overlapped, faults, history>>

DigestStep(k) == ReadItems(k) \/ QueueDigest(k) \/ MarkItems(k)

Next ==
  \/ QuietHours \/ SendDigest
  \/ \E n \in Notes :
       \/ Create(n) \/ PassMail(n) \/ PassPush(n) \/ DispatchFails(n)
       \/ SendMail(n) \/ MailSent(n) \/ StallMail(n) \/ GhostMails(n)
       \/ ReadDevices(n) \/ PushDone(n) \/ StallPush(n) \/ WindowEnds(n)
       \/ \E v \in Devices : Push(n, v) \/ GhostPushes(n, v)
  \/ \E k \in DigestRuns : DigestStep(k) \/ DigestFails(k)
  \/ \E a \in Accounts :
       Register(a) \/ \E v \in Devices : Claim(a, v) \/ Revoke(a, v)

Spec == Init /\ [][Next]_vars

\* The digest jobs repeat, their workers go on, and time passes.
Fairness ==
  /\ WF_vars(SendDigest)
  /\ \A n \in Notes : WF_vars(WindowEnds(n))
  /\ \A k \in DigestRuns : WF_vars(DigestStep(k))

FairSpec == Spec /\ Fairness

(***************************************************************************)
(* Properties                                                               *)
(***************************************************************************)
\* A mail goes out once, and once more for every error, lost lock or restart that hid
\* the success of a run; a job is handed out once per attempt and once more when it
\* stalls, and no more often is a mail sent or a device served, although the failure of
\* one device repeats the others.
CopiesBounded ==
  \A n \in Notes : /\ mailed[n] <= 1 + faults /\ mailed[n] <= Attempts + 1
                   /\ \A v \in Devices : pushed[n][v] <= Attempts + 1

\* Digest runs overlap: an item is collected once per run that read it before it
\* was marked, and once more per restart between the two steps.
CollectedBounded ==
  \A n \in Notes : collected[n] <= Cardinality(DigestRuns) + faults

\* A device is registered for one account, unless two of them registered it at
\* the same time (the check and the write are not one step).
OneOwner == \A v \in Devices : Cardinality(owners[v]) <= 1 \/ v \in overlapped

\* What the profile page says of a digest: "Send a daily summary at a configured
\* time and timezone."  A processed item was mailed, or its mail is queued.
DigestReachesUser ==
  \A n \in Notes : item[n] = "processed" =>
    mailed[n] > 0 \/ \E i \in DOMAIN digestMails : n \in digestMails[i]

\* Every item is collected (or marked failed) one day.
PendingIsFlushed == \A n \in Notes : item[n] = "pending" ~> item[n] # "pending"

----------------------------------------------------------------------------
(* What they rest on. *)

\* Each request to dispatch makes its jobs and its item once.
NotYetPassed ==
  \A n \in Notes :
    /\ dispatch[n] \in {"idle", "created"} => mailJob[n] = NoMail /\ item[n] = "none"
    /\ dispatch[n] # "done" => pushJob[n] = NoPush

\* What went out, and what a run without the lock may still send, was handed out; and
\* every hand-over but the first took a fault.
MailFits(job, count, errors) ==
  /\ job.pc = "none" => count + job.ghost = 0
  /\ job.pc = "waiting" => /\ count + job.ghost <= job.tries + job.stalls
                           /\ count + job.ghost <= errors
  /\ job.pc = "sent" => /\ count + job.ghost <= job.tries + job.stalls + 1
                        /\ count + job.ghost <= errors + 1
  /\ job.pc = "done" => /\ count + job.ghost <= Attempts + 1
                        /\ count + job.ghost <= 1 + errors
  /\ job.stalls = 0 => job.ghost = 0

\* How often v may still be served by a run.
One(v, devices) == IF v \in devices THEN 1 ELSE 0
PushFits(job, v, count) ==
  /\ job.pc = "none" => count + One(v, job.ghost) = 0
  /\ job.pc = "waiting" => count + One(v, job.ghost) <= job.tries + job.stalls
  /\ job.pc = "sending" =>
       count + One(v, job.ghost) + One(v, job.left) <= job.tries + job.stalls + 1
  /\ job.pc = "done" => count + One(v, job.ghost) <= Attempts + 1
  /\ job.stalls = 0 => v \notin job.ghost

MailCounted == \A n \in Notes : MailFits(mailJob[n], mailed[n], faults)
PushCounted == \A n \in Notes, v \in Devices : PushFits(pushJob[n], v, pushed[n][v])

\* As long as an item is pending, each run that collected it is still to mark it or was
\* lost to a fault; afterwards, only the runs that have read it may collect it.
Holds(k, n, pc) == digestRun[k].pc = pc /\ n \in digestRun[k].items
Holding(n, pc) == {k \in DigestRuns : Holds(k, n, pc)}

ItemsCounted ==
  \A n \in Notes :
    /\ item[n] = "none" =>
         collected[n] = 0 /\ Holding(n, "read") = {} /\ Holding(n, "queued") = {}
    /\ item[n] = "pending" => collected[n] <= Cardinality(Holding(n, "queued")) + faults
    /\ item[n] \in {"processed", "failed"} =>
         collected[n] + Cardinality(Holding(n, "read")) <= Cardinality(DigestRuns) + faults

\* Nobody but the claimant holds a device that is claimed by one account at a time.
Claims(a, v) == claim[a] = [pc |-> "checked", of |-> v]

ClaimsAlone ==
  \A v \in Devices \ overlapped :
    /\ \E a \in Accounts : owners[v] \subseteq {a}
    /\ \A a \in Accounts : Claims(a, v) =>
         owners[v] \subseteq {a} /\ \A b \in Accounts \ {a} : ~Claims(b, v)

Counts ==
  /\ mailed \in [Notes -> Nat] /\ collected \in [Notes -> Nat]
  /\ pushed \in [Notes -> [Devices -> Nat]]

NotificationsInv ==
  /\ TypeOK /\ Counts /\ NotYetPassed /\ MailCounted /\ PushCounted
  /\ ItemsCounted /\ ClaimsAlone
=============================================================================
