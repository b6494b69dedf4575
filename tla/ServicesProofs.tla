--------------------------- MODULE ServicesProofs ---------------------------
(***************************************************************************)
(* Notifications, webhooks, exports, attachments and the pace of requests   *)
(* to a provider, proved for any number of events, devices, requests, jobs, *)
(* uploads and attempts, and any size of the bucket.  They do not interact; *)
(* each part has the invariant of its module.                               *)
(*                                                                          *)
(* Notifications, by counting: what went out never exceeds the tries of the *)
(* job that sends it, and what was collected never exceeds the runs that    *)
(* still have to mark it and the faults.                                    *)
(* Webhooks: a delivery that is alone has read the count that is stored.    *)
(* Exports, by counting: a request that has counted the jobs and not yet    *)
(* created its own weighs as much as a job (Overrun), a download that holds *)
(* a place in a job's count as much as one that was delivered (Placed).     *)
(* Attachments: a clean row names an object that exists, no scan is         *)
(* forgotten, an infected file does not come back.                          *)
(* Pace: what was granted and the tokens left fit into a bucket (PacedBy).  *)
(***************************************************************************)
EXTENDS Notifications, FiniteSetTheorems, TLAPS

\* The parameters of Webhooks, Exports, Attachments and RateLimiter; a download of an
\* attachment is called a fetch here, a request to a provider a call.
CONSTANTS Events, MaxAttempts, MaxFailures
CONSTANTS MaxJobs, Requests, Downloads, Limit, MaxDownloads, MaxRestarts
CONSTANTS Uploads, Direct, Fetches, Deletions, Storage, FailOpen, OnDownload
CONSTANTS MaxReboots, MaxErrors
CONSTANTS Calls, Mailboxes, Capacity, Interval, Spacing, Adaptive, Window, MaxDelay
CONSTANTS MaxTime, MaxFails, MaxStarts

VARIABLES active, failures, delivery, streak, concurrent
VARIABLES status, artifact, count, runner, request, download, delivered, restarts
VARIABLES enabled, infected, row, objects, upload, fetch, deletion, reboots, errors
VARIABLES now, bucket, call, heap, pressed, outcomes, fails, starts, grants, calm

Hook == INSTANCE Webhooks WITH overlapped <- concurrent
Export == INSTANCE Exports
File == INSTANCE Attachments WITH
  Downloads <- Fetches, MaxRestarts <- MaxReboots, MaxFaults <- MaxErrors,
  download <- fetch, restarts <- reboots, faults <- errors
Pace == INSTANCE RateLimiter WITH
  Requests <- Calls, MaxRestarts <- MaxStarts, request <- call, restarts <- starts


(***************************************************************************)
(* Notifications                                                            *)
(***************************************************************************)
NoteKnown == NotificationsAssumption /\ NotificationsInv

NoteStages == {"idle", "created", "mail", "done"}
ItemStates == {"none", "pending", "processed", "failed"}

LEMMA NoteParts ==
  ASSUME NoteKnown
  PROVE  /\ quiet \in BOOLEAN /\ dispatch \in [Notes -> NoteStages]
         /\ mailJob \in [Notes -> MailJob]
         /\ pushJob \in [Notes -> PushJob]
         /\ item \in [Notes -> ItemStates] /\ closed \subseteq Notes
         /\ digestRun \in [DigestRuns -> {Idle} \cup Group]
         /\ digestMails \in Seq(SUBSET Notes)
         /\ owners \in [Devices -> SUBSET Accounts]
         /\ claim \in [Accounts -> {Idle} \cup Request]
         /\ faults \in 0..MaxFaults /\ overlapped \subseteq Devices
         /\ mailed \in [Notes -> Nat] /\ collected \in [Notes -> Nat]
         /\ pushed \in [Notes -> [Devices -> Nat]]
         /\ NotYetPassed /\ MailCounted /\ PushCounted /\ ItemsCounted /\ ClaimsAlone
         /\ Attempts \in Nat \ {0} /\ MaxFaults \in Nat /\ IsFiniteSet(DigestRuns)
         /\ Me \in Accounts
PROOF
  BY DEF NoteKnown, NotificationsInv, NotificationsAssumption, TypeOK, Counts, NoteStages,
         ItemStates

LEMMA NoteTyped ==
  ASSUME quiet' \in BOOLEAN, dispatch' \in [Notes -> NoteStages],
         mailJob' \in [Notes -> MailJob],
         pushJob' \in [Notes -> PushJob],
         item' \in [Notes -> ItemStates], closed' \subseteq Notes,
         digestRun' \in [DigestRuns -> {Idle} \cup Group],
         digestMails' \in Seq(SUBSET Notes),
         owners' \in [Devices -> SUBSET Accounts],
         claim' \in [Accounts -> {Idle} \cup Request],
         faults' \in 0..MaxFaults, overlapped' \subseteq Devices
  PROVE  TypeOK'
PROOF BY Zenon DEF TypeOK, NoteStages, ItemStates

(***************************************************************************)
(* The records                                                              *)
(***************************************************************************)
LEMMA MailJobFacts ==
  ASSUME NEW x \in MailJob
  PROVE  /\ x.pc \in {"none", "waiting", "sent", "done"} /\ x.tries \in 0..(Attempts - 1)
         /\ x.stalls \in {0, 1} /\ x.ghost \in {0, 1}
         /\ x = NoMail => x.pc = "none"
PROOF BY DEF NoMail, MailJob

LEMMA PushJobFacts ==
  ASSUME NEW x \in PushJob
  PROVE  /\ x.pc \in {"none", "waiting", "sending", "done"} /\ x.tries \in 0..(Attempts - 1)
         /\ x.stalls \in {0, 1} /\ x.left \subseteq Devices /\ x.ghost \subseteq Devices
         /\ x = NoPush => x.pc = "none"
PROOF BY DEF NoPush, PushJob

LEMMA MailJobMade ==
  ASSUME NEW pc \in {"none", "waiting", "sent", "done"}, NEW tries \in 0..(Attempts - 1),
         NEW stalls \in {0, 1}, NEW ghost \in {0, 1}
  PROVE  [pc |-> pc, tries |-> tries, stalls |-> stalls, ghost |-> ghost] \in MailJob
PROOF BY DEF MailJob

LEMMA PushJobMade ==
  ASSUME NEW pc \in {"none", "waiting", "sending", "done"}, NEW tries \in 0..(Attempts - 1),
         NEW stalls \in {0, 1}, NEW left \in SUBSET Devices, NEW ghost \in SUBSET Devices
  PROVE  [pc |-> pc, tries |-> tries, stalls |-> stalls, left |-> left, ghost |-> ghost]
           \in PushJob
PROOF BY DEF PushJob

\* Their fields, one by one.
LEMMA MailJobIs ==
  ASSUME NEW x \in MailJob
  PROVE  x = [pc |-> x.pc, tries |-> x.tries, stalls |-> x.stalls, ghost |-> x.ghost]
PROOF BY DEF MailJob

LEMMA PushJobIs ==
  ASSUME NEW x \in PushJob
  PROVE  x = [pc |-> x.pc, tries |-> x.tries, stalls |-> x.stalls, left |-> x.left,
              ghost |-> x.ghost]
PROOF BY DEF PushJob

\* A further attempt has one try more; without attempts left the job is over.  A job that
\* is handed out again stays at its try.
LEMMA MailJobChanges ==
  ASSUME Attempts \in Nat \ {0}, NEW x \in MailJob, NEW g \in {0, 1}
  PROVE  /\ Again(x) \in MailJob /\ Again(x).stalls = x.stalls /\ Again(x).ghost = x.ghost
         /\ \/ Again(x).pc = "done" /\ x.tries + 1 = Attempts
            \/ Again(x).pc = "waiting" /\ Again(x).tries = x.tries + 1
         /\ /\ Ended(x) \in MailJob /\ Ended(x).pc = "done"
            /\ Ended(x).stalls = x.stalls /\ Ended(x).ghost = x.ghost
         /\ /\ HandedOut(x, g) \in MailJob /\ HandedOut(x, g).pc = "waiting"
            /\ HandedOut(x, g).tries = x.tries /\ HandedOut(x, g).stalls = 1
            /\ HandedOut(x, g).ghost = g
         /\ /\ LastRun(x) \in MailJob /\ LastRun(x).pc = x.pc
            /\ LastRun(x).tries = Attempts - 1
            /\ LastRun(x).stalls = x.stalls /\ LastRun(x).ghost = x.ghost
PROOF
<1>1. PICK pc \in {"none", "waiting", "sent", "done"}, t \in 0..(Attempts - 1),
           st \in {0, 1}, gh \in {0, 1} :
        pc = x.pc /\ t = x.tries /\ st = x.stalls /\ gh = x.ghost
  BY MailJobFacts
<1>2. x = [pc |-> pc, tries |-> t, stalls |-> st, ghost |-> gh]  BY <1>1, MailJobIs
<1>3. /\ Ended(x) = [pc |-> "done", tries |-> t, stalls |-> st, ghost |-> gh]
      /\ HandedOut(x, g) = [pc |-> "waiting", tries |-> t, stalls |-> 1, ghost |-> g]
      /\ LastRun(x) = [pc |-> pc, tries |-> Attempts - 1, stalls |-> st, ghost |-> gh]
  <2>1. Ended(x) = [pc |-> "done", tries |-> t, stalls |-> st, ghost |-> gh]
    BY <1>2 DEF Ended
  <2>2. HandedOut(x, g) = [pc |-> "waiting", tries |-> t, stalls |-> 1, ghost |-> g]
    <3>1. PICK y : y = [x EXCEPT !.pc = "waiting"]  OBVIOUS
    <3>2. PICK z : z = [y EXCEPT !.stalls = 1]  OBVIOUS
    <3>3. HandedOut(x, g) = [z EXCEPT !.ghost = g]  BY <3>1, <3>2 DEF HandedOut
    <3>4. y = [pc |-> "waiting", tries |-> t, stalls |-> st, ghost |-> gh]
      BY <1>2, <3>1
    <3>5. z = [pc |-> "waiting", tries |-> t, stalls |-> 1, ghost |-> gh]
      BY <3>2, <3>4
    <3>6. QED  BY <3>3, <3>5
  <2>3. LastRun(x) = [pc |-> pc, tries |-> Attempts - 1, stalls |-> st, ghost |-> gh]
    BY <1>2 DEF LastRun
  <2>4. QED  BY <2>1, <2>2, <2>3
<1>4. Attempts - 1 \in 0..(Attempts - 1)  OBVIOUS
<1>5. /\ Ended(x) \in MailJob /\ HandedOut(x, g) \in MailJob /\ LastRun(x) \in MailJob
  BY <1>3, <1>4, MailJobMade
<1>6. CASE t + 1 < Attempts
  <2>1. Again(x) = [pc |-> "waiting", tries |-> t + 1, stalls |-> st, ghost |-> gh]
    BY <1>2, <1>6 DEF Again
  <2>2. t + 1 \in 0..(Attempts - 1)  BY <1>6
  <2>3. Again(x) \in MailJob  BY <2>1, <2>2, MailJobMade
  <2>4. QED  BY <1>1, <1>3, <1>5, <2>1, <2>3
<1>7. CASE ~(t + 1 < Attempts)
  <2>1. Again(x) = Ended(x)  BY <1>2, <1>7 DEF Again
  <2>2. t + 1 = Attempts  BY <1>7
  <2>3. QED  BY <1>1, <1>3, <1>5, <2>1, <2>2
<1>8. QED  BY <1>6, <1>7

LEMMA PushJobChanges ==
  ASSUME Attempts \in Nat \ {0}, NEW x \in PushJob, NEW g \in SUBSET Devices
  PROVE  /\ Again(x) \in PushJob /\ Again(x).stalls = x.stalls /\ Again(x).ghost = x.ghost
         /\ \/ Again(x).pc = "done" /\ x.tries + 1 = Attempts
            \/ Again(x).pc = "waiting" /\ Again(x).tries = x.tries + 1
         /\ /\ Ended(x) \in PushJob /\ Ended(x).pc = "done"
            /\ Ended(x).stalls = x.stalls /\ Ended(x).ghost = x.ghost
         /\ /\ HandedOut(x, g) \in PushJob /\ HandedOut(x, g).pc = "waiting"
            /\ HandedOut(x, g).tries = x.tries /\ HandedOut(x, g).stalls = 1
            /\ HandedOut(x, g).ghost = g
         /\ /\ LastRun(x) \in PushJob /\ LastRun(x).pc = x.pc
            /\ LastRun(x).tries = Attempts - 1 /\ LastRun(x).left = x.left
            /\ LastRun(x).stalls = x.stalls /\ LastRun(x).ghost = x.ghost
PROOF
<1>1. PICK pc \in {"none", "waiting", "sending", "done"}, t \in 0..(Attempts - 1),
           st \in {0, 1}, le \in SUBSET Devices, gh \in SUBSET Devices :
        pc = x.pc /\ t = x.tries /\ st = x.stalls /\ le = x.left /\ gh = x.ghost
  BY PushJobFacts
<1>2. x = [pc |-> pc, tries |-> t, stalls |-> st, left |-> le, ghost |-> gh]
  BY <1>1, PushJobIs
<1>3. /\ Ended(x) = [pc |-> "done", tries |-> t, stalls |-> st, left |-> le, ghost |-> gh]
      /\ HandedOut(x, g) =
           [pc |-> "waiting", tries |-> t, stalls |-> 1, left |-> le, ghost |-> g]
      /\ LastRun(x) =
           [pc |-> pc, tries |-> Attempts - 1, stalls |-> st, left |-> le, ghost |-> gh]
  <2>1. Ended(x) = [pc |-> "done", tries |-> t, stalls |-> st, left |-> le, ghost |-> gh]
    BY <1>2 DEF Ended
  <2>2. HandedOut(x, g) =
          [pc |-> "waiting", tries |-> t, stalls |-> 1, left |-> le, ghost |-> g]
    <3>1. PICK y : y = [x EXCEPT !.pc = "waiting"]  OBVIOUS
    <3>2. PICK z : z = [y EXCEPT !.stalls = 1]  OBVIOUS
    <3>3. HandedOut(x, g) = [z EXCEPT !.ghost = g]  BY <3>1, <3>2 DEF HandedOut
    <3>4. y = [pc |-> "waiting", tries |-> t, stalls |-> st, left |-> le, ghost |-> gh]
      BY <1>2, <3>1
    <3>5. z = [pc |-> "waiting", tries |-> t, stalls |-> 1, left |-> le, ghost |-> gh]
      BY <3>2, <3>4
    <3>6. QED  BY <3>3, <3>5
  <2>3. LastRun(x) =
          [pc |-> pc, tries |-> Attempts - 1, stalls |-> st, left |-> le, ghost |-> gh]
    BY <1>2 DEF LastRun
  <2>4. QED  BY <2>1, <2>2, <2>3
<1>4. Attempts - 1 \in 0..(Attempts - 1)  OBVIOUS
<1>5. /\ Ended(x) \in PushJob /\ HandedOut(x, g) \in PushJob /\ LastRun(x) \in PushJob
  <2>1. Ended(x) \in PushJob
    <3>1. Ended(x) = [pc |-> "done", tries |-> t, stalls |-> st, left |-> le, ghost |-> gh]
      BY <1>3
    <3>2. QED  BY <3>1, PushJobMade
  <2>2. HandedOut(x, g) \in PushJob
    <3>1. HandedOut(x, g) =
            [pc |-> "waiting", tries |-> t, stalls |-> 1, left |-> le, ghost |-> g]
      BY <1>3
    <3>2. QED  BY <3>1, PushJobMade
  <2>3. LastRun(x) \in PushJob  BY <1>3, <1>4, PushJobMade
  <2>4. QED  BY <2>1, <2>2, <2>3
<1>6. CASE t + 1 < Attempts
  <2>1. Again(x) =
          [pc |-> "waiting", tries |-> t + 1, stalls |-> st, left |-> le, ghost |-> gh]
    BY <1>2, <1>6 DEF Again
  <2>2. t + 1 \in 0..(Attempts - 1)  BY <1>6
  <2>3. Again(x) \in PushJob  BY <2>1, <2>2, PushJobMade
  <2>4. QED  BY <1>1, <1>3, <1>5, <2>1, <2>3
<1>7. CASE ~(t + 1 < Attempts)
  <2>1. Again(x) = Ended(x)  BY <1>2, <1>7 DEF Again
  <2>2. t + 1 = Attempts  BY <1>7
  <2>3. QED  BY <1>1, <1>3, <1>5, <2>1, <2>2
<1>8. QED  BY <1>6, <1>7

LEMMA GroupFacts ==
  ASSUME NEW x \in {Idle} \cup Group
  PROVE  /\ x.pc \in {"idle", "read", "queued"}
         /\ x.pc # "idle" => x.items \subseteq Notes
         /\ x = Idle => x.pc = "idle"
PROOF BY DEF Idle, Group

LEMMA GroupMade ==
  ASSUME NEW items \in SUBSET Notes, NEW pc \in {"read", "queued"}
  PROVE  [pc |-> pc, items |-> items] \in Group
PROOF BY DEF Group

LEMMA RequestFacts ==
  ASSUME NEW x \in {Idle} \cup Request
  PROVE  x.pc = "checked" =>
           /\ x.of \in Devices /\ x # Idle
           /\ \A v \in Devices : x = [pc |-> "checked", of |-> v] <=> x.of = v
PROOF BY DEF Idle, Request

LEMMA RequestMade ==
  ASSUME NEW v \in Devices
  PROVE  /\ [pc |-> "checked", of |-> v] \in Request /\ [pc |-> "checked", of |-> v] # Idle
         /\ \A w \in Devices :
              [pc |-> "checked", of |-> v] = [pc |-> "checked", of |-> w] <=> v = w
PROOF
<1>1. /\ [pc |-> "checked", of |-> v] \in Request /\ [pc |-> "checked", of |-> v] # Idle
  BY DEF Idle, Request
<1>2. [pc |-> "checked", of |-> v].of = v  OBVIOUS
<1>3. \A w : [pc |-> "checked", of |-> w].of = w  OBVIOUS
<1>4. QED  BY <1>1, <1>2, <1>3

(***************************************************************************)
(* What keeps each part of the invariant                                    *)
(***************************************************************************)
LEMMA NotYetKept ==
  ASSUME NoteKnown, UNCHANGED <<dispatch, mailJob, pushJob, item>>
  PROVE  NotYetPassed'
PROOF BY NoteParts DEF NotYetPassed

\* A job that accounted for the mails still does after another fault.
LEMMA FitsLater ==
  ASSUME Attempts \in Nat \ {0}, NEW f \in Nat, NEW g \in Nat, f <= g,
         NEW x \in MailJob, NEW c \in Nat, MailFits(x, c, f)
  PROVE  MailFits(x, c, g)
PROOF
<1>1. x.tries \in Nat /\ x.stalls \in Nat /\ x.ghost \in Nat  BY MailJobFacts
<1>2. QED  BY <1>1 DEF MailFits

LEMMA MailKept ==
  ASSUME NoteKnown, UNCHANGED <<mailJob, mailed>>, faults' \in 0..MaxFaults,
         faults' >= faults
  PROVE  MailCounted'
PROOF
<1>1. SUFFICES ASSUME NEW n \in Notes PROVE MailFits(mailJob[n], mailed[n], faults')
  BY DEF MailCounted
<1>2. /\ mailJob[n] \in MailJob /\ mailed[n] \in Nat
      /\ MailFits(mailJob[n], mailed[n], faults) /\ Attempts \in Nat \ {0}
  BY NoteParts DEF MailCounted
<1>3. faults \in Nat /\ faults' \in Nat /\ faults <= faults'  BY NoteParts
<1>4. QED  BY <1>2, <1>3, FitsLater

LEMMA PushKept ==
  ASSUME NoteKnown, UNCHANGED <<pushJob, pushed>>
  PROVE  PushCounted'
PROOF BY NoteParts, Zenon DEF PushCounted, PushFits

LEMMA ClaimsKept ==
  ASSUME NoteKnown, UNCHANGED <<claim, overlapped>>,
         \A v \in Devices : owners'[v] \subseteq owners[v]
  PROVE  ClaimsAlone'
PROOF
<1>1. SUFFICES ASSUME NEW v \in Devices \ overlapped
      PROVE  /\ \E a \in Accounts : owners'[v] \subseteq {a}
             /\ \A a \in Accounts : Claims(a, v) =>
                  owners'[v] \subseteq {a} /\ \A b \in Accounts \ {a} : ~Claims(b, v)
  BY DEF ClaimsAlone, Claims
<1>2. QED  BY <1>1, NoteParts DEF ClaimsAlone

LEMMA HoldFacts ==
  ASSUME NoteKnown, NEW n \in Notes
  PROVE  /\ IsFiniteSet(Holding(n, "read")) /\ IsFiniteSet(Holding(n, "queued"))
         /\ Cardinality(Holding(n, "read")) \in Nat
         /\ Cardinality(Holding(n, "queued")) \in Nat
         /\ Cardinality(DigestRuns) \in Nat
         /\ Cardinality(Holding(n, "read")) + Cardinality(Holding(n, "queued"))
              <= Cardinality(DigestRuns)
PROOF
<1> DEFINE R == Holding(n, "read")
           Q == Holding(n, "queued")
<1>1. IsFiniteSet(DigestRuns)  BY NoteParts
<1>2. R \subseteq DigestRuns /\ Q \subseteq DigestRuns /\ R \cap Q = {}
  BY DEF Holding, Holds
<1> HIDE DEF R, Q
<1>3. IsFiniteSet(R) /\ IsFiniteSet(Q)  BY <1>1, <1>2, FS_Subset
<1>4. /\ IsFiniteSet(R \cup Q)
      /\ Cardinality(R \cup Q) = Cardinality(R) + Cardinality(Q) - Cardinality(R \cap Q)
  BY <1>3, FS_Union
<1>5. Cardinality(R \cap Q) = 0  BY <1>2, FS_EmptySet
<1>6. Cardinality(R \cup Q) <= Cardinality(DigestRuns)
  <2>1. R \cup Q \in SUBSET DigestRuns  BY <1>2
  <2>2. QED  BY <1>1, <2>1, FS_Subset
<1>7. /\ Cardinality(R) \in Nat /\ Cardinality(Q) \in Nat
      /\ Cardinality(DigestRuns) \in Nat
  BY <1>1, <1>3, FS_CardinalityType
<1>8. Cardinality(R) + Cardinality(Q) <= Cardinality(DigestRuns)
  BY <1>4, <1>5, <1>6, <1>7
<1>9. QED  BY <1>3, <1>7, <1>8 DEF R, Q

LEMMA ItemsKept ==
  ASSUME NoteKnown, UNCHANGED <<digestRun, collected>>, faults' \in 0..MaxFaults,
         faults' >= faults,
         \A n \in Notes :
           item'[n] = item[n] \/ (item[n] = "none" /\ item'[n] = "pending")
  PROVE  ItemsCounted'
PROOF
<1>1. SUFFICES ASSUME NEW n \in Notes
      PROVE  /\ item'[n] = "none" => collected[n] = 0 /\ Holding(n, "read") = {}
                                     /\ Holding(n, "queued") = {}
             /\ item'[n] = "pending" =>
                  collected[n] <= Cardinality(Holding(n, "queued")) + faults'
             /\ item'[n] \in {"processed", "failed"} =>
                  collected[n] + Cardinality(Holding(n, "read"))
                    <= Cardinality(DigestRuns) + faults'
  BY DEF ItemsCounted, Holding, Holds
<1>2. /\ collected[n] \in Nat /\ faults \in 0..MaxFaults /\ MaxFaults \in Nat
  BY NoteParts
<1>3. /\ item[n] = "none" => collected[n] = 0 /\ Holding(n, "read") = {}
                             /\ Holding(n, "queued") = {}
      /\ item[n] = "pending" =>
           collected[n] <= Cardinality(Holding(n, "queued")) + faults
      /\ item[n] \in {"processed", "failed"} =>
           collected[n] + Cardinality(Holding(n, "read")) <= Cardinality(DigestRuns) + faults
  BY NoteParts DEF ItemsCounted
<1>4. /\ Cardinality(Holding(n, "read")) \in Nat /\ Cardinality(Holding(n, "queued")) \in Nat
      /\ Cardinality(DigestRuns) \in Nat
  BY HoldFacts
<1>5. CASE item'[n] = item[n]  BY <1>2, <1>3, <1>4, <1>5
<1>6. CASE item[n] = "none" /\ item'[n] = "pending"  BY <1>2, <1>3, <1>4, <1>6
<1>7. QED  BY <1>5, <1>6

LEMMA NotYetStays ==
  ASSUME NoteKnown, UNCHANGED dispatch,
         \A n \in Notes : /\ mailJob[n] = NoMail => mailJob'[n] = NoMail
                          /\ pushJob[n] = NoPush => pushJob'[n] = NoPush
                          /\ item[n] = "none" => item'[n] = "none"
  PROVE  NotYetPassed'
PROOF BY NoteParts DEF NotYetPassed

\* A job goes on, with what it has sent.
LEMMA MailMoves ==
  ASSUME NoteKnown, NEW n \in Notes, NEW y \in MailJob, NEW c \in Nat,
         mailJob' = [mailJob EXCEPT ![n] = y], mailed' = [mailed EXCEPT ![n] = c],
         faults' \in 0..MaxFaults, faults' >= faults, MailFits(y, c, faults')
  PROVE  /\ mailJob' \in [Notes -> MailJob]
         /\ mailed' \in [Notes -> Nat] /\ MailCounted'
         /\ mailJob'[n] = y /\ \A o \in Notes \ {n} : mailJob'[o] = mailJob[o]
PROOF
<1>1. /\ mailJob \in [Notes -> MailJob] /\ mailed \in [Notes -> Nat]
      /\ Attempts \in Nat \ {0} /\ faults \in Nat /\ faults' \in Nat /\ faults <= faults'
  BY NoteParts
<1>2. mailJob' \in [Notes -> MailJob]  BY <1>1
<1>3. mailed' \in [Notes -> Nat]  BY <1>1
<1>4. /\ mailJob'[n] = y /\ mailed'[n] = c
      /\ \A o \in Notes \ {n} : mailJob'[o] = mailJob[o] /\ mailed'[o] = mailed[o]
  BY <1>1
<1>5. ASSUME NEW o \in Notes PROVE MailFits(mailJob'[o], mailed'[o], faults')
  <2>1. CASE o = n  BY <1>4, <2>1
  <2>2. CASE o # n
    <3>1. /\ mailJob[o] \in MailJob /\ mailed[o] \in Nat
          /\ MailFits(mailJob[o], mailed[o], faults)
      BY NoteParts DEF MailCounted
    <3>2. MailFits(mailJob[o], mailed[o], faults')  BY <1>1, <3>1, FitsLater
    <3>3. QED  BY <1>4, <2>2, <3>2
  <2>3. QED  BY <2>1, <2>2
<1>6. QED  BY <1>2, <1>3, <1>4, <1>5 DEF MailCounted

LEMMA PushMoves ==
  ASSUME NoteKnown, NEW n \in Notes, NEW y \in PushJob,
         NEW p \in [Devices -> Nat],
         pushJob' = [pushJob EXCEPT ![n] = y], pushed' = [pushed EXCEPT ![n] = p],
         \A v \in Devices : PushFits(y, v, p[v])
  PROVE  /\ pushJob' \in [Notes -> PushJob]
         /\ pushed' \in [Notes -> [Devices -> Nat]] /\ PushCounted'
         /\ pushJob'[n] = y /\ \A o \in Notes \ {n} : pushJob'[o] = pushJob[o]
PROOF
<1>1. /\ pushJob \in [Notes -> PushJob]
      /\ pushed \in [Notes -> [Devices -> Nat]]
  BY NoteParts
<1>2. pushJob' \in [Notes -> PushJob]  BY <1>1
<1>3. pushed' \in [Notes -> [Devices -> Nat]]  BY <1>1
<1>4. /\ pushJob'[n] = y /\ pushed'[n] = p
      /\ \A o \in Notes \ {n} : pushJob'[o] = pushJob[o] /\ pushed'[o] = pushed[o]
  BY <1>1
<1>5. ASSUME NEW o \in Notes, NEW v \in Devices
      PROVE  PushFits(pushJob'[o], v, pushed'[o][v])
  <2>1. CASE o = n  BY <1>4, <2>1
  <2>2. CASE o # n  BY <1>4, <2>2, NoteParts DEF PushCounted
  <2>3. QED  BY <2>1, <2>2
<1>6. PushCounted'  BY <1>5 DEF PushCounted, PushFits
<1>7. QED  BY <1>2, <1>3, <1>4, <1>6

\* Anything but the digest runs and the registrations moves.
LEMMA SendingKeeps ==
  ASSUME NoteKnown, UNCHANGED <<digestRun, collected, claim, overlapped>>,
         quiet' \in BOOLEAN, dispatch' \in [Notes -> NoteStages],
         mailJob' \in [Notes -> MailJob],
         pushJob' \in [Notes -> PushJob],
         item' \in [Notes -> ItemStates], closed' \subseteq Notes,
         digestMails' \in Seq(SUBSET Notes),
         owners' \in [Devices -> SUBSET Accounts],
         \A v \in Devices : owners'[v] \subseteq owners[v],
         faults' \in 0..MaxFaults, faults' >= faults,
         mailed' \in [Notes -> Nat], pushed' \in [Notes -> [Devices -> Nat]],
         \A n \in Notes : item'[n] = item[n] \/ (item[n] = "none" /\ item'[n] = "pending"),
         NotYetPassed', MailCounted', PushCounted'
  PROVE  NotificationsInv'
PROOF
<1>1. /\ digestRun' \in [DigestRuns -> {Idle} \cup Group] /\ collected' \in [Notes -> Nat]
      /\ claim' \in [Accounts -> {Idle} \cup Request] /\ overlapped' \subseteq Devices
  BY NoteParts
<1>2. TypeOK'  BY <1>1, NoteTyped
<1>3. Counts'  BY <1>1 DEF Counts
<1>4. ItemsCounted'  BY ItemsKept
<1>5. ClaimsAlone'  BY ClaimsKept
<1>6. QED  BY <1>2, <1>3, <1>4, <1>5 DEF NotificationsInv

\* The digest runs and their items move.
LEMMA DigestKeeps ==
  ASSUME NoteKnown,
         UNCHANGED <<quiet, dispatch, mailJob, pushJob, closed, owners, claim, overlapped,
                     mailed, pushed>>,
         item' \in [Notes -> ItemStates], digestRun' \in [DigestRuns -> {Idle} \cup Group],
         digestMails' \in Seq(SUBSET Notes), collected' \in [Notes -> Nat],
         faults' \in 0..MaxFaults, faults' >= faults,
         \A n \in Notes : item[n] = "none" => item'[n] = "none",
         ItemsCounted'
  PROVE  NotificationsInv'
PROOF
<1>1. /\ quiet' \in BOOLEAN /\ dispatch' \in [Notes -> NoteStages]
      /\ mailJob' \in [Notes -> MailJob]
      /\ pushJob' \in [Notes -> PushJob]
      /\ closed' \subseteq Notes /\ owners' \in [Devices -> SUBSET Accounts]
      /\ claim' \in [Accounts -> {Idle} \cup Request] /\ overlapped' \subseteq Devices
      /\ mailed' \in [Notes -> Nat] /\ pushed' \in [Notes -> [Devices -> Nat]]
  BY NoteParts
<1>2. TypeOK'  BY <1>1, NoteTyped
<1>3. Counts'  BY <1>1 DEF Counts
<1>4. NotYetPassed'  BY NotYetStays
<1>5. MailCounted' /\ PushCounted'  BY MailKept, PushKept
<1>6. ClaimsAlone'  BY ClaimsKept
<1>7. QED  BY <1>2, <1>3, <1>4, <1>5, <1>6 DEF NotificationsInv

\* The registrations move.
LEMMA RegistrationKeeps ==
  ASSUME NoteKnown,
         UNCHANGED <<quiet, dispatch, mailJob, pushJob, item, closed, digestRun, digestMails,
                     faults, mailed, pushed, collected>>,
         owners' \in [Devices -> SUBSET Accounts],
         claim' \in [Accounts -> {Idle} \cup Request], overlapped' \subseteq Devices,
         ClaimsAlone'
  PROVE  NotificationsInv'
PROOF
<1>1. /\ quiet' \in BOOLEAN /\ dispatch' \in [Notes -> NoteStages]
      /\ mailJob' \in [Notes -> MailJob]
      /\ pushJob' \in [Notes -> PushJob]
      /\ item' \in [Notes -> ItemStates] /\ closed' \subseteq Notes
      /\ digestRun' \in [DigestRuns -> {Idle} \cup Group]
      /\ digestMails' \in Seq(SUBSET Notes) /\ faults' \in 0..MaxFaults
      /\ mailed' \in [Notes -> Nat] /\ pushed' \in [Notes -> [Devices -> Nat]]
      /\ collected' \in [Notes -> Nat]
  BY NoteParts
<1>2. faults' >= faults  BY NoteParts
<1>3. TypeOK'  BY <1>1, NoteTyped
<1>4. Counts'  BY <1>1 DEF Counts
<1>5. NotYetPassed'  BY NotYetStays
<1>6. MailCounted'  BY <1>1, <1>2, MailKept
<1>7. PushCounted'  BY PushKept
<1>8. ItemsCounted'  BY <1>1, <1>2, ItemsKept
<1>9. QED  BY <1>3, <1>4, <1>5, <1>6, <1>7, <1>8 DEF NotificationsInv

LEMMA FaultFacts ==
  ASSUME NoteKnown, Fault \/ faults' = faults
  PROVE  /\ faults' \in 0..MaxFaults /\ faults' >= faults
         /\ Fault => faults' = faults + 1
PROOF
<1>1. faults \in 0..MaxFaults /\ MaxFaults \in Nat  BY NoteParts
<1>2. QED  BY <1>1 DEF Fault

(***************************************************************************)
(* Steps of a notification                                                  *)
(***************************************************************************)
\* What a step of a request, a job or the clock leaves alone.
LEMMA Same ==
  ASSUME NoteKnown
  PROVE  /\ UNCHANGED dispatch => dispatch' \in [Notes -> NoteStages]
         /\ UNCHANGED mailJob => mailJob' \in [Notes -> MailJob]
         /\ UNCHANGED pushJob =>
              pushJob' \in [Notes -> PushJob]
         /\ UNCHANGED item => item' \in [Notes -> ItemStates]
         /\ UNCHANGED digestMails => digestMails' \in Seq(SUBSET Notes)
         /\ UNCHANGED owners => owners' \in [Devices -> SUBSET Accounts]
         /\ UNCHANGED quiet => quiet' \in BOOLEAN
         /\ UNCHANGED closed => closed' \subseteq Notes
         /\ UNCHANGED mailed => mailed' \in [Notes -> Nat]
         /\ UNCHANGED pushed => pushed' \in [Notes -> [Devices -> Nat]]
PROOF BY NoteParts

LEMMA QuietStep == ASSUME NoteKnown, QuietHours PROVE NotificationsInv'
PROOF
<1>1. /\ UNCHANGED <<dispatch, mailJob, pushJob, digestMails, item, closed, digestRun>>
      /\ UNCHANGED <<owners, claim, overlapped, faults, mailed, pushed, collected>>
  BY DEF QuietHours, queues, digest, push, history
<1>2. quiet' \in BOOLEAN  BY DEF QuietHours
<1>3. faults' \in 0..MaxFaults /\ faults' >= faults  BY <1>1, FaultFacts
<1>4. NotYetPassed' /\ PushCounted'  BY <1>1, NotYetStays, PushKept
<1>5. MailCounted'  BY <1>1, <1>3, MailKept
<1>6. QED  BY <1>1, <1>2, <1>3, <1>4, <1>5, Same, SendingKeeps

LEMMA CreateNoteStep == ASSUME NoteKnown, NEW n \in Notes, Create(n) PROVE NotificationsInv'
PROOF
<1>1. /\ UNCHANGED <<quiet, mailJob, pushJob, digestMails, item, closed, digestRun>>
      /\ UNCHANGED <<owners, claim, overlapped, faults, mailed, pushed, collected>>
  BY DEF Create, queues, digest, push, history
<1>2. dispatch \in [Notes -> NoteStages] /\ dispatch[n] = "idle"
  BY NoteParts DEF Create
<1>3. dispatch' = [dispatch EXCEPT ![n] = "created"]  BY DEF Create, Go
<1>4. dispatch' \in [Notes -> NoteStages]  BY <1>2, <1>3 DEF NoteStages
<1>5. NotYetPassed'  BY <1>1, <1>2, <1>3, NoteParts DEF NotYetPassed
<1>6. faults' \in 0..MaxFaults /\ faults' >= faults  BY <1>1, FaultFacts
<1>7. PushCounted'  BY <1>1, PushKept
<1>8. MailCounted'  BY <1>1, <1>6, MailKept
<1>9. QED  BY <1>1, <1>4, <1>5, <1>6, <1>7, <1>8, Same, SendingKeeps

LEMMA NewJobFacts ==
  ASSUME NoteKnown
  PROVE  /\ NoMail \in MailJob /\ NewMail \in MailJob
         /\ NoPush \in PushJob /\ NewPush \in PushJob
         /\ \A c : MailFits(NoMail, c, faults) /\ c \in Nat => c = 0
         /\ MailFits(NoMail, 0, faults) /\ MailFits(NewMail, 0, faults)
         /\ \A v \in Devices : /\ \A c \in Nat : PushFits(NoPush, v, c) => c = 0
                               /\ PushFits(NoPush, v, 0) /\ PushFits(NewPush, v, 0)
PROOF
<1>1. 0 \in 0..(Attempts - 1) /\ {} \in SUBSET Devices /\ faults \in Nat  BY NoteParts
<1>2. /\ NoMail \in MailJob /\ NewMail \in MailJob
      /\ NoPush \in PushJob /\ NewPush \in PushJob
  BY <1>1, MailJobMade, PushJobMade DEF NoMail, NewMail, NoPush, NewPush
<1>3. /\ NoMail.pc = "none" /\ NoMail.stalls = 0 /\ NoMail.ghost = 0
      /\ NewMail.pc = "waiting" /\ NewMail.tries = 0
      /\ NewMail.stalls = 0 /\ NewMail.ghost = 0
  BY DEF NoMail, NewMail
<1>4. /\ NoPush.pc = "none" /\ NoPush.stalls = 0 /\ NoPush.ghost = {}
      /\ NewPush.pc = "waiting" /\ NewPush.tries = 0
      /\ NewPush.stalls = 0 /\ NewPush.ghost = {}
  BY DEF NoPush, NewPush
<1>5. /\ MailFits(NoMail, 0, faults) /\ MailFits(NewMail, 0, faults)
      /\ \A c : MailFits(NoMail, c, faults) /\ c \in Nat => c = 0
  BY <1>1, <1>3 DEF MailFits
<1>6. \A v \in Devices : /\ \A c \in Nat : PushFits(NoPush, v, c) => c = 0
                         /\ PushFits(NoPush, v, 0) /\ PushFits(NewPush, v, 0)
  BY <1>4 DEF PushFits, One
<1>7. QED  BY <1>2, <1>5, <1>6

LEMMA PassMailStep == ASSUME NoteKnown, NEW n \in Notes, PassMail(n) PROVE NotificationsInv'
PROOF
<1>1. /\ UNCHANGED <<quiet, pushJob, digestMails, closed, digestRun>>
      /\ UNCHANGED <<owners, claim, overlapped, faults, mailed, pushed, collected>>
  BY DEF PassMail, push, history
<1>2. dispatch \in [Notes -> NoteStages] /\ dispatch[n] = "created"
  BY NoteParts DEF PassMail
<1>3. dispatch' = [dispatch EXCEPT ![n] = "mail"]  BY DEF PassMail, Go
<1>4. dispatch' \in [Notes -> NoteStages]  BY <1>2, <1>3 DEF NoteStages
<1>5. mailJob[n] = NoMail /\ item[n] = "none" /\ mailed[n] = 0
  <2>1. mailJob[n] = NoMail /\ item[n] = "none"  BY <1>2, NoteParts DEF NotYetPassed
  <2>2. MailFits(NoMail, mailed[n], faults) /\ mailed[n] \in Nat
    BY <2>1, NoteParts DEF MailCounted
  <2>3. QED  BY <2>1, <2>2, NewJobFacts
<1>6. faults' \in 0..MaxFaults /\ faults' >= faults  BY <1>1, FaultFacts
<1>7. PushCounted'  BY <1>1, PushKept
<1>8. \A o \in Notes : dispatch'[o] \in {"idle", "created"} => o # n /\ dispatch[o] = dispatch'[o]
  BY <1>2, <1>3
<1>9. \A o \in Notes : dispatch'[o] # "done" => dispatch[o] # "done"  BY <1>2, <1>3
<1>10. CASE n \in Digested
  <2>1. item' = [item EXCEPT ![n] = "pending"] /\ UNCHANGED mailJob
    BY <1>10 DEF PassMail
  <2>2. item \in [Notes -> ItemStates]  BY NoteParts
  <2>3. item' \in [Notes -> ItemStates]  BY <2>1, <2>2 DEF ItemStates
  <2>4. /\ item'[n] = "pending" /\ \A o \in Notes \ {n} : item'[o] = item[o]
    BY <2>1, <2>2
  <2>5. MailCounted'  BY <1>1, <1>6, <2>1, MailKept
  <2>6. NotYetPassed'
    BY <1>1, <1>8, <1>9, <2>1, <2>4, NoteParts DEF NotYetPassed
  <2>7. \A o \in Notes : item'[o] = item[o] \/ (item[o] = "none" /\ item'[o] = "pending")
    BY <1>5, <2>4
  <2>8. QED  BY <1>1, <1>4, <1>6, <1>7, <2>1, <2>3, <2>5, <2>6, <2>7, Same, SendingKeeps
<1>11. CASE n \notin Digested
  <2>1. PICK y : y = IF quiet THEN NoMail ELSE NewMail  OBVIOUS
  <2>2. y \in MailJob /\ MailFits(y, 0, faults)
    BY <2>1, NewJobFacts
  <2>3. mailJob' = [mailJob EXCEPT ![n] = y] /\ UNCHANGED item
    BY <1>11, <2>1 DEF PassMail
  <2>4. mailed' = [mailed EXCEPT ![n] = 0]  BY <1>1, <1>5, NoteParts
  <2>5. MailFits(y, 0, faults')  BY <1>1, <2>2
  <2>6. /\ mailJob' \in [Notes -> MailJob] /\ MailCounted'
        /\ \A o \in Notes \ {n} : mailJob'[o] = mailJob[o]
    BY <1>6, <2>2, <2>3, <2>4, <2>5, MailMoves
  <2>7. NotYetPassed'
    BY <1>1, <1>8, <1>9, <2>3, <2>6, NoteParts DEF NotYetPassed
  <2>8. QED  BY <1>1, <1>4, <1>6, <1>7, <2>3, <2>6, <2>7, Same, SendingKeeps
<1>12. QED  BY <1>10, <1>11

LEMMA PassPushStep == ASSUME NoteKnown, NEW n \in Notes, PassPush(n) PROVE NotificationsInv'
PROOF
<1>1. /\ UNCHANGED <<quiet, mailJob, digestMails, item, closed, digestRun>>
      /\ UNCHANGED <<owners, claim, overlapped, faults, mailed, pushed, collected>>
  BY DEF PassPush, digest, push, history
<1>2. dispatch \in [Notes -> NoteStages] /\ dispatch[n] = "mail"
  BY NoteParts DEF PassPush
<1>3. dispatch' = [dispatch EXCEPT ![n] = "done"]  BY DEF PassPush, Go
<1>4. dispatch' \in [Notes -> NoteStages]  BY <1>2, <1>3 DEF NoteStages
<1>5. pushJob[n] = NoPush /\ pushed[n] \in [Devices -> Nat]
  BY <1>2, NoteParts DEF NotYetPassed
<1>6. \A v \in Devices : pushed[n][v] = 0
  <2>1. \A v \in Devices : PushFits(NoPush, v, pushed[n][v]) /\ pushed[n][v] \in Nat
    BY <1>5, NoteParts DEF PushCounted
  <2>2. QED  BY <2>1, NewJobFacts
<1>7. faults' \in 0..MaxFaults /\ faults' >= faults  BY <1>1, FaultFacts
<1>8. MailCounted'  BY <1>1, <1>7, MailKept
<1>9. PICK y : y = IF quiet THEN NoPush ELSE NewPush  OBVIOUS
<1>10. PICK p \in [Devices -> Nat] : p = pushed[n]  BY <1>5
<1>11. y \in PushJob
  BY <1>9, NewJobFacts
<1>12. \A v \in Devices : PushFits(y, v, p[v])
  BY <1>6, <1>9, <1>10, NewJobFacts
<1>13. pushJob' = [pushJob EXCEPT ![n] = y]  BY <1>9 DEF PassPush
<1>14. pushed' = [pushed EXCEPT ![n] = p]  BY <1>1, <1>10, NoteParts
<1>15. /\ pushJob' \in [Notes -> PushJob] /\ PushCounted'
       /\ \A o \in Notes \ {n} : pushJob'[o] = pushJob[o]
  BY <1>11, <1>12, <1>13, <1>14, PushMoves
<1>16. NotYetPassed'
  <2>1. \A o \in Notes : o # n => dispatch'[o] = dispatch[o]  BY <1>2, <1>3
  <2>2. dispatch'[n] = "done"  BY <1>2, <1>3
  <2>3. QED  BY <1>1, <1>15, <2>1, <2>2, NoteParts DEF NotYetPassed
<1>17. QED  BY <1>1, <1>4, <1>7, <1>8, <1>15, <1>16, Same, SendingKeeps

LEMMA DispatchFailsStep ==
  ASSUME NoteKnown, NEW n \in Notes, DispatchFails(n) PROVE NotificationsInv'
PROOF
<1>1. /\ UNCHANGED <<quiet, mailJob, pushJob, digestMails, item, closed, digestRun>>
      /\ UNCHANGED <<owners, claim, overlapped, mailed, pushed, collected>> /\ Fault
  BY DEF DispatchFails, queues, digest, push, history
<1>2. dispatch \in [Notes -> NoteStages]  BY NoteParts
<1>3. dispatch' = [dispatch EXCEPT ![n] = "done"]  BY DEF DispatchFails, Go
<1>4. dispatch' \in [Notes -> NoteStages]  BY <1>2, <1>3 DEF NoteStages
<1>5. NotYetPassed'
  <2>1. \A o \in Notes : dispatch'[o] = dispatch[o] \/ dispatch'[o] = "done"
    BY <1>2, <1>3
  <2>2. QED  BY <1>1, <2>1, NoteParts DEF NotYetPassed
<1>6. faults' \in 0..MaxFaults /\ faults' >= faults  BY <1>1, FaultFacts
<1>7. PushCounted'  BY <1>1, PushKept
<1>8. MailCounted'  BY <1>1, <1>6, MailKept
<1>9. QED  BY <1>1, <1>4, <1>5, <1>6, <1>7, <1>8, Same, SendingKeeps

LEMMA WindowStep == ASSUME NoteKnown, NEW n \in Notes, WindowEnds(n) PROVE NotificationsInv'
PROOF
<1>1. /\ UNCHANGED <<quiet, dispatch, mailJob, pushJob, digestMails, item, digestRun>>
      /\ UNCHANGED <<owners, claim, overlapped, faults, mailed, pushed, collected>>
  BY DEF WindowEnds, queues, push, history
<1>2. closed' \subseteq Notes  BY NoteParts DEF WindowEnds
<1>3. faults' \in 0..MaxFaults /\ faults' >= faults  BY <1>1, FaultFacts
<1>4. NotYetPassed' /\ PushCounted'  BY <1>1, NotYetStays, PushKept
<1>5. MailCounted'  BY <1>1, <1>3, MailKept
<1>6. QED  BY <1>1, <1>2, <1>3, <1>4, <1>5, Same, SendingKeeps

\* Each change of a job accounts for what was sent so far.
LEMMA MailChangesFit ==
  ASSUME Attempts \in Nat \ {0}, NEW f \in Nat, NEW c \in Nat, NEW x \in MailJob,
         x.pc \in {"waiting", "sent"}, MailFits(x, c, f)
  PROVE  /\ MailFits(Again(x), c, f + 1) /\ MailFits(Ended(x), c, f)
         /\ MailFits(Ended(x), c, f + 1) /\ MailFits(LastRun(x), c, f + 1)
         /\ x.stalls = 0 => /\ MailFits(HandedOut(x, 0), c, f + 1)
                            /\ x.pc = "waiting" => MailFits(HandedOut(x, 1), c, f + 1)
PROOF
<1>1. /\ x.tries \in 0..(Attempts - 1) /\ x.stalls \in {0, 1} /\ x.ghost \in {0, 1}
  BY MailJobFacts
<1>2. /\ c + x.ghost <= x.tries + x.stalls + 1 /\ c + x.ghost <= f + 1
      /\ x.pc = "waiting" => c + x.ghost <= x.tries + x.stalls /\ c + x.ghost <= f
      /\ x.stalls = 0 => x.ghost = 0
  BY <1>1 DEF MailFits
<1>3. MailFits(Again(x), c, f + 1)
  <2>1. PICK y : y = Again(x)  OBVIOUS
  <2>2. /\ y.stalls = x.stalls /\ y.ghost = x.ghost
        /\ \/ y.pc = "done" /\ x.tries + 1 = Attempts
           \/ y.pc = "waiting" /\ y.tries = x.tries + 1
    BY <2>1, MailJobChanges
  <2>3. MailFits(y, c, f + 1)  BY <1>1, <1>2, <2>2 DEF MailFits
  <2>4. QED  BY <2>1, <2>3
<1>4. MailFits(Ended(x), c, f) /\ MailFits(Ended(x), c, f + 1)
  <2>1. PICK y : y = Ended(x)  OBVIOUS
  <2>2. y.pc = "done" /\ y.stalls = x.stalls /\ y.ghost = x.ghost  BY <2>1, MailJobChanges
  <2>3. MailFits(y, c, f) /\ MailFits(y, c, f + 1)  BY <1>1, <1>2, <2>2 DEF MailFits
  <2>4. QED  BY <2>1, <2>3
<1>5. MailFits(LastRun(x), c, f + 1)
  <2>1. PICK y : y = LastRun(x)  OBVIOUS
  <2>2. /\ y.pc = x.pc /\ y.tries = Attempts - 1
        /\ y.stalls = x.stalls /\ y.ghost = x.ghost
    BY <2>1, MailJobChanges
  <2>3. MailFits(y, c, f + 1)  BY <1>1, <1>2, <2>2 DEF MailFits
  <2>4. QED  BY <2>1, <2>3
<1>6. ASSUME NEW g \in {0, 1}, x.stalls = 0, g = 1 => x.pc = "waiting"
      PROVE  MailFits(HandedOut(x, g), c, f + 1)
  <2>1. PICK y : y = HandedOut(x, g)  OBVIOUS
  <2>2. y.pc = "waiting" /\ y.tries = x.tries /\ y.stalls = 1 /\ y.ghost = g
    BY <2>1, MailJobChanges
  <2>3. MailFits(y, c, f + 1)  BY <1>1, <1>2, <1>6, <2>2 DEF MailFits
  <2>4. QED  BY <2>1, <2>3
<1>7. QED  BY <1>3, <1>4, <1>5, <1>6

LEMMA PushChangesFit ==
  ASSUME Attempts \in Nat \ {0}, NEW c \in Nat, NEW v \in Devices, NEW x \in PushJob,
         x.pc = "sending", PushFits(x, v, c)
  PROVE  /\ PushFits(Again(x), v, c) /\ PushFits(Ended(x), v, c)
         /\ PushFits(LastRun(x), v, c)
         /\ x.stalls = 0 => PushFits(HandedOut(x, {}), v, c)
                            /\ PushFits(HandedOut(x, x.left), v, c)
PROOF
<1>1. /\ x.tries \in 0..(Attempts - 1) /\ x.stalls \in {0, 1}
      /\ x.left \subseteq Devices /\ x.ghost \subseteq Devices
  BY PushJobFacts
<1>2. PICK b \in {0, 1}, l \in {0, 1} : b = One(v, x.ghost) /\ l = One(v, x.left)
  BY DEF One
<1>3. /\ c + b + l <= x.tries + x.stalls + 1
      /\ x.stalls = 0 => v \notin x.ghost /\ b = 0
  BY <1>1, <1>2 DEF PushFits, One
<1>4. PushFits(Again(x), v, c)
  <2>1. PICK y : y = Again(x)  OBVIOUS
  <2>2. /\ y.stalls = x.stalls /\ y.ghost = x.ghost
        /\ \/ y.pc = "done" /\ x.tries + 1 = Attempts
           \/ y.pc = "waiting" /\ y.tries = x.tries + 1
    BY <2>1, PushJobChanges
  <2>3. One(v, y.ghost) = b  BY <1>2, <2>2
  <2>4. PushFits(y, v, c)  BY <1>1, <1>2, <1>3, <2>2, <2>3 DEF PushFits
  <2>5. QED  BY <2>1, <2>4
<1>5. PushFits(Ended(x), v, c)
  <2>1. PICK y : y = Ended(x)  OBVIOUS
  <2>2. y.pc = "done" /\ y.stalls = x.stalls /\ y.ghost = x.ghost  BY <2>1, PushJobChanges
  <2>3. One(v, y.ghost) = b  BY <1>2, <2>2
  <2>4. PushFits(y, v, c)  BY <1>1, <1>2, <1>3, <2>2, <2>3 DEF PushFits
  <2>5. QED  BY <2>1, <2>4
<1>6. PushFits(LastRun(x), v, c)
  <2>1. PICK y : y = LastRun(x)  OBVIOUS
  <2>2. /\ y.pc = "sending" /\ y.tries = Attempts - 1 /\ y.left = x.left
        /\ y.stalls = x.stalls /\ y.ghost = x.ghost
    BY <2>1, PushJobChanges
  <2>3. One(v, y.ghost) = b /\ One(v, y.left) = l  BY <1>2, <2>2
  <2>4. PushFits(y, v, c)  BY <1>1, <1>2, <1>3, <2>2, <2>3 DEF PushFits
  <2>5. QED  BY <2>1, <2>4
<1>7. ASSUME NEW g \in SUBSET Devices, x.stalls = 0, g = {} \/ g = x.left
      PROVE  PushFits(HandedOut(x, g), v, c)
  <2>1. PICK y : y = HandedOut(x, g)  OBVIOUS
  <2>2. y.pc = "waiting" /\ y.tries = x.tries /\ y.stalls = 1 /\ y.ghost = g
    BY <2>1, PushJobChanges
  <2>3. One(v, y.ghost) = 0 \/ One(v, y.ghost) = l
    <3>1. v \notin {} /\ y.ghost = g  BY <2>2
    <3>2. QED  BY <1>2, <1>7, <3>1 DEF One
  <2>4. PushFits(y, v, c)  BY <1>1, <1>2, <1>3, <1>7, <2>2, <2>3 DEF PushFits
  <2>5. QED  BY <2>1, <2>4
<1>8. {} \in SUBSET Devices /\ x.left \in SUBSET Devices  BY <1>1
<1>9. QED  BY <1>4, <1>5, <1>6, <1>7, <1>8

\* A step of the job of a mail.
LEMMA MailJobSteps ==
  ASSUME NoteKnown, NEW n \in Notes,
         SendMail(n) \/ MailSent(n) \/ StallMail(n) \/ GhostMails(n)
  PROVE  NotificationsInv'
PROOF
<1>1. /\ UNCHANGED <<quiet, dispatch, pushJob, digestMails, item, closed, digestRun>>
      /\ UNCHANGED <<owners, claim, overlapped, pushed, collected>>
  BY DEF SendMail, MailSent, StallMail, GhostMails, digest, push, history
<1>2. /\ mailJob[n] \in MailJob /\ mailed[n] \in Nat
      /\ MailFits(mailJob[n], mailed[n], faults)
      /\ faults \in Nat /\ Attempts \in Nat \ {0}
  BY NoteParts DEF MailCounted
<1>3. PICK x \in MailJob, c \in Nat, f \in Nat :
        x = mailJob[n] /\ c = mailed[n] /\ f = faults
  BY <1>2
<1>4. MailFits(x, c, f)  BY <1>2, <1>3
<1>5. /\ x.pc \in {"none", "waiting", "sent", "done"} /\ x.tries \in 0..(Attempts - 1)
      /\ x.stalls \in {0, 1} /\ x.ghost \in {0, 1}
  BY MailJobFacts
<1>6. x # NoMail
  <2>1. NoMail.pc = "none" /\ NoMail.ghost = 0  BY DEF NoMail
  <2>2. x.pc \in {"waiting", "sent"} \/ x.ghost = 1
    BY <1>3 DEF SendMail, MailSent, StallMail, GhostMails
  <2>3. QED  BY <2>1, <2>2
<1>7. ASSUME NEW y \in MailJob, NEW d \in Nat,
             mailJob' = [mailJob EXCEPT ![n] = y], mailed' = [mailed EXCEPT ![n] = d],
             Fault \/ faults' = faults, MailFits(y, d, faults')
      PROVE  NotificationsInv'
  <2>1. faults' \in 0..MaxFaults /\ faults' >= faults  BY <1>7, FaultFacts
  <2>2. /\ mailJob' \in [Notes -> MailJob]
        /\ mailed' \in [Notes -> Nat] /\ MailCounted'
        /\ \A o \in Notes \ {n} : mailJob'[o] = mailJob[o]
    BY <1>7, <2>1, MailMoves
  <2>3. NotYetPassed'  BY <1>1, <1>3, <1>6, <2>2, NotYetStays
  <2>4. PushCounted'  BY <1>1, PushKept
  <2>5. QED  BY <1>1, <2>1, <2>2, <2>3, <2>4, Same, SendingKeeps
<1>8. mailed' = mailed => mailed' = [mailed EXCEPT ![n] = c]  BY <1>3, NoteParts
<1>9. Fault => faults' = f + 1  BY <1>3, FaultFacts
<1>10. /\ Again(x) \in MailJob /\ Ended(x) \in MailJob /\ LastRun(x) \in MailJob
       /\ \A g \in {0, 1} : HandedOut(x, g) \in MailJob
  BY <1>2, MailJobChanges
<1>11. x.pc \in {"waiting", "sent"} =>
         /\ MailFits(Again(x), c, f + 1) /\ MailFits(Ended(x), c, f)
         /\ MailFits(Ended(x), c, f + 1) /\ MailFits(LastRun(x), c, f + 1)
         /\ x.stalls = 0 => /\ MailFits(HandedOut(x, 0), c, f + 1)
                            /\ x.pc = "waiting" => MailFits(HandedOut(x, 1), c, f + 1)
  BY <1>2, <1>4, MailChangesFit
<1>12. CASE SendMail(n)
  <2>1. x.pc = "waiting"  BY <1>3, <1>12 DEF SendMail
  <2>2. CASE /\ mailJob' = [mailJob EXCEPT ![n].pc = "sent"]
             /\ mailed' = [mailed EXCEPT ![n] = @ + 1] /\ UNCHANGED faults
    <3>1. PICK y : y = [pc |-> "sent", tries |-> x.tries, stalls |-> x.stalls,
                        ghost |-> x.ghost]
      OBVIOUS
    <3>2. y \in MailJob  BY <1>5, <3>1, MailJobMade
    <3>3. MailFits(y, c + 1, f)
      <4>1. /\ y.pc = "sent" /\ y.tries = x.tries /\ y.stalls = x.stalls
            /\ y.ghost = x.ghost
        BY <3>1
      <4>2. QED  BY <1>4, <1>5, <2>1, <4>1 DEF MailFits
    <3>4. mailJob' = [mailJob EXCEPT ![n] = y]
      <4>1. [x EXCEPT !.pc = "sent"] = y
        <5>1. x = [pc |-> x.pc, tries |-> x.tries, stalls |-> x.stalls, ghost |-> x.ghost]
          BY MailJobIs
        <5>2. QED  BY <3>1, <5>1
      <4>2. QED  BY <1>3, <2>2, <4>1
    <3>5. mailed' = [mailed EXCEPT ![n] = c + 1]  BY <1>3, <2>2
    <3>6. MailFits(y, c + 1, faults') /\ c + 1 \in Nat  BY <1>3, <2>2, <3>3
    <3>7. QED  BY <1>7, <2>2, <3>2, <3>4, <3>5, <3>6
  <2>3. CASE Fault /\ mailJob' = [mailJob EXCEPT ![n] = Again(mailJob[n])] /\ mailed' = mailed
    <3>1. MailFits(Again(x), c, faults')  BY <1>9, <1>11, <2>1, <2>3
    <3>2. mailJob' = [mailJob EXCEPT ![n] = Again(x)]  BY <1>3, <2>3
    <3>3. QED  BY <1>7, <1>8, <1>10, <2>3, <3>1, <3>2
  <2>4. QED  BY <1>12, <2>2, <2>3 DEF SendMail
<1>13. CASE MailSent(n)
  <2>1. x.pc = "sent" /\ mailed' = mailed  BY <1>3, <1>13 DEF MailSent, history
  <2>2. CASE mailJob' = [mailJob EXCEPT ![n] = Ended(mailJob[n])] /\ UNCHANGED faults
    <3>1. MailFits(Ended(x), c, faults')  BY <1>3, <1>11, <2>1, <2>2
    <3>2. mailJob' = [mailJob EXCEPT ![n] = Ended(x)]  BY <1>3, <2>2
    <3>3. QED  BY <1>7, <1>8, <1>10, <2>1, <2>2, <3>1, <3>2
  <2>3. CASE Fault /\ mailJob' = [mailJob EXCEPT ![n] = Again(mailJob[n])]
    <3>1. MailFits(Again(x), c, faults')  BY <1>9, <1>11, <2>1, <2>3
    <3>2. mailJob' = [mailJob EXCEPT ![n] = Again(x)]  BY <1>3, <2>3
    <3>3. QED  BY <1>7, <1>8, <1>10, <2>1, <2>3, <3>1, <3>2
  <2>4. QED  BY <1>13, <2>2, <2>3 DEF MailSent
<1>14. CASE StallMail(n)
  <2>1. x.pc \in {"waiting", "sent"} /\ mailed' = mailed /\ Fault
    BY <1>3, <1>14 DEF StallMail, history
  <2>2. PICK y \in IF x.stalls = 1 THEN {Ended(x), LastRun(x)}
                   ELSE {HandedOut(x, 0), HandedOut(x, IF x.pc = "sent" THEN 0 ELSE 1)} :
          mailJob' = [mailJob EXCEPT ![n] = y]
    BY <1>3, <1>14 DEF StallMail
  <2>3. y \in MailJob /\ MailFits(y, c, f + 1)
    <3>1. CASE x.stalls = 1  BY <1>10, <1>11, <2>1, <2>2, <3>1
    <3>2. CASE x.stalls = 0
      <4>1. y = HandedOut(x, 0) \/ (x.pc = "waiting" /\ y = HandedOut(x, 1))
        BY <2>1, <2>2, <3>2
      <4>2. QED  BY <1>10, <1>11, <2>1, <3>2, <4>1
    <3>3. QED  BY <1>5, <3>1, <3>2
  <2>4. QED  BY <1>7, <1>8, <1>9, <2>1, <2>2, <2>3
<1>15. CASE GhostMails(n)
  <2>1. x.ghost = 1  BY <1>3, <1>15 DEF GhostMails
  <2>2. PICK y : y = [pc |-> x.pc, tries |-> x.tries, stalls |-> x.stalls, ghost |-> 0]
    OBVIOUS
  <2>3. y \in MailJob  BY <1>5, <2>2, MailJobMade
  <2>4. MailFits(y, c + 1, f)
    <3>1. y.pc = x.pc /\ y.tries = x.tries /\ y.stalls = x.stalls /\ y.ghost = 0
      BY <2>2
    <3>2. QED  BY <1>4, <1>5, <2>1, <3>1 DEF MailFits
  <2>5. mailJob' = [mailJob EXCEPT ![n] = y]
    <3>1. [x EXCEPT !.ghost = 0] = y
      <4>1. x = [pc |-> x.pc, tries |-> x.tries, stalls |-> x.stalls, ghost |-> x.ghost]
        BY MailJobIs
      <4>2. QED  BY <2>2, <4>1
    <3>2. QED  BY <1>3, <1>15, <3>1 DEF GhostMails
  <2>6. mailed' = [mailed EXCEPT ![n] = c + 1] /\ faults' = faults
    BY <1>3, <1>15 DEF GhostMails
  <2>7. MailFits(y, c + 1, faults') /\ c + 1 \in Nat  BY <1>3, <2>4, <2>6
  <2>8. QED  BY <1>7, <2>3, <2>5, <2>6, <2>7
<1>16. QED  BY <1>12, <1>13, <1>14, <1>15

\* A step of the job that serves the devices.
LEMMA PushJobSteps ==
  ASSUME NoteKnown, NEW n \in Notes,
         \/ ReadDevices(n) \/ PushDone(n) \/ StallPush(n)
         \/ \E v \in Devices : Push(n, v) \/ GhostPushes(n, v)
  PROVE  NotificationsInv'
PROOF
<1>1. /\ UNCHANGED <<quiet, dispatch, mailJob, digestMails, item, closed, digestRun>>
      /\ UNCHANGED <<claim, overlapped, mailed, collected>>
  BY DEF ReadDevices, PushDone, StallPush, Push, GhostPushes, digest, push, history
<1>2. /\ pushJob[n] \in PushJob
      /\ pushed[n] \in [Devices -> Nat]
      /\ \A v \in Devices : PushFits(pushJob[n], v, pushed[n][v])
      /\ Attempts \in Nat \ {0}
  BY NoteParts DEF PushCounted
<1>3. PICK x \in PushJob, p \in [Devices -> Nat] : x = pushJob[n] /\ p = pushed[n]
  BY <1>2
<1>4. \A v \in Devices : p[v] \in Nat /\ PushFits(x, v, p[v])  BY <1>2, <1>3
<1>5. /\ x.pc \in {"none", "waiting", "sending", "done"} /\ x.tries \in 0..(Attempts - 1)
      /\ x.stalls \in {0, 1} /\ x.left \subseteq Devices /\ x.ghost \subseteq Devices
  BY PushJobFacts
<1>6. x # NoPush
  <2>1. NoPush.pc = "none" /\ NoPush.ghost = {}  BY DEF NoPush
  <2>2. x.pc \in {"waiting", "sending"} \/ \E v \in Devices : v \in x.ghost
    BY <1>3 DEF ReadDevices, PushDone, StallPush, Push, GhostPushes
  <2>3. QED  BY <2>1, <2>2
<1>7. x = [pc |-> x.pc, tries |-> x.tries, stalls |-> x.stalls, left |-> x.left,
           ghost |-> x.ghost]
  BY PushJobIs
<1>8. ASSUME NEW y \in PushJob, NEW q \in [Devices -> Nat],
             pushJob' = [pushJob EXCEPT ![n] = y], pushed' = [pushed EXCEPT ![n] = q],
             Fault \/ faults' = faults, \A v \in Devices : PushFits(y, v, q[v]),
             owners' \in [Devices -> SUBSET Accounts],
             \A v \in Devices : owners'[v] \subseteq owners[v]
      PROVE  NotificationsInv'
  <2>1. faults' \in 0..MaxFaults /\ faults' >= faults  BY <1>8, FaultFacts
  <2>2. /\ pushJob' \in [Notes -> PushJob]
        /\ pushed' \in [Notes -> [Devices -> Nat]] /\ PushCounted'
        /\ \A o \in Notes \ {n} : pushJob'[o] = pushJob[o]
    BY <1>8, PushMoves
  <2>3. NotYetPassed'  BY <1>1, <1>3, <1>6, <2>2, NotYetStays
  <2>4. MailCounted'  BY <1>1, <2>1, MailKept
  <2>5. QED  BY <1>1, <1>8, <2>1, <2>2, <2>3, <2>4, Same, SendingKeeps
<1>9. pushed' = pushed => pushed' = [pushed EXCEPT ![n] = p]  BY <1>3, NoteParts
<1>10. owners' = owners => /\ owners' \in [Devices -> SUBSET Accounts]
                           /\ \A v \in Devices : owners'[v] \subseteq owners[v]
  BY NoteParts
<1>11. /\ Again(x) \in PushJob /\ Ended(x) \in PushJob /\ LastRun(x) \in PushJob
       /\ \A g \in SUBSET Devices : HandedOut(x, g) \in PushJob
  BY <1>2, PushJobChanges
<1>12. x.pc = "sending" =>
         \A v \in Devices :
           /\ PushFits(Again(x), v, p[v]) /\ PushFits(Ended(x), v, p[v])
           /\ PushFits(LastRun(x), v, p[v])
           /\ x.stalls = 0 => PushFits(HandedOut(x, {}), v, p[v])
                              /\ PushFits(HandedOut(x, x.left), v, p[v])
  BY <1>2, <1>4, PushChangesFit
\* Nothing is served.
<1>13. ASSUME NEW y \in PushJob, pushJob' = [pushJob EXCEPT ![n] = y], pushed' = pushed,
              owners' = owners, Fault \/ faults' = faults,
              \A v \in Devices : PushFits(y, v, p[v])
       PROVE  NotificationsInv'
  BY <1>8, <1>9, <1>10, <1>13
<1>14. CASE ReadDevices(n)
  <2>1. PICK left \in SUBSET Devices : left = {v \in Devices : Me \in owners[v]}  OBVIOUS
  <2>2. PICK y : y = [pc |-> "sending", tries |-> x.tries, stalls |-> x.stalls,
                      left |-> left, ghost |-> x.ghost]
    OBVIOUS
  <2>3. y \in PushJob  BY <1>5, <2>2, PushJobMade
  <2>4. x.pc = "waiting"  BY <1>3, <1>14 DEF ReadDevices
  <2>5. \A v \in Devices : PushFits(y, v, p[v])
    <3>1. /\ y.pc = "sending" /\ y.tries = x.tries /\ y.stalls = x.stalls
          /\ y.left = left /\ y.ghost = x.ghost
      BY <2>2
    <3>2. SUFFICES ASSUME NEW v \in Devices PROVE PushFits(y, v, p[v])  OBVIOUS
    <3>3. PICK b \in {0, 1} : b = One(v, x.ghost)  BY DEF One
    <3>4. PICK m \in {0, 1} : m = One(v, y.left)  BY DEF One
    <3>5. One(v, y.ghost) = b /\ (v \in y.ghost => v \in x.ghost)  BY <3>1, <3>3
    <3>6. p[v] \in Nat /\ p[v] + b <= x.tries + x.stalls
          /\ (x.stalls = 0 => v \notin x.ghost)
      BY <1>4, <2>4, <3>3 DEF PushFits
    <3>7. p[v] + One(v, y.ghost) + One(v, y.left) <= y.tries + y.stalls + 1
      BY <1>5, <3>1, <3>4, <3>5, <3>6
    <3>8. y.stalls = 0 => v \notin y.ghost  BY <3>1, <3>5, <3>6
    <3>9. QED  BY <3>1, <3>7, <3>8 DEF PushFits
  <2>6. [x EXCEPT !.pc = "sending", !.left = left] = y
    <3>1. PICK z : z = [x EXCEPT !.pc = "sending"]  OBVIOUS
    <3>2. [x EXCEPT !.pc = "sending", !.left = left] = [z EXCEPT !.left = left]  BY <3>1
    <3>3. z = [pc |-> "sending", tries |-> x.tries, stalls |-> x.stalls,
               left |-> x.left, ghost |-> x.ghost]
      BY <1>7, <3>1
    <3>4. QED  BY <2>2, <3>2, <3>3
  <2>7. /\ pushJob' = [pushJob EXCEPT ![n] = y] /\ pushed' = pushed /\ owners' = owners
        /\ faults' = faults
    BY <1>3, <1>14, <2>1, <2>6 DEF ReadDevices, push, history
  <2>8. QED  BY <1>13, <2>3, <2>5, <2>7
<1>15. CASE PushDone(n)
  <2>1. x.pc = "sending" /\ pushed' = pushed /\ owners' = owners
    BY <1>3, <1>15 DEF PushDone, push, history
  <2>2. \/ pushJob' = [pushJob EXCEPT ![n] = Ended(x)] /\ faults' = faults
        \/ pushJob' = [pushJob EXCEPT ![n] = Again(x)] /\ Fault
    BY <1>3, <1>15 DEF PushDone
  <2>3. QED  BY <1>11, <1>12, <1>13, <2>1, <2>2
<1>16. CASE StallPush(n)
  <2>1. x.pc = "sending" /\ pushed' = pushed /\ owners' = owners /\ Fault
    BY <1>3, <1>16 DEF StallPush, push, history
  <2>2. PICK y \in IF x.stalls = 1 THEN {Ended(x), LastRun(x)}
                   ELSE {HandedOut(x, {}), HandedOut(x, x.left)} :
          pushJob' = [pushJob EXCEPT ![n] = y]
    BY <1>3, <1>16 DEF StallPush
  <2>3. y \in PushJob /\ \A v \in Devices : PushFits(y, v, p[v])
    <3>1. CASE x.stalls = 1  BY <1>11, <1>12, <2>1, <2>2, <3>1
    <3>2. CASE x.stalls = 0
      <4>1. {} \in SUBSET Devices /\ x.left \in SUBSET Devices  BY <1>5
      <4>2. y = HandedOut(x, {}) \/ y = HandedOut(x, x.left)  BY <2>2, <3>2
      <4>3. QED  BY <1>11, <1>12, <2>1, <3>2, <4>1, <4>2
    <3>3. QED  BY <1>5, <3>1, <3>2
  <2>4. QED  BY <1>13, <2>1, <2>2, <2>3
\* A device is served, or gone.
<1>17. ASSUME NEW v \in Devices, NEW y \in PushJob, Serve(n, v, y), faults' = faults,
              \A w \in Devices \ {v} : PushFits(y, w, p[w]),
              PushFits(y, v, p[v]), PushFits(y, v, p[v] + 1)
       PROVE  NotificationsInv'
  <2>1. pushJob' = [pushJob EXCEPT ![n] = y]  BY <1>17 DEF Serve
  <2>2. CASE /\ pushed' = [pushed EXCEPT ![n] = [pushed[n] EXCEPT ![v] = pushed[n][v] + 1]]
             /\ UNCHANGED owners
    <3>1. PICK q : q = [p EXCEPT ![v] = p[v] + 1]  OBVIOUS
    <3>2. q \in [Devices -> Nat] /\ q[v] = p[v] + 1 /\ \A w \in Devices \ {v} : q[w] = p[w]
      BY <3>1
    <3>3. \A w \in Devices : PushFits(y, w, q[w])  BY <1>17, <3>2
    <3>4. pushed' = [pushed EXCEPT ![n] = q]  BY <1>3, <2>2, <3>1
    <3>5. QED  BY <1>8, <1>10, <1>17, <2>1, <2>2, <3>2, <3>3, <3>4
  <2>3. CASE owners' = [owners EXCEPT ![v] = @ \ {Me}] /\ UNCHANGED pushed
    <3>1. owners \in [Devices -> SUBSET Accounts]  BY NoteParts
    <3>2. owners' \in [Devices -> SUBSET Accounts]  BY <2>3, <3>1
    <3>3. \A w \in Devices : owners'[w] \subseteq owners[w]  BY <2>3, <3>1
    <3>4. \A w \in Devices : PushFits(y, w, p[w])  BY <1>17
    <3>5. QED  BY <1>8, <1>9, <1>17, <2>1, <2>3, <3>2, <3>3, <3>4
  <2>4. QED  BY <1>17, <2>2, <2>3 DEF Serve
<1>18. ASSUME NEW v \in Devices, Push(n, v) PROVE NotificationsInv'
  <2>1. x.pc = "sending" /\ v \in x.left  BY <1>3, <1>18 DEF Push
  <2>2. PICK y : y = [pc |-> x.pc, tries |-> x.tries, stalls |-> x.stalls,
                      left |-> x.left \ {v}, ghost |-> x.ghost]
    OBVIOUS
  <2>3. x.left \ {v} \in SUBSET Devices  BY <1>5
  <2>4. y \in PushJob /\ y = Served(x, v)
    <3>1. y \in PushJob  BY <1>5, <2>2, <2>3, PushJobMade
    <3>2. y = Served(x, v)  BY <1>7, <2>2 DEF Served
    <3>3. QED  BY <3>1, <3>2
  <2>5. /\ y.pc = "sending" /\ y.tries = x.tries /\ y.stalls = x.stalls
        /\ y.left = x.left \ {v} /\ y.ghost = x.ghost
    BY <2>1, <2>2
  <2>6. ASSUME NEW w \in Devices
        PROVE  PushFits(y, w, p[w]) /\ (w = v => PushFits(y, w, p[w] + 1))
    <3>1. p[w] \in Nat /\ PushFits(x, w, p[w])  BY <1>4
    <3>2. PICK b \in {0, 1} : b = One(w, x.ghost)  BY DEF One
    <3>3. PICK l \in {0, 1} : l = One(w, x.left)  BY DEF One
    <3>4. PICK m \in {0, 1} : m = One(w, y.left)  BY DEF One
    <3>5. m <= l /\ (w = v => l = 1 /\ m = 0)
      BY <2>1, <2>5, <3>3, <3>4 DEF One
    <3>6. p[w] + b + l <= x.tries + x.stalls + 1 /\ (x.stalls = 0 => w \notin x.ghost)
      BY <2>1, <3>1, <3>2, <3>3 DEF PushFits
    <3>7. One(w, y.ghost) = b /\ (x.stalls = 0 => w \notin y.ghost)
      BY <2>5, <3>2, <3>6
    <3>8. PushFits(y, w, p[w])
      BY <1>5, <2>5, <3>1, <3>4, <3>5, <3>6, <3>7 DEF PushFits
    <3>9. w = v => PushFits(y, w, p[w] + 1)
      BY <1>5, <2>5, <3>1, <3>4, <3>5, <3>6, <3>7 DEF PushFits
    <3>10. QED  BY <3>8, <3>9
  <2>7. CASE Serve(n, v, Served(pushJob[n], v)) /\ UNCHANGED faults
    BY <1>3, <1>17, <2>4, <2>6, <2>7
  <2>8. CASE /\ Fault /\ pushJob' = [pushJob EXCEPT ![n] = Again(pushJob[n])]
             /\ UNCHANGED <<pushed, owners>>
    BY <1>3, <1>11, <1>12, <1>13, <2>1, <2>8
  <2>9. QED  BY <1>18, <2>7, <2>8 DEF Push
<1>19. ASSUME NEW v \in Devices, GhostPushes(n, v) PROVE NotificationsInv'
  <2>1. v \in x.ghost  BY <1>3, <1>19 DEF GhostPushes
  <2>2. PICK y : y = [pc |-> x.pc, tries |-> x.tries, stalls |-> x.stalls,
                      left |-> x.left, ghost |-> x.ghost \ {v}]
    OBVIOUS
  <2>3. x.ghost \ {v} \in SUBSET Devices  BY <1>5
  <2>4. y \in PushJob /\ y = GhostServed(x, v)
    <3>1. y \in PushJob  BY <1>5, <2>2, <2>3, PushJobMade
    <3>2. y = GhostServed(x, v)  BY <1>7, <2>2 DEF GhostServed
    <3>3. QED  BY <3>1, <3>2
  <2>5. /\ y.pc = x.pc /\ y.tries = x.tries /\ y.stalls = x.stalls
        /\ y.left = x.left /\ y.ghost = x.ghost \ {v}
    BY <2>2
  <2>6. ASSUME NEW w \in Devices
        PROVE  PushFits(y, w, p[w]) /\ (w = v => PushFits(y, w, p[w] + 1))
    <3>1. p[w] \in Nat /\ PushFits(x, w, p[w])  BY <1>4
    <3>2. PICK b \in {0, 1} : b = One(w, x.ghost)  BY DEF One
    <3>3. PICK l \in {0, 1} : l = One(w, x.left)  BY DEF One
    <3>4. PICK m \in {0, 1} : m = One(w, y.ghost)  BY DEF One
    <3>5. m <= b /\ (w = v => b = 1 /\ m = 0) /\ (w \in y.ghost => w \in x.ghost)
      BY <2>1, <2>5, <3>2, <3>4 DEF One
    <3>6. One(w, y.left) = l /\ One(w, y.ghost) = m  BY <2>5, <3>3, <3>4
    <3>7. /\ x.pc = "none" => p[w] + b = 0
          /\ x.pc = "waiting" => p[w] + b <= x.tries + x.stalls
          /\ x.pc = "sending" => p[w] + b + l <= x.tries + x.stalls + 1
          /\ x.pc = "done" => p[w] + b <= Attempts + 1
          /\ x.stalls = 0 => w \notin x.ghost
      BY <3>1, <3>2, <3>3 DEF PushFits
    <3>8. PushFits(y, w, p[w])
      BY <1>2, <1>5, <2>5, <3>1, <3>5, <3>6, <3>7 DEF PushFits
    <3>9. w = v => PushFits(y, w, p[w] + 1)
      BY <1>2, <1>5, <2>5, <3>1, <3>5, <3>6, <3>7 DEF PushFits
    <3>10. QED  BY <3>8, <3>9
  <2>7. Serve(n, v, y) /\ UNCHANGED faults
    BY <1>3, <1>19, <2>4 DEF GhostPushes
  <2>8. QED  BY <1>3, <1>17, <2>4, <2>6, <2>7
<1>20. QED  BY <1>14, <1>15, <1>16, <1>18, <1>19

LEMMA SendDigestStep == ASSUME NoteKnown, SendDigest PROVE NotificationsInv'
PROOF
<1>1. /\ UNCHANGED <<quiet, dispatch, mailJob, pushJob, item, closed, digestRun>>
      /\ UNCHANGED <<owners, claim, overlapped, faults, pushed, collected>>
  BY DEF SendDigest, digest, push
<1>2. Cardinality(Recipients([to |-> "none", user |-> Me, note |-> {}])) = 0
  BY FS_EmptySet DEF Recipients
<1>3. mailed' = mailed
  <2>1. mailed \in [Notes -> Nat]  BY NoteParts
  <2>2. mailed' = [n \in Notes |-> IF n \in Head(digestMails) THEN mailed[n] + 0
                                   ELSE mailed[n]]
    BY <1>2 DEF SendDigest
  <2>3. \A n \in Notes : mailed[n] + 0 = mailed[n]  BY <2>1
  <2>4. QED  BY <2>1, <2>2, <2>3
<1>4. digestMails' \in Seq(SUBSET Notes)
  <2>1. digestMails \in Seq(SUBSET Notes)  BY NoteParts
  <2>2. digestMails # <<>> /\ digestMails' = Tail(digestMails)  BY DEF SendDigest
  <2>3. QED  BY <2>1, <2>2
<1>5. faults' \in 0..MaxFaults /\ faults' >= faults  BY <1>1, FaultFacts
<1>6. NotYetPassed' /\ PushCounted'  BY <1>1, NotYetStays, PushKept
<1>7. MailCounted'  BY <1>1, <1>3, <1>5, MailKept
<1>8. QED  BY <1>1, <1>3, <1>4, <1>5, <1>6, <1>7, Same, SendingKeeps

(***************************************************************************)
(* Steps of a digest run                                                    *)
(***************************************************************************)
\* A run moves: its entry alone counts or ceases to count.
LEMMA RunMoves ==
  ASSUME NoteKnown, NEW k \in DigestRuns, NEW y \in {Idle} \cup Group,
         digestRun' = [digestRun EXCEPT ![k] = y]
  PROVE  /\ digestRun' \in [DigestRuns -> {Idle} \cup Group]
         /\ \A n \in Notes, pc \in {"read", "queued"} :
              Holding(n, pc)' = IF y.pc = pc /\ n \in y.items
                                THEN Holding(n, pc) \cup {k} ELSE Holding(n, pc) \ {k}
PROOF
<1>1. digestRun \in [DigestRuns -> {Idle} \cup Group]  BY NoteParts
<1>2. digestRun' \in [DigestRuns -> {Idle} \cup Group]  BY <1>1
<1>3. digestRun'[k] = y /\ \A j \in DigestRuns \ {k} : digestRun'[j] = digestRun[j]
  BY <1>1
<1>4. ASSUME NEW n \in Notes, NEW pc \in {"read", "queued"}
      PROVE  Holding(n, pc)' = IF y.pc = pc /\ n \in y.items
                               THEN Holding(n, pc) \cup {k} ELSE Holding(n, pc) \ {k}
  <2>1. Holding(n, pc)' =
          {j \in DigestRuns : digestRun'[j].pc = pc /\ n \in digestRun'[j].items}
    BY DEF Holding, Holds
  <2>2. Holding(n, pc) =
          {j \in DigestRuns : digestRun[j].pc = pc /\ n \in digestRun[j].items}
    BY DEF Holding, Holds
  <2>3. QED  BY <1>3, <2>1, <2>2
<1>5. QED  BY <1>2, <1>4

LEMMA ItemFacts ==
  ASSUME NoteKnown, NEW n \in Notes
  PROVE  /\ collected[n] \in Nat /\ faults \in Nat
         /\ item[n] \in {"none", "pending", "processed", "failed"}
         /\ item[n] = "none" => /\ collected[n] = 0 /\ Holding(n, "read") = {}
                                /\ Holding(n, "queued") = {}
         /\ item[n] = "pending" =>
              collected[n] <= Cardinality(Holding(n, "queued")) + faults
         /\ item[n] \in {"processed", "failed"} =>
              collected[n] + Cardinality(Holding(n, "read"))
                <= Cardinality(DigestRuns) + faults
PROOF
<1>1. collected[n] \in Nat /\ faults \in Nat  BY NoteParts
<1>2. item[n] \in {"none", "pending", "processed", "failed"}  BY NoteParts DEF ItemStates
<1>3. QED  BY <1>1, <1>2, NoteParts DEF ItemsCounted

LEMMA ReadItemsStep ==
  ASSUME NoteKnown, NEW k \in DigestRuns, ReadItems(k) PROVE NotificationsInv'
PROOF
<1>1. /\ UNCHANGED <<quiet, dispatch, mailJob, pushJob, digestMails, item, closed>>
      /\ UNCHANGED <<owners, claim, overlapped, faults, mailed, pushed, collected>>
  BY DEF ReadItems, queues, push, history
<1>2. PICK due \in SUBSET Notes : due = {n \in closed : item[n] = "pending"}
  BY NoteParts
<1>3. PICK y : y = [pc |-> "read", items |-> due]  OBVIOUS
<1>4. y \in Group /\ y.pc = "read" /\ y.items = due  BY <1>3, GroupMade
<1>5. digestRun' = [digestRun EXCEPT ![k] = y] /\ digestRun[k].pc = "idle"
  BY <1>2, <1>3 DEF ReadItems
<1>6. digestRun' \in [DigestRuns -> {Idle} \cup Group]  BY <1>4, <1>5, RunMoves
<1>7. faults' \in 0..MaxFaults /\ faults' >= faults  BY <1>1, FaultFacts
<1>8. ItemsCounted'
  <2>1. ASSUME NEW n \in Notes
        PROVE  /\ Holding(n, "queued")' = Holding(n, "queued")
               /\ item[n] # "pending" => Holding(n, "read")' = Holding(n, "read")
    <3>1. k \notin Holding(n, "queued") /\ k \notin Holding(n, "read")
      BY <1>5 DEF Holding, Holds
    <3>2. Holding(n, "queued")' = Holding(n, "queued") \ {k}
      BY <1>4, <1>5, RunMoves
    <3>3. item[n] # "pending" => Holding(n, "read")' = Holding(n, "read") \ {k}
      BY <1>2, <1>4, <1>5, RunMoves
    <3>4. QED  BY <3>1, <3>2, <3>3
  <2>2. QED  BY <1>1, <2>1, ItemFacts DEF ItemsCounted
<1>9. digestMails' \in Seq(SUBSET Notes) /\ item' \in [Notes -> ItemStates]
      /\ collected' \in [Notes -> Nat]
  BY <1>1, NoteParts
<1>10. QED  BY <1>1, <1>6, <1>7, <1>8, <1>9, DigestKeeps

LEMMA QueueDigestStep ==
  ASSUME NoteKnown, NEW k \in DigestRuns, QueueDigest(k) PROVE NotificationsInv'
PROOF
<1>1. /\ UNCHANGED <<quiet, dispatch, mailJob, pushJob, item, closed>>
      /\ UNCHANGED <<owners, claim, overlapped, faults, mailed, pushed>>
  BY DEF QueueDigest, push
<1>2. digestRun[k] \in {Idle} \cup Group /\ digestRun[k].pc = "read"
  BY NoteParts DEF QueueDigest
<1>3. PICK items \in SUBSET Notes : items = digestRun[k].items  BY <1>2, GroupFacts
<1>4. PICK y : y = [pc |-> "queued", items |-> items]  OBVIOUS
<1>5. y \in Group /\ y.pc = "queued" /\ y.items = items  BY <1>4, GroupMade
<1>6. digestRun' = [digestRun EXCEPT ![k] = y]  BY <1>3, <1>4 DEF QueueDigest
<1>7. digestRun' \in [DigestRuns -> {Idle} \cup Group]  BY <1>5, <1>6, RunMoves
<1>8. faults' \in 0..MaxFaults /\ faults' >= faults  BY <1>1, FaultFacts
<1>9. collected' = [n \in Notes |-> IF n \in items THEN collected[n] + 1 ELSE collected[n]]
  BY <1>3 DEF QueueDigest
<1>10. collected' \in [Notes -> Nat]  BY <1>9, NoteParts
<1>11. digestMails' \in Seq(SUBSET Notes)
  <2>1. digestMails \in Seq(SUBSET Notes)  BY NoteParts
  <2>2. digestMails' = Append(digestMails, items)  BY <1>3 DEF QueueDigest
  <2>3. QED  BY <2>1, <2>2
<1>12. ASSUME NEW n \in Notes
       PROVE  /\ item[n] = "none" => collected'[n] = 0 /\ Holding(n, "read")' = {}
                                     /\ Holding(n, "queued")' = {}
              /\ item[n] = "pending" =>
                   collected'[n] <= Cardinality(Holding(n, "queued")') + faults
              /\ item[n] \in {"processed", "failed"} =>
                   collected'[n] + Cardinality(Holding(n, "read")')
                     <= Cardinality(DigestRuns) + faults
  <2> DEFINE R == Holding(n, "read")
             Q == Holding(n, "queued")
  <2>1. k \notin Q /\ (k \in R <=> n \in items)  BY <1>2, <1>3 DEF Holding, Holds
  <2>2. /\ R' = R \ {k}
        /\ Q' = IF n \in items THEN Q \cup {k} ELSE Q \ {k}
    BY <1>5, <1>6, RunMoves
  <2>3. collected'[n] = IF n \in items THEN collected[n] + 1 ELSE collected[n]
    BY <1>9
  <2>4. /\ IsFiniteSet(R) /\ IsFiniteSet(Q) /\ Cardinality(R) \in Nat
        /\ Cardinality(Q) \in Nat /\ Cardinality(DigestRuns) \in Nat
    BY HoldFacts
  <2>5. PICK r, q : r = R /\ q = Q  OBVIOUS
  <2>6. CASE n \in items
    <3>1. /\ Cardinality(r \ {k}) = Cardinality(r) - 1
          /\ Cardinality(q \cup {k}) = Cardinality(q) + 1
      BY <2>1, <2>4, <2>5, <2>6, FS_AddElement, FS_RemoveElement
    <3>2. Cardinality(R') = Cardinality(R) - 1 /\ Cardinality(Q') = Cardinality(Q) + 1
      BY <2>2, <2>5, <2>6, <3>1
    <3>3. item[n] # "none"  BY <2>1, <2>6, ItemFacts
    <3>4. collected'[n] = collected[n] + 1  BY <2>3, <2>6
    <3>5. QED  BY <2>4, <3>2, <3>3, <3>4, ItemFacts
  <2>7. CASE n \notin items
    <3>1. R' = R /\ Q' = Q /\ collected'[n] = collected[n]  BY <2>1, <2>2, <2>3, <2>7
    <3>2. QED  BY <3>1, ItemFacts
  <2>8. QED  BY <2>6, <2>7
<1>13. ItemsCounted'  BY <1>1, <1>12 DEF ItemsCounted
<1>14. item' \in [Notes -> ItemStates]  BY <1>1, NoteParts
<1>15. QED  BY <1>1, <1>7, <1>8, <1>10, <1>11, <1>13, <1>14, DigestKeeps

\* A run lets go of its items: marked for good, or as they are after a fault.
LEMMA LetGoStep ==
  ASSUME NoteKnown, NEW k \in DigestRuns, digestRun[k].pc \in {"read", "queued"},
         \/ \E mark \in {"processed", "failed"} :
              Mark(k, mark) /\ (digestRun[k].pc = "queued" \/ Fault)
         \/ digestRun' = [digestRun EXCEPT ![k] = Idle] /\ UNCHANGED item /\ Fault,
         Fault \/ faults' = faults,
         UNCHANGED <<quiet, dispatch, mailJob, pushJob, closed, owners, claim, overlapped,
                     mailed, pushed, digestMails, collected>>
  PROVE  NotificationsInv'
PROOF
<1>1. digestRun[k] \in {Idle} \cup Group  BY NoteParts
<1>2. PICK items \in SUBSET Notes : items = digestRun[k].items  BY <1>1, GroupFacts
<1>3. Idle \in {Idle} \cup Group /\ Idle.pc = "idle"  BY DEF Idle
<1>4. digestRun' = [digestRun EXCEPT ![k] = Idle]  BY DEF Mark
<1>5. digestRun' \in [DigestRuns -> {Idle} \cup Group]  BY <1>3, <1>4, RunMoves
<1>6. faults' \in 0..MaxFaults /\ faults' >= faults /\ (Fault => faults' = faults + 1)
  BY FaultFacts
<1>7. /\ item' \in [Notes -> ItemStates]
      /\ \A n \in Notes : \/ item'[n] = item[n] /\ (n \notin items \/ Fault)
                          \/ n \in items /\ item'[n] \in {"processed", "failed"}
      /\ \A n \in Notes \ items : item'[n] = item[n]
  <2>1. item \in [Notes -> ItemStates]  BY NoteParts
  <2>2. CASE UNCHANGED item /\ Fault  BY <2>1, <2>2
  <2>3. ASSUME NEW mark \in {"processed", "failed"}, Mark(k, mark)
        PROVE  <1>7!1 /\ <1>7!2 /\ <1>7!3
    <3>1. item' = [n \in Notes |-> IF n \in items THEN mark ELSE item[n]]
      BY <1>2, <2>3 DEF Mark
    <3>2. item' \in [Notes -> ItemStates]  BY <2>1, <3>1 DEF ItemStates
    <3>3. QED  BY <3>1, <3>2
  <2>4. QED  BY <2>2, <2>3
<1>8. ASSUME NEW n \in Notes
      PROVE  /\ item'[n] = "none" => collected[n] = 0 /\ Holding(n, "read")' = {}
                                     /\ Holding(n, "queued")' = {}
             /\ item'[n] = "pending" =>
                  collected[n] <= Cardinality(Holding(n, "queued")') + faults'
             /\ item'[n] \in {"processed", "failed"} =>
                  collected[n] + Cardinality(Holding(n, "read")')
                    <= Cardinality(DigestRuns) + faults'
  <2> DEFINE R == Holding(n, "read")
             Q == Holding(n, "queued")
  <2>1. k \in R \/ k \in Q <=> n \in items  BY <1>1, <1>2 DEF Holding, Holds
  <2>2. R' = R \ {k} /\ Q' = Q \ {k}  BY <1>3, <1>4, RunMoves
  <2>3. /\ IsFiniteSet(R) /\ IsFiniteSet(Q) /\ Cardinality(R) \in Nat
        /\ Cardinality(Q) \in Nat /\ Cardinality(DigestRuns) \in Nat
        /\ Cardinality(R) + Cardinality(Q) <= Cardinality(DigestRuns)
    BY HoldFacts
  <2>4. PICK r, q : r = R /\ q = Q  OBVIOUS
  <2>5. /\ Cardinality(r \ {k}) \in Nat /\ Cardinality(r \ {k}) <= Cardinality(r)
        /\ Cardinality(q \ {k}) \in Nat /\ Cardinality(q \ {k}) >= Cardinality(q) - 1
    <3>1. /\ IsFiniteSet(r \ {k}) /\ IsFiniteSet(q \ {k})
          /\ Cardinality(r \ {k}) = IF k \in r THEN Cardinality(r) - 1 ELSE Cardinality(r)
          /\ Cardinality(q \ {k}) = IF k \in q THEN Cardinality(q) - 1 ELSE Cardinality(q)
      BY <2>3, <2>4, FS_RemoveElement
    <3>2. Cardinality(r \ {k}) \in Nat /\ Cardinality(q \ {k}) \in Nat
      BY <3>1, FS_CardinalityType
    <3>3. QED  BY <2>3, <2>4, <3>1, <3>2
  <2>6. /\ Cardinality(R') \in Nat /\ Cardinality(R') <= Cardinality(R)
        /\ Cardinality(Q') \in Nat /\ Cardinality(Q') >= Cardinality(Q) - 1
    BY <2>2, <2>4, <2>5
  <2>7. faults' \in Nat /\ faults \in Nat  BY <1>6, NoteParts
  <2>8. CASE n \notin items
    <3>1. R' = R /\ Q' = Q /\ item'[n] = item[n]  BY <1>7, <2>1, <2>2, <2>8
    <3>2. QED  BY <1>6, <2>3, <2>7, <3>1, ItemFacts
  <2>9. CASE n \in items
    <3>1. item[n] # "none"  BY <2>1, <2>9, ItemFacts
    <3>2. CASE item'[n] = item[n] /\ Fault
      BY <1>6, <2>3, <2>6, <2>7, <3>1, <3>2, ItemFacts
    <3>3. CASE item'[n] \in {"processed", "failed"}
      <4>1. collected[n] + Cardinality(R) <= Cardinality(DigestRuns) + faults
        <5>1. CASE item[n] = "pending"  BY <2>3, <2>7, <5>1, ItemFacts
        <5>2. CASE item[n] # "pending"  BY <3>1, <5>2, ItemFacts
        <5>3. QED  BY <5>1, <5>2
      <4>2. collected[n] \in Nat  BY ItemFacts
      <4>3. QED  BY <1>6, <2>3, <2>6, <2>7, <3>3, <4>1, <4>2
    <3>4. QED  BY <1>7, <2>9, <3>2, <3>3
  <2>10. QED  BY <2>8, <2>9
<1>9. ItemsCounted'  BY <1>8 DEF ItemsCounted
<1>10. \A n \in Notes : item[n] = "none" => item'[n] = "none"
  <2>1. ASSUME NEW n \in Notes, item[n] = "none" PROVE n \notin items
    <3>1. Holding(n, "read") = {} /\ Holding(n, "queued") = {}  BY <2>1, ItemFacts
    <3>2. QED  BY <1>2, <3>1 DEF Holding, Holds
  <2>2. QED  BY <1>7, <2>1
<1>11. digestMails' \in Seq(SUBSET Notes) /\ collected' \in [Notes -> Nat]
  BY NoteParts
<1>12. QED  BY <1>5, <1>6, <1>7, <1>9, <1>10, <1>11, DigestKeeps

LEMMA DigestSteps ==
  ASSUME NoteKnown, NEW k \in DigestRuns, DigestStep(k) \/ DigestFails(k)
  PROVE  NotificationsInv'
PROOF
<1>1. CASE MarkItems(k) \/ DigestFails(k)
  <2>1. UNCHANGED <<quiet, dispatch, mailJob, pushJob, closed, owners, claim, overlapped,
                    mailed, pushed, digestMails, collected>>
    BY <1>1 DEF MarkItems, DigestFails, queues, push, history
  <2>2. digestRun[k].pc \in {"read", "queued"} /\ (Fault \/ faults' = faults)
    BY <1>1 DEF MarkItems, DigestFails
  <2>3. \/ \E mark \in {"processed", "failed"} :
             Mark(k, mark) /\ (digestRun[k].pc = "queued" \/ Fault)
        \/ digestRun' = [digestRun EXCEPT ![k] = Idle] /\ UNCHANGED item /\ Fault
    BY <1>1 DEF MarkItems, DigestFails
  <2>4. QED  BY <2>1, <2>2, <2>3, LetGoStep
<1>2. QED  BY <1>1, ReadItemsStep, QueueDigestStep DEF DigestStep

(***************************************************************************)
(* Steps of a registration                                                  *)
(***************************************************************************)
LEMMA ClaimStep ==
  ASSUME NoteKnown, NEW a \in Accounts, NEW v \in Devices, Claim(a, v)
  PROVE  NotificationsInv'
PROOF
<1>1. /\ UNCHANGED <<quiet, dispatch, mailJob, pushJob, item, closed, digestRun, digestMails>>
      /\ UNCHANGED <<faults, mailed, pushed, collected, owners>>
  BY DEF Claim, queues, digest, history
<1>2. PICK y : y = [pc |-> "checked", of |-> v]  OBVIOUS
<1>3. /\ claim[a] = Idle /\ owners[v] \subseteq {a} /\ claim' = [claim EXCEPT ![a] = y]
      /\ overlapped' = IF \E b \in Accounts \ {a} : claim[b] = [pc |-> "checked", of |-> v]
                       THEN overlapped \cup {v} ELSE overlapped
  BY <1>2 DEF Claim
<1>4. claim \in [Accounts -> {Idle} \cup Request] /\ overlapped \subseteq Devices
  BY NoteParts
<1>5. y \in Request  BY <1>2, RequestMade
<1>6. claim' \in [Accounts -> {Idle} \cup Request]  BY <1>3, <1>4, <1>5
<1>7. overlapped' \subseteq Devices /\ overlapped \subseteq overlapped'  BY <1>3, <1>4
<1>8. claim'[a] = y /\ \A b \in Accounts \ {a} : claim'[b] = claim[b]  BY <1>3, <1>4
<1>9. ASSUME NEW w \in Devices \ overlapped'
      PROVE  /\ \E b \in Accounts : owners[w] \subseteq {b}
             /\ \A b \in Accounts : Claims(b, w)' =>
                  owners[w] \subseteq {b} /\ \A d \in Accounts \ {b} : ~Claims(d, w)'
  <2>1. /\ \E b \in Accounts : owners[w] \subseteq {b}
        /\ \A b \in Accounts : Claims(b, w) =>
             owners[w] \subseteq {b} /\ \A d \in Accounts \ {b} : ~Claims(d, w)
    BY <1>7, <1>9, NoteParts DEF ClaimsAlone
  <2>2. \A b \in Accounts \ {a} : Claims(b, w)' <=> Claims(b, w)  BY <1>8 DEF Claims
  <2>3. Claims(a, w)' <=> w = v  BY <1>2, <1>8, RequestMade DEF Claims
  <2>4. w = v => \A b \in Accounts \ {a} : ~Claims(b, w)
    BY <1>3, <1>9 DEF Claims
  <2>5. QED  BY <1>3, <2>1, <2>2, <2>3, <2>4
<1>10. ClaimsAlone'  BY <1>1, <1>9 DEF ClaimsAlone
<1>11. owners' \in [Devices -> SUBSET Accounts]  BY <1>1, NoteParts
<1>12. QED  BY <1>1, <1>6, <1>7, <1>10, <1>11, RegistrationKeeps

LEMMA RegisterStep ==
  ASSUME NoteKnown, NEW a \in Accounts, Register(a) PROVE NotificationsInv'
PROOF
<1>1. /\ UNCHANGED <<quiet, dispatch, mailJob, pushJob, item, closed, digestRun, digestMails>>
      /\ UNCHANGED <<faults, mailed, pushed, collected, overlapped>>
  BY DEF Register, queues, digest, history
<1>2. /\ claim \in [Accounts -> {Idle} \cup Request] /\ overlapped \subseteq Devices
      /\ owners \in [Devices -> SUBSET Accounts]
  BY NoteParts
<1>3. claim[a] \in {Idle} \cup Request /\ claim[a].pc = "checked"  BY <1>2 DEF Register
<1>4. PICK v \in Devices : v = claim[a].of  BY <1>3, RequestFacts
<1>5. \A w \in Devices : Claims(a, w) <=> w = v  BY <1>3, <1>4, RequestFacts DEF Claims
<1>6. /\ owners' = [owners EXCEPT ![v] = owners[v] \cup {a}]
      /\ claim' = [claim EXCEPT ![a] = Idle]
  BY <1>4 DEF Register
<1>7. claim' \in [Accounts -> {Idle} \cup Request]  BY <1>2, <1>6
<1>8. owners' \in [Devices -> SUBSET Accounts]  BY <1>2, <1>6
<1>9. /\ claim'[a] = Idle /\ \A b \in Accounts \ {a} : claim'[b] = claim[b]
      /\ owners'[v] = owners[v] \cup {a}
      /\ \A w \in Devices \ {v} : owners'[w] = owners[w]
  BY <1>2, <1>6
<1>10. ASSUME NEW w \in Devices \ overlapped
       PROVE  /\ \E b \in Accounts : owners'[w] \subseteq {b}
              /\ \A b \in Accounts : Claims(b, w)' =>
                   owners'[w] \subseteq {b} /\ \A d \in Accounts \ {b} : ~Claims(d, w)'
  <2>1. /\ \E b \in Accounts : owners[w] \subseteq {b}
        /\ \A b \in Accounts : Claims(b, w) =>
             owners[w] \subseteq {b} /\ \A d \in Accounts \ {b} : ~Claims(d, w)
    BY <1>10, NoteParts DEF ClaimsAlone
  <2>2. \A b \in Accounts \ {a} : Claims(b, w)' <=> Claims(b, w)  BY <1>9 DEF Claims
  <2>3. ~Claims(a, w)'  BY <1>9 DEF Claims, Idle
  <2>4. CASE w = v
    <3>1. owners[w] \subseteq {a} /\ \A d \in Accounts \ {a} : ~Claims(d, w)
      BY <1>5, <2>1, <2>4
    <3>2. owners'[w] \subseteq {a}  BY <1>9, <2>4, <3>1
    <3>3. QED  BY <2>2, <2>3, <3>1, <3>2
  <2>5. CASE w # v
    <3>1. owners'[w] = owners[w]  BY <1>9, <2>5
    <3>2. QED  BY <2>1, <2>2, <2>3, <3>1
  <2>6. QED  BY <2>4, <2>5
<1>11. ClaimsAlone'  BY <1>1, <1>10 DEF ClaimsAlone
<1>12. overlapped' \subseteq Devices  BY <1>1, <1>2
<1>13. QED  BY <1>1, <1>7, <1>8, <1>11, <1>12, RegistrationKeeps

LEMMA RevokeStep ==
  ASSUME NoteKnown, NEW a \in Accounts, NEW v \in Devices, Revoke(a, v)
  PROVE  NotificationsInv'
PROOF
<1>1. /\ UNCHANGED <<quiet, dispatch, mailJob, pushJob, item, closed, digestRun, digestMails>>
      /\ UNCHANGED <<faults, mailed, pushed, collected, claim, overlapped>>
  BY DEF Revoke, queues, digest, history
<1>2. /\ owners \in [Devices -> SUBSET Accounts]
      /\ claim \in [Accounts -> {Idle} \cup Request] /\ overlapped \subseteq Devices
  BY NoteParts
<1>3. owners' = [owners EXCEPT ![v] = owners[v] \ {a}]  BY DEF Revoke
<1>4. owners' \in [Devices -> SUBSET Accounts]
      /\ \A w \in Devices : owners'[w] \subseteq owners[w]
  BY <1>2, <1>3
<1>5. ClaimsAlone'  BY <1>1, <1>4, ClaimsKept
<1>6. claim' \in [Accounts -> {Idle} \cup Request] /\ overlapped' \subseteq Devices
  BY <1>1, <1>2
<1>7. QED  BY <1>1, <1>4, <1>5, <1>6, RegistrationKeeps

(***************************************************************************)
(* What holds of the notifications                                          *)
(***************************************************************************)
LEMMA NoteInitKnown == NotificationsAssumption /\ Init => NoteKnown
PROOF
<1>1. SUFFICES ASSUME NotificationsAssumption, Init PROVE NotificationsInv
  BY DEF NoteKnown
<1>2. /\ Attempts \in Nat \ {0} /\ MaxFaults \in Nat /\ Me \in Accounts
      /\ IsFiniteSet(DigestRuns)
  BY <1>1 DEF NotificationsAssumption
<1>3. TypeOK
  <2>1. quiet \in BOOLEAN /\ faults \in 0..MaxFaults /\ closed \subseteq Notes
        /\ overlapped \subseteq Devices
    <3>1. quiet \in BOOLEAN  BY <1>1 DEF Init
    <3>2. faults \in 0..MaxFaults  BY <1>1, <1>2 DEF Init
    <3>3. QED  BY <1>1, <3>1, <3>2 DEF Init
  <2>2. /\ dispatch \in [Notes -> {"idle", "created", "mail", "done"}]
        /\ item \in [Notes -> {"none", "pending", "processed", "failed"}]
    BY <1>1 DEF Init
  <2>3. mailJob \in [Notes -> MailJob] /\ pushJob \in [Notes -> PushJob]
    <3>1. 0 \in 0..(Attempts - 1) /\ {} \in SUBSET Devices  BY <1>2
    <3>2. NoMail \in MailJob /\ NoPush \in PushJob
      BY <3>1, MailJobMade, PushJobMade DEF NoMail, NoPush
    <3>3. QED  BY <1>1, <3>2 DEF Init
  <2>4. /\ digestRun \in [DigestRuns -> {Idle} \cup Group]
        /\ claim \in [Accounts -> {Idle} \cup Request]
    BY <1>1 DEF Init
  <2>5. owners \in [Devices -> SUBSET Accounts] /\ digestMails \in Seq(SUBSET Notes)
    BY <1>1 DEF Init
  <2>6. QED  BY <2>1, <2>2, <2>3, <2>4, <2>5 DEF TypeOK
<1>4. Counts
  <2>1. mailed \in [Notes -> Nat] /\ collected \in [Notes -> Nat]  BY <1>1 DEF Init
  <2>2. [v \in Devices |-> 0] \in [Devices -> Nat]  OBVIOUS
  <2>3. pushed \in [Notes -> [Devices -> Nat]]  BY <1>1, <2>2 DEF Init
  <2>4. QED  BY <2>1, <2>3 DEF Counts
<1>5. NotYetPassed  BY <1>1 DEF Init, NotYetPassed
<1>6. /\ NoMail.pc = "none" /\ NoMail.stalls = 0 /\ NoMail.ghost = 0
      /\ NoPush.pc = "none" /\ NoPush.stalls = 0 /\ NoPush.ghost = {}
      /\ Idle.pc = "idle"
  BY DEF NoMail, NoPush, Idle
<1>7. MailCounted
  <2>1. \A n \in Notes : mailJob[n] = NoMail /\ mailed[n] = 0  BY <1>1 DEF Init
  <2>2. QED  BY <1>6, <2>1 DEF MailCounted, MailFits
<1>8. PushCounted
  <2>1. \A n \in Notes, v \in Devices : pushJob[n] = NoPush /\ pushed[n][v] = 0
    BY <1>1 DEF Init
  <2>2. QED  BY <1>6, <2>1 DEF PushCounted, PushFits, One
<1>9. ItemsCounted
  <2>1. \A k \in DigestRuns : digestRun[k].pc = "idle"  BY <1>1, <1>6 DEF Init
  <2>2. \A n \in Notes : /\ item[n] = "none" /\ collected[n] = 0
                         /\ Holding(n, "read") = {} /\ Holding(n, "queued") = {}
    BY <1>1, <2>1 DEF Init, Holding, Holds
  <2>3. QED  BY <2>2 DEF ItemsCounted
<1>10. ClaimsAlone
  <2>1. \A v \in Devices : owners[v] = {}  BY <1>1 DEF Init
  <2>2. \A a \in Accounts, v \in Devices : ~Claims(a, v)
    BY <1>1 DEF Init, Claims, Idle
  <2>3. QED  BY <1>2, <2>1, <2>2 DEF ClaimsAlone
<1>11. QED  BY <1>3, <1>4, <1>5, <1>7, <1>8, <1>9, <1>10 DEF NotificationsInv

LEMMA NoteStepKnown == NoteKnown /\ [Next]_vars => NoteKnown'
PROOF
<1>1. SUFFICES ASSUME NoteKnown, [Next]_vars PROVE NotificationsInv'
  BY DEF NoteKnown, NotificationsAssumption
<1>2. CASE UNCHANGED vars
  <2>1. /\ UNCHANGED <<quiet, dispatch, mailJob, pushJob, item, closed, digestRun,
                       digestMails>>
        /\ UNCHANGED <<faults, mailed, pushed, collected, claim, overlapped, owners>>
    BY <1>2 DEF vars, queues, digest, push, history
  <2>2. /\ owners' \in [Devices -> SUBSET Accounts]
        /\ \A v \in Devices : owners'[v] \subseteq owners[v]
        /\ claim' \in [Accounts -> {Idle} \cup Request] /\ overlapped' \subseteq Devices
    BY <1>1, <2>1, NoteParts
  <2>3. ClaimsAlone'  BY <1>1, <2>1, <2>2, ClaimsKept
  <2>4. QED  BY <1>1, <2>1, <2>2, <2>3, RegistrationKeeps
<1>3. CASE QuietHours \/ SendDigest  BY <1>1, <1>3, QuietStep, SendDigestStep
<1>4. ASSUME NEW n \in Notes,
             \/ Create(n) \/ PassMail(n) \/ PassPush(n) \/ DispatchFails(n) \/ WindowEnds(n)
      PROVE  NotificationsInv'
  BY <1>1, <1>4, CreateNoteStep, PassMailStep, PassPushStep, DispatchFailsStep, WindowStep
<1>5. ASSUME NEW n \in Notes,
             \/ SendMail(n) \/ MailSent(n) \/ StallMail(n) \/ GhostMails(n)
             \/ ReadDevices(n) \/ PushDone(n) \/ StallPush(n)
             \/ \E v \in Devices : Push(n, v) \/ GhostPushes(n, v)
      PROVE  NotificationsInv'
  BY <1>1, <1>5, MailJobSteps, PushJobSteps
<1>6. ASSUME NEW k \in DigestRuns, DigestStep(k) \/ DigestFails(k) PROVE NotificationsInv'
  BY <1>1, <1>6, DigestSteps
<1>7. ASSUME NEW a \in Accounts,
             Register(a) \/ \E v \in Devices : Claim(a, v) \/ Revoke(a, v)
      PROVE  NotificationsInv'
  BY <1>1, <1>7, RegisterStep, ClaimStep, RevokeStep
<1>8. QED  BY <1>1, <1>2, <1>3, <1>4, <1>5, <1>6, <1>7 DEF Next

LEMMA NoteInvHolds == ASSUME NotificationsAssumption PROVE Spec => []NoteKnown
PROOF
<1>1. Init => NoteKnown  BY NoteInitKnown
<1>2. QED  BY <1>1, NoteStepKnown, PTL DEF Spec

\* Every reachable state of the notifications is well typed, for any events, devices,
\* accounts, digest workers and attempts.
THEOREM NotificationsTyped == ASSUME NotificationsAssumption PROVE Spec => []TypeOK
PROOF
<1>1. NoteKnown => TypeOK  BY DEF NoteKnown, NotificationsInv
<1>2. QED  BY <1>1, NoteInvHolds, PTL

\* A mail goes out once and once more per fault, and neither is it sent nor a device served
\* more often than once per attempt and once more for the one stall that is forgiven.
THEOREM CopiesAreFew == ASSUME NotificationsAssumption PROVE Spec => []CopiesBounded
PROOF
<1>1. NoteKnown => CopiesBounded
  <2>1. SUFFICES ASSUME NoteKnown, NEW n \in Notes
        PROVE  /\ mailed[n] <= 1 + faults /\ mailed[n] <= Attempts + 1
               /\ \A v \in Devices : pushed[n][v] <= Attempts + 1
    BY DEF CopiesBounded
  <2>2. /\ mailJob[n] \in MailJob /\ mailed[n] \in Nat
        /\ pushJob[n] \in PushJob
        /\ pushed[n] \in [Devices -> Nat] /\ faults \in Nat /\ Attempts \in Nat \ {0}
        /\ MailFits(mailJob[n], mailed[n], faults)
        /\ \A v \in Devices : PushFits(pushJob[n], v, pushed[n][v])
    BY <2>1, NoteParts DEF MailCounted, PushCounted
  <2>3. PICK x \in MailJob, c \in Nat, f \in Nat :
          x = mailJob[n] /\ c = mailed[n] /\ f = faults
    BY <2>2
  <2>4. c <= 1 + f /\ c <= Attempts + 1
    <3>1. MailFits(x, c, f)  BY <2>2, <2>3
    <3>2. /\ x.pc \in {"none", "waiting", "sent", "done"} /\ x.tries \in 0..(Attempts - 1)
          /\ x.stalls \in {0, 1} /\ x.ghost \in {0, 1}
      BY MailJobFacts
    <3>3. QED  BY <2>2, <3>1, <3>2 DEF MailFits
  <2>5. ASSUME NEW v \in Devices PROVE pushed[n][v] <= Attempts + 1
    <3>1. PICK y \in PushJob, d \in Nat : y = pushJob[n] /\ d = pushed[n][v]
      BY <2>2
    <3>2. PushFits(y, v, d)  BY <2>2, <3>1
    <3>3. /\ y.pc \in {"none", "waiting", "sending", "done"}
          /\ y.tries \in 0..(Attempts - 1) /\ y.stalls \in {0, 1}
      BY PushJobFacts
    <3>4. One(v, y.ghost) \in {0, 1} /\ One(v, y.left) \in {0, 1}  BY DEF One
    <3>5. d <= Attempts + 1  BY <2>2, <3>2, <3>3, <3>4 DEF PushFits
    <3>6. QED  BY <3>1, <3>5
  <2>6. QED  BY <2>3, <2>4, <2>5
<1>2. QED  BY <1>1, NoteInvHolds, PTL

\* An item gets into at most one digest per worker and one more per fault, although any number
\* of runs may read it before it is marked.
THEOREM ItemsAreCollectedOnce ==
  ASSUME NotificationsAssumption PROVE Spec => []CollectedBounded
PROOF
<1>1. NoteKnown => CollectedBounded
  <2>1. SUFFICES ASSUME NoteKnown, NEW n \in Notes
        PROVE  collected[n] <= Cardinality(DigestRuns) + faults
    BY DEF CollectedBounded
  <2>2. CASE item[n] = "none"
    <3>1. /\ collected[n] = 0 /\ faults \in Nat /\ Cardinality(DigestRuns) \in Nat
      BY <2>1, <2>2, ItemFacts, HoldFacts
    <3>2. QED  BY <3>1
  <2>3. CASE item[n] = "pending"  BY <2>1, <2>3, ItemFacts, HoldFacts
  <2>4. CASE item[n] \in {"processed", "failed"}  BY <2>1, <2>4, ItemFacts, HoldFacts
  <2>5. QED  BY <2>1, <2>2, <2>3, <2>4, ItemFacts
<1>2. QED  BY <1>1, NoteInvHolds, PTL

\* A device is registered for one account unless two accounts registered it at the same time.
THEOREM DevicesHaveOneOwner == ASSUME NotificationsAssumption PROVE Spec => []OneOwner
PROOF
<1>1. NoteKnown => OneOwner
  <2>1. SUFFICES ASSUME NoteKnown, NEW v \in Devices \ overlapped
        PROVE  Cardinality(owners[v]) <= 1
    BY DEF OneOwner
  <2>2. PICK a \in Accounts : owners[v] \in SUBSET {a}
    BY <2>1, NoteParts DEF ClaimsAlone
  <2>3. IsFiniteSet({a}) /\ Cardinality({a}) = 1  BY FS_Singleton
  <2>4. QED  BY <2>2, <2>3, FS_Subset
<1>2. QED  BY <1>1, NoteInvHolds, PTL

(***************************************************************************)
(* Webhooks                                                                 *)
(***************************************************************************)
HookKnown == Hook!WebhooksAssumption /\ Hook!WebhooksInv

LEMMA DeliveryFacts ==
  ASSUME NEW x \in {Hook!Idle} \cup Hook!Delivery
  PROVE  /\ x = Hook!Idle => x.pc = "idle"
         /\ x # Hook!Idle => /\ x \in Hook!Delivery /\ x.pc \in {"posting", "accepted", "failed"}
                             /\ x.read \in 0..(MaxFailures - 1) /\ x.attempt \in 0..MaxAttempts
PROOF BY DEF Hook!Idle, Hook!Delivery

LEMMA DeliveryMade ==
  ASSUME NEW pc \in {"posting", "accepted", "failed"}, NEW read \in 0..(MaxFailures - 1),
         NEW attempt \in 0..MaxAttempts
  PROVE  LET x == [pc |-> pc, read |-> read, attempt |-> attempt]
         IN  x \in Hook!Delivery /\ x # Hook!Idle /\ x.pc = pc /\ x.read = read /\ x.attempt = attempt
PROOF BY DEF Hook!Idle, Hook!Delivery

LEMMA HookInitKnown == Hook!WebhooksAssumption /\ Hook!Init => HookKnown
PROOF
<1>1. SUFFICES ASSUME Hook!WebhooksAssumption, Hook!Init PROVE Hook!WebhooksInv
  BY DEF HookKnown
<1>2. Hook!TypeOK
  <2>1. delivery \in [Events -> {Hook!Idle} \cup Hook!Delivery]  BY <1>1 DEF Hook!Init
  <2>2. failures \in 0..MaxFailures /\ streak \in 0..MaxFailures
    BY <1>1 DEF Hook!Init, Hook!WebhooksAssumption
  <2>3. active \in BOOLEAN /\ concurrent \in BOOLEAN  BY <1>1 DEF Hook!Init
  <2>4. QED  BY <2>1, <2>2, <2>3 DEF Hook!TypeOK
<1>3. \A e \in Events : delivery[e] = Hook!Idle /\ delivery[e].pc # "posting"
  BY <1>1 DEF Hook!Init, Hook!Idle
<1>4. QED
  BY <1>1, <1>2, <1>3
     DEF Hook!Init, Hook!WebhooksInv, Hook!CountIsStreak, Hook!Alone, Hook!ReadIsStored,
         Hook!AttemptsLeft

\* A delivery goes on by itself: the hook and the histories stay.
LEMMA DeliveryMoves ==
  ASSUME HookKnown, NEW e \in Events, NEW y \in {Hook!Idle} \cup Hook!Delivery,
         delivery' = [delivery EXCEPT ![e] = y],
         UNCHANGED <<active, failures, streak>>,
         y.pc = "posting" => y.attempt < MaxAttempts,
         ~concurrent' => /\ ~concurrent
                         /\ y # Hook!Idle => /\ y.read = failures
                                             /\ \A f \in Events \ {e} : delivery[f] = Hook!Idle,
         concurrent' \in BOOLEAN
  PROVE  Hook!WebhooksInv'
PROOF
<1>1. delivery \in [Events -> {Hook!Idle} \cup Hook!Delivery]
  BY DEF HookKnown, Hook!WebhooksInv, Hook!TypeOK
<1>2. delivery'[e] = y /\ \A f \in Events \ {e} : delivery'[f] = delivery[f]  BY <1>1
<1>3. Hook!TypeOK'
  <2>1. delivery' \in [Events -> {Hook!Idle} \cup Hook!Delivery]  BY <1>1
  <2>2. active' \in BOOLEAN /\ failures' \in 0..MaxFailures /\ streak' \in 0..MaxFailures
    BY DEF HookKnown, Hook!WebhooksInv, Hook!TypeOK
  <2>3. QED  BY <2>1, <2>2 DEF Hook!TypeOK
<1>4. Hook!CountIsStreak'  BY DEF Hook!CountIsStreak, HookKnown, Hook!WebhooksInv
<1>5. Hook!Alone'  BY <1>2 DEF Hook!Alone, HookKnown, Hook!WebhooksInv
<1>6. Hook!ReadIsStored'  BY <1>2 DEF Hook!ReadIsStored, HookKnown, Hook!WebhooksInv
<1>7. Hook!AttemptsLeft'  BY <1>2 DEF Hook!AttemptsLeft, HookKnown, Hook!WebhooksInv
<1>8. QED  BY <1>3, <1>4, <1>5, <1>6, <1>7 DEF Hook!WebhooksInv

LEMMA DispatchStep == ASSUME HookKnown, NEW e \in Events, Hook!Dispatch(e) PROVE Hook!WebhooksInv'
PROOF
<1>1. PICK y : y = [pc |-> "posting", read |-> failures, attempt |-> 0]  OBVIOUS
<1>2. /\ delivery' = [delivery EXCEPT ![e] = y]
      /\ concurrent' = (concurrent \/ \E f \in Events : delivery[f] # Hook!Idle)
      /\ UNCHANGED <<active, failures, streak>> /\ failures < MaxFailures
  BY <1>1 DEF Hook!Dispatch
<1>3. MaxFailures \in Nat /\ MaxAttempts \in Nat \ {0} /\ failures \in 0..MaxFailures
  BY DEF HookKnown, Hook!WebhooksInv, Hook!WebhooksAssumption, Hook!TypeOK
<1>4. failures \in 0..(MaxFailures - 1) /\ 0 \in 0..MaxAttempts /\ 0 < MaxAttempts
  BY <1>2, <1>3
<1>5. y \in Hook!Delivery /\ y.read = failures /\ y.attempt = 0  BY <1>1, <1>4, DeliveryMade
<1>6. concurrent' \in BOOLEAN  BY <1>2
<1>7. ~concurrent' => ~concurrent /\ \A f \in Events \ {e} : delivery[f] = Hook!Idle  BY <1>2
<1>8. QED  BY <1>2, <1>4, <1>5, <1>6, <1>7, DeliveryMoves

LEMMA PostStep == ASSUME HookKnown, NEW e \in Events, Hook!Post(e) PROVE Hook!WebhooksInv'
PROOF
<1> DEFINE read == delivery[e].read
           tried == delivery[e].attempt
<1>1. /\ delivery \in [Events -> {Hook!Idle} \cup Hook!Delivery] /\ MaxAttempts \in Nat \ {0}
      /\ concurrent \in BOOLEAN
  BY DEF HookKnown, Hook!WebhooksInv, Hook!WebhooksAssumption, Hook!TypeOK
<1>2. /\ delivery[e] # Hook!Idle /\ read \in 0..(MaxFailures - 1) /\ tried \in 0..MaxAttempts
  BY <1>1, DeliveryFacts DEF Hook!Post
<1>3. tried < MaxAttempts  BY <1>1 DEF Hook!Post, HookKnown, Hook!WebhooksInv, Hook!AttemptsLeft
<1>4. ~concurrent => read = failures /\ \A f \in Events \ {e} : delivery[f] = Hook!Idle
  BY <1>2 DEF HookKnown, Hook!WebhooksInv, Hook!Alone, Hook!ReadIsStored
<1>5. UNCHANGED <<active, failures, streak, concurrent>>  BY DEF Hook!Post
<1>6. PICK next : next = IF tried + 1 = MaxAttempts THEN "failed" ELSE "posting"  OBVIOUS
<1>7. PICK y, z : /\ y = [pc |-> "accepted", read |-> read, attempt |-> tried]
                  /\ z = [pc |-> next, read |-> read, attempt |-> tried + 1]
  OBVIOUS
<1>8. delivery' = [delivery EXCEPT ![e] = y] \/ delivery' = [delivery EXCEPT ![e] = z]
  BY <1>6, <1>7 DEF Hook!Post
<1>9. y \in Hook!Delivery /\ y.pc = "accepted" /\ y.read = read  BY <1>2, <1>7, DeliveryMade
<1>10. next \in {"failed", "posting"} /\ tried + 1 \in 0..MaxAttempts
       /\ (next = "posting" => tried + 1 < MaxAttempts)
  BY <1>1, <1>2, <1>3, <1>6
<1>11. z \in Hook!Delivery /\ z.pc = next /\ z.read = read /\ z.attempt = tried + 1
  BY <1>2, <1>7, <1>10, DeliveryMade
<1>12. CASE delivery' = [delivery EXCEPT ![e] = y]
  <2>1. y.pc = "posting" => y.attempt < MaxAttempts  BY <1>9
  <2>2. ~concurrent' => /\ ~concurrent
                        /\ y # Hook!Idle => /\ y.read = failures
                                            /\ \A f \in Events \ {e} : delivery[f] = Hook!Idle
    BY <1>4, <1>5, <1>9
  <2>3. concurrent' \in BOOLEAN  BY <1>1, <1>5
  <2>4. QED  BY <1>5, <1>9, <1>12, <2>1, <2>2, <2>3, DeliveryMoves
<1>13. CASE delivery' = [delivery EXCEPT ![e] = z]
  <2>1. z.pc = "posting" => z.attempt < MaxAttempts  BY <1>10, <1>11
  <2>2. ~concurrent' => /\ ~concurrent
                        /\ z # Hook!Idle => /\ z.read = failures
                                            /\ \A f \in Events \ {e} : delivery[f] = Hook!Idle
    BY <1>4, <1>5, <1>11
  <2>3. concurrent' \in BOOLEAN  BY <1>1, <1>5
  <2>4. QED  BY <1>5, <1>11, <1>13, <2>1, <2>2, <2>3, DeliveryMoves
<1>14. QED  BY <1>8, <1>12, <1>13

\* A delivery ends, alone or beside others; both counts are kept in step when it is alone.
LEMMA DeliveryEnds ==
  ASSUME HookKnown, NEW e \in Events, delivery' = [delivery EXCEPT ![e] = Hook!Idle],
         UNCHANGED concurrent, delivery[e] # Hook!Idle, active' \in BOOLEAN,
         failures' \in 0..MaxFailures, streak' \in 0..MaxFailures,
         ~concurrent => failures' = streak'
  PROVE  Hook!WebhooksInv'
PROOF
<1>1. delivery \in [Events -> {Hook!Idle} \cup Hook!Delivery] /\ concurrent \in BOOLEAN
  BY DEF HookKnown, Hook!WebhooksInv, Hook!TypeOK
<1>2. delivery'[e] = Hook!Idle /\ \A f \in Events \ {e} : delivery'[f] = delivery[f]  BY <1>1
<1>3. delivery' \in [Events -> {Hook!Idle} \cup Hook!Delivery]  BY <1>1
<1>4. Hook!TypeOK'  BY <1>1, <1>3 DEF Hook!TypeOK
<1>5. ~concurrent => \A f \in Events : delivery'[f] = Hook!Idle
  BY <1>2 DEF HookKnown, Hook!WebhooksInv, Hook!Alone
<1>6. Hook!Alone' /\ Hook!ReadIsStored'  BY <1>5 DEF Hook!Alone, Hook!ReadIsStored
<1>7. Hook!Idle.pc # "posting"  BY DEF Hook!Idle
<1>8. Hook!AttemptsLeft'  BY <1>2, <1>7 DEF Hook!AttemptsLeft, HookKnown, Hook!WebhooksInv
<1>9. QED  BY <1>4, <1>6, <1>8 DEF Hook!WebhooksInv, Hook!CountIsStreak

LEMMA ResetStep == ASSUME HookKnown, NEW e \in Events, Hook!CountReset(e) PROVE Hook!WebhooksInv'
PROOF
<1>1. /\ delivery \in [Events -> {Hook!Idle} \cup Hook!Delivery] /\ active \in BOOLEAN
      /\ MaxFailures \in Nat
  BY DEF HookKnown, Hook!WebhooksInv, Hook!TypeOK, Hook!WebhooksAssumption
<1>2. delivery[e] # Hook!Idle  BY <1>1, DeliveryFacts DEF Hook!CountReset
<1>3. /\ delivery' = [delivery EXCEPT ![e] = Hook!Idle] /\ active' = active
      /\ concurrent' = concurrent /\ failures' = 0 /\ streak' = 0
  BY DEF Hook!CountReset
<1>4. active' \in BOOLEAN  BY <1>1, <1>3, Zenon
<1>5. failures' \in 0..MaxFailures /\ streak' \in 0..MaxFailures  BY <1>1, <1>3
<1>6. QED  BY <1>2, <1>3, <1>4, <1>5, DeliveryEnds

LEMMA FailureStep ==
  ASSUME HookKnown, NEW e \in Events, Hook!CountFailure(e)
  PROVE  Hook!WebhooksInv'
PROOF
<1>1. /\ delivery \in [Events -> {Hook!Idle} \cup Hook!Delivery] /\ active \in BOOLEAN
      /\ MaxFailures \in Nat /\ failures \in 0..MaxFailures /\ streak \in 0..MaxFailures
  BY DEF HookKnown, Hook!WebhooksInv, Hook!TypeOK, Hook!WebhooksAssumption
<1>2. delivery[e] # Hook!Idle /\ delivery[e].read \in 0..(MaxFailures - 1)
  BY <1>1, DeliveryFacts DEF Hook!CountFailure
<1>3. /\ failures' = delivery[e].read + 1
      /\ streak' = IF streak < MaxFailures THEN streak + 1 ELSE streak
      /\ delivery' = [delivery EXCEPT ![e] = Hook!Idle] /\ UNCHANGED concurrent
  BY DEF Hook!CountFailure
<1>4. active' = (active /\ delivery[e].read + 1 < Hook!Allowed)  BY DEF Hook!CountFailure
<1>5. failures' \in 0..MaxFailures /\ streak' \in 0..MaxFailures  BY <1>1, <1>2, <1>3
<1>6. ~concurrent => delivery[e].read = failures /\ failures = streak
  BY <1>2 DEF HookKnown, Hook!WebhooksInv, Hook!ReadIsStored, Hook!CountIsStreak
<1>7. ~concurrent => failures' = streak'  BY <1>1, <1>2, <1>3, <1>6
<1>8. active' \in BOOLEAN  BY <1>4, Zenon
<1>9. QED  BY <1>2, <1>3, <1>5, <1>7, <1>8, DeliveryEnds

LEMMA HookRestartStep == ASSUME HookKnown, Hook!Restart PROVE Hook!WebhooksInv'
PROOF
<1>1. \A e \in Events : delivery'[e] = Hook!Idle /\ delivery'[e].pc # "posting"
  BY DEF Hook!Restart, Hook!Idle
<1>2. delivery' \in [Events -> {Hook!Idle} \cup Hook!Delivery]  BY DEF Hook!Restart
<1>3. UNCHANGED <<active, failures, streak, concurrent>>  BY DEF Hook!Restart
<1>4. Hook!TypeOK'  BY <1>2, <1>3 DEF Hook!TypeOK, HookKnown, Hook!WebhooksInv
<1>5. Hook!CountIsStreak'  BY <1>3 DEF Hook!CountIsStreak, HookKnown, Hook!WebhooksInv
<1>6. QED
  BY <1>1, <1>4, <1>5 DEF Hook!WebhooksInv, Hook!Alone, Hook!ReadIsStored, Hook!AttemptsLeft

LEMMA UpdateStep == ASSUME HookKnown, Hook!Update PROVE Hook!WebhooksInv'
PROOF
<1>1. active' \in BOOLEAN /\ UNCHANGED <<failures, delivery, streak, concurrent>>
  BY DEF Hook!Update
<1>2. Hook!TypeOK'  BY <1>1 DEF Hook!TypeOK, HookKnown, Hook!WebhooksInv
<1>3. Hook!CountIsStreak' /\ Hook!Alone' /\ Hook!ReadIsStored' /\ Hook!AttemptsLeft'
  BY <1>1
     DEF HookKnown, Hook!WebhooksInv, Hook!CountIsStreak, Hook!Alone, Hook!ReadIsStored,
         Hook!AttemptsLeft
<1>4. QED  BY <1>2, <1>3 DEF Hook!WebhooksInv

LEMMA HookStepKnown == HookKnown /\ [Hook!Next]_(Hook!vars) => HookKnown'
PROOF
<1>1. SUFFICES ASSUME HookKnown, [Hook!Next]_(Hook!vars) PROVE Hook!WebhooksInv'
  BY DEF HookKnown, Hook!WebhooksAssumption
<1>2. CASE UNCHANGED Hook!vars
  <2>1. /\ active' = active /\ failures' = failures /\ delivery' = delivery
        /\ streak' = streak /\ concurrent' = concurrent
    BY <1>2 DEF Hook!vars
  <2>2. QED
    BY <1>1, <2>1, Zenon
       DEF HookKnown, Hook!WebhooksInv, Hook!TypeOK, Hook!CountIsStreak, Hook!Alone,
           Hook!ReadIsStored, Hook!AttemptsLeft
<1>3. CASE Hook!Restart  BY <1>1, <1>3, HookRestartStep
<1>4. CASE Hook!Update  BY <1>1, <1>4, UpdateStep
<1>5. ASSUME NEW e \in Events, Hook!Dispatch(e) \/ Hook!Post(e) \/ Hook!CountReset(e) \/ Hook!CountFailure(e)
      PROVE  Hook!WebhooksInv'
  BY <1>1, <1>5, DispatchStep, PostStep, ResetStep, FailureStep
<1>6. QED  BY <1>1, <1>2, <1>3, <1>4, <1>5 DEF Hook!Next

LEMMA HookInvHolds == ASSUME Hook!WebhooksAssumption PROVE Hook!Spec => []HookKnown
PROOF
<1>1. Hook!Init => HookKnown  BY HookInitKnown
<1>2. QED  BY <1>1, HookStepKnown, PTL DEF Hook!Spec

\* Every reachable state of the hook is well typed, for any events, attempts and bound.
THEOREM HooksTyped == ASSUME Hook!WebhooksAssumption PROVE Hook!Spec => []Hook!TypeOK
PROOF
<1>1. HookKnown => Hook!TypeOK  BY DEF HookKnown, Hook!WebhooksInv
<1>2. QED  BY <1>1, HookInvHolds, PTL

\* As long as deliveries do not overlap, the stored count, which each delivery writes back
\* from what it read before its attempts, is the number of failures in a row.
THEOREM CountsAreStreaks == ASSUME Hook!WebhooksAssumption PROVE Hook!Spec => []Hook!CountIsStreak
PROOF
<1>1. HookKnown => Hook!CountIsStreak  BY DEF HookKnown, Hook!WebhooksInv
<1>2. QED  BY <1>1, HookInvHolds, PTL

\* Without overlap a hook is disabled by its own count only after three failures in a row,
\* as the code's message says.
THEOREM AloneThreeDisable ==
  ASSUME Hook!WebhooksAssumption PROVE Hook!Spec => Hook!AloneDisabledAfterThree
PROOF
<1>1. ASSUME HookKnown, [Hook!Next]_(Hook!vars), NEW e \in Events, ~concurrent, Hook!Disables(e)
      PROVE  streak' >= Hook!Allowed
  <2>1. /\ delivery \in [Events -> {Hook!Idle} \cup Hook!Delivery] /\ active = TRUE
        /\ MaxFailures \in Nat /\ failures \in 0..MaxFailures /\ streak \in 0..MaxFailures
    BY <1>1 DEF HookKnown, Hook!WebhooksInv, Hook!TypeOK, Hook!WebhooksAssumption, Hook!Disables
  <2>2. active' # active /\ delivery'[e] # delivery[e] /\ delivery[e].pc = "failed"
        /\ delivery[e] # Hook!Idle
    BY <1>1, <2>1 DEF Hook!Disables
  <2>3. \A f \in Events : ~Hook!Dispatch(f) /\ ~Hook!Post(f) /\ ~Hook!CountReset(f)
    BY <2>2 DEF Hook!Dispatch, Hook!Post, Hook!CountReset
  <2>4. ~Hook!Restart /\ ~Hook!Update /\ ~UNCHANGED Hook!vars
    BY <2>2 DEF Hook!Restart, Hook!Update, Hook!vars
  <2>5. PICK f \in Events : Hook!CountFailure(f)  BY <1>1, <2>3, <2>4 DEF Hook!Next
  <2>6. f = e  BY <2>1, <2>2, <2>5 DEF Hook!CountFailure
  <2>7. delivery[e].read = failures /\ failures = streak
        /\ delivery[e].read \in 0..(MaxFailures - 1)
    BY <1>1, <2>1, <2>2, DeliveryFacts
       DEF HookKnown, Hook!WebhooksInv, Hook!ReadIsStored, Hook!CountIsStreak
  <2>8. ~(delivery[e].read + 1 < Hook!Allowed)  BY <2>2, <2>5, <2>6, <2>1 DEF Hook!CountFailure
  <2>9. streak' = IF streak < MaxFailures THEN streak + 1 ELSE streak
    BY <2>5 DEF Hook!CountFailure
  <2>10. QED  BY <2>1, <2>7, <2>8, <2>9 DEF Hook!Allowed
<1>2. ASSUME HookKnown, [Hook!Next]_(Hook!vars)
      PROVE  [\A e \in Events : ~concurrent /\ Hook!Disables(e) => streak' >= Hook!Allowed]_(Hook!vars)
  BY <1>1, <1>2
<1>3. QED  BY <1>2, HookInvHolds, PTL DEF Hook!Spec, Hook!AloneDisabledAfterThree

(***************************************************************************)
(* Exports                                                                  *)
(***************************************************************************)
\* The counts of Exports are the library's.
LEMMA SameCounts ==
  \A S : /\ Export!IsFiniteSet(S) <=> IsFiniteSet(S)
         /\ Export!Cardinality(S) = Cardinality(S)
PROOF
<1>1. ASSUME NEW S PROVE Export!IsFiniteSet(S) <=> IsFiniteSet(S)
  BY DEF Export!IsFiniteSet, IsFiniteSet
<1>2. ASSUME NEW S PROVE Export!Cardinality(S) = Cardinality(S)
  BY DEF Export!Cardinality, Cardinality
<1>3. QED  BY <1>1, <1>2

ExportKnown == Export!ExportsAssumption /\ Export!ExportsInv

States == {"none", "pending", "processing", "completed", "failed", "expired"}
Places == {"checked", "reserved", "streaming", "failing"}
Loaded == [pc : Places, of : Export!Jobs]
Waits  == [pc |-> "counted"]

(***************************************************************************)
(* The sets that are counted                                                *)
(***************************************************************************)
LEMMA Finite ==
  ASSUME Export!ExportsAssumption
  PROVE  /\ IsFiniteSet(Export!Active) /\ IsFiniteSet(Export!Counted)
         /\ \A j \in Export!Jobs : IsFiniteSet(Export!Holding(j))
         /\ Cardinality(Export!Active) \in Nat /\ Cardinality(Export!Counted) \in Nat
         /\ \A j \in Export!Jobs : Cardinality(Export!Holding(j)) \in Nat
         /\ Cardinality(Requests) \in Nat
         /\ Cardinality(Export!Counted) <= Cardinality(Requests)
PROOF
<1>1. IsFiniteSet(Export!Jobs)  BY FS_Interval DEF Export!ExportsAssumption, Export!Jobs
<1>2. Export!Active \subseteq Export!Jobs  BY DEF Export!Active
<1>3. IsFiniteSet(Export!Active)  BY <1>1, <1>2, FS_Subset
<1>4. Export!Counted \subseteq Requests /\ IsFiniteSet(Requests)
  BY SameCounts DEF Export!Counted, Export!ExportsAssumption
<1>5. IsFiniteSet(Export!Counted) /\ Cardinality(Export!Counted) <= Cardinality(Requests)
  BY <1>4, FS_Subset
<1>6. ASSUME NEW j \in Export!Jobs PROVE IsFiniteSet(Export!Holding(j))
  <2>1. Export!Holding(j) \subseteq Downloads  BY DEF Export!Holding
  <2>2. QED  BY SameCounts, <2>1, FS_Subset DEF Export!ExportsAssumption
<1>7. QED  BY <1>3, <1>4, <1>5, <1>6, FS_CardinalityType

LEMMA Numbers ==
  ASSUME Export!ExportsAssumption
  PROVE  /\ MaxJobs \in Nat /\ Limit \in Nat /\ Limit > 0
         /\ MaxDownloads \in Nat /\ MaxRestarts \in Nat
PROOF BY DEF Export!ExportsAssumption

(***************************************************************************)
(* The records                                                              *)
(***************************************************************************)
LEMMA DownloadFacts ==
  ASSUME NEW x \in {Export!Idle} \cup Loaded
  PROVE  /\ x = Export!Idle => x.pc = "idle"
         /\ x # Export!Idle => x \in Loaded /\ x.pc \in Places /\ x.of \in Export!Jobs
                        /\ x.pc # "idle"
PROOF BY DEF Export!Idle, Loaded, Places

LEMMA DownloadMoved ==
  ASSUME NEW x \in Loaded, NEW pc \in Places, NEW y, y = [x EXCEPT !.pc = pc]
  PROVE  y \in Loaded /\ y # Export!Idle /\ y.pc = pc /\ y.of = x.of
PROOF BY DEF Export!Idle, Loaded, Places

(***************************************************************************)
(* Initially                                                                *)
(***************************************************************************)
LEMMA ExportInitKnown == Export!ExportsAssumption /\ Export!Init => ExportKnown
PROOF
<1>1. SUFFICES ASSUME Export!ExportsAssumption, Export!Init PROVE Export!ExportsInv
  BY DEF ExportKnown
<1>2. Export!Typed  BY <1>1, Numbers DEF Export!Init, Export!Typed
<1>3. Export!Active = {} /\ Export!Counted = {} /\ \A j \in Export!Jobs : Export!Holding(j) = {}
  BY <1>1 DEF Export!Init, Export!Active, Export!Counted, Export!Holding
<1>4. Export!Overrun
  <2>1. Cardinality({}) = 0  BY FS_EmptySet
  <2>2. QED  BY SameCounts, <1>1, <1>3, <2>1, Finite, Numbers DEF Export!Overrun
<1>5. Export!Placed
  <2>1. Cardinality({}) = 0  BY FS_EmptySet
  <2>2. QED  BY SameCounts, <1>1, <1>3, <2>1 DEF Export!Placed, Export!Init
<1>6. Export!ActiveHasRun  BY <1>3 DEF Export!ActiveHasRun
<1>7. QED  BY <1>2, <1>4, <1>5, <1>6 DEF Export!ExportsInv

(***************************************************************************)
(* The steps                                                                *)
(***************************************************************************)
\* What a step that touches no download leaves alone, and one that touches no
\* job or request.
LEMMA DownloadsAlone ==
  ASSUME ExportKnown, UNCHANGED <<count, download, delivered>>
  PROVE  Export!Placed'
PROOF BY DEF ExportKnown, Export!ExportsInv, Export!Placed, Export!Holding

LEMMA JobsAlone ==
  ASSUME ExportKnown, UNCHANGED <<status, runner, request, restarts>>
  PROVE  Export!Overrun' /\ Export!ActiveHasRun'
PROOF
  BY DEF ExportKnown, Export!ExportsInv, Export!Overrun, Export!Active, Export!Counted,
         Export!ActiveHasRun

LEMMA CountStep == ASSUME ExportKnown, NEW r \in Requests, Export!Count(r) PROVE Export!ExportsInv'
PROOF
<1>1. UNCHANGED <<status, artifact, count, runner, download, delivered, restarts>>
      /\ request' = [request EXCEPT ![r] = Waits] /\ request[r] = Export!Idle
  BY DEF Export!Count, Waits
<1>2. Export!Typed'
  <2>1. request' \in [Requests -> {Export!Idle, Waits}]
    BY <1>1 DEF ExportKnown, Export!ExportsInv, Export!Typed, Waits
  <2>2. QED  BY <1>1, <2>1 DEF ExportKnown, Export!ExportsInv, Export!Typed, Waits
<1>3. Export!Active' = Export!Active  BY <1>1 DEF Export!Active
<1>4. Cardinality(Export!Active) < Limit  BY SameCounts DEF Export!Count, Export!BelowLimit
<1>5. /\ Cardinality(Export!Counted)' \in Nat /\ Cardinality(Requests) \in Nat
      /\ Cardinality(Export!Counted)' <= Cardinality(Requests)
  <2>1. Export!Counted' \subseteq Requests  BY DEF Export!Counted
  <2>2. IsFiniteSet(Requests)  BY SameCounts DEF ExportKnown, Export!ExportsAssumption
  <2>3. QED  BY <2>1, <2>2, FS_Subset, FS_CardinalityType
<1>6. Export!Overrun'
  <2>1. Cardinality(Export!Active) \in Nat /\ Limit \in Nat  BY Finite, Numbers DEF ExportKnown
  <2>2. Cardinality(Export!Active) + Cardinality(Export!Counted)' < Limit + Cardinality(Requests)
    BY <2>1, <1>4, <1>5
  <2>3. QED  BY SameCounts, <2>2, <1>3 DEF Export!Overrun
<1>7. Export!Placed'  BY <1>1, DownloadsAlone
<1>8. Export!ActiveHasRun'
  BY <1>1, <1>3 DEF Export!ActiveHasRun, ExportKnown, Export!ExportsInv
<1>9. QED  BY <1>2, <1>6, <1>7, <1>8 DEF Export!ExportsInv

LEMMA CreateStep ==
  ASSUME ExportKnown, NEW r \in Requests, NEW j \in Export!Jobs, Export!Create(r, j)
  PROVE  Export!ExportsInv'
PROOF
<1>1. /\ UNCHANGED <<artifact, count, download, delivered, restarts>>
      /\ status' = [status EXCEPT ![j] = "pending"] /\ runner' = runner \cup {j}
      /\ request' = [request EXCEPT ![r] = Export!Idle] /\ status[j] = "none"
      /\ request[r].pc = "counted"
  BY DEF Export!Create
<1>2. Export!Typed'  BY <1>1 DEF ExportKnown, Export!ExportsInv, Export!Typed
<1>3. Export!Active' = Export!Active \cup {j} /\ j \notin Export!Active
  BY <1>1 DEF Export!Active, ExportKnown, Export!ExportsInv, Export!Typed
<1>4. Export!Counted' = Export!Counted \ {r} /\ r \in Export!Counted
  BY <1>1 DEF Export!Counted, ExportKnown, Export!ExportsInv, Export!Typed, Export!Idle
<1>5. Cardinality(Export!Active') = Cardinality(Export!Active) + 1
  BY <1>3, Finite, FS_AddElement DEF ExportKnown
<1>6. Cardinality(Export!Counted') = Cardinality(Export!Counted) - 1
  BY <1>4, Finite, FS_RemoveElement DEF ExportKnown
<1>7. Export!Overrun'
  <2>1. /\ Cardinality(Export!Active) \in Nat /\ Cardinality(Export!Counted) \in Nat
        /\ Limit \in Nat
        /\ Cardinality(Requests) \in Nat
    BY Finite, Numbers DEF ExportKnown
  <2>2. Cardinality(Export!Active) + Cardinality(Export!Counted) < Limit + Cardinality(Requests)
    BY SameCounts DEF ExportKnown, Export!ExportsInv, Export!Overrun
  <2>3. QED  BY SameCounts, <2>1, <2>2, <1>5, <1>6 DEF Export!Overrun
<1>8. Export!Placed'  BY <1>1, DownloadsAlone
<1>9. Export!ActiveHasRun'
  BY <1>1, <1>3 DEF Export!ActiveHasRun, ExportKnown, Export!ExportsInv
<1>10. QED  BY <1>2, <1>7, <1>8, <1>9 DEF Export!ExportsInv

\* A step that moves jobs: none becomes active, and one that loses its run is not
\* active any more.
LEMMA JobsMove ==
  ASSUME ExportKnown, UNCHANGED <<request, restarts>>, Export!Active' \subseteq Export!Active,
         Export!Active' \cap runner \subseteq runner'
  PROVE  Export!Overrun' /\ Export!ActiveHasRun'
PROOF
<1>1. IsFiniteSet(Export!Active)  BY Finite DEF ExportKnown
<1>2. Cardinality(Export!Active') <= Cardinality(Export!Active) /\ Cardinality(Export!Active') \in Nat
  BY <1>1, FS_Subset, FS_CardinalityType
<1>3. /\ Cardinality(Export!Active) \in Nat /\ Cardinality(Export!Counted) \in Nat /\ Limit \in Nat
      /\ Cardinality(Requests) \in Nat
  BY Finite, Numbers DEF ExportKnown
<1>4. Cardinality(Export!Active) + Cardinality(Export!Counted) < Limit + Cardinality(Requests)
  BY SameCounts DEF ExportKnown, Export!ExportsInv, Export!Overrun
<1>5. Export!Counted' = Export!Counted  BY DEF Export!Counted
<1>6. Export!Overrun'  BY SameCounts, <1>2, <1>3, <1>4, <1>5 DEF Export!Overrun
<1>7. Export!ActiveHasRun'  BY DEF Export!ActiveHasRun, ExportKnown, Export!ExportsInv
<1>8. QED  BY <1>6, <1>7

LEMMA StartStep ==
  ASSUME ExportKnown, NEW j \in Export!Jobs, Export!Start(j)
  PROVE  Export!ExportsInv'
PROOF
<1>1. /\ UNCHANGED <<artifact, count, runner, request, download, delivered, restarts>>
      /\ status' = [status EXCEPT ![j] = "processing"] /\ status[j] = "pending"
  BY DEF Export!Start
<1>2. Export!Typed'  BY <1>1 DEF ExportKnown, Export!ExportsInv, Export!Typed
<1>3. Export!Active' = Export!Active
  BY <1>1 DEF Export!Active, ExportKnown, Export!ExportsInv, Export!Typed
<1>4. Export!Overrun' /\ Export!ActiveHasRun'  BY <1>1, <1>3, JobsMove
<1>5. Export!Placed'  BY <1>1, DownloadsAlone
<1>6. QED  BY <1>2, <1>4, <1>5 DEF Export!ExportsInv

LEMMA FinishStep ==
  ASSUME ExportKnown, NEW j \in Export!Jobs, Export!Finish(j)
  PROVE  Export!ExportsInv'
PROOF
<1>1. PICK end \in {"completed", "failed"} : status' = [status EXCEPT ![j] = end]
  BY DEF Export!Finish
<1>2. /\ UNCHANGED <<count, request, download, delivered, restarts>>
      /\ runner' = runner \ {j} /\ artifact' \subseteq artifact \cup {j}
  BY DEF Export!Finish
<1>3. Export!Typed'  BY <1>1, <1>2 DEF ExportKnown, Export!ExportsInv, Export!Typed
<1>4. Export!Active' \subseteq Export!Active \ {j}
  BY <1>1 DEF Export!Active, ExportKnown, Export!ExportsInv, Export!Typed
<1>5. Export!Overrun' /\ Export!ActiveHasRun'  BY <1>2, <1>4, JobsMove
<1>6. Export!Placed'  BY <1>2, DownloadsAlone
<1>7. QED  BY <1>3, <1>5, <1>6 DEF Export!ExportsInv

LEMMA CheckStep ==
  ASSUME ExportKnown, NEW d \in Downloads, NEW j \in Export!Jobs, Export!Check(d, j)
  PROVE  Export!ExportsInv'
PROOF
<1>1. UNCHANGED <<artifact, count, runner, request, delivered, restarts>>
  BY DEF Export!Check
<1>2. CASE status' = [status EXCEPT ![j] = "expired"] /\ UNCHANGED download
  <2>1. Export!Typed'  BY <1>1, <1>2 DEF ExportKnown, Export!ExportsInv, Export!Typed
  <2>2. Export!Active' \subseteq Export!Active
    BY <1>2 DEF Export!Active, ExportKnown, Export!ExportsInv, Export!Typed
  <2>3. Export!Overrun' /\ Export!ActiveHasRun'  BY <1>1, <2>2, JobsMove
  <2>4. Export!Placed'  BY <1>1, <1>2, DownloadsAlone
  <2>5. QED  BY <2>1, <2>3, <2>4 DEF Export!ExportsInv
<1> DEFINE x == [pc |-> "checked", of |-> j]
<1>3. CASE download' = [download EXCEPT ![d] = x] /\ UNCHANGED status
  <2>1. x \in Loaded /\ x # Export!Idle /\ x.pc = "checked"  BY DEF Loaded, Places, Export!Idle
  <2> HIDE DEF x
  <2>2. Export!Typed'
    BY <1>1, <1>3, <2>1 DEF ExportKnown, Export!ExportsInv, Export!Typed, Loaded, Places
  <2>3. Export!Overrun' /\ Export!ActiveHasRun'  BY <1>1, <1>3, JobsAlone
  <2>4. ASSUME NEW i \in Export!Jobs PROVE Export!Holding(i)' = Export!Holding(i)
    <3>1. download[d] = Export!Idle  BY DEF Export!Check
    <3>2. QED
      BY <1>3, <2>1, <3>1 DEF Export!Holding, ExportKnown, Export!ExportsInv, Export!Typed
  <2>5. Export!Placed'  BY <1>1, <2>4 DEF Export!Placed, ExportKnown, Export!ExportsInv
  <2>6. QED  BY <2>2, <2>3, <2>5 DEF Export!ExportsInv
<1>4. QED  BY <1>2, <1>3 DEF Export!Check

\* A download that leaves one place and takes another.
LEMMA DownloadGoes ==
  ASSUME ExportKnown, NEW d \in Downloads, download[d] # Export!Idle,
         NEW j \in Export!Jobs, j = download[d].of,
         NEW y \in {Export!Idle} \cup Loaded, y # Export!Idle => y.of = j,
         download' = [download EXCEPT ![d] = y],
         UNCHANGED <<status, artifact, runner, request, restarts>>
  PROVE  /\ download' \in [Downloads -> {Export!Idle} \cup Loaded]
         /\ Export!Overrun' /\ Export!ActiveHasRun'
         /\ \A i \in Export!Jobs : i # j => Export!Holding(i)' = Export!Holding(i)
         /\ (y = Export!Idle \/ y.pc = "checked") => Export!Holding(j)' = Export!Holding(j) \ {d}
         /\ (y # Export!Idle /\ y.pc # "checked") => Export!Holding(j)' = Export!Holding(j) \cup {d}
         /\ d \in Export!Holding(j) <=> download[d].pc # "checked"
PROOF
<1>1. download \in [Downloads -> {Export!Idle} \cup Loaded]
  BY DEF ExportKnown, Export!ExportsInv, Export!Typed, Loaded, Places
<1>2. Export!Overrun' /\ Export!ActiveHasRun'  BY JobsAlone
<1>3. download' \in [Downloads -> {Export!Idle} \cup Loaded]  BY <1>1
<1>4. download'[d] = y /\ \A e \in Downloads : e # d => download'[e] = download[e]
  BY <1>1
<1>5. \A i \in Export!Jobs : i # j => Export!Holding(i)' = Export!Holding(i)
  BY <1>4 DEF Export!Holding
<1>6. (y = Export!Idle \/ y.pc = "checked") => Export!Holding(j)' = Export!Holding(j) \ {d}
  BY <1>4 DEF Export!Holding
<1>7. (y # Export!Idle /\ y.pc # "checked") => Export!Holding(j)' = Export!Holding(j) \cup {d}
  BY <1>4 DEF Export!Holding
<1>8. d \in Export!Holding(j) <=> download[d].pc # "checked"  BY DEF Export!Holding
<1>9. QED  BY <1>2, <1>3, <1>5, <1>6, <1>7, <1>8

\* The rest of the types of a step of a download.
LEMMA DownloadTyped ==
  ASSUME ExportKnown, download' \in [Downloads -> {Export!Idle} \cup Loaded],
         count' \in [Export!Jobs -> 0..MaxDownloads], delivered' \in [Export!Jobs -> Nat],
         UNCHANGED <<status, artifact, runner, request, restarts>>
  PROVE  Export!Typed'
PROOF BY DEF ExportKnown, Export!ExportsInv, Export!Typed, Loaded, Places

\* Only the count of the download's own job has to be looked at.
LEMMA PlacedAt ==
  ASSUME ExportKnown, NEW j \in Export!Jobs,
         \A i \in Export!Jobs : i # j => /\ Export!Holding(i)' = Export!Holding(i)
                                         /\ delivered'[i] = delivered[i]
                                         /\ count'[i] = count[i],
         delivered'[j] + Cardinality(Export!Holding(j)') <= count'[j]
  PROVE  Export!Placed'
PROOF BY SameCounts DEF Export!Placed, ExportKnown, Export!ExportsInv

LEMMA NumbersAt ==
  ASSUME ExportKnown, NEW j \in Export!Jobs
  PROVE  /\ delivered[j] \in Nat /\ count[j] \in Nat /\ count[j] <= MaxDownloads
         /\ MaxDownloads \in Nat /\ IsFiniteSet(Export!Holding(j))
         /\ Cardinality(Export!Holding(j)) \in Nat
         /\ delivered[j] + Cardinality(Export!Holding(j)) <= count[j]
PROOF
<1>1. MaxDownloads \in Nat  BY Numbers DEF ExportKnown
<1>2. delivered[j] \in Nat /\ count[j] \in 0..MaxDownloads
  BY DEF ExportKnown, Export!ExportsInv, Export!Typed
<1>3. IsFiniteSet(Export!Holding(j)) /\ Cardinality(Export!Holding(j)) \in Nat
  BY Finite DEF ExportKnown
<1>4. delivered[j] + Cardinality(Export!Holding(j)) <= count[j]
  BY SameCounts DEF ExportKnown, Export!ExportsInv, Export!Placed
<1>5. QED  BY <1>1, <1>2, <1>3, <1>4

LEMMA DownloadAt ==
  ASSUME ExportKnown, NEW d \in Downloads, download[d].pc # "idle"
  PROVE  download[d] \in Loaded /\ download[d] # Export!Idle /\ download[d].of \in Export!Jobs
PROOF
<1>1. download[d] \in {Export!Idle} \cup Loaded
  BY DEF ExportKnown, Export!ExportsInv, Export!Typed, Loaded, Places
<1>2. QED  BY <1>1, DownloadFacts

LEMMA ReserveStep ==
  ASSUME ExportKnown, NEW d \in Downloads, Export!Reserve(d)
  PROVE  Export!ExportsInv'
PROOF
<1>1. download[d].pc = "checked"  BY Zenon DEF Export!Reserve
<1>2. download[d] \in Loaded /\ download[d] # Export!Idle  BY <1>1, DownloadAt
<1>3. PICK j \in Export!Jobs : j = download[d].of  BY <1>1, DownloadAt
<1>4. UNCHANGED <<status, artifact, runner, request, delivered, restarts>>
  BY Zenon DEF Export!Reserve
<1>5. d \notin Export!Holding(j)  BY <1>1, <1>3 DEF Export!Holding
<1>6. CASE count[j] < MaxDownloads
  <2>1. PICK y : y = [download[d] EXCEPT !.pc = "reserved"]  OBVIOUS
  <2>2. y \in Loaded /\ y # Export!Idle /\ y.pc = "reserved" /\ y.of = j
    BY <2>1, <1>2, <1>3, DownloadMoved DEF Places
  <2>3. download' = [download EXCEPT ![d] = y] /\ count' = [count EXCEPT ![j] = @ + 1]
    BY Zenon, <1>3, <1>6, <2>1 DEF Export!Reserve
  <2>4. /\ download' \in [Downloads -> {Export!Idle} \cup Loaded] /\ Export!Overrun'
        /\ Export!ActiveHasRun'
        /\ \A i \in Export!Jobs : i # j => Export!Holding(i)' = Export!Holding(i)
        /\ Export!Holding(j)' = Export!Holding(j) \cup {d}
    BY <1>2, <1>3, <1>4, <2>2, <2>3, DownloadGoes
  <2>5. Cardinality(Export!Holding(j)') = Cardinality(Export!Holding(j)) + 1
    BY <2>4, <1>5, NumbersAt, FS_AddElement
  <2>6. /\ count'[j] = count[j] + 1 /\ \A i \in Export!Jobs : i # j => count'[i] = count[i]
        /\ count' \in [Export!Jobs -> 0..MaxDownloads]
    BY <2>3, <1>6, NumbersAt DEF ExportKnown, Export!ExportsInv, Export!Typed
  <2>7. delivered'[j] + Cardinality(Export!Holding(j)') <= count'[j]
    BY <2>5, <2>6, <1>4, NumbersAt
  <2>8. Export!Placed'  BY <2>4, <2>6, <2>7, <1>4, PlacedAt
  <2>9. Export!Typed'
    BY <2>4, <2>6, <1>4, DownloadTyped DEF ExportKnown, Export!ExportsInv, Export!Typed
  <2>10. QED  BY <2>4, <2>8, <2>9 DEF Export!ExportsInv
<1>7. CASE ~(count[j] < MaxDownloads)
  <2>1. download' = [download EXCEPT ![d] = Export!Idle] /\ count' = count
    BY Zenon, <1>3, <1>7 DEF Export!Reserve
  <2>2. /\ download' \in [Downloads -> {Export!Idle} \cup Loaded] /\ Export!Overrun'
        /\ Export!ActiveHasRun'
        /\ \A i \in Export!Jobs : i # j => Export!Holding(i)' = Export!Holding(i)
        /\ Export!Holding(j)' = Export!Holding(j) \ {d}
    BY <1>2, <1>3, <1>4, <2>1, DownloadGoes
  <2>3. \A i \in Export!Jobs : Export!Holding(i)' = Export!Holding(i)  BY <2>2, <1>5
  <2>4. Export!Placed'  BY <2>1, <2>3, <1>4 DEF Export!Placed, ExportKnown, Export!ExportsInv
  <2>5. Export!Typed'
    BY <2>1, <2>2, <1>4, DownloadTyped DEF ExportKnown, Export!ExportsInv, Export!Typed
  <2>6. QED  BY <2>2, <2>4, <2>5 DEF Export!ExportsInv
<1>8. QED  BY <1>6, <1>7

\* A download that keeps its place.
LEMMA KeepsPlace ==
  ASSUME ExportKnown, NEW d \in Downloads, download[d] \in Loaded, download[d].pc # "checked",
         NEW y \in Loaded, y.pc # "checked", y.of = download[d].of,
         download' = [download EXCEPT ![d] = y],
         UNCHANGED <<status, artifact, count, runner, request, delivered, restarts>>
  PROVE  Export!ExportsInv'
PROOF
<1>1. download[d] # Export!Idle /\ y # Export!Idle  BY DEF Loaded, Export!Idle
<1>2. PICK j \in Export!Jobs : j = download[d].of  BY DEF Loaded
<1>3. /\ download' \in [Downloads -> {Export!Idle} \cup Loaded] /\ Export!Overrun'
      /\ Export!ActiveHasRun'
      /\ \A i \in Export!Jobs : i # j => Export!Holding(i)' = Export!Holding(i)
      /\ Export!Holding(j)' = Export!Holding(j) \cup {d} /\ d \in Export!Holding(j)
  BY <1>1, <1>2, DownloadGoes
<1>4. \A i \in Export!Jobs : Export!Holding(i)' = Export!Holding(i)  BY <1>3
<1>5. Export!Placed'  BY <1>4 DEF Export!Placed, ExportKnown, Export!ExportsInv
<1>6. Export!Typed'  BY <1>3, DownloadTyped DEF ExportKnown, Export!ExportsInv, Export!Typed
<1>7. QED  BY <1>3, <1>5, <1>6 DEF Export!ExportsInv

LEMMA LookStep == ASSUME ExportKnown, NEW d \in Downloads, Export!Look(d) PROVE Export!ExportsInv'
PROOF
<1>1. download[d].pc = "reserved"  BY DEF Export!Look
<1>2. PICK pc \in {"streaming", "failing"} :
        download' = [download EXCEPT ![d] = [@ EXCEPT !.pc = pc]]
  BY Zenon DEF Export!Look
<1>3. UNCHANGED <<status, artifact, count, runner, request, delivered, restarts>>
  BY DEF Export!Look
<1>4. download[d] \in Loaded  BY <1>1, DownloadAt
<1>5. PICK y : y = [download[d] EXCEPT !.pc = pc]  OBVIOUS
<1>6. y \in Loaded /\ y.pc = pc /\ y.of = download[d].of
  BY <1>4, <1>5, DownloadMoved DEF Places
<1>7. download' = [download EXCEPT ![d] = y]  BY Zenon, <1>2, <1>5
<1>8. y.pc # "checked" /\ download[d].pc # "checked"  BY <1>1, <1>6
<1>9. QED  BY <1>3, <1>4, <1>6, <1>7, <1>8, KeepsPlace

\* A download that ends gives its place back, or has it delivered.
LEMMA GivesPlace ==
  ASSUME ExportKnown, NEW d \in Downloads, download[d] \in Loaded, download[d].pc # "checked",
         NEW j \in Export!Jobs, j = download[d].of,
         download' = [download EXCEPT ![d] = Export!Idle],
         UNCHANGED <<status, artifact, runner, request, restarts>>,
         \/ count' = count /\ delivered' = [delivered EXCEPT ![j] = @ + 1]
         \/ delivered' = delivered /\ count[j] > 0 /\ count' = [count EXCEPT ![j] = @ - 1]
         \/ delivered' = delivered /\ count[j] = 0 /\ count' = count
  PROVE  Export!ExportsInv'
PROOF
<1>1. download[d] # Export!Idle  BY DEF Loaded, Export!Idle
<1>2. /\ download' \in [Downloads -> {Export!Idle} \cup Loaded] /\ Export!Overrun'
      /\ Export!ActiveHasRun'
      /\ \A i \in Export!Jobs : i # j => Export!Holding(i)' = Export!Holding(i)
      /\ Export!Holding(j)' = Export!Holding(j) \ {d} /\ d \in Export!Holding(j)
  BY <1>1, DownloadGoes
<1>3. Cardinality(Export!Holding(j)') = Cardinality(Export!Holding(j)) - 1
  <2>1. PICK held, left : held = Export!Holding(j) /\ left = Export!Holding(j)'  OBVIOUS
  <2>2. IsFiniteSet(held) /\ left = held \ {d} /\ d \in held  BY <1>2, <2>1, NumbersAt
  <2>3. Cardinality(left) = Cardinality(held) - 1  BY <2>2, FS_RemoveElement
  <2>4. QED  BY <2>1, <2>3
<1>4. /\ delivered[j] \in Nat /\ count[j] \in Nat /\ count[j] <= MaxDownloads
      /\ MaxDownloads \in Nat /\ Cardinality(Export!Holding(j)) \in Nat
      /\ delivered[j] + Cardinality(Export!Holding(j)) <= count[j]
  BY NumbersAt
<1>5. /\ delivered' \in [Export!Jobs -> Nat] /\ count' \in [Export!Jobs -> 0..MaxDownloads]
      /\ \A i \in Export!Jobs : i # j => delivered'[i] = delivered[i] /\ count'[i] = count[i]
  BY <1>4 DEF ExportKnown, Export!ExportsInv, Export!Typed
<1>6. Cardinality(Export!Holding(j)) > 0
  <2>1. Export!Holding(j) # {} /\ IsFiniteSet(Export!Holding(j))  BY <1>2, NumbersAt
  <2>2. QED  BY <2>1, <1>4, FS_EmptySet
<1>7. count[j] > 0  BY <1>4, <1>6
<1>8. delivered'[j] + Cardinality(Export!Holding(j)') <= count'[j]
  <2>1. \/ count'[j] = count[j] /\ delivered'[j] = delivered[j] + 1
        \/ count'[j] = count[j] - 1 /\ delivered'[j] = delivered[j]
    BY <1>4, <1>7 DEF ExportKnown, Export!ExportsInv, Export!Typed
  <2>2. QED  BY <2>1, <1>3, <1>4, <1>6
<1>9. Export!Placed'  BY <1>2, <1>5, <1>8, PlacedAt
<1>10. Export!Typed'  BY <1>2, <1>5, DownloadTyped
<1>11. QED  BY <1>2, <1>9, <1>10 DEF Export!ExportsInv

LEMMA StreamStep ==
  ASSUME ExportKnown, NEW d \in Downloads, Export!Stream(d)
  PROVE  Export!ExportsInv'
PROOF
<1>1. download[d].pc = "streaming"  BY Zenon DEF Export!Stream
<1>2. download[d] \in Loaded  BY <1>1, DownloadAt
<1>3. PICK j \in Export!Jobs : j = download[d].of  BY <1>1, DownloadAt
<1>4. UNCHANGED <<status, artifact, count, runner, request, restarts>>
  BY Zenon DEF Export!Stream
<1>5. PICK y : y = [download[d] EXCEPT !.pc = "failing"]  OBVIOUS
<1>6. \/ /\ delivered' = [delivered EXCEPT ![j] = @ + 1]
         /\ download' = [download EXCEPT ![d] = Export!Idle]
      \/ download' = [download EXCEPT ![d] = y] /\ UNCHANGED delivered
  BY Zenon, <1>3, <1>5 DEF Export!Stream
<1>7. CASE /\ delivered' = [delivered EXCEPT ![j] = @ + 1]
           /\ download' = [download EXCEPT ![d] = Export!Idle]
  BY <1>1, <1>2, <1>3, <1>4, <1>7, GivesPlace
<1>8. CASE download' = [download EXCEPT ![d] = y] /\ UNCHANGED delivered
  <2>1. y \in Loaded /\ y.pc = "failing" /\ y.of = download[d].of
    BY <1>2, <1>5, DownloadMoved DEF Places
  <2>2. y.pc # "checked" /\ download[d].pc # "checked"  BY <1>1, <2>1
  <2>3. QED  BY <1>2, <1>4, <1>8, <2>1, <2>2, KeepsPlace
<1>9. QED  BY <1>6, <1>7, <1>8

LEMMA RollbackStep ==
  ASSUME ExportKnown, NEW d \in Downloads, Export!Rollback(d)
  PROVE  Export!ExportsInv'
PROOF
<1>1. download[d].pc = "failing"  BY Zenon DEF Export!Rollback
<1>2. download[d] \in Loaded  BY <1>1, DownloadAt
<1>3. PICK j \in Export!Jobs : j = download[d].of  BY <1>1, DownloadAt
<1>4. UNCHANGED <<status, artifact, runner, request, delivered, restarts>>
  BY Zenon DEF Export!Rollback
<1>5. /\ count' = [count EXCEPT ![j] = IF @ > 0 THEN @ - 1 ELSE @]
      /\ download' = [download EXCEPT ![d] = Export!Idle]
  BY Zenon, <1>3 DEF Export!Rollback
<1>6. CASE count[j] > 0
  <2>1. count' = [count EXCEPT ![j] = @ - 1]  BY <1>5, <1>6
  <2>2. QED  BY <1>1, <1>2, <1>3, <1>4, <1>5, <1>6, <2>1, GivesPlace
<1>7. CASE ~(count[j] > 0)
  <2>1. count[j] = 0  BY <1>7, NumbersAt
  <2>2. count' = count  BY <1>5, <1>7 DEF ExportKnown, Export!ExportsInv, Export!Typed
  <2>3. QED  BY <1>1, <1>2, <1>3, <1>4, <1>5, <2>1, <2>2, GivesPlace
<1>8. QED  BY <1>6, <1>7

\* Places that nobody holds any more stay taken.
LEMMA RestartStep == ASSUME ExportKnown, Export!Restart PROVE Export!ExportsInv'
PROOF
<1>1. /\ runner' = {} /\ request' = [r \in Requests |-> Export!Idle]
      /\ download' = [d \in Downloads |-> Export!Idle]
      /\ UNCHANGED <<status, artifact, count, delivered>>
      /\ restarts' = restarts + 1 /\ restarts < MaxRestarts
  BY DEF Export!Restart
<1>2. Export!Typed'  BY <1>1, Numbers DEF ExportKnown, Export!ExportsInv, Export!Typed
<1>3. Export!Active' = Export!Active /\ Export!Counted' = {} /\ \A j \in Export!Jobs : Export!Holding(j)' = {}
  BY <1>1 DEF Export!Active, Export!Counted, Export!Holding
<1>4. Cardinality({}) = 0  BY FS_EmptySet
<1>5. Export!Overrun'
  <2>1. /\ Cardinality(Export!Active) \in Nat /\ Cardinality(Export!Counted) \in Nat
        /\ Limit \in Nat
        /\ Cardinality(Requests) \in Nat
    BY Finite, Numbers DEF ExportKnown
  <2>2. Cardinality(Export!Active) + Cardinality(Export!Counted) < Limit + Cardinality(Requests)
    BY SameCounts DEF ExportKnown, Export!ExportsInv, Export!Overrun
  <2>3. QED  BY SameCounts, <1>3, <1>4, <2>1, <2>2 DEF Export!Overrun
<1>6. ASSUME NEW j \in Export!Jobs
      PROVE  delivered'[j] + Cardinality(Export!Holding(j)') <= count'[j]
  <2>1. /\ delivered[j] \in Nat /\ count[j] \in Nat /\ Cardinality(Export!Holding(j)) \in Nat
        /\ delivered[j] + Cardinality(Export!Holding(j)) <= count[j]
    BY NumbersAt
  <2>2. QED  BY <2>1, <1>1, <1>3, <1>4
<1>7. Export!Placed'  BY SameCounts, <1>6 DEF Export!Placed
<1>8. Export!ActiveHasRun'
  BY <1>1 DEF Export!ActiveHasRun, ExportKnown, Export!ExportsInv, Export!Typed
<1>9. QED  BY <1>2, <1>5, <1>7, <1>8 DEF Export!ExportsInv

(***************************************************************************)
(* The theorems                                                             *)
(***************************************************************************)
LEMMA ExportStepKnown == ExportKnown /\ [Export!Next]_(Export!vars) => ExportKnown'
PROOF
<1>1. SUFFICES ASSUME ExportKnown, [Export!Next]_(Export!vars) PROVE Export!ExportsInv'
  BY DEF ExportKnown, Export!ExportsAssumption
<1>2. CASE Export!Next
  <2>1. ASSUME NEW r \in Requests, Export!Count(r) PROVE Export!ExportsInv'
    BY <1>1, <2>1, CountStep
  <2>2. ASSUME NEW r \in Requests, NEW j \in Export!Jobs, Export!Create(r, j)
        PROVE  Export!ExportsInv'
    BY <1>1, <2>2, CreateStep
  <2>3. ASSUME NEW j \in Export!Jobs, Export!Start(j) \/ Export!Finish(j) PROVE Export!ExportsInv'
    BY <1>1, <2>3, StartStep, FinishStep
  <2>4. ASSUME NEW d \in Downloads, NEW j \in Export!Jobs, Export!Check(d, j)
        PROVE  Export!ExportsInv'
    BY <1>1, <2>4, CheckStep
  <2>5. ASSUME NEW d \in Downloads, Export!Reserve(d) \/ Export!Look(d) \/ Export!Stream(d) \/ Export!Rollback(d)
        PROVE  Export!ExportsInv'
    BY <1>1, <2>5, ReserveStep, LookStep, StreamStep, RollbackStep
  <2>6. CASE Export!Restart  BY <1>1, <2>6, RestartStep
  <2>7. QED  BY <1>2, <2>1, <2>2, <2>3, <2>4, <2>5, <2>6 DEF Export!Next
<1>3. CASE UNCHANGED Export!vars
  <2>1. UNCHANGED <<status, artifact, count, runner, request, download, delivered,
                    restarts>>
    BY <1>3 DEF Export!vars
  <2>2. Export!Typed'  BY <1>1, <2>1 DEF ExportKnown, Export!ExportsInv, Export!Typed
  <2>3. QED  BY <1>1, <2>1, <2>2, DownloadsAlone, JobsAlone DEF Export!ExportsInv
<1>4. QED  BY <1>1, <1>2, <1>3

LEMMA ExportInvHolds == ASSUME Export!ExportsAssumption PROVE Export!Spec => []ExportKnown
PROOF BY ExportInitKnown, ExportStepKnown, PTL DEF Export!Spec

\* Rows, artifacts, counts, requests and downloads keep their types; the count of a
\* job stays within its maxDownloads.
THEOREM ExportsTyped == ASSUME Export!ExportsAssumption PROVE Export!Spec => []Export!TypeOK
PROOF
<1>1. ASSUME ExportKnown PROVE Export!TypeOK
  <2>1. ASSUME NEW d \in Downloads
        PROVE  download[d].pc \in {"idle", "checked", "reserved", "streaming", "failing"}
    <3>1. download[d] \in {Export!Idle} \cup Loaded
      BY <1>1 DEF ExportKnown, Export!ExportsInv, Export!Typed, Loaded, Places
    <3>2. QED  BY <3>1, DownloadFacts DEF Places
  <2>2. QED  BY <1>1, <2>1 DEF ExportKnown, Export!ExportsInv, Export!Typed, Export!TypeOK
<1>2. QED  BY <1>1, ExportInvHolds, PTL

\* The limit of jobs under way is overrun at most by the requests that count at
\* the same time (createExport counts, then creates).
THEOREM LimitIsOverrunByRequests ==
  ASSUME Export!ExportsAssumption PROVE Export!Spec => []Export!LimitOverrun
PROOF
<1>1. ASSUME ExportKnown PROVE Export!LimitOverrun
  <2>1. /\ Cardinality(Export!Active) \in Nat /\ Cardinality(Export!Counted) \in Nat
        /\ Limit \in Nat
        /\ Cardinality(Requests) \in Nat
    BY <1>1, Finite, Numbers DEF ExportKnown
  <2>2. Cardinality(Export!Active) + Cardinality(Export!Counted) < Limit + Cardinality(Requests)
    BY SameCounts, <1>1 DEF ExportKnown, Export!ExportsInv, Export!Overrun
  <2>3. QED  BY SameCounts, <2>1, <2>2 DEF Export!LimitOverrun
<1>2. QED  BY <1>1, ExportInvHolds, PTL

\* No client gets a file more often than its job allows, and the count never falls
\* behind what was delivered (reserveDownloadSlot, rollbackDownloadReservation).
THEOREM DownloadsAreCounted ==
  ASSUME Export!ExportsAssumption PROVE Export!Spec => []Export!DownloadsCounted
PROOF
<1>1. ASSUME ExportKnown PROVE Export!DownloadsCounted
  <2>1. ASSUME NEW j \in Export!Jobs
        PROVE  delivered[j] <= count[j] /\ count[j] <= MaxDownloads
    BY <1>1, NumbersAt
  <2>2. QED  BY <2>1 DEF Export!DownloadsCounted
<1>2. QED  BY <1>1, ExportInvHolds, PTL

\* A job under way has its run, unless the backend was restarted under it.
THEOREM ActiveJobsHaveRuns ==
  ASSUME Export!ExportsAssumption PROVE Export!Spec => []Export!ActiveHasRun
PROOF
<1>1. ExportKnown => Export!ActiveHasRun  BY DEF ExportKnown, Export!ExportsInv
<1>2. QED  BY <1>1, ExportInvHolds, PTL

(***************************************************************************)
(* Attachments                                                              *)
(*                                                                          *)
(* Every step moves one upload, one download or one deletion.  UploadMoves  *)
(* and DownloadMoves say what such a step owes for the invariant to hold    *)
(* after it; the actions then show that they pay.                           *)
(***************************************************************************)
FileKnown == File!AttachmentsAssumption /\ File!AttachmentsInv

Moving == {"scanning", "storing", "writing"}
Asked ==
  [pc : {"scanning", "serving", "done"}, of : Uploads, key : File!Keys]
Checked ==
  [pc : {"storing", "writing", "serving", "done"}, of : Uploads, key : File!Keys,
   status : File!Statuses]
Marked == [pc : {"object", "row", "done"}, of : Uploads, key : File!Keys]

(***************************************************************************)
(* The records                                                              *)
(***************************************************************************)
LEMMA UploadPc ==
  ASSUME NEW x \in File!UploadState
  PROVE  /\ x.pc \in {"idle", "put", "moved", "scanning", "storing", "writing", "done"}
         /\ x.pc = "storing" => x.verdict \in File!Verdicts
         /\ x.pc = "writing" => x.result \in File!Results
PROOF BY DEF File!UploadState

LEMMA UploadDone ==
  ASSUME NEW x \in File!UploadState, NEW y, y = [x EXCEPT !.pc = "done"]
  PROVE  y \in File!UploadState /\ y.pc = "done"
PROOF BY DEF File!UploadState

LEMMA FileDownloadFacts ==
  ASSUME NEW x \in File!DownloadState
  PROVE  /\ x.pc \in {"idle", "scanning", "storing", "writing", "serving", "done"}
         /\ x = File!Idle => x.pc = "idle"
         /\ x # File!Idle => x.of \in Uploads /\ x.key \in File!Keys /\ x.pc # "idle"
         /\ x.pc \in {"storing", "writing"} => x \in Checked
         /\ x.pc = "scanning" => x \in Asked
PROOF BY DEF File!DownloadState, File!Idle, Asked, Checked

LEMMA DownloadDone ==
  ASSUME NEW x \in File!DownloadState, x # File!Idle, NEW y, y = [x EXCEPT !.pc = "done"]
  PROVE  y \in File!DownloadState /\ y.pc = "done"
PROOF BY DEF File!DownloadState, File!Idle

LEMMA DeletionFacts ==
  ASSUME NEW x \in File!DeletionState
  PROVE  /\ x.pc \in {"idle", "object", "row", "done"}
         /\ x = File!Idle => x.pc = "idle"
         /\ x # File!Idle => x \in Marked /\ x.pc # "idle"
PROOF BY DEF File!DeletionState, File!Idle, Marked

LEMMA DeletionMoved ==
  ASSUME NEW x \in Marked, NEW pc \in {"object", "row", "done"}, NEW y,
         y = [x EXCEPT !.pc = pc]
  PROVE  y \in File!DeletionState /\ y # File!Idle /\ y.of = x.of /\ y.pc = pc
PROOF BY DEF File!DeletionState, File!Idle, Marked

LEMMA RowFacts ==
  ASSUME NEW x \in File!Rows, x # File!NoRow
  PROVE  /\ x.status \in File!Statuses \cup {"PENDING"} /\ x.key \in File!Keys
         /\ x.quarantined \in BOOLEAN
PROOF BY DEF File!Rows, File!NoRow, File!Statuses

LEMMA ResultFacts ==
  ASSUME NEW verdict \in File!Statuses, NEW key \in File!Keys, NEW x, x = File!Result(verdict, key)
  PROVE  /\ x \in File!Results /\ x \in File!Rows /\ x # File!NoRow
         /\ x.status = verdict /\ x.key = key
PROOF BY DEF File!Result, File!Results, File!Rows, File!NoRow, File!Statuses, File!InUse

LEMMA ResultIsRow ==
  ASSUME NEW x \in File!Results
  PROVE  x \in File!Rows /\ x # File!NoRow /\ x.status \in File!Statuses /\ x.key \in File!Keys
PROOF BY DEF File!Results, File!Rows, File!NoRow, File!Statuses

LEMMA KeyKinds == "staging" \in File!Keys /\ "final" \in File!Keys /\ "held" \in File!Keys
PROOF BY DEF File!Keys

\* What a verdict makes of an attachment a scan may have led to.
LEMMA StatusIsProper ==
  ASSUME File!AttachmentsAssumption, NEW u \in Uploads, NEW v \in File!Verdict(u)
  PROVE  /\ v \in File!Verdicts /\ File!StatusOf(v) \in File!Statuses
         /\ File!Proper(u, File!StatusOf(v))
         /\ u \notin infected => File!StatusOf(v) # "INFECTED" /\ v # "infected"
PROOF
<1>1. CASE v = "clean"
  BY <1>1 DEF File!Verdict, File!Verdicts, File!StatusOf, File!Statuses, File!Proper
<1>2. CASE v = "infected"
  BY <1>2 DEF File!Verdict, File!Verdicts, File!StatusOf, File!Statuses, File!Proper, File!InUse
<1>3. CASE v = "failed"
  BY <1>3 DEF File!Verdict, File!Verdicts, File!StatusOf, File!Statuses, File!Proper, File!InUse
<1>4. QED  BY <1>1, <1>2, <1>3 DEF File!Verdict

\* A successful store leaves the file at its new key, a failed one among the keys it
\* had and the new one; over "memory" nothing is taken away.
LEMMA StoreFacts ==
  ASSUME FileKnown, NEW u \in Uploads, NEW from, NEW to \in File!Keys, NEW s \in File!Stores(u, from, to)
  PROVE  /\ s.keys \subseteq File!Keys
         /\ s.ok /\ (from = "memory" \/ Storage = "s3") => to \in s.keys
         /\ File!Stored(u, s) => errors' \in 0..MaxErrors
                            /\ objects' = [objects EXCEPT ![u] = s.keys]
PROOF
<1>1. objects[u] \subseteq File!Keys /\ errors \in 0..MaxErrors /\ MaxErrors \in Nat
  BY DEF FileKnown, File!AttachmentsInv, File!Typed, File!AttachmentsAssumption
<1>2. Storage \in {"s3", "local"}  BY DEF FileKnown, File!AttachmentsAssumption
<1> DEFINE gone == (objects[u] \ {from}) \cup {to}
<1>3. \/ s = [keys |-> objects[u] \cup {to}, ok |-> TRUE]
      \/ s = [keys |-> gone, ok |-> TRUE]
      \/ s = [keys |-> objects[u], ok |-> Storage = "local"] /\ from # "memory"
      \/ s = [keys |-> objects[u] \cup {to}, ok |-> FALSE]
      \/ s = [keys |-> objects[u], ok |-> FALSE]
  BY DEF File!Stores
<1>4. s.keys \subseteq File!Keys
  <2>1. /\ objects[u] \cup {to} \subseteq File!Keys /\ gone \subseteq File!Keys  BY <1>1
  <2>2. s.keys \in {objects[u], objects[u] \cup {to}, gone}  BY <1>3
  <2>3. QED  BY <1>1, <2>1, <2>2
<1>5. ASSUME s.ok, from = "memory" \/ Storage = "s3" PROVE to \in s.keys
  <2>1. \/ s.keys = objects[u] \cup {to}
        \/ s.keys = gone
        \/ s.ok = (Storage = "local") /\ from # "memory"
        \/ s.ok = FALSE
    BY <1>3
  <2>2. s.keys = objects[u] \cup {to} \/ s.keys = gone  BY <1>2, <1>5, <2>1
  <2>3. QED  BY <2>2
<1>6. File!Stored(u, s) => errors' \in 0..MaxErrors
  BY <1>1 DEF File!Stored
<1>7. QED  BY <1>4, <1>5, <1>6 DEF File!Stored

(***************************************************************************)
(* Initially                                                                *)
(***************************************************************************)
LEMMA FileInitKnown == File!AttachmentsAssumption /\ File!Init => FileKnown
PROOF
<1>1. SUFFICES ASSUME File!AttachmentsAssumption, File!Init PROVE File!AttachmentsInv
  BY DEF FileKnown
<1>2. /\ \A u \in Uploads : upload[u] = File!Idle /\ row[u] = File!NoRow
      /\ \A d \in Fetches : fetch[d] = File!Idle
  BY <1>1 DEF File!Init
<1>3. File!Idle.pc = "idle" /\ File!Idle \in File!UploadState
  BY DEF File!Idle, File!UploadState
<1>4. File!Typed
  <2>1. row \in [Uploads -> File!Rows] /\ objects \in [Uploads -> SUBSET File!Keys]
    BY <1>1 DEF File!Init, File!Rows
  <2>2. /\ upload \in [Uploads -> File!UploadState] /\ fetch \in [Fetches -> File!DownloadState]
        /\ deletion \in [Deletions -> File!DeletionState]
    BY <1>1, <1>3 DEF File!Init, File!DownloadState, File!DeletionState
  <2>3. reboots \in 0..MaxReboots /\ errors \in 0..MaxErrors
    BY <1>1 DEF File!Init, File!AttachmentsAssumption
  <2>4. QED  BY <1>1, <2>1, <2>2, <2>3 DEF File!Init, File!Typed
<1>5. \A u \in Uploads : File!Stage(u)  BY <1>2, <1>3 DEF File!Stage
<1>6. File!PendingHasUpload  BY <1>2 DEF File!PendingHasUpload
<1>7. File!Judged  BY <1>2, <1>3 DEF File!Judged
<1>8. \A u \in Uploads : File!Placed(u)  BY <1>2, <1>3 DEF File!Placed
<1>9. QED  BY <1>4, <1>5, <1>6, <1>7, <1>8 DEF File!AttachmentsInv

(***************************************************************************)
(* A step of an upload                                                      *)
(***************************************************************************)
\* What the step of upload u owes: x, k and w are its record, the keys of its file
\* and its row after the step.
Owed(u, x, k, w) ==
  /\ x.pc \in {"idle", "put", "moved"} => w = File!NoRow
  /\ x.pc \in Moving => w = File!NoRow \/ w.status = "PENDING"
  /\ w # File!NoRow /\ w.status = "PENDING" => x.pc \in Moving \/ reboots > 0
  /\ w # File!NoRow /\ w.status = "INFECTED" => u \in infected
  /\ x.pc = "storing" => x.verdict \in File!Verdict(u)
  /\ x.pc = "writing" => File!Proper(u, x.result.status)
  /\ u \in infected \/ File!BeingDeleted(u) \/
     /\ x.pc = "moved" => "final" \in k
     /\ x.pc = "writing" /\ File!InUse(x.result.status) =>
          x.result.key = "final" /\ "final" \in k
     /\ w # File!NoRow /\ File!InUse(w.status) => w.key = "final" /\ "final" \in k

LEMMA UploadMoves ==
  ASSUME FileKnown, NEW u \in Uploads, upload[u].pc # "done",
         NEW x \in File!UploadState, NEW k \in SUBSET File!Keys, NEW w \in File!Rows,
         upload' = [upload EXCEPT ![u] = x], objects' = [objects EXCEPT ![u] = k],
         row' = [row EXCEPT ![u] = w], errors' \in 0..MaxErrors,
         UNCHANGED <<enabled, infected, fetch, deletion, reboots>>,
         Owed(u, x, k, w)
  PROVE  File!AttachmentsInv'
PROOF
<1>1. /\ File!Typed /\ (\A v \in Uploads : File!Stage(v)) /\ File!PendingHasUpload /\ File!Judged
      /\ (\A v \in Uploads : File!Placed(v))
  BY DEF FileKnown, File!AttachmentsInv
<1>2. /\ upload'[u] = x /\ objects'[u] = k /\ row'[u] = w
      /\ \A v \in Uploads \ {u} :
           upload'[v] = upload[v] /\ objects'[v] = objects[v] /\ row'[v] = row[v]
  BY <1>1 DEF File!Typed
<1>3. \A v \in Uploads : File!BeingDeleted(v)' = File!BeingDeleted(v)  BY DEF File!BeingDeleted
<1>4. File!Typed'  BY <1>1 DEF File!Typed
<1>5. \A v \in Uploads : File!Stage(v)'  BY <1>1, <1>2 DEF File!Stage, Owed, Moving
<1>6. File!PendingHasUpload'  BY <1>1, <1>2 DEF File!PendingHasUpload, Owed, Moving
<1>7. File!Judged'
  <2>1. ASSUME NEW v \in Uploads
        PROVE  /\ row'[v] # File!NoRow /\ row'[v].status = "INFECTED" => v \in infected
               /\ upload'[v].pc = "storing" => upload'[v].verdict \in File!Verdict(v)
               /\ upload'[v].pc = "writing" => File!Proper(v, upload'[v].result.status)
    BY <1>1, <1>2 DEF File!Judged, Owed
  <2>3. infected' = infected /\ fetch' = fetch  OBVIOUS
  <2>4. ASSUME NEW d \in Fetches
        PROVE  /\ fetch[d].pc \in {"scanning", "storing", "writing"} =>
                    upload'[fetch[d].of].pc = "done"
               /\ fetch[d].pc = "storing" => fetch[d].of \in infected
               /\ fetch[d].pc \in {"storing", "writing"} =>
                    File!Proper(fetch[d].of, fetch[d].status)
    <3>1. /\ fetch[d].pc \in {"scanning", "storing", "writing"} =>
               upload[fetch[d].of].pc = "done"
          /\ fetch[d].pc = "storing" => fetch[d].of \in infected
          /\ fetch[d].pc \in {"storing", "writing"} =>
               File!Proper(fetch[d].of, fetch[d].status)
      BY <1>1 DEF File!Judged
    <3>2. fetch[d].pc \in {"scanning", "storing", "writing"} =>
            fetch[d].of \in Uploads
      BY <1>1, FileDownloadFacts DEF File!Typed
    <3>3. QED  BY <1>2, <3>1, <3>2
  <2>5. QED  BY <2>1, <2>3, <2>4 DEF File!Judged, File!Proper, File!Verdict
<1>8. ASSUME NEW v \in Uploads PROVE File!Placed(v)'
  <2>1. CASE v # u
    BY <1>1, <1>2, <1>3, <2>1 DEF File!Placed, File!Filed, File!Present
  <2>2. CASE v = u
    <3>1. CASE u \in infected \/ File!BeingDeleted(u)
      BY <1>3, <2>2, <3>1 DEF File!Placed
    <3>2. CASE ~(u \in infected \/ File!BeingDeleted(u))
      <4>1. \A d \in Fetches :
              ~(fetch[d].pc \in {"scanning", "writing"} /\ fetch[d].of = u)
        BY <1>1 DEF File!Judged
      <4>2. QED  BY <1>2, <2>2, <3>2, <4>1 DEF File!Placed, File!Filed, File!Present, Owed
    <3>3. QED  BY <3>1, <3>2
  <2>3. QED  BY <2>1, <2>2
<1>9. QED  BY <1>4, <1>5, <1>6, <1>7, <1>8 DEF File!AttachmentsInv

(***************************************************************************)
(* The actions of an upload                                                 *)
(***************************************************************************)
LEMMA UploadGoes ==
  ASSUME NEW x \in File!UploadState, x.pc \in {"idle", "put", "moved"},
         NEW pc \in {"put", "moved", "scanning", "done"}, NEW y, y = [x EXCEPT !.pc = pc]
  PROVE  y \in File!UploadState /\ y.pc = pc
PROOF BY DEF File!UploadState

\* What is known of the parts of an upload.
LEMMA UploadParts ==
  ASSUME FileKnown, NEW u \in Uploads
  PROVE  /\ upload[u] \in File!UploadState /\ row[u] \in File!Rows
         /\ objects[u] \in SUBSET File!Keys
         /\ row = [row EXCEPT ![u] = row[u]] /\ objects = [objects EXCEPT ![u] = objects[u]]
         /\ errors \in 0..MaxErrors
         /\ File!Stage(u) /\ File!Placed(u)
PROOF
<1>1. File!Typed /\ File!Stage(u) /\ File!Placed(u)  BY DEF FileKnown, File!AttachmentsInv
<1>2. QED  BY <1>1 DEF File!Typed

LEMMA PutStep == ASSUME FileKnown, NEW u \in Uploads, File!Put(u) PROVE File!AttachmentsInv'
PROOF
<1>1. PICK x : x = [upload[u] EXCEPT !.pc = "put"]  OBVIOUS
<1>2. PICK k : k = objects[u] \cup {"staging"}  OBVIOUS
<1>3. x \in File!UploadState /\ x.pc = "put" /\ k \in SUBSET File!Keys
  BY <1>1, <1>2, UploadParts, UploadGoes, KeyKinds DEF File!Put
<1>4. /\ upload' = [upload EXCEPT ![u] = x] /\ objects' = [objects EXCEPT ![u] = k]
      /\ UNCHANGED <<enabled, infected, row, fetch, deletion, reboots, errors>>
      /\ upload[u].pc = "idle"
  BY <1>1, <1>2 DEF File!Put, File!Go
<1>5. row[u] = File!NoRow  BY <1>4, UploadParts DEF File!Stage
<1>6. Owed(u, x, k, row[u])  BY <1>3, <1>5 DEF Owed, Moving
<1>7. row' = [row EXCEPT ![u] = row[u]] /\ row[u] \in File!Rows /\ errors' \in 0..MaxErrors
  BY <1>4, UploadParts
<1>8. QED  BY <1>3, <1>4, <1>6, <1>7, UploadMoves

LEMMA ArrivedRow ==
  ASSUME FileKnown, NEW u \in Uploads, File!Arrived(u)
  PROVE  /\ upload[u].pc \in {"idle", "put"} /\ row[u] = File!NoRow /\ upload[u].pc # "done"
PROOF
<1>1. upload[u].pc \in {"idle", "put"}  BY DEF File!Arrived
<1>2. QED  BY <1>1, UploadParts DEF File!Stage

\* Only S3 has uploads that do not come from memory.
LEMMA SourceKept ==
  ASSUME FileKnown, NEW u \in Uploads PROVE File!Source(u) = "memory" \/ Storage = "s3"
PROOF BY DEF FileKnown, File!AttachmentsAssumption, File!Source

LEMMA StoreUnscannedStep ==
  ASSUME FileKnown, NEW u \in Uploads, File!StoreUnscanned(u) PROVE File!AttachmentsInv'
PROOF
<1>1. PICK s \in File!Stores(u, File!Source(u), "final") :
        File!Stored(u, s) /\ File!Go(u, IF s.ok THEN "moved" ELSE "done")
  BY DEF File!StoreUnscanned
<1>2. /\ File!Arrived(u)
      /\ UNCHANGED <<enabled, infected, row, fetch, deletion, reboots>>
  BY DEF File!StoreUnscanned
<1>3. /\ s.keys \in SUBSET File!Keys /\ (s.ok => "final" \in s.keys)
      /\ errors' \in 0..MaxErrors /\ objects' = [objects EXCEPT ![u] = s.keys]
  BY <1>1, StoreFacts, SourceKept, KeyKinds
<1>4. PICK pc : pc = IF s.ok THEN "moved" ELSE "done"  OBVIOUS
<1>5. PICK x : x = [upload[u] EXCEPT !.pc = pc]  OBVIOUS
<1>6. upload' = [upload EXCEPT ![u] = x]  BY <1>1, <1>4, <1>5 DEF File!Go
<1>7. x \in File!UploadState /\ x.pc = pc /\ (pc = "moved" => s.ok) /\ pc \in {"moved", "done"}
  BY <1>2, <1>4, <1>5, ArrivedRow, UploadParts, UploadGoes
<1>8. row[u] = File!NoRow /\ upload[u].pc # "done"  BY <1>2, ArrivedRow
<1>9. Owed(u, x, s.keys, row[u])  BY <1>3, <1>7, <1>8 DEF Owed, Moving
<1>10. row' = [row EXCEPT ![u] = row[u]] /\ row[u] \in File!Rows  BY <1>2, UploadParts
<1>11. QED  BY <1>2, <1>3, <1>6, <1>7, <1>8, <1>9, <1>10, UploadMoves

LEMMA CreateUnscannedStep ==
  ASSUME FileKnown, NEW u \in Uploads, File!CreateUnscanned(u) PROVE File!AttachmentsInv'
PROOF
<1>1. PICK w : w = File!Result("UNSCANNED", "final")  OBVIOUS
<1>2. PICK x : x = [upload[u] EXCEPT !.pc = "done"]  OBVIOUS
<1>3. /\ upload[u].pc = "moved" /\ upload' = [upload EXCEPT ![u] = x]
      /\ row' = [row EXCEPT ![u] = w]
      /\ UNCHANGED <<enabled, infected, objects, fetch, deletion, reboots, errors>>
  BY <1>1, <1>2 DEF File!CreateUnscanned, File!Go
<1>4. x \in File!UploadState /\ x.pc = "done"  BY <1>2, UploadParts, UploadDone
<1>5. w \in File!Rows /\ w.status = "UNSCANNED" /\ w.key = "final"
  BY <1>1, ResultFacts, KeyKinds DEF File!Statuses
<1>6. Owed(u, x, objects[u], w)
  BY <1>3, <1>4, <1>5, UploadParts DEF Owed, Moving, File!Placed, File!Present
<1>7. /\ objects' = [objects EXCEPT ![u] = objects[u]] /\ objects[u] \in SUBSET File!Keys
      /\ errors' \in 0..MaxErrors
  BY <1>3, UploadParts
<1>8. QED  BY <1>3, <1>4, <1>5, <1>6, <1>7, UploadMoves

LEMMA CreatePendingStep ==
  ASSUME FileKnown, NEW u \in Uploads, File!CreatePending(u) PROVE File!AttachmentsInv'
PROOF
<1>1. PICK w : w = [status |-> "PENDING", quarantined |-> FALSE,
                    key |-> IF u \in Direct THEN "final" ELSE "staging"]  OBVIOUS
<1>2. PICK x : x = [upload[u] EXCEPT !.pc = "scanning"]  OBVIOUS
<1>3. /\ File!Arrived(u) /\ upload' = [upload EXCEPT ![u] = x]
      /\ row' = [row EXCEPT ![u] = w]
      /\ UNCHANGED <<enabled, infected, objects, fetch, deletion, reboots, errors>>
  BY <1>1, <1>2 DEF File!CreatePending, File!Go
<1>4. x \in File!UploadState /\ x.pc = "scanning"
  BY <1>2, <1>3, ArrivedRow, UploadParts, UploadGoes
<1>5. w \in File!Rows /\ w.status = "PENDING"  BY <1>1, KeyKinds DEF File!Rows
<1>6. Owed(u, x, objects[u], w)  BY <1>4, <1>5 DEF Owed, Moving, File!InUse
<1>7. /\ objects' = [objects EXCEPT ![u] = objects[u]] /\ objects[u] \in SUBSET File!Keys
      /\ errors' \in 0..MaxErrors /\ upload[u].pc # "done"
  BY <1>3, UploadParts, ArrivedRow
<1>8. QED  BY <1>3, <1>4, <1>5, <1>6, <1>7, UploadMoves

LEMMA ScanUploadStep ==
  ASSUME FileKnown, NEW u \in Uploads, File!ScanUpload(u) PROVE File!AttachmentsInv'
PROOF
<1>1. PICK v \in File!Verdict(u) :
        upload' = [upload EXCEPT ![u] = [pc |-> "storing", verdict |-> v]]
  BY DEF File!ScanUpload
<1>2. PICK x : x = [pc |-> "storing", verdict |-> v]  OBVIOUS
<1>3. /\ upload[u].pc = "scanning"
      /\ UNCHANGED <<enabled, infected, row, objects, fetch, deletion, reboots, errors>>
  BY DEF File!ScanUpload
<1>4. x \in File!UploadState /\ x.pc = "storing" /\ x.verdict = v
  <2>1. v \in File!Verdicts  BY StatusIsProper DEF FileKnown
  <2>2. QED  BY <1>2, <2>1 DEF File!UploadState
<1>5. row[u] = File!NoRow \/ row[u].status = "PENDING"  BY <1>3, UploadParts DEF File!Stage
<1>6. Owed(u, x, objects[u], row[u])  BY <1>4, <1>5 DEF Owed, Moving, File!InUse
<1>7. /\ objects' = [objects EXCEPT ![u] = objects[u]] /\ objects[u] \in SUBSET File!Keys
      /\ row' = [row EXCEPT ![u] = row[u]] /\ row[u] \in File!Rows /\ errors' \in 0..MaxErrors
  BY <1>3, UploadParts
<1>8. upload' = [upload EXCEPT ![u] = x]  BY <1>1, <1>2
<1>9. PICK k, w : k = objects[u] /\ w = row[u]  OBVIOUS
<1>10. /\ k \in SUBSET File!Keys /\ w \in File!Rows /\ Owed(u, x, k, w)
       /\ objects' = [objects EXCEPT ![u] = k] /\ row' = [row EXCEPT ![u] = w]
  BY <1>6, <1>7, <1>9
<1>11. UNCHANGED <<enabled, infected, fetch, deletion, reboots>>  BY <1>3
<1>12. upload[u].pc # "done" /\ errors' \in 0..MaxErrors  BY <1>3, <1>7
<1>13. QED  BY <1>4, <1>8, <1>10, <1>11, <1>12, UploadMoves

LEMMA StoreUploadStep ==
  ASSUME FileKnown, NEW u \in Uploads, File!StoreUpload(u) PROVE File!AttachmentsInv'
PROOF
<1> DEFINE verdict == File!StatusOf(upload[u].verdict)
           target == IF File!InUse(verdict) THEN "final" ELSE "held"
           old    == IF u \in Direct THEN "final" ELSE "staging"
<1>1. /\ upload[u].pc = "storing"
      /\ UNCHANGED <<enabled, infected, row, fetch, deletion, reboots>>
  BY DEF File!StoreUpload
<1>2. upload[u].verdict \in File!Verdict(u)
  BY <1>1 DEF FileKnown, File!AttachmentsInv, File!Judged
<1>3. /\ verdict \in File!Statuses /\ File!Proper(u, verdict) /\ File!Proper(u, "FAILED")
      /\ target \in File!Keys /\ old \in File!Keys /\ "FAILED" \in File!Statuses
  BY <1>2, StatusIsProper, KeyKinds DEF FileKnown, File!Proper, File!InUse, File!Statuses
<1>4. row[u] = File!NoRow \/ row[u].status = "PENDING"  BY <1>1, UploadParts DEF File!Stage
\* Whatever was stored: the result the row is going to get.
<1>5. ASSUME NEW r, NEW k \in SUBSET File!Keys,
             upload' = [upload EXCEPT ![u] = [pc |-> "writing", result |-> r]],
             objects' = [objects EXCEPT ![u] = k], errors' \in 0..MaxErrors,
             \/ r = File!Result("FAILED", old)
             \/ r = File!Result(verdict, target) /\ target \in k
      PROVE  File!AttachmentsInv'
  <2>1. PICK x : x = [pc |-> "writing", result |-> r]  OBVIOUS
  <2>2. /\ r \in File!Results /\ File!Proper(u, r.status)
        /\ File!InUse(r.status) => r.key = "final" /\ "final" \in k
    <3>1. CASE r = File!Result("FAILED", old)
      <4>1. r \in File!Results /\ r.status = "FAILED"  BY <1>3, <3>1, ResultFacts
      <4>2. QED  BY <1>3, <4>1 DEF File!InUse
    <3>2. CASE r = File!Result(verdict, target) /\ target \in k
      <4>1. r \in File!Results /\ r.status = verdict /\ r.key = target
        BY <1>3, <3>2, ResultFacts
      <4>2. QED  BY <1>3, <3>2, <4>1
    <3>3. QED  BY <1>5, <3>1, <3>2
  <2>3. x \in File!UploadState /\ x.pc = "writing" /\ x.result = r
    BY <2>1, <2>2 DEF File!UploadState
  <2>4. Owed(u, x, k, row[u])  BY <1>4, <2>2, <2>3 DEF Owed, Moving, File!InUse
  <2>5. row' = [row EXCEPT ![u] = row[u]] /\ row[u] \in File!Rows  BY <1>1, UploadParts
  <2>6. upload' = [upload EXCEPT ![u] = x]  BY <1>5, <2>1
  <2>7. QED  BY <1>1, <1>5, <2>3, <2>4, <2>5, <2>6, UploadMoves
<1>6. CASE verdict = "FAILED" /\ u \in Direct
  <2>1. /\ upload' = [upload EXCEPT ![u] = [pc |-> "writing", result |-> File!Result("FAILED", old)]]
        /\ UNCHANGED <<objects, errors>>
    BY <1>6 DEF File!StoreUpload
  <2>2. /\ objects' = [objects EXCEPT ![u] = objects[u]] /\ objects[u] \in SUBSET File!Keys
        /\ errors' \in 0..MaxErrors
    BY <2>1, UploadParts
  <2>3. QED  BY <1>5, <2>1, <2>2
<1>7. CASE ~(verdict = "FAILED" /\ u \in Direct)
  <2>1. PICK s \in File!Stores(u, File!Source(u), target) :
          /\ File!Stored(u, s)
          /\ upload' = [upload EXCEPT ![u] = [pc |-> "writing", result |->
               IF s.ok THEN File!Result(verdict, target) ELSE File!Result("FAILED", old)]]
    BY <1>7 DEF File!StoreUpload
  <2>2. /\ s.keys \in SUBSET File!Keys /\ (s.ok => target \in s.keys)
        /\ errors' \in 0..MaxErrors /\ objects' = [objects EXCEPT ![u] = s.keys]
    BY <1>3, <2>1, StoreFacts, SourceKept
  <2>3. PICK r : r = IF s.ok THEN File!Result(verdict, target) ELSE File!Result("FAILED", old)
    OBVIOUS
  <2>4. \/ r = File!Result("FAILED", old)
        \/ r = File!Result(verdict, target) /\ target \in s.keys
    BY <2>2, <2>3
  <2>5. upload' = [upload EXCEPT ![u] = [pc |-> "writing", result |-> r]]
    BY <2>1, <2>3
  <2>6. QED  BY <1>5, <2>2, <2>4, <2>5
<1>8. QED  BY <1>6, <1>7

LEMMA WriteUploadStep ==
  ASSUME FileKnown, NEW u \in Uploads, File!WriteUpload(u) PROVE File!AttachmentsInv'
PROOF
<1>1. PICK x : x = [upload[u] EXCEPT !.pc = "done"]  OBVIOUS
<1>2. PICK r : r = upload[u].result  OBVIOUS
<1>3. PICK w : w = IF row[u] = File!NoRow THEN File!NoRow ELSE r  OBVIOUS
<1>4. /\ upload[u].pc = "writing" /\ upload' = [upload EXCEPT ![u] = x]
      /\ row' = [row EXCEPT ![u] = w]
      /\ UNCHANGED <<enabled, infected, objects, fetch, deletion, reboots, errors>>
  BY <1>1, <1>2, <1>3, UploadParts DEF File!WriteUpload, File!Go, File!Update
<1>5. x \in File!UploadState /\ x.pc = "done"  BY <1>1, UploadParts, UploadDone
<1>6. r \in File!Results /\ r \in File!Rows /\ r.status \in File!Statuses
  BY <1>2, <1>4, UploadParts, UploadPc, ResultIsRow
<1>7. File!Proper(u, r.status)  BY <1>2, <1>4 DEF FileKnown, File!AttachmentsInv, File!Judged
<1>8. w \in File!Rows /\ (w = File!NoRow \/ w = r)  BY <1>3, <1>6 DEF File!Rows
<1>9. Owed(u, x, objects[u], w)
  <2>1. u \in infected \/ File!BeingDeleted(u) \/
          (File!InUse(r.status) => r.key = "final" /\ "final" \in objects[u])
    BY <1>2, <1>4, UploadParts DEF File!Placed, File!Present
  <2>2. QED  BY <1>5, <1>6, <1>7, <1>8, <2>1 DEF Owed, Moving, File!Proper, File!Statuses
<1>10. /\ objects' = [objects EXCEPT ![u] = objects[u]] /\ objects[u] \in SUBSET File!Keys
       /\ errors' \in 0..MaxErrors
  BY <1>4, UploadParts
<1>11. QED  BY <1>4, <1>5, <1>8, <1>9, <1>10, UploadMoves

(***************************************************************************)
(* A step of a fetch                                                     *)
(***************************************************************************)
\* What the step of a fetch of u owes: x is its record after the step, k and w the
\* keys of the file and its row.
OwedBy(x, u, k, w) ==
  /\ x.of = u
  /\ x.pc \in {"scanning", "storing", "writing"} => upload[u].pc = "done"
  /\ x.pc = "storing" => u \in infected
  /\ x.pc \in {"storing", "writing"} => File!Proper(u, x.status)
  /\ w = row[u] \/
     /\ upload[u].pc = "done" /\ w # File!NoRow /\ w.status \in File!Statuses
     /\ w.status = "INFECTED" => u \in infected
  /\ u \in infected \/ File!BeingDeleted(u) \/
     /\ k = objects[u]
     /\ w = row[u] \/ (w.key = "final" /\ "final" \in k)
     /\ x.pc \in {"scanning", "writing"} => w # File!NoRow /\ w.key = "final" /\ "final" \in k

LEMMA DownloadMoves ==
  ASSUME FileKnown, NEW d \in Fetches, NEW u \in Uploads,
         NEW x \in File!DownloadState, NEW k \in SUBSET File!Keys, NEW w \in File!Rows,
         fetch' = [fetch EXCEPT ![d] = x], objects' = [objects EXCEPT ![u] = k],
         row' = [row EXCEPT ![u] = w], errors' \in 0..MaxErrors,
         UNCHANGED <<enabled, infected, upload, deletion, reboots>>,
         OwedBy(x, u, k, w)
  PROVE  File!AttachmentsInv'
PROOF
<1>1. /\ File!Typed /\ (\A v \in Uploads : File!Stage(v)) /\ File!PendingHasUpload /\ File!Judged
      /\ (\A v \in Uploads : File!Placed(v))
  BY DEF FileKnown, File!AttachmentsInv
<1>2. /\ objects'[u] = k /\ row'[u] = w /\ fetch'[d] = x
      /\ \A v \in Uploads \ {u} : objects'[v] = objects[v] /\ row'[v] = row[v]
      /\ \A c \in Fetches \ {d} : fetch'[c] = fetch[c]
      /\ upload' = upload /\ infected' = infected /\ reboots' = reboots
  BY <1>1 DEF File!Typed
<1>3. \A v \in Uploads : File!BeingDeleted(v)' = File!BeingDeleted(v)  BY DEF File!BeingDeleted
<1>4. File!Typed'  BY <1>1 DEF File!Typed
<1>5. \A v \in Uploads : File!Stage(v)'
  <2>1. ASSUME NEW v \in Uploads, v # u PROVE File!Stage(v)'  BY <1>1, <1>2, <2>1 DEF File!Stage
  <2>2. File!Stage(u)'
    <3>1. CASE w = row[u]  BY <1>1, <1>2, <3>1 DEF File!Stage
    <3>2. CASE w # row[u]  BY <1>2, <3>2 DEF File!Stage, OwedBy
    <3>3. QED  BY <3>1, <3>2
  <2>3. QED  BY <2>1, <2>2
<1>6. File!PendingHasUpload'
  <2>1. w # File!NoRow /\ w.status = "PENDING" => w = row[u]  BY DEF OwedBy, File!Statuses
  <2>2. QED  BY <1>1, <1>2, <2>1 DEF File!PendingHasUpload
<1>7. File!Judged'
  <2>1. ASSUME NEW v \in Uploads
        PROVE  /\ row'[v] # File!NoRow /\ row'[v].status = "INFECTED" => v \in infected
               /\ upload[v].pc = "storing" => upload[v].verdict \in File!Verdict(v)
               /\ upload[v].pc = "writing" => File!Proper(v, upload[v].result.status)
    BY <1>1, <1>2 DEF File!Judged, OwedBy
  <2>2. ASSUME NEW c \in Fetches
        PROVE  /\ fetch'[c].pc \in {"scanning", "storing", "writing"} =>
                    upload[fetch'[c].of].pc = "done"
               /\ fetch'[c].pc = "storing" => fetch'[c].of \in infected
               /\ fetch'[c].pc \in {"storing", "writing"} =>
                    File!Proper(fetch'[c].of, fetch'[c].status)
    <3>1. CASE c = d  BY <1>2, <3>1 DEF OwedBy
    <3>2. CASE c # d  BY <1>1, <1>2, <3>2 DEF File!Judged
    <3>3. QED  BY <3>1, <3>2
  <2>3. QED  BY <1>2, <2>1, <2>2 DEF File!Judged, File!Proper, File!Verdict
<1>8. ASSUME NEW v \in Uploads PROVE File!Placed(v)'
  <2>1. CASE v # u
    <3>1. CASE v \in infected \/ File!BeingDeleted(v)  BY <1>2, <1>3, <3>1 DEF File!Placed
    <3>2. CASE ~(v \in infected \/ File!BeingDeleted(v))
      <4>1. File!Filed(v)' = File!Filed(v) /\ File!Present(v, "final")' = File!Present(v, "final")
        BY <1>2, <2>1 DEF File!Filed, File!Present
      <4>2. \A c \in Fetches :
              fetch'[c].pc \in {"scanning", "writing"} /\ fetch'[c].of = v =>
                File!Filed(v)
        BY <1>1, <1>2, <2>1, <3>2 DEF File!Placed, OwedBy
      <4>3. /\ upload[v].pc = "moved" => File!Present(v, "final")
            /\ upload[v].pc = "writing" /\ File!InUse(upload[v].result.status) =>
                 upload[v].result.key = "final" /\ File!Present(v, "final")
            /\ row[v] # File!NoRow /\ File!InUse(row[v].status) => File!Filed(v)
        BY <1>1, <3>2 DEF File!Placed
      <4>4. QED  BY <1>2, <2>1, <4>1, <4>2, <4>3 DEF File!Placed
    <3>3. QED  BY <3>1, <3>2
  <2>2. CASE v = u
    <3>1. CASE u \in infected \/ File!BeingDeleted(u)  BY <1>2, <1>3, <2>2, <3>1 DEF File!Placed
    <3>2. CASE ~(u \in infected \/ File!BeingDeleted(u))
      <4>1. /\ k = objects[u]
            /\ w = row[u] \/ (w # File!NoRow /\ w.key = "final" /\ "final" \in k)
            /\ x.pc \in {"scanning", "writing"} => w # File!NoRow /\ w.key = "final" /\ "final" \in k
        BY <3>2 DEF OwedBy
      <4>2. /\ upload[u].pc = "moved" => "final" \in k
            /\ upload[u].pc = "writing" /\ File!InUse(upload[u].result.status) =>
                 upload[u].result.key = "final" /\ "final" \in k
        BY <1>1, <3>2, <4>1 DEF File!Placed, File!Present
      <4>3. w # File!NoRow /\ File!InUse(w.status) => w.key = "final" /\ "final" \in k
        BY <1>1, <3>2, <4>1 DEF File!Placed, File!Filed, File!Present
      <4>4. \A c \in Fetches :
              fetch'[c].pc \in {"scanning", "writing"} /\ fetch'[c].of = u =>
                w # File!NoRow /\ w.key = "final" /\ "final" \in k
        BY <1>1, <1>2, <3>2, <4>1 DEF File!Placed, File!Filed, File!Present
      <4>5. QED  BY <1>2, <2>2, <4>2, <4>3, <4>4 DEF File!Placed, File!Filed, File!Present
    <3>3. QED  BY <3>1, <3>2
  <2>3. QED  BY <2>1, <2>2
<1>9. QED  BY <1>4, <1>5, <1>6, <1>7, <1>8 DEF File!AttachmentsInv

(***************************************************************************)
(* The actions of a fetch                                                *)
(***************************************************************************)
LEMMA DownloadParts ==
  ASSUME FileKnown, NEW d \in Fetches
  PROVE  fetch[d] \in File!DownloadState
PROOF BY DEF FileKnown, File!AttachmentsInv, File!Typed

\* A fetch that leaves rows and objects alone.
LEMMA DownloadOnly ==
  ASSUME FileKnown, NEW d \in Fetches, NEW u \in Uploads, NEW x \in File!DownloadState,
         fetch' = [fetch EXCEPT ![d] = x],
         UNCHANGED <<enabled, infected, row, objects, upload, deletion, reboots, errors>>,
         OwedBy(x, u, objects[u], row[u])
  PROVE  File!AttachmentsInv'
PROOF
<1>1. /\ objects' = [objects EXCEPT ![u] = objects[u]] /\ objects[u] \in SUBSET File!Keys
      /\ row' = [row EXCEPT ![u] = row[u]] /\ row[u] \in File!Rows /\ errors' \in 0..MaxErrors
  BY UploadParts
<1>2. PICK k, w : k = objects[u] /\ w = row[u]  OBVIOUS
<1>3. /\ k \in SUBSET File!Keys /\ w \in File!Rows /\ OwedBy(x, u, k, w)
      /\ objects' = [objects EXCEPT ![u] = k] /\ row' = [row EXCEPT ![u] = w]
  BY <1>1, <1>2
<1>4. QED  BY <1>1, <1>3, DownloadMoves

LEMMA DownloadStep ==
  ASSUME FileKnown, NEW d \in Fetches, NEW u \in Uploads, File!Download(d, u)
  PROVE  File!AttachmentsInv'
PROOF
<1> DEFINE chosen ==
      CASE row[u].status = "INFECTED" \/ row[u].quarantined -> "done"
        [] ~enabled \/ row[u].status = "CLEAN"           -> "serving"
        [] row[u].status = "UNSCANNED" /\ OnDownload     -> "scanning"
        [] OTHER                                         -> "done"
<1>1. /\ row[u] # File!NoRow
      /\ fetch' = [fetch EXCEPT ![d] = [pc |-> chosen, of |-> u, key |-> row[u].key]]
      /\ UNCHANGED <<enabled, infected, row, objects, upload, deletion, reboots, errors>>
  BY DEF File!Download
<1>2. /\ chosen \in {"scanning", "serving", "done"}
      /\ chosen = "scanning" => row[u].status = "UNSCANNED"
  <2>1. CASE row[u].status = "INFECTED" \/ row[u].quarantined
    BY <2>1
  <2>2. CASE ~(row[u].status = "INFECTED" \/ row[u].quarantined)
    BY <2>2
  <2>3. QED  BY <2>1, <2>2
<1>3. PICK x : x = [pc |-> chosen, of |-> u, key |-> row[u].key]  OBVIOUS
<1>4. x \in File!DownloadState /\ x.pc = chosen /\ x.of = u
  BY <1>1, <1>2, <1>3, UploadParts, RowFacts DEF File!DownloadState
<1>5. /\ upload[u].pc \in {"idle", "put", "moved", "done"} \cup Moving
  BY UploadParts, UploadPc DEF Moving
<1>6. chosen = "scanning" => upload[u].pc = "done"
  BY <1>1, <1>2, <1>5, UploadParts DEF File!Stage, Moving
<1>7. u \in infected \/ File!BeingDeleted(u) \/
        (chosen = "scanning" => row[u].key = "final" /\ "final" \in objects[u])
  BY <1>1, <1>2, UploadParts DEF File!Placed, File!Filed, File!Present, File!InUse
<1>8. OwedBy(x, u, objects[u], row[u])  BY <1>1, <1>2, <1>4, <1>6, <1>7 DEF OwedBy
<1>9. fetch' = [fetch EXCEPT ![d] = x]  BY <1>1, <1>3
<1>10. QED  BY <1>1, <1>4, <1>8, <1>9, DownloadOnly

LEMMA ScanDownloadStep ==
  ASSUME FileKnown, NEW d \in Fetches, File!ScanDownload(d) PROVE File!AttachmentsInv'
PROOF
<1>1. PICK u : u = fetch[d].of  OBVIOUS
<1>2. PICK v \in File!Verdict(u) :
        fetch' = [fetch EXCEPT ![d] =
          IF Storage = "s3" /\ ~File!Present(fetch[d].of, fetch[d].key)
          THEN [fetch[d] EXCEPT !.pc = "done"]
          ELSE [pc |-> IF v = "infected" THEN "storing" ELSE "writing",
                of |-> fetch[d].of, key |-> fetch[d].key, status |-> File!StatusOf(v)]]
  BY <1>1 DEF File!ScanDownload
<1>3. /\ fetch[d].pc = "scanning"
      /\ UNCHANGED <<enabled, infected, row, objects, upload, deletion, reboots, errors>>
  BY DEF File!ScanDownload
<1>4. fetch[d] \in File!DownloadState /\ fetch[d] \in Asked /\ fetch[d] # File!Idle
      /\ u \in Uploads /\ fetch[d].key \in File!Keys
  BY <1>1, <1>3, DownloadParts, FileDownloadFacts DEF Asked, File!Idle
<1>5. upload[u].pc = "done"  BY <1>1, <1>3 DEF FileKnown, File!AttachmentsInv, File!Judged
<1>6. /\ File!StatusOf(v) \in File!Statuses /\ File!Proper(u, File!StatusOf(v))
      /\ v = "infected" => u \in infected
  BY <1>4, StatusIsProper DEF FileKnown, File!Verdict
<1>7. u \in infected \/ File!BeingDeleted(u) \/
        (row[u] # File!NoRow /\ row[u].key = "final" /\ "final" \in objects[u])
  BY <1>1, <1>3, <1>4, UploadParts DEF File!Placed, File!Filed, File!Present
<1>8. CASE Storage = "s3" /\ ~File!Present(u, fetch[d].key)
  <2>1. PICK x : x = [fetch[d] EXCEPT !.pc = "done"]  OBVIOUS
  <2>2. x \in File!DownloadState /\ x.pc = "done" /\ x.of = u
    BY <1>1, <1>4, <2>1, DownloadDone DEF Asked
  <2>3. fetch' = [fetch EXCEPT ![d] = x]  BY <1>1, <1>2, <1>8, <2>1
  <2>4. OwedBy(x, u, objects[u], row[u])  BY <2>2 DEF OwedBy
  <2>5. QED  BY <1>3, <1>4, <2>2, <2>3, <2>4, DownloadOnly
<1>9. CASE ~(Storage = "s3" /\ ~File!Present(u, fetch[d].key))
  <2>1. PICK x : x = [pc |-> IF v = "infected" THEN "storing" ELSE "writing",
                      of |-> u, key |-> fetch[d].key, status |-> File!StatusOf(v)]
    OBVIOUS
  <2>2. /\ x \in File!DownloadState /\ x.of = u /\ x.status = File!StatusOf(v)
        /\ x.pc \in {"storing", "writing"} /\ (x.pc = "storing" => v = "infected")
    BY <1>4, <1>6, <2>1 DEF File!DownloadState
  <2>3. fetch' = [fetch EXCEPT ![d] = x]  BY <1>1, <1>2, <1>9, <2>1
  <2>4. OwedBy(x, u, objects[u], row[u])  BY <1>5, <1>6, <1>7, <2>2 DEF OwedBy
  <2>5. QED  BY <1>3, <1>4, <2>2, <2>3, <2>4, DownloadOnly
<1>10. QED  BY <1>8, <1>9

LEMMA QuarantineStep ==
  ASSUME FileKnown, NEW d \in Fetches, File!Quarantine(d) PROVE File!AttachmentsInv'
PROOF
<1>1. PICK u : u = fetch[d].of  OBVIOUS
<1>2. PICK s \in File!Stores(fetch[d].of, fetch[d].key, d) :
        /\ File!Stored(fetch[d].of, s)
        /\ fetch' = [fetch EXCEPT ![d] =
             [@ EXCEPT !.pc = "writing",
                       !.key = IF s.ok THEN d ELSE fetch[d].key]]
  BY DEF File!Quarantine
<1>3. /\ fetch[d].pc = "storing"
      /\ UNCHANGED <<enabled, infected, row, upload, deletion, reboots>>
  BY DEF File!Quarantine
<1>4. /\ fetch[d] \in Checked /\ fetch[d].of \in Uploads
      /\ fetch[d].key \in File!Keys
  BY <1>3, DownloadParts, FileDownloadFacts DEF Checked
<1>5. PICK key : key = IF s.ok THEN d ELSE fetch[d].key  OBVIOUS
<1>6. key \in File!Keys /\ d \in File!Keys  BY <1>4, <1>5 DEF File!Keys
<1>7. PICK y, x : y = [fetch[d] EXCEPT !.pc = "writing"] /\ x = [y EXCEPT !.key = key]
  OBVIOUS
<1>8. /\ x \in File!DownloadState /\ x.pc = "writing" /\ x.of = u
      /\ x.status = fetch[d].status
  <2>1. y \in Checked /\ y.pc = "writing" /\ y.of = u /\ y.status = fetch[d].status
    BY <1>1, <1>4, <1>7 DEF Checked
  <2>2. x \in Checked /\ x.pc = "writing" /\ x.of = u /\ x.status = fetch[d].status
    BY <1>6, <1>7, <2>1 DEF Checked
  <2>3. QED  BY <2>2 DEF Checked, File!DownloadState
<1>9. /\ upload[u].pc = "done" /\ u \in infected /\ File!Proper(u, fetch[d].status)
  BY <1>1, <1>3 DEF FileKnown, File!AttachmentsInv, File!Judged
<1>10. /\ s.keys \in SUBSET File!Keys /\ errors' \in 0..MaxErrors
       /\ objects' = [objects EXCEPT ![u] = s.keys]
  BY <1>1, <1>2, <1>4, <1>6, StoreFacts
<1>11. OwedBy(x, u, s.keys, row[u])  BY <1>8, <1>9 DEF OwedBy
<1>12. /\ row' = [row EXCEPT ![u] = row[u]] /\ row[u] \in File!Rows
       /\ fetch' = [fetch EXCEPT ![d] = x] /\ u \in Uploads
  <2>1. x = [fetch[d] EXCEPT !.pc = "writing",
                                !.key = IF s.ok THEN d ELSE fetch[d].key]
    BY <1>4, <1>5, <1>7 DEF Checked
  <2>2. fetch' = [fetch EXCEPT ![d] = x]  BY <1>2, <2>1
  <2>3. QED  BY <1>1, <1>3, <1>4, <2>2, UploadParts
<1>13. QED  BY <1>3, <1>8, <1>10, <1>11, <1>12, DownloadMoves

LEMMA WriteDownloadStep ==
  ASSUME FileKnown, NEW d \in Fetches, File!WriteDownload(d) PROVE File!AttachmentsInv'
PROOF
<1>1. PICK u : u = fetch[d].of  OBVIOUS
<1>2. PICK r : r = File!Result(fetch[d].status, fetch[d].key)  OBVIOUS
<1>3. PICK kept : kept = [r EXCEPT !.key = row[u].key]  OBVIOUS
<1>4. PICK new : new = IF r.status # "INFECTED" /\ row[u] # File!NoRow THEN kept ELSE r
  OBVIOUS
<1>5. PICK w : w = IF row[u] = File!NoRow THEN File!NoRow ELSE new  OBVIOUS
<1>6. PICK pc : pc = IF row[u] # File!NoRow /\ File!InUse(r.status) THEN "serving" ELSE "done"
  OBVIOUS
<1>7. PICK key : key = IF row[u] # File!NoRow THEN row'[u].key ELSE fetch[d].key  OBVIOUS
<1>8. PICK y, x : y = [fetch[d] EXCEPT !.pc = pc] /\ x = [y EXCEPT !.key = key]
  OBVIOUS
<1>9. /\ fetch[d].pc = "writing"
      /\ UNCHANGED <<enabled, infected, objects, upload, deletion, reboots, errors>>
  BY DEF File!WriteDownload
<1>10. /\ fetch[d] \in Checked /\ u \in Uploads /\ fetch[d].key \in File!Keys
       /\ fetch[d].status \in File!Statuses
  BY <1>1, <1>9, DownloadParts, FileDownloadFacts DEF Checked
<1>11. row' = [row EXCEPT ![u] = w]
  <2>1. row' = [row EXCEPT ![u] = IF row[u] = File!NoRow THEN File!NoRow ELSE new]
    BY <1>1, <1>2, <1>3, <1>4, <1>10, UploadParts DEF File!WriteDownload, File!Update
  <2>2. QED  BY <1>5, <2>1
<1>12. fetch' = [fetch EXCEPT ![d] = x]
  <2>1. fetch' = [fetch EXCEPT ![d] =
          [@ EXCEPT !.pc = pc, !.key = key]]
    BY <1>1, <1>2, <1>6, <1>7 DEF File!WriteDownload
  <2>2. x = [fetch[d] EXCEPT !.pc = pc, !.key = key]
    BY <1>8, <1>10 DEF Checked
  <2>3. QED  BY <2>1, <2>2
<1>13. /\ r \in File!Results /\ r \in File!Rows /\ r # File!NoRow /\ r.status = fetch[d].status
  BY <1>2, <1>10, ResultFacts
<1>14. row[u] # File!NoRow =>
         /\ kept \in File!Rows /\ kept # File!NoRow /\ kept.status = r.status
         /\ kept.key = row[u].key
  <2>1. row[u] # File!NoRow => row[u].key \in File!Keys  BY <1>10, UploadParts, RowFacts
  <2>2. QED
    BY <1>3, <1>13, <2>1, ResultIsRow DEF File!Results, File!Rows, File!NoRow, File!Statuses
<1>15. /\ w \in File!Rows /\ (row[u] = File!NoRow => w = row[u])
       /\ row[u] # File!NoRow => /\ w # File!NoRow /\ w.status = r.status
                                 /\ r.status # "INFECTED" => w.key = row[u].key
  BY <1>4, <1>5, <1>13, <1>14 DEF File!Rows
<1>16. row'[u] = w  BY <1>10, <1>11 DEF FileKnown, File!AttachmentsInv, File!Typed
<1>17. key \in File!Keys
  BY <1>7, <1>10, <1>15, <1>16, RowFacts
<1>18. x \in File!DownloadState /\ x.pc \in {"serving", "done"} /\ x.of = u
  <2>1. pc \in {"serving", "done"}  BY <1>6
  <2>2. y \in Checked /\ y.pc = pc /\ y.of = u  BY <1>1, <1>8, <1>10, <2>1 DEF Checked
  <2>3. x \in Checked /\ x.pc = pc /\ x.of = u  BY <1>8, <1>17, <2>2 DEF Checked
  <2>4. QED  BY <2>1, <2>3 DEF Checked, File!DownloadState
<1>19. upload[u].pc = "done" /\ File!Proper(u, fetch[d].status)
  BY <1>1, <1>9 DEF FileKnown, File!AttachmentsInv, File!Judged
<1>20. u \in infected \/ File!BeingDeleted(u) \/ File!Filed(u)
  BY <1>1, <1>9, <1>10, UploadParts DEF File!Placed
<1>21. OwedBy(x, u, objects[u], w)
  <2>1. CASE row[u] = File!NoRow  BY <1>15, <1>18, <1>20, <2>1 DEF OwedBy, File!Filed
  <2>2. CASE row[u] # File!NoRow
    <3>1. w # File!NoRow /\ w.status \in File!Statuses /\ (w.status = "INFECTED" => u \in infected)
      BY <1>10, <1>13, <1>15, <1>19, <2>2 DEF File!Proper
    <3>2. u \in infected \/ File!BeingDeleted(u) \/ (w.key = "final" /\ "final" \in objects[u])
      BY <1>13, <1>15, <1>19, <1>20, <2>2 DEF File!Proper, File!Filed, File!Present
    <3>3. QED  BY <1>18, <1>19, <3>1, <3>2 DEF OwedBy
  <2>3. QED  BY <2>1, <2>2
<1>22. /\ objects' = [objects EXCEPT ![u] = objects[u]] /\ objects[u] \in SUBSET File!Keys
       /\ errors' \in 0..MaxErrors
  BY <1>9, <1>10, UploadParts
<1>23. QED  BY <1>9, <1>10, <1>11, <1>12, <1>15, <1>18, <1>21, <1>22, DownloadMoves

LEMMA ServeStep == ASSUME FileKnown, NEW d \in Fetches, File!Serve(d) PROVE File!AttachmentsInv'
PROOF
<1>1. PICK x : x = [fetch[d] EXCEPT !.pc = "done"]  OBVIOUS
<1>2. PICK u : u = fetch[d].of  OBVIOUS
<1>3. /\ fetch[d].pc = "serving" /\ fetch' = [fetch EXCEPT ![d] = x]
      /\ UNCHANGED <<enabled, infected, row, objects, upload, deletion, reboots, errors>>
  BY <1>1 DEF File!Serve
<1>4. fetch[d] \in File!DownloadState /\ fetch[d] # File!Idle
  BY <1>3, DownloadParts DEF File!Idle
<1>5. u \in Uploads  BY <1>2, <1>4, FileDownloadFacts
<1>6. x \in File!DownloadState /\ x.pc = "done"  BY <1>1, <1>4, DownloadDone
<1>7. x.of = u  BY <1>1, <1>2, <1>4 DEF File!DownloadState, File!Idle
<1>8. OwedBy(x, u, objects[u], row[u])  BY <1>6, <1>7 DEF OwedBy
<1>9. QED  BY <1>3, <1>5, <1>6, <1>8, DownloadOnly

(***************************************************************************)
(* Deletions and reboots                                                   *)
(***************************************************************************)
LEMMA ReadForDeleteStep ==
  ASSUME FileKnown, NEW x \in Deletions, NEW u \in Uploads, File!ReadForDelete(x, u)
  PROVE  File!AttachmentsInv'
PROOF
<1>1. PICK y : y = [pc |-> "object", of |-> u, key |-> row[u].key]  OBVIOUS
<1>2. /\ deletion[x] = File!Idle /\ row[u] # File!NoRow /\ deletion' = [deletion EXCEPT ![x] = y]
      /\ UNCHANGED <<enabled, infected, row, objects, upload, fetch, reboots, errors>>
  BY <1>1 DEF File!ReadForDelete
<1>3. y \in File!DeletionState /\ y # File!Idle /\ y.of = u
  BY <1>1, <1>2, UploadParts, RowFacts DEF File!DeletionState, File!Idle
<1>4. File!Typed /\ (\A v \in Uploads : File!Placed(v))  BY DEF FileKnown, File!AttachmentsInv
<1>5. File!Typed'  BY <1>2, <1>3, <1>4 DEF File!Typed
<1>6. \A v \in Uploads : File!BeingDeleted(v) => File!BeingDeleted(v)'
  BY <1>2, <1>4 DEF File!BeingDeleted, File!Typed
<1>7. \A v \in Uploads : File!Placed(v)'
  BY <1>2, <1>4, <1>6 DEF File!Placed, File!Filed, File!Present
<1>8. (\A v \in Uploads : File!Stage(v)') /\ File!PendingHasUpload' /\ File!Judged'
  BY <1>2
     DEF FileKnown, File!AttachmentsInv, File!Stage, File!PendingHasUpload, File!Judged,
         File!Proper, File!Verdict
<1>9. QED  BY <1>5, <1>7, <1>8 DEF File!AttachmentsInv

LEMMA DeleteObjectStep ==
  ASSUME FileKnown, NEW x \in Deletions, File!DeleteObject(x) PROVE File!AttachmentsInv'
PROOF
<1>1. PICK u : u = deletion[x].of  OBVIOUS
<1>2. /\ deletion[x].pc = "object"
      /\ UNCHANGED <<enabled, infected, row, upload, fetch, reboots>>
  BY DEF File!DeleteObject
<1>3. File!Typed /\ (\A v \in Uploads : File!Placed(v))  BY DEF FileKnown, File!AttachmentsInv
<1>4. deletion[x] \in Marked /\ deletion[x] # File!Idle /\ u \in Uploads
  BY <1>1, <1>2, <1>3, DeletionFacts DEF File!Typed, Marked, File!Idle
<1>5. PICK pc \in {"row", "done"}, k \in SUBSET File!Keys :
        /\ deletion' = [deletion EXCEPT ![x] = [deletion[x] EXCEPT !.pc = pc]]
        /\ objects' = [objects EXCEPT ![u] = k]
        /\ errors' \in 0..MaxErrors
  <2>1. CASE /\ objects' = [objects EXCEPT ![u] = objects[u] \ {deletion[x].key}]
             /\ deletion' = [deletion EXCEPT ![x] = [deletion[x] EXCEPT !.pc = "row"]]
             /\ UNCHANGED errors
    <3>1. objects[u] \ {deletion[x].key} \in SUBSET File!Keys  BY <1>3, <1>4 DEF File!Typed
    <3>2. errors' \in 0..MaxErrors  BY <1>3, <2>1 DEF File!Typed
    <3>3. QED  BY <2>1, <3>1, <3>2
  <2>2. CASE /\ errors < MaxErrors /\ errors' = errors + 1
             /\ deletion' = [deletion EXCEPT ![x] = [deletion[x] EXCEPT !.pc = "done"]]
             /\ UNCHANGED objects
    <3>1. errors' \in 0..MaxErrors
      BY <1>3, <2>2 DEF File!Typed, FileKnown, File!AttachmentsAssumption
    <3>2. objects' = [objects EXCEPT ![u] = objects[u]] /\ objects[u] \in SUBSET File!Keys
      BY <1>3, <1>4, <2>2 DEF File!Typed
    <3>3. QED  BY <2>2, <3>1, <3>2
  <2>3. QED  BY <1>1, <2>1, <2>2 DEF File!DeleteObject
<1>6. PICK y : y = [deletion[x] EXCEPT !.pc = pc]  OBVIOUS
<1>7. y \in File!DeletionState /\ y # File!Idle /\ y.of = u  BY <1>1, <1>4, <1>6, DeletionMoved
<1>8. deletion' = [deletion EXCEPT ![x] = y]  BY <1>5, <1>6
<1>9. File!Typed'  BY <1>2, <1>3, <1>5, <1>7, <1>8 DEF File!Typed
<1>10. \A v \in Uploads : File!BeingDeleted(v) => File!BeingDeleted(v)'
  BY <1>1, <1>3, <1>7, <1>8 DEF File!BeingDeleted, File!Typed
<1>11. File!BeingDeleted(u)'  BY <1>3, <1>7, <1>8 DEF File!BeingDeleted, File!Typed
<1>12. ASSUME NEW v \in Uploads PROVE File!Placed(v)'
  <2>1. CASE v = u  BY <1>11, <2>1 DEF File!Placed
  <2>2. CASE v # u
    <3>1. objects'[v] = objects[v]  BY <1>3, <1>5, <2>2 DEF File!Typed
    <3>2. QED  BY <1>2, <1>3, <1>10, <3>1 DEF File!Placed, File!Filed, File!Present
  <2>3. QED  BY <2>1, <2>2
<1>13. (\A v \in Uploads : File!Stage(v)') /\ File!PendingHasUpload' /\ File!Judged'
  BY <1>2
     DEF FileKnown, File!AttachmentsInv, File!Stage, File!PendingHasUpload, File!Judged,
         File!Proper, File!Verdict
<1>14. QED  BY <1>9, <1>12, <1>13 DEF File!AttachmentsInv

LEMMA DeleteRowStep ==
  ASSUME FileKnown, NEW x \in Deletions, File!DeleteRow(x) PROVE File!AttachmentsInv'
PROOF
<1>1. PICK u : u = deletion[x].of  OBVIOUS
<1>2. PICK y : y = [deletion[x] EXCEPT !.pc = "done"]  OBVIOUS
<1>3. /\ deletion[x].pc = "row" /\ deletion' = [deletion EXCEPT ![x] = y]
      /\ row' = [row EXCEPT ![u] = File!NoRow]
      /\ UNCHANGED <<enabled, infected, objects, upload, fetch, reboots, errors>>
  BY <1>1, <1>2 DEF File!DeleteRow
<1>4. /\ File!Typed /\ (\A v \in Uploads : File!Stage(v)) /\ File!PendingHasUpload /\ File!Judged
      /\ (\A v \in Uploads : File!Placed(v))
  BY DEF FileKnown, File!AttachmentsInv
<1>5. deletion[x] \in Marked /\ deletion[x] # File!Idle /\ u \in Uploads
  BY <1>1, <1>3, <1>4, DeletionFacts DEF File!Typed, Marked, File!Idle
<1>6. y \in File!DeletionState /\ y # File!Idle /\ y.of = u  BY <1>1, <1>2, <1>5, DeletionMoved
<1>7. row'[u] = File!NoRow /\ \A v \in Uploads \ {u} : row'[v] = row[v]
  BY <1>3, <1>4, <1>5 DEF File!Typed
<1>8. File!Typed'
  <2>1. row' \in [Uploads -> File!Rows]  BY <1>3, <1>4 DEF File!Typed, File!Rows
  <2>2. QED  BY <1>3, <1>4, <1>6, <2>1 DEF File!Typed
<1>9. \A v \in Uploads : File!BeingDeleted(v) => File!BeingDeleted(v)'
  BY <1>3, <1>4, <1>6, <1>1 DEF File!BeingDeleted, File!Typed
<1>10. File!BeingDeleted(u)'  BY <1>3, <1>4, <1>6 DEF File!BeingDeleted, File!Typed
<1>11. ASSUME NEW v \in Uploads PROVE File!Placed(v)'
  <2>1. CASE v = u  BY <1>10, <2>1 DEF File!Placed
  <2>2. CASE v # u
    <3>1. row'[v] = row[v]  BY <1>7, <2>2
    <3>2. QED  BY <1>3, <1>4, <1>9, <3>1 DEF File!Placed, File!Filed, File!Present
  <2>3. QED  BY <2>1, <2>2
<1>12. \A v \in Uploads : File!Stage(v)'  BY <1>3, <1>4, <1>7 DEF File!Stage
<1>13. File!PendingHasUpload'  BY <1>3, <1>4, <1>7 DEF File!PendingHasUpload
<1>14. File!Judged'  BY <1>3, <1>4, <1>7 DEF File!Judged, File!Proper, File!Verdict
<1>15. QED  BY <1>8, <1>11, <1>12, <1>13, <1>14 DEF File!AttachmentsInv

LEMMA FileRestartStep == ASSUME FileKnown, File!Restart PROVE File!AttachmentsInv'
PROOF
<1>1. /\ reboots < MaxReboots /\ reboots' = reboots + 1 /\ enabled' \in BOOLEAN
      /\ UNCHANGED <<infected, row, objects, errors>>
  BY DEF File!Restart
<1>2. /\ File!Typed /\ (\A v \in Uploads : File!Stage(v)) /\ File!Judged
      /\ (\A v \in Uploads : File!Placed(v))
  BY DEF FileKnown, File!AttachmentsInv
<1>3. ASSUME NEW u \in Uploads
      PROVE  /\ upload'[u] \in File!UploadState
             /\ \/ upload'[u] = upload[u] /\ upload[u].pc \in {"idle", "put"}
                \/ upload'[u].pc = "done"
             /\ upload[u].pc = "done" => upload'[u].pc = "done"
  <2>1. upload[u] \in File!UploadState  BY <1>2 DEF File!Typed
  <2>2. CASE upload[u].pc \in {"idle", "put"}  BY <2>1, <2>2 DEF File!Restart
  <2>3. CASE upload[u].pc \notin {"idle", "put"}
    <3>1. upload'[u] = [upload[u] EXCEPT !.pc = "done"]  BY <2>3 DEF File!Restart
    <3>2. QED  BY <2>1, <2>3, <3>1, UploadDone
  <2>4. QED  BY <2>2, <2>3
<1>4. ASSUME NEW d \in Fetches
      PROVE  fetch'[d] \in File!DownloadState /\ fetch'[d].pc \in {"idle", "done"}
  <2>1. fetch[d] \in File!DownloadState  BY <1>2 DEF File!Typed
  <2>2. CASE fetch[d] = File!Idle
    BY <2>2 DEF File!Restart, File!DownloadState, File!Idle
  <2>3. CASE fetch[d] # File!Idle
    <3>1. fetch'[d] = [fetch[d] EXCEPT !.pc = "done"]  BY <2>3 DEF File!Restart
    <3>2. QED  BY <2>1, <2>3, <3>1, DownloadDone
  <2>4. QED  BY <2>2, <2>3
<1>5. ASSUME NEW x \in Deletions
      PROVE  /\ deletion'[x] \in File!DeletionState
             /\ deletion[x] # File!Idle => deletion'[x] # File!Idle /\ deletion'[x].of = deletion[x].of
  <2>1. deletion[x] \in File!DeletionState  BY <1>2 DEF File!Typed
  <2>2. CASE deletion[x] = File!Idle  BY <2>1, <2>2 DEF File!Restart
  <2>3. CASE deletion[x] # File!Idle
    <3>1. deletion'[x] = [deletion[x] EXCEPT !.pc = "done"]  BY <2>3 DEF File!Restart
    <3>2. deletion[x] \in Marked  BY <2>1, <2>3, DeletionFacts
    <3>3. QED  BY <3>1, <3>2, DeletionMoved
  <2>4. QED  BY <2>2, <2>3
<1>6. File!Typed'
  <2>1. upload' \in [Uploads -> File!UploadState]  BY <1>3 DEF File!Restart
  <2>2. fetch' \in [Fetches -> File!DownloadState]  BY <1>4 DEF File!Restart
  <2>3. deletion' \in [Deletions -> File!DeletionState]  BY <1>5 DEF File!Restart
  <2>4. reboots' \in 0..MaxReboots
    BY <1>1, <1>2 DEF File!Typed, FileKnown, File!AttachmentsAssumption
  <2>5. QED  BY <1>1, <1>2, <2>1, <2>2, <2>3, <2>4 DEF File!Typed
<1>7. \A v \in Uploads : File!Stage(v)'  BY <1>1, <1>2, <1>3 DEF File!Stage
<1>8. File!PendingHasUpload'
  <2>1. reboots' > 0  BY <1>1, <1>2 DEF File!Typed
  <2>2. QED  BY <2>1 DEF File!PendingHasUpload
<1>9. File!Judged'  BY <1>1, <1>2, <1>3, <1>4 DEF File!Judged
<1>10. ASSUME NEW v \in Uploads PROVE File!Placed(v)'
  <2>1. File!BeingDeleted(v) => File!BeingDeleted(v)'  BY <1>5 DEF File!BeingDeleted
  <2>2. File!Filed(v)' = File!Filed(v) /\ File!Present(v, "final")' = File!Present(v, "final")
    BY <1>1 DEF File!Filed, File!Present
  <2>3. upload'[v].pc \notin {"moved", "writing"}  BY <1>3
  <2>4. QED  BY <1>1, <1>2, <1>4, <2>1, <2>2, <2>3 DEF File!Placed
<1>11. QED  BY <1>6, <1>7, <1>8, <1>9, <1>10 DEF File!AttachmentsInv

(***************************************************************************)
(* The invariant, and what follows                                          *)
(***************************************************************************)
LEMMA FileStepKnown == FileKnown /\ [File!Next]_(File!vars) => FileKnown'
PROOF
<1>1. SUFFICES ASSUME FileKnown, [File!Next]_(File!vars) PROVE File!AttachmentsInv'
  BY DEF FileKnown
<1>2. CASE File!Next
  <2>1. CASE \E u \in Uploads :
               \/ File!Put(u) \/ File!StoreUnscanned(u) \/ File!CreateUnscanned(u)
               \/ File!CreatePending(u)
               \/ File!ScanUpload(u) \/ File!StoreUpload(u) \/ File!WriteUpload(u)
    BY <1>1, <2>1, PutStep, StoreUnscannedStep, CreateUnscannedStep, CreatePendingStep,
       ScanUploadStep, StoreUploadStep, WriteUploadStep
  <2>2. CASE \E u \in Uploads, d \in Fetches : File!Download(d, u)
    BY <1>1, <2>2, DownloadStep
  <2>3. CASE \E u \in Uploads, x \in Deletions : File!ReadForDelete(x, u)
    BY <1>1, <2>3, ReadForDeleteStep
  <2>4. CASE \E d \in Fetches :
               File!ScanDownload(d) \/ File!Quarantine(d) \/ File!WriteDownload(d) \/ File!Serve(d)
    BY <1>1, <2>4, ScanDownloadStep, QuarantineStep, WriteDownloadStep, ServeStep
  <2>5. CASE \E x \in Deletions : File!DeleteObject(x) \/ File!DeleteRow(x)
    BY <1>1, <2>5, DeleteObjectStep, DeleteRowStep
  <2>6. CASE File!Restart  BY <1>1, <2>6, FileRestartStep
  <2>7. QED  BY <1>2, <2>1, <2>2, <2>3, <2>4, <2>5, <2>6 DEF File!Next
<1>3. CASE UNCHANGED File!vars
  <2>1. UNCHANGED <<enabled, infected, row, objects, upload, fetch, deletion, reboots,
                    errors>>
    BY <1>3 DEF File!vars
  <2>2. File!Typed'  BY <1>1, <2>1 DEF FileKnown, File!AttachmentsInv, File!Typed
  <2>3. (\A u \in Uploads : File!Stage(u)') /\ File!PendingHasUpload' /\ File!Judged'
    BY <1>1, <2>1
       DEF FileKnown, File!AttachmentsInv, File!Stage, File!PendingHasUpload, File!Judged,
           File!Proper, File!Verdict
  <2>4. \A u \in Uploads : File!Placed(u)'
    BY <1>1, <2>1
       DEF FileKnown, File!AttachmentsInv, File!Placed, File!Filed, File!Present,
           File!BeingDeleted
  <2>5. QED  BY <2>2, <2>3, <2>4 DEF File!AttachmentsInv
<1>4. QED  BY <1>1, <1>2, <1>3

LEMMA FileInvHolds == ASSUME File!AttachmentsAssumption PROVE File!Spec => []FileKnown
PROOF BY FileInitKnown, FileStepKnown, PTL DEF File!Spec

\* Rows, keys, and the steps of uploads, downloads and deletions keep their types.
THEOREM AttachmentsTyped == ASSUME File!AttachmentsAssumption PROVE File!Spec => []File!TypeOK
PROOF
<1>1. ASSUME FileKnown PROVE File!TypeOK
  <2>1. File!Typed  BY <1>1 DEF FileKnown, File!AttachmentsInv
  <2>2. \A u \in Uploads : upload[u].pc \in
          {"idle", "put", "moved", "scanning", "storing", "writing", "done"}
    BY <2>1, UploadPc DEF File!Typed
  <2>3. \A d \in Fetches : fetch[d].pc \in
          {"idle", "scanning", "storing", "writing", "serving", "done"}
    BY <2>1, FileDownloadFacts DEF File!Typed
  <2>4. \A x \in Deletions : deletion[x].pc \in {"idle", "object", "row", "done"}
    BY <2>1, DeletionFacts DEF File!Typed
  <2>5. QED  BY <2>1, <2>2, <2>3, <2>4 DEF File!Typed, File!TypeOK
<1>2. QED  BY <1>1, FileInvHolds, PTL

\* The two stores agree: a row whose file may be served names an object that exists,
\* unless a deletion took it first (attachment-scan.service.ts, attachments.controller.ts).
THEOREM RowsHaveObjects == ASSUME File!AttachmentsAssumption PROVE File!Spec => []File!RowHasObject
PROOF
<1>1. ASSUME FileKnown PROVE File!RowHasObject
  <2>1. ASSUME NEW u \in Uploads, u \notin infected, row[u] # File!NoRow, File!InUse(row[u].status),
               ~File!BeingDeleted(u)
        PROVE  File!Present(u, row[u].key)
    <3>1. File!Filed(u)  BY <1>1, <2>1 DEF FileKnown, File!AttachmentsInv, File!Placed
    <3>2. QED  BY <3>1 DEF File!Filed
  <2>2. QED  BY <2>1 DEF File!RowHasObject
<1>2. QED  BY <1>1, FileInvHolds, PTL

\* No scan is forgotten: a PENDING row has the upload that will write its verdict, unless
\* the backend was restarted under it.
THEOREM PendingRowsHaveUploads ==
  ASSUME File!AttachmentsAssumption PROVE File!Spec => []File!PendingHasUpload
PROOF
<1>1. FileKnown => File!PendingHasUpload  BY DEF FileKnown, File!AttachmentsInv
<1>2. QED  BY <1>1, FileInvHolds, PTL

\* A row found infected is not taken back into use by a request that read it before, unless
\* errors of the scanner count as clean (ensureAttachmentDownloadAllowed, finalizeUploadScan).
THEOREM InfectedRowsStay == ASSUME File!AttachmentsAssumption PROVE File!Spec => File!VerdictStays
PROOF
<1>1. ASSUME FileKnown, [File!Next]_(File!vars) PROVE File!VerdictHolds
  <2>1. SUFFICES ASSUME NEW u \in Uploads, row[u] # File!NoRow, row[u].status = "INFECTED",
                        ~FailOpen
                 PROVE  row'[u] = File!NoRow \/ ~File!InUse(row'[u].status)
    BY DEF File!VerdictHolds
  <2>2. /\ u \in infected /\ row \in [Uploads -> File!Rows] /\ File!Stage(u)
    BY <1>1, <2>1 DEF FileKnown, File!AttachmentsInv, File!Judged, File!Typed
  <2>3. CASE row'[u] = row[u]  BY <2>1, <2>3 DEF File!InUse
  <2>4. CASE \E v \in Uploads :
               \/ File!Put(v) \/ File!StoreUnscanned(v) \/ File!ScanUpload(v) \/ File!StoreUpload(v)
               \/ \E d \in Fetches : File!Download(d, v)
               \/ \E x \in Deletions : File!ReadForDelete(x, v)
    <3>1. ASSUME NEW v \in Uploads,
                 \/ File!Put(v) \/ File!StoreUnscanned(v) \/ File!ScanUpload(v)
                 \/ File!StoreUpload(v)
          PROVE  row' = row
      BY <3>1 DEF File!Put, File!StoreUnscanned, File!ScanUpload, File!StoreUpload
    <3>2. ASSUME NEW v \in Uploads, NEW d \in Fetches, File!Download(d, v)
          PROVE  row' = row
      BY <3>2 DEF File!Download
    <3>3. ASSUME NEW v \in Uploads, NEW x \in Deletions, File!ReadForDelete(x, v)
          PROVE  row' = row
      BY <3>3 DEF File!ReadForDelete
    <3>4. row' = row  BY <2>4, <3>1, <3>2, <3>3, Zenon
    <3>5. QED  BY <2>3, <3>4
  <2>5. CASE \/ \E d \in Fetches : File!ScanDownload(d) \/ File!Quarantine(d) \/ File!Serve(d)
             \/ \E x \in Deletions : File!DeleteObject(x)
             \/ File!Restart \/ UNCHANGED File!vars
    <3>1. row' = row
      BY <2>5, Zenon
         DEF File!ScanDownload, File!Quarantine, File!Serve, File!DeleteObject, File!Restart,
             File!vars
    <3>2. QED  BY <2>3, <3>1
  <2>6. ASSUME NEW v \in Uploads, File!CreateUnscanned(v) \/ File!CreatePending(v)
        PROVE  row'[u] = File!NoRow \/ ~File!InUse(row'[u].status)
    <3>1. row[v] = File!NoRow
      BY <1>1, <2>6, UploadParts, ArrivedRow
         DEF File!CreateUnscanned, File!CreatePending, File!Stage
    <3>2. v # u  BY <2>1, <3>1
    <3>3. row'[u] = row[u]  BY <2>2, <2>6, <3>2 DEF File!CreateUnscanned, File!CreatePending
    <3>4. QED  BY <2>3, <3>3
  <2>7. ASSUME NEW v \in Uploads, File!WriteUpload(v)
        PROVE  row'[u] = File!NoRow \/ ~File!InUse(row'[u].status)
    <3>1. /\ upload[v].pc = "writing"
          /\ row' = [row EXCEPT ![v] = IF row[v] = File!NoRow THEN File!NoRow ELSE upload[v].result]
      BY <1>1, <2>7, UploadParts DEF File!WriteUpload, File!Update
    <3>2. CASE v # u  BY <2>2, <2>3, <3>1, <3>2
    <3>3. CASE v = u
      <4>1. row'[u] = upload[u].result  BY <2>1, <2>2, <3>1, <3>3
      <4>2. File!Proper(u, upload[u].result.status)
        BY <1>1, <3>1, <3>3 DEF FileKnown, File!AttachmentsInv, File!Judged
      <4>3. QED  BY <2>1, <2>2, <4>1, <4>2 DEF File!Proper
    <3>4. QED  BY <3>2, <3>3
  <2>8. ASSUME NEW d \in Fetches, File!WriteDownload(d)
        PROVE  row'[u] = File!NoRow \/ ~File!InUse(row'[u].status)
    <3>1. PICK v : v = fetch[d].of  OBVIOUS
    <3>2. PICK r : r = File!Result(fetch[d].status, fetch[d].key)  OBVIOUS
    <3>3. PICK new : new = IF r.status # "INFECTED" /\ row[v] # File!NoRow
                           THEN [r EXCEPT !.key = row[v].key] ELSE r
      OBVIOUS
    <3>4. /\ fetch[d].pc = "writing"
          /\ row' = [row EXCEPT ![v] = IF row[v] = File!NoRow THEN File!NoRow ELSE new]
      BY <2>2, <2>8, <3>1, <3>2, <3>3 DEF File!WriteDownload, File!Update
    <3>5. CASE v # u  BY <2>2, <2>3, <3>4, <3>5
    <3>6. CASE v = u
      <4>1. row'[u] = new  BY <2>1, <2>2, <3>4, <3>6
      <4>2. File!Proper(u, fetch[d].status)
        BY <1>1, <3>1, <3>4, <3>6 DEF FileKnown, File!AttachmentsInv, File!Judged
      <4>3. r.status = fetch[d].status  BY <3>2 DEF File!Result
      <4>4. new.status = r.status  BY <3>2, <3>3 DEF File!Result
      <4>5. QED  BY <2>1, <2>2, <4>1, <4>2, <4>3, <4>4 DEF File!Proper
    <3>7. QED  BY <3>5, <3>6
  <2>9. ASSUME NEW x \in Deletions, File!DeleteRow(x)
        PROVE  row'[u] = File!NoRow \/ ~File!InUse(row'[u].status)
    <3>1. row' = [row EXCEPT ![deletion[x].of] = File!NoRow]  BY <2>9 DEF File!DeleteRow
    <3>2. CASE deletion[x].of = u  BY <2>2, <3>1, <3>2
    <3>3. CASE deletion[x].of # u  BY <2>2, <2>3, <3>1, <3>3
    <3>4. QED  BY <3>2, <3>3
  <2>10. QED  BY <1>1, <2>4, <2>5, <2>6, <2>7, <2>8, <2>9 DEF File!Next
<1>2. QED  BY <1>1, FileInvHolds, PTL DEF File!Spec, File!VerdictStays

(***************************************************************************)
(* The pace of requests to a provider                                       *)
(*                                                                          *)
(* What was granted since some request and the tokens left never exceed a   *)
(* full bucket and what came back since (PacedBy), and the failure that      *)
(* counts for a mailbox is as far back as there were successes since         *)
(* (Counted).                                                                *)
(***************************************************************************)
\* A product whose factors need not be looked at.
Times(a, b) == a * b

\* The bucket is one, and no time of it lies in the future.
BucketIs(b, time) ==
  /\ b \in [tokens : Nat, filled : Nat, next : Nat]
  /\ b.tokens <= Times(Capacity, Interval)
  /\ b.filled <= time /\ b.next <= time + Spacing

\* What a request waits for.
Turn == [at : {"idle", "throttled", "waiting"},
         until : 0..(MaxTime + MaxDelay + Interval + Spacing)]

\* The rest of the types.
ClockTyped ==
  /\ now \in 0..MaxTime /\ call \in [Calls -> Turn]
  /\ heap \in Pace!Heaps /\ pressed \in BOOLEAN /\ starts \in 0..MaxStarts

\* What was granted since i, and the tokens left, fit into a full bucket and what came back
\* since; and the next request waits its turn after all of them.
PacedBy(g, tokens, filled, next) ==
  /\ g \in Seq(0..MaxTime)
  /\ \A i \in 1..Len(g) :
       /\ tokens + Times(Len(g) + 1 - i, Interval)
            <= Times(Capacity, Interval) + filled - g[i]
       /\ next - g[i] >= Times(Len(g) + 1 - i, Spacing)

\* What the provider gets between two requests.
Bounded(g) ==
  \A i, j \in 1..Len(g) : i < j =>
    /\ Times(j + 1 - i - Capacity, Interval) <= g[j] - g[i]
    /\ g[j] - g[i] >= Times(j - i, Spacing)

\* Both.
Paced == PacedBy(grants, bucket.tokens, bucket.filled, bucket.next) /\ Bounded(grants)

\* Of a mailbox: the failure that counts is as far back as there were successes since.
Counted(s, f, c) ==
  /\ s \in Seq(BOOLEAN) /\ Len(s) <= Window /\ f \in 0..MaxFails /\ c \in 0..Window
  /\ c = Window => \A i \in 1..Len(s) : s[i]
  /\ c < Window => /\ Len(s) - c >= 1 /\ ~s[Len(s) - c]
                   /\ \A i \in 1..Len(s) : i > Len(s) - c => s[i]
  /\ f > 0 => c = 0

\* Of all of them.
OutcomesCounted ==
  /\ outcomes \in [Mailboxes -> Seq(BOOLEAN)] /\ fails \in [Mailboxes -> 0..MaxFails]
  /\ calm \in [Mailboxes -> 0..Window]
  /\ \A m \in Mailboxes : Counted(outcomes[m], fails[m], calm[m])

\* The invariant.
LimiterInv == BucketIs(bucket, now) /\ ClockTyped /\ Paced /\ OutcomesCounted

LEMMA Amounts ==
  ASSUME Pace!LimiterAssumption
  PROVE  /\ Capacity \in Nat /\ Interval \in Nat /\ Spacing \in Nat /\ MaxTime \in Nat
         /\ Times(Capacity, Interval) \in Nat /\ MaxDelay \in Nat
PROOF BY DEF Pace!LimiterAssumption, Times

LEMMA Limits ==
  ASSUME Pace!LimiterAssumption
  PROVE  Window \in Nat \ {0} /\ MaxFails \in Nat /\ MaxStarts \in Nat
PROOF BY DEF Pace!LimiterAssumption

LEMMA TimesIs ==
  ASSUME NEW a \in Int, NEW b \in Int
  PROVE  /\ Times(a, b) \in Int /\ Times(a + 1, b) = Times(a, b) + b
         /\ Times(1, b) = b
PROOF BY DEF Times

LEMMA TimesLess ==
  ASSUME NEW a \in Int, NEW b \in Int, NEW c \in Int
  PROVE  Times(a - c, b) = Times(a, b) - Times(c, b)
PROOF BY DEF Times

LEMMA ElementsAre ==
  ASSUME NEW S, NEW s \in Seq(S) PROVE \A i \in DOMAIN s : s[i] \in S
PROOF OBVIOUS

LEMMA AppendIs ==
  ASSUME NEW S, NEW s \in Seq(S), NEW e \in S
  PROVE  /\ Len(s) \in Nat /\ Append(s, e) \in Seq(S)
         /\ Len(Append(s, e)) = Len(s) + 1 /\ Append(s, e)[Len(s) + 1] = e
         /\ \A i \in 1..Len(s) : Append(s, e)[i] = s[i] /\ s[i] \in S
PROOF OBVIOUS

\* Time passes, and tokens come back.
LEMMA PacedLater ==
  ASSUME Pace!LimiterAssumption, NEW g, NEW tokens \in Nat, NEW filled \in Nat, NEW next \in Nat,
         NEW after \in Nat, NEW time \in Nat, PacedBy(g, tokens, filled, next),
         after <= tokens + time - filled
  PROVE  PacedBy(g, after, time, next)
PROOF
<1>1. g \in Seq(0..MaxTime)  BY DEF PacedBy
<1>2. ASSUME NEW i \in 1..Len(g)
      PROVE  /\ after + Times(Len(g) + 1 - i, Interval)
                   <= Times(Capacity, Interval) + time - g[i]
             /\ next - g[i] >= Times(Len(g) + 1 - i, Spacing)
  <2>1. g[i] \in Int /\ Len(g) + 1 - i \in Int  BY <1>1, Amounts
  <2>2. Times(Len(g) + 1 - i, Interval) \in Int  BY <2>1, TimesIs, Amounts
  <2>3. /\ tokens + Times(Len(g) + 1 - i, Interval)
              <= Times(Capacity, Interval) + filled - g[i]
        /\ next - g[i] >= Times(Len(g) + 1 - i, Spacing)
    BY DEF PacedBy
  <2> DEFINE x == Times(Len(g) + 1 - i, Interval)
             y == g[i]
             cap == Times(Capacity, Interval)
  <2>4. x \in Int /\ y \in Int /\ cap \in Int /\ tokens + x <= cap + filled - y
    BY <2>1, <2>2, <2>3, Amounts
  <2> HIDE DEF x, y, cap
  <2>5. after + x <= cap + time - y  BY <2>4
  <2>6. QED  BY <2>3, <2>5 DEF x, y, cap
<1>3. QED  BY <1>1, <1>2 DEF PacedBy

\* A request goes out.
LEMMA PacedGrant ==
  ASSUME Pace!LimiterAssumption, NEW g, NEW tokens \in Nat, NEW time \in 0..MaxTime,
         NEW next \in Nat, PacedBy(g, tokens, time, next), Bounded(g),
         tokens >= Interval, tokens <= Times(Capacity, Interval), next <= time
  PROVE  /\ PacedBy(Append(g, time), tokens - Interval, time, time + Spacing)
         /\ Bounded(Append(g, time))
PROOF
<1> DEFINE n == Len(g)
           h == Append(g, time)
<1>1. time \in Nat  BY Amounts
<1>2. /\ n \in Nat /\ h \in Seq(0..MaxTime) /\ Len(h) = n + 1 /\ h[n + 1] = time
      /\ \A i \in 1..n : h[i] = g[i] /\ g[i] \in 0..MaxTime
  <2>1. g \in Seq(0..MaxTime)  BY DEF PacedBy
  <2> DEFINE T == 0..MaxTime
  <2>2. g \in Seq(T) /\ time \in T  BY <2>1
  <2> HIDE DEF T
  <2>3. /\ n \in Nat /\ h \in Seq(T) /\ Len(h) = n + 1 /\ h[n + 1] = time
        /\ \A i \in 1..n : h[i] = g[i] /\ g[i] \in T
    BY <2>2, AppendIs
  <2>4. QED  BY <2>3 DEF T
<1>3. \A i \in 1..n :
        /\ tokens + Times(n + 1 - i, Interval) <= Times(Capacity, Interval) + time - g[i]
        /\ next - g[i] >= Times(n + 1 - i, Spacing)
  BY DEF PacedBy
<1>4. \A i, j \in 1..n : i < j =>
        /\ Times(j + 1 - i - Capacity, Interval) <= g[j] - g[i]
        /\ g[j] - g[i] >= Times(j - i, Spacing)
  BY DEF Bounded
<1> HIDE DEF n, h
<1>5. ASSUME NEW i \in 1..n
      PROVE  /\ h[i] \in Int
             /\ tokens + Times(n + 1 - i, Interval)
                  <= Times(Capacity, Interval) + time - h[i]
             /\ next - h[i] >= Times(n + 1 - i, Spacing)
             /\ Times(n + 1 - i, Interval) \in Int /\ Times(n + 1 - i, Spacing) \in Int
             /\ Times(n + 2 - i, Interval) = Times(n + 1 - i, Interval) + Interval
             /\ Times(n + 2 - i, Spacing) = Times(n + 1 - i, Spacing) + Spacing
  <2> DEFINE k == n + 1 - i
  <2>1. k \in Int /\ n + 2 - i = k + 1  BY <1>2
  <2>2. Interval \in Int /\ Spacing \in Int  BY Amounts
  <2>3. h[i] \in Int /\ h[i] = g[i]  BY <1>2, Amounts
  <2>4. /\ tokens + Times(k, Interval) <= Times(Capacity, Interval) + time - h[i]
        /\ next - h[i] >= Times(k, Spacing)
    BY <1>3, <2>3
  <2> HIDE DEF k
  <2>5. Times(k, Interval) \in Int /\ Times(k + 1, Interval) = Times(k, Interval) + Interval
    BY <2>1, <2>2, TimesIs
  <2>6. Times(k, Spacing) \in Int /\ Times(k + 1, Spacing) = Times(k, Spacing) + Spacing
    BY <2>1, <2>2, TimesIs
  <2>7. QED  BY <2>1, <2>3, <2>4, <2>5, <2>6 DEF k
<1>6. ASSUME NEW i \in 1..(n + 1)
      PROVE  /\ (tokens - Interval) + Times(n + 1 + 1 - i, Interval)
                  <= Times(Capacity, Interval) + time - h[i]
             /\ (time + Spacing) - h[i] >= Times(n + 1 + 1 - i, Spacing)
  <2>1. n + 1 + 1 - i = n + 2 - i  BY <1>2
  <2>2. CASE i \in 1..n
    <3>1. (tokens - Interval) + Times(n + 2 - i, Interval)
            <= Times(Capacity, Interval) + time - h[i]
      BY <1>1, <1>5, <2>2, Amounts
    <3>2. (time + Spacing) - h[i] >= Times(n + 2 - i, Spacing)
      BY <1>1, <1>5, <2>2, Amounts
    <3>3. QED  BY <2>1, <3>1, <3>2
  <2>3. CASE i = n + 1
    <3>1. n + 2 - i = 1 /\ h[i] = time  BY <1>2, <2>3
    <3>2. Times(1, Interval) = Interval /\ Times(1, Spacing) = Spacing
      BY TimesIs, Amounts
    <3>3. QED  BY <1>1, <2>1, <3>1, <3>2, Amounts
  <2>4. QED  BY <1>2, <2>2, <2>3
<1>7. ASSUME NEW i \in 1..(n + 1), NEW j \in 1..(n + 1), i < j
      PROVE  /\ Times(j + 1 - i - Capacity, Interval) <= h[j] - h[i]
             /\ h[j] - h[i] >= Times(j - i, Spacing)
  <2>1. i \in 1..n  BY <1>2, <1>7
  <2>2. CASE j \in 1..n  BY <1>2, <1>4, <1>7, <2>1, <2>2
  <2>3. CASE j = n + 1
    <3>1. h[j] = time /\ j - i = n + 1 - i  BY <1>2, <2>1, <2>3
    <3>2. j + 1 - i = n + 2 - i /\ n + 2 - i \in Int  BY <1>2, <2>1, <2>3
    <3>3. Times(j + 1 - i - Capacity, Interval)
            = Times(n + 2 - i, Interval) - Times(Capacity, Interval)
      <4>1. j + 1 - i - Capacity = (n + 2 - i) - Capacity
        BY <1>2, <2>1, <2>3, Amounts
      <4>2. Times((n + 2 - i) - Capacity, Interval)
              = Times(n + 2 - i, Interval) - Times(Capacity, Interval)
        <5>1. Interval \in Int /\ Capacity \in Int  BY Amounts
        <5>2. QED  BY <3>2, <5>1, TimesLess
      <4>3. QED  BY <4>1, <4>2
    <3>4. Times(n + 2 - i, Interval) - Times(Capacity, Interval) <= time - h[i]
      BY <1>1, <1>5, <2>1, Amounts
    <3>5. time - h[i] >= Times(n + 1 - i, Spacing)  BY <1>1, <1>5, <2>1, Amounts
    <3>6. QED  BY <3>1, <3>3, <3>4, <3>5
  <2>4. QED  BY <1>2, <2>2, <2>3
<1>8. PacedBy(h, tokens - Interval, time, time + Spacing)
  BY <1>2, <1>6 DEF PacedBy
<1>9. Bounded(h)  BY <1>2, <1>7 DEF Bounded
<1>10. QED  BY <1>8, <1>9 DEF h

\* The property, in the module's words.
LEMMA BoundedIs ==
  ASSUME Pace!LimiterAssumption, Paced PROVE Pace!GrantsBounded
PROOF
<1>1. grants \in Seq(0..MaxTime) /\ Bounded(grants)  BY DEF Paced, PacedBy
<1>2. DOMAIN grants = 1..Len(grants)  BY <1>1
<1>3. ASSUME NEW i \in DOMAIN grants, NEW j \in DOMAIN grants, i < j
      PROVE  /\ (j - i + 1 - Capacity) * Interval <= grants[j] - grants[i]
             /\ grants[j] - grants[i] >= (j - i) * Spacing
  <2>1. /\ Times(j + 1 - i - Capacity, Interval) <= grants[j] - grants[i]
        /\ grants[j] - grants[i] >= Times(j - i, Spacing)
    BY <1>1, <1>2, <1>3 DEF Bounded
  <2>2. j + 1 - i - Capacity = j - i + 1 - Capacity
    <3>1. i \in Int /\ j \in Int  BY <1>1, <1>2
    <3>2. QED  BY <3>1, Amounts
  <2>3. /\ Times(j - i + 1 - Capacity, Interval) = (j - i + 1 - Capacity) * Interval
        /\ Times(j - i, Spacing) = (j - i) * Spacing
    BY DEF Times
  <2>4. Times(j + 1 - i - Capacity, Interval) = Times(j - i + 1 - Capacity, Interval)
    BY <2>2
  <2>5. QED  BY <2>1, <2>3, <2>4, Zenon
<1>4. QED  BY <1>3 DEF Pace!GrantsBounded

\* What filling does to the bucket.
LEMMA FilledIs ==
  ASSUME Pace!LimiterAssumption, BucketIs(bucket, now), now \in Nat
  PROVE  /\ Pace!Filled \in [tokens : Nat, filled : Nat, next : Nat]
         /\ Pace!Filled.filled = now /\ Pace!Filled.next = bucket.next
         /\ Pace!Filled.tokens <= Times(Capacity, Interval)
         /\ Pace!Filled.tokens <= bucket.tokens + now - bucket.filled
PROOF
<1>1. /\ bucket.tokens \in Nat /\ bucket.filled \in Nat /\ bucket.next \in Nat
      /\ bucket.filled <= now
  BY DEF BucketIs
<1> DEFINE t == Pace!Least(Times(Capacity, Interval), bucket.tokens + now - bucket.filled)
<1>2. /\ t \in Nat /\ t <= Times(Capacity, Interval)
      /\ t <= bucket.tokens + now - bucket.filled
  BY <1>1, Amounts DEF Pace!Least
<1>3. Pace!Filled = [bucket EXCEPT !.tokens = t, !.filled = now]
  BY DEF Pace!Filled, BucketIs, Times
<1> HIDE DEF t
<1>4. QED  BY <1>1, <1>2, <1>3 DEF BucketIs

\* A pass of the loop that takes no token, and one that does.
LEMMA FillingPaces ==
  ASSUME Pace!LimiterAssumption, BucketIs(bucket, now), now \in Nat, Paced
  PROVE  BucketIs(Pace!Filled, now) /\ PacedBy(grants, Pace!Filled.tokens, now, bucket.next)
PROOF
<1>1. /\ Pace!Filled \in [tokens : Nat, filled : Nat, next : Nat]
      /\ Pace!Filled.filled = now /\ Pace!Filled.next = bucket.next
      /\ Pace!Filled.tokens <= Times(Capacity, Interval)
      /\ Pace!Filled.tokens <= bucket.tokens + now - bucket.filled
  BY FilledIs
<1>2. /\ bucket.tokens \in Nat /\ bucket.filled \in Nat /\ bucket.next \in Nat
      /\ bucket.next <= now + Spacing
  BY DEF BucketIs
<1>3. Pace!Filled.tokens \in Nat /\ now <= now  BY <1>1
<1>4. BucketIs(Pace!Filled, now)  BY <1>1, <1>2, <1>3 DEF BucketIs
<1>5. PacedBy(grants, bucket.tokens, bucket.filled, bucket.next)  BY DEF Paced
<1>6. QED  BY <1>1, <1>2, <1>3, <1>4, <1>5, PacedLater

LEMMA GrantPaces ==
  ASSUME Pace!LimiterAssumption, BucketIs(bucket, now), now \in 0..MaxTime, Paced,
         Pace!Filled.tokens >= Interval, Pace!Filled.next <= now,
         NEW b, b = [Pace!Filled EXCEPT !.tokens = @ - Interval, !.next = now + Spacing]
  PROVE  /\ BucketIs(b, now)
         /\ PacedBy(Append(grants, now), b.tokens, b.filled, b.next)
         /\ Bounded(Append(grants, now))
PROOF
<1>1. now \in Nat  BY Amounts
<1>2. /\ BucketIs(Pace!Filled, now) /\ PacedBy(grants, Pace!Filled.tokens, now, bucket.next)
      /\ Pace!Filled.filled = now /\ Pace!Filled.next = bucket.next
  BY <1>1, FillingPaces, FilledIs
<1>3. /\ Pace!Filled \in [tokens : Nat, filled : Nat, next : Nat]
      /\ Pace!Filled.tokens <= Times(Capacity, Interval)
      /\ Pace!Filled.tokens \in Nat /\ bucket.next \in Nat
  BY <1>2 DEF BucketIs
<1>4. Pace!Filled.tokens - Interval \in Nat /\ now + Spacing \in Nat
  BY <1>1, <1>3, Amounts
<1>5. /\ b \in [tokens : Nat, filled : Nat, next : Nat]
      /\ b.tokens = Pace!Filled.tokens - Interval /\ b.filled = now /\ b.next = now + Spacing
  BY <1>2, <1>3, <1>4
<1>6. Pace!Filled.tokens - Interval <= Times(Capacity, Interval) /\ now <= now
      /\ now + Spacing <= now + Spacing
  BY <1>1, <1>3, Amounts
<1>7. BucketIs(b, now)  BY <1>5, <1>6 DEF BucketIs
<1>8. /\ PacedBy(Append(grants, now), Pace!Filled.tokens - Interval, now, now + Spacing)
      /\ Bounded(Append(grants, now))
  BY <1>2, <1>3, PacedGrant DEF Paced
<1>9. QED  BY <1>5, <1>7, <1>8

LEMMA FullPaces ==
  ASSUME Pace!LimiterAssumption, NEW time \in Nat
  PROVE  /\ BucketIs(Pace!Full(time), time) /\ Bounded(<<>>)
         /\ \A t, f, x : PacedBy(<<>>, t, f, x)
PROOF
<1>1. BucketIs(Pace!Full(time), time)  BY Amounts DEF BucketIs, Pace!Full, Times
<1>2. <<>> \in Seq(0..MaxTime) /\ Len(<<>>) = 0  OBVIOUS
<1>3. QED  BY <1>1, <1>2 DEF PacedBy, Bounded

\* A step that leaves the bucket and the grants alone.
LEMMA PaceRests ==
  ASSUME Pace!LimiterAssumption, BucketIs(bucket, now), ClockTyped, Paced,
         UNCHANGED <<bucket, grants>>, now' \in {now, now + 1}
  PROVE  BucketIs(bucket, now)' /\ Paced'
PROOF
<1>1. now \in Nat  BY Amounts DEF ClockTyped
<1>2. BucketIs(bucket, now)'  BY <1>1, Amounts DEF BucketIs
<1>3. QED  BY <1>2 DEF Paced

\* An outcome more, of which the last Window count.
LEMMA TrimIs ==
  ASSUME Pace!LimiterAssumption, NEW S, NEW s \in Seq(S), Len(s) <= Window, NEW ok \in S
  PROVE  LET t == Pace!Trim(Append(s, ok))
         IN  /\ t \in Seq(S) /\ t[Len(t)] = ok
             /\ Len(s) < Window => /\ Len(t) = Len(s) + 1
                                   /\ \A i \in 1..Len(s) : t[i] = s[i]
             /\ Len(s) = Window => /\ Len(t) = Window
                                   /\ \A i \in 1..(Window - 1) : t[i] = s[i + 1]
PROOF
<1> DEFINE a == Append(s, ok)
<1>1. /\ a \in Seq(S) /\ Len(a) = Len(s) + 1 /\ Len(s) \in Nat
      /\ a[Len(s) + 1] = ok /\ \A i \in 1..Len(s) : a[i] = s[i]
  OBVIOUS
<1>2. Pace!Trim(a) = IF Len(a) > Window THEN SubSeq(a, Len(a) - Window + 1, Len(a)) ELSE a
  BY DEF Pace!Trim
<1> HIDE DEF a
<1>3. Window \in Nat \ {0}  BY Limits
<1>4. CASE Len(s) < Window
  <2>1. Pace!Trim(a) = a  BY <1>1, <1>2, <1>3, <1>4
  <2>2. Len(s) # Window /\ Len(a) = Len(s) + 1  BY <1>1, <1>3, <1>4
  <2>3. QED  BY <1>1, <2>1, <2>2 DEF a
<1>5. CASE Len(s) = Window
  <2>1. Len(a) = Window + 1 /\ Len(a) > Window /\ Len(a) - Window + 1 = 2
    BY <1>1, <1>3, <1>5
  <2>2. Pace!Trim(a) = SubSeq(a, 2, Window + 1)  BY <1>2, <2>1
  <2> DEFINE t == SubSeq(a, 2, Window + 1)
  <2>3. /\ t \in Seq(S) /\ Len(t) = Window
        /\ \A i \in 1..Window : t[i] = a[i + 1]
    BY <1>1, <1>3, <2>1
  <2> HIDE DEF t
  <2>4. t[Window] = ok
    <3>1. Window \in 1..Window  BY <1>3
    <3>2. QED  BY <1>1, <1>5, <2>3, <3>1
  <2>5. ASSUME NEW i \in 1..(Window - 1) PROVE t[i] = s[i + 1]
    <3>1. i \in 1..Window /\ i + 1 \in 1..Len(s)  BY <1>3, <1>5
    <3>2. QED  BY <1>1, <2>3, <3>1
  <2>6. ~(Len(s) < Window)  BY <1>3, <1>5
  <2>7. QED  BY <1>5, <2>2, <2>3, <2>4, <2>5, <2>6 DEF a, t
<1>6. QED  BY <1>1, <1>3, <1>4, <1>5

LEMMA RecordCounts ==
  ASSUME Pace!LimiterAssumption, NEW s, NEW f, NEW c, NEW ok \in BOOLEAN, Counted(s, f, c),
         ok \/ f < MaxFails
  PROVE  Counted(Pace!Trim(Append(s, ok)), IF ok THEN 0 ELSE f + 1,
                 IF ~ok THEN 0 ELSE IF c < Window THEN c + 1 ELSE c)
PROOF
<1>1. /\ s \in Seq(BOOLEAN) /\ Len(s) <= Window /\ f \in 0..MaxFails
      /\ c \in 0..Window /\ Len(s) \in Nat
      /\ Window \in Nat \ {0} /\ MaxFails \in Nat
  BY Limits DEF Counted
<1>2. c = Window => \A i \in 1..Len(s) : s[i]  BY DEF Counted
<1>3. c < Window => /\ Len(s) - c >= 1 /\ ~s[Len(s) - c]
                   /\ \A i \in 1..Len(s) : i > Len(s) - c => s[i]
  BY DEF Counted
<1> DEFINE t == Pace!Trim(Append(s, ok))
<1>4. /\ t \in Seq(BOOLEAN) /\ t[Len(t)] = ok
      /\ Len(s) < Window => /\ Len(t) = Len(s) + 1
                            /\ \A i \in 1..Len(s) : t[i] = s[i]
      /\ Len(s) = Window => /\ Len(t) = Window
                            /\ \A i \in 1..(Window - 1) : t[i] = s[i + 1]
  BY <1>1, TrimIs
<1> HIDE DEF t
<1>5. Len(t) \in Nat /\ Len(t) <= Window /\ Len(t) >= 1  BY <1>1, <1>4
<1>6. CASE ~ok
  <2>1. f + 1 \in 0..MaxFails /\ 0 \in 0..Window /\ 0 # Window  BY <1>1, <1>6
  <2>2. Len(t) - 0 >= 1 /\ ~t[Len(t) - 0]
    <3>1. Len(t) - 0 = Len(t)  BY <1>5
    <3>2. ~t[Len(t)]  BY <1>4, <1>6
    <3>3. QED  BY <1>5, <3>1, <3>2
  <2>3. \A i \in 1..Len(t) : i > Len(t) - 0 => t[i]  BY <1>5
  <2>4. Counted(t, f + 1, 0)
    BY <1>4, <1>5, <2>1, <2>2, <2>3, Zenon DEF Counted
  <2>5. QED  BY <1>6, <2>4 DEF t
<1>7. CASE ok /\ c = Window
  <2>1. ASSUME NEW i \in 1..Len(t) PROVE t[i]
    <3>1. CASE i = Len(t)  BY <1>4, <1>7, <3>1
    <3>2. CASE Len(s) < Window /\ i # Len(t)
      <4>1. i \in 1..Len(s)  BY <1>1, <1>4, <3>2
      <4>2. QED  BY <1>2, <1>4, <1>7, <3>2, <4>1
    <3>3. CASE Len(s) = Window /\ i # Len(t)
      <4>1. i \in 1..(Window - 1) /\ i + 1 \in 1..Len(s)  BY <1>1, <1>4, <3>3
      <4>2. QED  BY <1>2, <1>4, <1>7, <3>3, <4>1
    <3>4. QED  BY <1>1, <3>1, <3>2, <3>3
  <2>2. ~(Window < Window) /\ ~(0 > 0) /\ 0 \in 0..MaxFails /\ Window \in 0..Window
    BY <1>1
  <2>3. Counted(t, 0, Window)  BY <1>4, <1>5, <2>1, <2>2 DEF Counted
  <2>4. QED  BY <1>7, <2>2, <2>3 DEF t
<1>8. CASE ok /\ c < Window
  <2>1. ASSUME NEW i \in 1..Len(t), i > Len(t) - (c + 1) PROVE t[i]
    <3>1. CASE i = Len(t)  BY <1>4, <1>8, <3>1
    <3>2. CASE Len(s) < Window /\ i # Len(t)
      <4>1. i \in 1..Len(s) /\ i > Len(s) - c  BY <1>1, <1>4, <2>1, <3>2
      <4>2. QED  BY <1>3, <1>4, <1>8, <3>2, <4>1
    <3>3. CASE Len(s) = Window /\ i # Len(t)
      <4>1. i \in 1..(Window - 1) /\ i + 1 \in 1..Len(s) /\ i + 1 > Len(s) - c
        BY <1>1, <1>4, <2>1, <3>3
      <4>2. QED  BY <1>3, <1>4, <1>8, <3>3, <4>1
    <3>4. QED  BY <1>1, <3>1, <3>2, <3>3
  <2>2. c + 1 \in 0..Window /\ 0 \in 0..MaxFails /\ ~(0 > 0)  BY <1>1, <1>8
  <2>3. CASE c + 1 = Window
    <3>1. \A i \in 1..Len(t) : i > Len(t) - (c + 1)  BY <1>1, <1>5, <2>3
    <3>2. \A i \in 1..Len(t) : t[i]  BY <2>1, <3>1
    <3>3. ~(c + 1 < Window)  BY <1>1, <2>3
    <3>4. Counted(t, 0, c + 1)  BY <1>4, <1>5, <2>2, <3>2, <3>3 DEF Counted
    <3>5. QED  BY <1>8, <3>4 DEF t
  <2>4. CASE c + 1 # Window
    <3>1. c + 1 < Window  BY <2>2, <2>4, <1>1
    <3>2. Len(t) - (c + 1) >= 1 /\ ~t[Len(t) - (c + 1)]
      <4>1. CASE Len(s) < Window
        <5>1. Len(t) - (c + 1) = Len(s) - c /\ Len(s) - c \in 1..Len(s)
          BY <1>1, <1>3, <1>4, <1>8, <4>1
        <5>2. QED  BY <1>3, <1>4, <1>8, <4>1, <5>1
      <4>2. CASE Len(s) = Window
        <5>1. /\ Len(t) - (c + 1) \in 1..(Window - 1)
              /\ Len(t) - (c + 1) + 1 = Len(s) - c /\ Len(t) - (c + 1) >= 1
          BY <1>1, <1>4, <3>1, <4>2
        <5>2. QED  BY <1>3, <1>4, <1>8, <4>2, <5>1
      <4>3. QED  BY <1>1, <4>1, <4>2
    <3>3. Counted(t, 0, c + 1)
      BY <1>4, <1>5, <2>1, <2>2, <2>4, <3>2 DEF Counted
    <3>4. QED  BY <1>8, <3>3 DEF t
  <2>5. QED  BY <2>3, <2>4
<1>9. c = Window \/ c < Window  BY <1>1
<1>10. QED  BY <1>6, <1>7, <1>8, <1>9

LEMMA EmptyCounts == ASSUME Pace!LimiterAssumption PROVE Counted(<<>>, 0, Window)
PROOF BY Limits DEF Counted

LEMMA LimiterBegins == ASSUME Pace!LimiterAssumption, Pace!Init PROVE LimiterInv
PROOF
<1>1. BucketIs(bucket, now) /\ Paced
  <2>1. now = 0 /\ bucket = Pace!Full(0) /\ grants = <<>> /\ 0 \in Nat  BY DEF Pace!Init
  <2>2. BucketIs(Pace!Full(0), 0)  BY FullPaces
  <2>3. PacedBy(<<>>, bucket.tokens, bucket.filled, bucket.next) /\ Bounded(<<>>)
    BY <2>1, FullPaces, Zenon
  <2>4. QED  BY <2>1, <2>2, <2>3, Zenon DEF Paced
<1>2. ClockTyped
  <2>1. Pace!Idle \in Turn  BY Amounts DEF Turn, Pace!Idle
  <2>2. /\ 0 \in 0..MaxTime /\ 0 \in 0..MaxStarts /\ "low" \in Pace!Heaps
        /\ FALSE \in BOOLEAN
    BY Amounts, Limits DEF Pace!Heaps
  <2>3. call \in [Calls -> Turn]  BY <2>1 DEF Pace!Init
  <2>4. QED  BY <2>2, <2>3, Zenon DEF Pace!Init, ClockTyped
<1>3. OutcomesCounted
  BY EmptyCounts, Limits DEF Pace!Init, OutcomesCounted
<1>4. QED  BY <1>1, <1>2, <1>3 DEF LimiterInv

LEMMA LimiterMoves ==
  ASSUME Pace!LimiterAssumption, LimiterInv, [Pace!Next]_(Pace!vars)
  PROVE  LimiterInv'
PROOF
<1>1. CASE UNCHANGED Pace!vars
  BY <1>1, PaceRests DEF LimiterInv, ClockTyped, OutcomesCounted, Pace!vars
<1>2. now \in 0..MaxTime /\ now \in Nat  BY Amounts DEF LimiterInv, ClockTyped
<1>3. CASE Pace!Tick
  <2>1. BucketIs(bucket, now)' /\ Paced'
    BY <1>3, PaceRests DEF LimiterInv, Pace!Tick
  <2>2. ClockTyped'  BY <1>3, <1>2, Amounts DEF LimiterInv, ClockTyped, Pace!Tick
  <2>3. QED  BY <1>3, <2>1, <2>2 DEF LimiterInv, OutcomesCounted, Pace!Tick
<1>4. CASE Pace!Restart
  <2>1. BucketIs(bucket, now)' /\ Paced'
    <3>1. now' = now /\ bucket' = Pace!Full(now) /\ grants' = <<>>  BY <1>4 DEF Pace!Restart
    <3>2. BucketIs(Pace!Full(now), now)  BY <1>2, FullPaces, Zenon
    <3>3. PacedBy(<<>>, bucket'.tokens, bucket'.filled, bucket'.next) /\ Bounded(<<>>)
      BY <1>2, FullPaces, Zenon
    <3>4. QED  BY <3>1, <3>2, <3>3, Zenon DEF Paced, BucketIs
  <2>2. ClockTyped'
    <3>1. Pace!Idle \in Turn  BY Amounts DEF Turn, Pace!Idle
    <3>2. call' \in [Calls -> Turn]  BY <1>4, <3>1 DEF Pace!Restart
    <3>3. starts' \in 0..MaxStarts
      BY <1>4, Limits DEF LimiterInv, ClockTyped, Pace!Restart
    <3>4. QED  BY <1>4, <3>2, <3>3, Zenon DEF LimiterInv, ClockTyped, Pace!Restart
  <2>3. OutcomesCounted'  BY <1>4, EmptyCounts, Limits DEF Pace!Restart, OutcomesCounted
  <2>4. QED  BY <2>1, <2>2, <2>3 DEF LimiterInv
<1>5. ASSUME NEW h \in Pace!Heaps, Pace!UseMemory(h) PROVE LimiterInv'
  <2>1. BucketIs(bucket, now)' /\ Paced'
    BY <1>5, PaceRests DEF LimiterInv, Pace!UseMemory
  <2>2. QED  BY <1>5, <2>1 DEF LimiterInv, ClockTyped, OutcomesCounted, Pace!UseMemory
<1>6. ASSUME NEW r \in Calls, Pace!Proceed(r) PROVE LimiterInv'
  <2>1. BucketIs(bucket, now)' /\ Paced'
    BY <1>6, PaceRests DEF LimiterInv, Pace!Proceed
  <2>2. [at |-> "waiting", until |-> now] \in Turn  BY <1>2, Amounts DEF Turn
  <2>3. QED  BY <1>6, <2>1, <2>2 DEF LimiterInv, ClockTyped, OutcomesCounted, Pace!Proceed
<1>7. ASSUME NEW r \in Calls, Pace!Acquire(r) PROVE LimiterInv'
  <2> DEFINE wait == Pace!Most(0, Pace!Filled.next - now)
             missing == Pace!Most(0, Interval - Pace!Filled.tokens)
  <2>1. /\ Pace!Filled.next \in Nat /\ Pace!Filled.tokens \in Nat
        /\ Pace!Filled.next <= now + Spacing
    <3>1. bucket.next <= now + Spacing  BY DEF LimiterInv, BucketIs
    <3>2. QED  BY <1>2, <3>1, FilledIs DEF LimiterInv
  <2>2. /\ wait \in Nat /\ missing \in Nat /\ missing <= Interval
        /\ wait <= Spacing
        /\ wait = 0 => Pace!Filled.next <= now
        /\ missing = 0 => Pace!Filled.tokens >= Interval
        /\ Pace!Most(wait, missing) \in 0..(Interval + Spacing)
    BY <1>2, <2>1, Amounts DEF Pace!Most
  <2>3. /\ \/ /\ missing = 0 /\ wait = 0
              /\ bucket' = [Pace!Filled EXCEPT !.tokens = @ - Interval, !.next = now + Spacing]
              /\ call' = [call EXCEPT ![r] = Pace!Idle]
              /\ grants' = Append(grants, now)
           \/ /\ bucket' = Pace!Filled
              /\ call' = [call EXCEPT ![r].until = now + Pace!Most(wait, missing)]
              /\ grants' = grants
        /\ UNCHANGED <<now, heap, pressed, outcomes, fails, starts, calm>>
    BY <1>7 DEF Pace!Acquire
  <2> HIDE DEF wait, missing
  <2>4. OutcomesCounted'  BY <2>3 DEF LimiterInv, OutcomesCounted
  <2>5. BucketIs(bucket, now)' /\ Paced'
    <3>1. BucketIs(bucket, now) /\ Paced  BY DEF LimiterInv
    <3>2. CASE /\ missing = 0 /\ wait = 0
               /\ bucket' = [Pace!Filled EXCEPT !.tokens = @ - Interval, !.next = now + Spacing]
               /\ grants' = Append(grants, now)
      BY <1>2, <2>2, <2>3, <3>1, <3>2, GrantPaces DEF Paced
    <3>3. CASE bucket' = Pace!Filled /\ grants' = grants
      BY <1>2, <2>3, <3>1, <3>3, FillingPaces, FilledIs DEF Paced
    <3>4. QED  BY <2>3, <3>2, <3>3
  <2>6. call' \in [Calls -> Turn]
    <3>1. Pace!Idle \in Turn  BY Amounts DEF Pace!Idle, Turn
    <3>2. [call[r] EXCEPT !.until = now + Pace!Most(wait, missing)] \in Turn
      <4>1. call[r] \in Turn  BY DEF LimiterInv, ClockTyped
      <4>2. now + Pace!Most(wait, missing) \in 0..(MaxTime + MaxDelay + Interval + Spacing)
        BY <1>2, <2>2, Amounts
      <4>3. QED  BY <4>1, <4>2 DEF Turn
    <3>3. [call EXCEPT ![r].until = now + Pace!Most(wait, missing)]
            = [call EXCEPT ![r] = [call[r] EXCEPT !.until = now + Pace!Most(wait, missing)]]
      BY DEF LimiterInv, ClockTyped
    <3>4. QED  BY <2>3, <3>1, <3>2, <3>3 DEF LimiterInv, ClockTyped
  <2>7. QED  BY <2>3, <2>4, <2>5, <2>6 DEF LimiterInv, ClockTyped
<1>8. ASSUME NEW r \in Calls, NEW m \in Mailboxes, Pace!Begin(r, m) PROVE LimiterInv'
  <2>1. BucketIs(bucket, now)' /\ Paced'
    BY <1>8, PaceRests DEF LimiterInv, Pace!Begin
  <2>2. [at |-> "waiting", until |-> now] \in Turn  BY <1>2, Amounts DEF Turn
  <2>3. \A d \in Pace!Delays(m) : [at |-> "throttled", until |-> now + d] \in Turn
    BY <1>2, Amounts DEF Turn, Pace!Delays
  <2>4. call' \in [Calls -> Turn]
    BY <1>8, <2>2, <2>3 DEF LimiterInv, ClockTyped, Pace!Begin
  <2>5. pressed' \in BOOLEAN  BY <1>8 DEF LimiterInv, ClockTyped, Pace!Begin
  <2>6. QED  BY <1>8, <2>1, <2>4, <2>5 DEF LimiterInv, ClockTyped, OutcomesCounted, Pace!Begin
<1>9. ASSUME NEW m \in Mailboxes, NEW ok \in BOOLEAN, Pace!Record(m, ok) PROVE LimiterInv'
  <2>1. BucketIs(bucket, now)' /\ Paced'
    BY <1>9, PaceRests DEF LimiterInv, Pace!Record
  <2>2. ClockTyped'  BY <1>9 DEF LimiterInv, ClockTyped, Pace!Record
  <2> DEFINE t == Pace!Trim(Append(outcomes[m], ok))
             f == IF ok THEN 0 ELSE fails[m] + 1
             c == IF ~ok THEN 0 ELSE IF calm[m] < Window THEN calm[m] + 1 ELSE calm[m]
  <2>3. Counted(t, f, c)
    BY <1>9, RecordCounts DEF LimiterInv, OutcomesCounted, Pace!Record
  <2>4. /\ outcomes' = [outcomes EXCEPT ![m] = t] /\ fails' = [fails EXCEPT ![m] = f]
        /\ calm' = [calm EXCEPT ![m] = c]
    BY <1>9 DEF Pace!Record, LimiterInv, OutcomesCounted
  <2> HIDE DEF t, f, c
  <2>5. t \in Seq(BOOLEAN) /\ f \in 0..MaxFails /\ c \in 0..Window
    BY <2>3 DEF Counted
  <2>6. \A q \in Mailboxes : Counted(outcomes'[q], fails'[q], calm'[q])
    BY <2>3, <2>4 DEF LimiterInv, OutcomesCounted
  <2>7. OutcomesCounted'
    BY <2>4, <2>5, <2>6 DEF LimiterInv, OutcomesCounted
  <2>8. QED  BY <2>1, <2>2, <2>7 DEF LimiterInv
<1>10. QED
  BY <1>1, <1>3, <1>4, <1>5, <1>6, <1>7, <1>8, <1>9 DEF Pace!Next

LEMMA LimiterHolds == ASSUME Pace!LimiterAssumption PROVE Pace!Spec => []LimiterInv
PROOF BY LimiterBegins, LimiterMoves, PTL DEF Pace!Spec

\* Time, bucket, waiting requests and outcomes are of their types; outcomes are at most as
\* many as count (email-sync-adaptive-throttle.ts).
THEOREM LimiterTyped == ASSUME Pace!LimiterAssumption PROVE Pace!Spec => []Pace!TypeOK
PROOF
<1>1. ASSUME LimiterInv PROVE Pace!TypeOK
  <2>1. /\ bucket.tokens \in 0..(Capacity * Interval) /\ bucket.filled \in 0..MaxTime
        /\ bucket.next \in 0..(MaxTime + Spacing)
    <3>1. /\ bucket.tokens \in Nat /\ bucket.filled \in Nat /\ bucket.next \in Nat
          /\ bucket.tokens <= Times(Capacity, Interval)
          /\ bucket.filled <= now /\ bucket.next <= now + Spacing
      BY <1>1 DEF LimiterInv, BucketIs
    <3>2. now \in 0..MaxTime  BY <1>1 DEF LimiterInv, ClockTyped
    <3>3. bucket.tokens \in 0..Times(Capacity, Interval)  BY <3>1, Amounts
    <3>4. QED  BY <3>1, <3>2, <3>3, Amounts DEF Times
  <2>2. ASSUME NEW m \in Mailboxes PROVE outcomes[m] \in Pace!BoundedSeq(BOOLEAN, Window)
    <3>1. /\ outcomes[m] \in Seq(BOOLEAN) /\ Len(outcomes[m]) <= Window
          /\ Len(outcomes[m]) \in Nat
      BY <1>1 DEF LimiterInv, OutcomesCounted, Counted
    <3>2. outcomes[m] \in [1..Len(outcomes[m]) -> BOOLEAN]  BY <3>1
    <3>3. Len(outcomes[m]) \in 0..Window  BY <3>1, Limits
    <3>4. QED  BY <3>2, <3>3, Zenon DEF Pace!BoundedSeq, Pace!SeqOf
  <2>3. \A i \in DOMAIN grants : grants[i] \in 0..MaxTime
    <3>1. grants \in Seq(0..MaxTime)  BY <1>1 DEF LimiterInv, Paced, PacedBy
    <3>2. QED  BY <3>1, ElementsAre, Zenon
  <2>4. /\ fails \in [Mailboxes -> 0..MaxFails] /\ calm \in [Mailboxes -> 0..Window]
    BY <1>1 DEF LimiterInv, OutcomesCounted
  <2>5. ClockTyped  BY <1>1 DEF LimiterInv
  <2>6. QED  BY <2>1, <2>2, <2>3, <2>4, <2>5, Zenon DEF Pace!TypeOK, ClockTyped, Turn
<1>2. QED  BY <1>1, LimiterHolds, PTL

\* However requests interleave, and through restarts, the provider gets at no time more
\* than a bucket and what came back since, and no two at once: each loop iteration of
\* acquire (email-sync-provider-policy.ts) looks at the bucket again after its sleep.
THEOREM RequestsArePaced == ASSUME Pace!LimiterAssumption PROVE Pace!Spec => []Pace!GrantsBounded
PROOF
<1>1. LimiterInv => Pace!GrantsBounded  BY BoundedIs DEF LimiterInv
<1>2. QED  BY <1>1, LimiterHolds, PTL

\* A mailbox is slowed exactly until as many outcomes as count have been successes, by its
\* own failures only (email-sync-adaptive-throttle.ts).
THEOREM OwnFailuresSlow ==
  ASSUME Pace!LimiterAssumption
  PROVE  Pace!Spec => []Pace!SlowedByOwnFailures
PROOF
<1>1. ASSUME LimiterInv, NEW m \in Mailboxes PROVE Pace!Slowed(m) <=> calm[m] < Window
  <2>1. /\ outcomes[m] \in Seq(BOOLEAN) /\ fails[m] \in 0..MaxFails
        /\ calm[m] \in 0..Window /\ Counted(outcomes[m], fails[m], calm[m])
    BY <1>1 DEF LimiterInv, OutcomesCounted
  <2>2. CASE calm[m] < Window
    <3>1. /\ Len(outcomes[m]) - calm[m] \in DOMAIN outcomes[m]
          /\ ~outcomes[m][Len(outcomes[m]) - calm[m]]
      BY <2>1, <2>2, Limits DEF Counted
    <3>2. Pace!Failures(m) # {} /\ outcomes[m] # <<>>  BY <3>1 DEF Pace!Failures
    <3>3. QED  BY <2>1, <2>2, <3>2, Limits DEF Pace!Slowed, Pace!Score
  <2>3. CASE ~(calm[m] < Window)
    <3>1. calm[m] = Window /\ Window # 0  BY <2>1, <2>3, Limits
    <3>2. Pace!Failures(m) = {} /\ fails[m] = 0
      BY <2>1, <3>1, Limits DEF Pace!Failures, Counted
    <3>3. QED  BY <2>3, <3>2 DEF Pace!Slowed, Pace!Score
  <2>4. QED  BY <2>2, <2>3
<1>2. LimiterInv => Pace!SlowedByOwnFailures  BY <1>1 DEF Pace!SlowedByOwnFailures
<1>3. QED  BY <1>2, LimiterHolds, PTL
=============================================================================
