---------------------------- MODULE MCBackground ----------------------------
(***************************************************************************)
(* Instances of the work done in the background, as further parts of         *)
(* MCServices: deadlines of threads, what follows the arrival of a mail, and *)
(* the pace of requests to a mail provider.                                  *)
(***************************************************************************)
EXTENDS MCClient

CONSTANTS m1, m2

Normal == [first |-> 2, next |-> 1, resolution |-> 3]
Urgent == [first |-> 1, next |-> 1, resolution |-> 2]

\* Weeks of three minutes, the middle one closed: two jobs at a time; one for longer; and
\* one while the priority changes.
TwoChecks == INSTANCE Sla WITH
  now <- y1, mail <- y2, priority <- y3, closed <- y4, row <- y5, check <- y6,
  update <- y7, noted <- y8, told <- y9, overlapped <- y10, silent <- y11,
  warned <- y12, unnoted <- y13,
  Checks <- {c1, c2}, Targets <- [normal |-> Normal], Period <- 3,
  OpenMinutes <- {0, 2}, Threshold <- 1, MaxTime <- 2
LongWait == INSTANCE Sla WITH
  now <- y1, mail <- y2, priority <- y3, closed <- y4, row <- y5, check <- y6,
  update <- y7, noted <- y8, told <- y9, overlapped <- y10, silent <- y11,
  warned <- y12, unnoted <- y13,
  Checks <- {c1}, Targets <- [normal |-> Normal], Period <- 3, OpenMinutes <- {0, 2},
  Threshold <- 1, MaxTime <- 4
Reprioritised == INSTANCE Sla WITH
  now <- y1, mail <- y2, priority <- y3, closed <- y4, row <- y5, check <- y6,
  update <- y7, noted <- y8, told <- y9, overlapped <- y10, silent <- y11,
  warned <- y12, unnoted <- y13,
  Checks <- {c1}, Targets <- [normal |-> Normal, urgent |-> Urgent], Period <- 3,
  OpenMinutes <- {0, 2}, Threshold <- 1, MaxTime <- 2

\* Two mails of one sender: in one thread; in two threads, with credit for one; and with
\* two rules, the first of which overrides the second.
OneThread == INSTANCE PostIngest WITH
  work <- y1, companies <- y2, contact <- y3, linked <- y4, tags <- y5, tagged <- y6,
  credits <- y7, halted <- y8, triggered <- y9, crashes <- y10, paid <- y11,
  acted <- y12, lapsed <- y13, raced <- y14,
  Mails <- {m1, m2}, Threads <- {t1}, ThreadOf <- [m \in {m1, m2} |-> t1], Rules <- 0,
  Hits <- [m \in {m1, m2} |-> {}], Overriding <- {},
  Categories <- {"billing", "support"}, Credits <- 2, MaxCrashes <- 1
TwoThreads == INSTANCE PostIngest WITH
  work <- y1, companies <- y2, contact <- y3, linked <- y4, tags <- y5, tagged <- y6,
  credits <- y7, halted <- y8, triggered <- y9, crashes <- y10, paid <- y11,
  acted <- y12, lapsed <- y13, raced <- y14,
  Mails <- {m1, m2}, Threads <- {t1, t2},
  ThreadOf <- [m \in {m1, m2} |-> IF m = m1 THEN t1 ELSE t2], Rules <- 0,
  Hits <- [m \in {m1, m2} |-> {}], Overriding <- {},
  Categories <- {"billing", "support"}, Credits <- 1, MaxCrashes <- 0
Ruled == INSTANCE PostIngest WITH
  work <- y1, companies <- y2, contact <- y3, linked <- y4, tags <- y5, tagged <- y6,
  credits <- y7, halted <- y8, triggered <- y9, crashes <- y10, paid <- y11,
  acted <- y12, lapsed <- y13, raced <- y14,
  Mails <- {m1, m2}, Threads <- {t1}, ThreadOf <- [m \in {m1, m2} |-> t1], Rules <- 2,
  Hits <- [m \in {m1, m2} |-> {1, 2}], Overriding <- {1},
  Categories <- {"billing", "support"}, Credits <- 0, MaxCrashes <- 1

\* Two requests share a bucket; one, of either of two mailboxes, is slowed by outcomes
\* and by memory.
Shared == INSTANCE RateLimiter WITH
  now <- y1, bucket <- y2, request <- y3, heap <- y4, pressed <- y5, outcomes <- y6,
  fails <- y7, restarts <- y8, grants <- y9, calm <- y10,
  Requests <- {r1, r2}, Mailboxes <- {b1}, Capacity <- 2, Interval <- 3, Spacing <- 1,
  Adaptive <- FALSE, Window <- 2, MaxDelay <- 1, MaxTime <- 6, MaxFails <- 2,
  MaxRestarts <- 0
Slowed == INSTANCE RateLimiter WITH
  now <- y1, bucket <- y2, request <- y3, heap <- y4, pressed <- y5, outcomes <- y6,
  fails <- y7, restarts <- y8, grants <- y9, calm <- y10,
  Requests <- {r1}, Mailboxes <- {b1, b2}, Capacity <- 1, Interval <- 2, Spacing <- 1,
  Adaptive <- TRUE, Window <- 2, MaxDelay <- 1, MaxTime <- 1, MaxFails <- 2,
  MaxRestarts <- 1

BackgroundFits ==
  /\ TwoChecks!SlaAssumption /\ LongWait!SlaAssumption /\ Reprioritised!SlaAssumption
  /\ OneThread!IngestAssumption /\ TwoThreads!IngestAssumption
  /\ Ruled!IngestAssumption
  /\ Shared!LimiterAssumption /\ Slowed!LimiterAssumption

BackgroundInit ==
  \/ part = "two checks" /\ TwoChecks!Init /\ Rest13
  \/ part = "long wait" /\ LongWait!Init /\ Rest13
  \/ part = "reprioritised" /\ Reprioritised!Init /\ Rest13
  \/ part = "one thread" /\ OneThread!Init /\ Rest14
  \/ part = "two threads" /\ TwoThreads!Init /\ Rest14
  \/ part = "ruled" /\ Ruled!Init /\ Rest14
  \/ part = "shared" /\ Shared!Init /\ Rest10
  \/ part = "slowed" /\ Slowed!Init /\ Rest10

BackgroundNext ==
  \/ part = "two checks" /\ TwoChecks!Next /\ UNCHANGED <<part, After13>>
  \/ part = "long wait" /\ LongWait!Next /\ UNCHANGED <<part, After13>>
  \/ part = "reprioritised" /\ Reprioritised!Next /\ UNCHANGED <<part, After13>>
  \/ part = "one thread" /\ OneThread!Next /\ UNCHANGED <<part, After14>>
  \/ part = "two threads" /\ TwoThreads!Next /\ UNCHANGED <<part, After14>>
  \/ part = "ruled" /\ Ruled!Next /\ UNCHANGED <<part, After14>>
  \/ part = "shared" /\ Shared!Next /\ UNCHANGED <<part, After10>>
  \/ part = "slowed" /\ Slowed!Next /\ UNCHANGED <<part, After10>>

BackgroundTypeOK ==
  /\ part = "two checks" => TwoChecks!TypeOK
  /\ part = "long wait" => LongWait!TypeOK
  /\ part = "reprioritised" => Reprioritised!TypeOK
  /\ part = "one thread" => OneThread!TypeOK
  /\ part = "two threads" => TwoThreads!TypeOK
  /\ part = "ruled" => Ruled!TypeOK
  /\ part = "shared" => Shared!TypeOK
  /\ part = "slowed" => Slowed!TypeOK


\* PostIngest!OneRowEach, SenderLinked, CreditsAddUp and TriggersCounted: what follows a
\* mail is done once, and paid for.
MailTakenUp ==
  /\ part = "one thread" => /\ OneThread!OneRowEach /\ OneThread!SenderLinked
                            /\ OneThread!CreditsAddUp
  /\ part = "two threads" => /\ TwoThreads!OneRowEach /\ TwoThreads!SenderLinked
                             /\ TwoThreads!CreditsAddUp
  /\ part = "ruled" => /\ Ruled!OneRowEach /\ Ruled!SenderLinked
                       /\ Ruled!CreditsAddUp /\ Ruled!TriggersCounted

\* RateLimiter!GrantsBounded and SlowedByOwnFailures: what goes out to a provider fits
\* its bucket, and a mailbox is slowed by its own failures.
LimiterHolds ==
  /\ part = "shared" => Shared!GrantsBounded /\ Shared!SlowedByOwnFailures
  /\ part = "slowed" => Slowed!GrantsBounded /\ Slowed!SlowedByOwnFailures
=============================================================================
