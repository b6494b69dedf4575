----------------------------- MODULE MCServices -----------------------------
(***************************************************************************)
(* Instances of the services around the mail components, checked for safety *)
(* side by side: the first state picks one of them, and only that one moves. *)
(***************************************************************************)
EXTENDS MCBackground

CONSTANTS u1, x1, v1, v2, k1, k2

\* Two tabs with a request each; a tab with two.
TwoTabs == INSTANCE Sessions WITH
  live <- y1, fresh <- y2, local <- y3, header <- y4, page <- y5, request <- y6,
  trade <- y7, excused <- y8,
  Tabs <- {t1, t2}, Requests <- {r1}, MaxPairs <- 2
OneTab == INSTANCE Sessions WITH
  live <- y1, fresh <- y2, local <- y3, header <- y4, page <- y5, request <- y6,
  trade <- y7, excused <- y8,
  Tabs <- {t1}, Requests <- {r1, r2}, MaxPairs <- 3

\* An upload straight to S3, and one through the backend to the local disk.
Presigned == INSTANCE Attachments WITH
  enabled <- y1, infected <- y2, row <- y3, objects <- y4, upload <- y5,
  download <- y6, deletion <- y7, restarts <- y8, faults <- y9,
  Uploads <- {u1}, Direct <- {}, Downloads <- {g1, g2}, Deletions <- {x1},
  Storage <- "s3", FailOpen <- FALSE, OnDownload <- TRUE, MaxRestarts <- 1,
  MaxFaults <- 2
Through == INSTANCE Attachments WITH
  enabled <- y1, infected <- y2, row <- y3, objects <- y4, upload <- y5,
  download <- y6, deletion <- y7, restarts <- y8, faults <- y9,
  Uploads <- {u1}, Direct <- {u1}, Downloads <- {g1, g2}, Deletions <- {x1},
  Storage <- "local", FailOpen <- TRUE, OnDownload <- TRUE, MaxRestarts <- 1,
  MaxFaults <- 1

\* Two requests to export at a time; two downloads of a file.
Exporting == INSTANCE Exports WITH
  status <- y1, artifact <- y2, count <- y3, runner <- y4, request <- y5,
  download <- y6, delivered <- y7, restarts <- y8,
  MaxJobs <- 3, Requests <- {r1, r2}, Downloads <- {g1}, Limit <- 1,
  MaxDownloads <- 1, MaxRestarts <- 1
Fetching == INSTANCE Exports WITH
  status <- y1, artifact <- y2, count <- y3, runner <- y4, request <- y5,
  download <- y6, delivered <- y7, restarts <- y8,
  MaxJobs <- 2, Requests <- {r1}, Downloads <- {g1, g2}, Limit <- 1,
  MaxDownloads <- 2, MaxRestarts <- 1

\* A note mailed in a digest, two accounts; one mailed at once, two devices.
Daily == INSTANCE Notifications WITH
  quiet <- y1, dispatch <- y2, mailJob <- y3, pushJob <- y4, item <- y5, closed <- y6,
  digestRun <- y7, digestMails <- y8, owners <- y9, claim <- y10, faults <- y11,
  mailed <- y12, pushed <- y13, collected <- y14, overlapped <- y15,
  Notes <- {n1}, Digested <- {n1}, Devices <- {v1}, Accounts <- {a1, a2}, Me <- a1,
  DigestRuns <- {k1, k2}, Attempts <- 2, MaxFaults <- 1, MaxMails <- 4
AtOnce == INSTANCE Notifications WITH
  quiet <- y1, dispatch <- y2, mailJob <- y3, pushJob <- y4, item <- y5, closed <- y6,
  digestRun <- y7, digestMails <- y8, owners <- y9, claim <- y10, faults <- y11,
  mailed <- y12, pushed <- y13, collected <- y14, overlapped <- y15,
  Notes <- {n1}, Digested <- {}, Devices <- {v1, v2}, Accounts <- {a1}, Me <- a1,
  DigestRuns <- {k1}, Attempts <- 2, MaxFaults <- 3, MaxMails <- 4

\* Two events at a time.
Hook == INSTANCE Webhooks WITH
  active <- y1, failures <- y2, delivery <- y3, streak <- y4, overlapped <- y5,
  Events <- {e1, e2}, MaxAttempts <- 2, MaxFailures <- 4

ASSUME InstancesAreFit ==
  /\ TwoTabs!SessionsAssumption /\ OneTab!SessionsAssumption
  /\ Presigned!AttachmentsAssumption /\ Through!AttachmentsAssumption
  /\ Exporting!ExportsAssumption /\ Fetching!ExportsAssumption
  /\ Daily!NotificationsAssumption /\ AtOnce!NotificationsAssumption
  /\ Hook!WebhooksAssumption /\ OfficeFits /\ ClientFits
  /\ BackgroundFits

Init ==
  \/ part = "tabs" /\ TwoTabs!Init /\ Rest8
  \/ part = "tab" /\ OneTab!Init /\ Rest8
  \/ part = "presigned" /\ Presigned!Init /\ Rest9
  \/ part = "through" /\ Through!Init /\ Rest9
  \/ part = "exporting" /\ Exporting!Init /\ Rest8
  \/ part = "fetching" /\ Fetching!Init /\ Rest8
  \/ part = "daily" /\ Daily!Init
  \/ part = "urgent" /\ AtOnce!Init
  \/ part = "hook" /\ Hook!Init /\ Rest5
  \/ OfficeInit
  \/ ClientInit
  \/ BackgroundInit

Next ==
  \/ part = "tabs" /\ TwoTabs!Next /\ UNCHANGED <<part, After8>>
  \/ part = "tab" /\ OneTab!Next /\ UNCHANGED <<part, After8>>
  \/ part = "presigned" /\ Presigned!Next /\ UNCHANGED <<part, After9>>
  \/ part = "through" /\ Through!Next /\ UNCHANGED <<part, After9>>
  \/ part = "exporting" /\ Exporting!Next /\ UNCHANGED <<part, After8>>
  \/ part = "fetching" /\ Fetching!Next /\ UNCHANGED <<part, After8>>
  \/ part = "daily" /\ Daily!Next /\ UNCHANGED part
  \/ part = "urgent" /\ AtOnce!Next /\ UNCHANGED part
  \/ part = "hook" /\ Hook!Next /\ UNCHANGED <<part, After5>>
  \/ OfficeNext
  \/ ClientNext
  \/ BackgroundNext

Spec == Init /\ [][Next]_vars

TypeOK ==
  /\ part = "tabs" => TwoTabs!TypeOK
  /\ part = "tab" => OneTab!TypeOK
  /\ part = "presigned" => Presigned!TypeOK
  /\ part = "through" => Through!TypeOK
  /\ part = "exporting" => Exporting!TypeOK
  /\ part = "fetching" => Fetching!TypeOK
  /\ part = "daily" => Daily!TypeOK
  /\ part = "urgent" => AtOnce!TypeOK
  /\ part = "hook" => Hook!TypeOK
  /\ OfficeTypeOK /\ ClientTypeOK /\ BackgroundTypeOK

\* Sessions!NoSpuriousSignOut: nobody is sent to the login page for nothing.
NoSpuriousSignOut ==
  [][/\ part = "tabs" => TwoTabs!LeavesForReason
     /\ part = "tab" => OneTab!LeavesForReason]_vars

\* Attachments!RowHasObject and PendingHasUpload: a row whose file may be served
\* names an object, and a scan is never forgotten.
StoresAgree ==
  /\ part = "presigned" => Presigned!RowHasObject /\ Presigned!PendingHasUpload
  /\ part = "through" => Through!RowHasObject /\ Through!PendingHasUpload

\* Attachments!VerdictStays: an infected file is not taken back into use.
VerdictStays ==
  [][/\ part = "presigned" => Presigned!VerdictHolds
     /\ part = "through" => Through!VerdictHolds]_vars

\* Exports!LimitOverrun, ActiveHasRun and DownloadsCounted: by how much concurrent
\* requests may overrun the limit, that a job under way has the run that will end it,
\* and that no file is delivered more often than allowed. RateLimiter!GrantsBounded and
\* SlowedByOwnFailures: requests to a provider are paced.
LimitHolds ==
  /\ part = "exporting" => /\ Exporting!LimitOverrun /\ Exporting!ActiveHasRun
                           /\ Exporting!DownloadsCounted
  /\ part = "fetching" => /\ Fetching!LimitOverrun /\ Fetching!ActiveHasRun
                          /\ Fetching!DownloadsCounted
  /\ LimiterHolds

\* Of Notifications: how often a mail goes out, a device is served and an item gets
\* into a digest, and that a device is registered for one account.
NotifiedOnce ==
  /\ part = "daily" =>
       Daily!CopiesBounded /\ Daily!CollectedBounded /\ Daily!OneOwner
  /\ part = "urgent" => AtOnce!CopiesBounded

\* Webhooks!CountIsStreak: the failures counted are those in a row.
CountIsStreak == part = "hook" => Hook!CountIsStreak
=============================================================================
