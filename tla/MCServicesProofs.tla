-------------------------- MODULE MCServicesProofs --------------------------
(***************************************************************************)
(* The theorems of the services around the mail components, for the        *)
(* composition that TLC checks.  Of the instances of MCServices only the one *)
(* picked first moves, so what a component does in every behaviour, its part *)
(* does in every behaviour of the composition.  What MCOffice adds to it, the *)
(* accounts and the mailboxes, and the pace of requests are among the parts. *)
(***************************************************************************)
EXTENDS MCServices, TLAPS

\* Three or four lemmas for each part. Is: the theorems of the component are about the
\* instance the run checks, and its constants are fit for them. Moves: what starts as
\* the part starts and moves as the component, and stays the part. Steps: so do the
\* steps that the action property is about. Runs: a behaviour of the composition never
\* is the part, or is a behaviour of the component for ever.

-----------------------------------------------------------------------------
\* The first of the instances of Sessions, Accounts and MailboxLink.
First == INSTANCE AccessProofs WITH
  live <- y1, fresh <- y2, local <- y3, header <- y4, page <- y5, request <- y6,
  trade <- y7, excused <- y8,
  Tabs <- {t1, t2}, Requests <- {r1}, MaxPairs <- 2,
  user <- y1, access <- y2, mailed <- y3, op <- y4, restarts <- y5, stale <- y6,
  fate <- y7, odd <- y8, kept <- y9,
  Visits <- {r1, r2}, MaxLinks <- 2, MaxRestarts <- 0,
  mailbox <- y1, callback <- y2, renewal <- y3, mixed <- y4,
  Accounts <- {a1, a2}, Mailboxes <- {b1}, Callbacks <- {c1, c2}

LEMMA TwoTabsIs ==
  /\ First!SessionsAssumption
  /\ TwoTabs!Init <=> First!Init
  /\ [TwoTabs!Next]_(TwoTabs!vars) <=> [First!Next]_(First!vars)
  /\ [TwoTabs!LeavesForReason]_(TwoTabs!vars) <=> [First!LeavesForReason]_(First!vars)
PROOF
  BY InstancesAreFit
    DEF TwoTabs!SessionsAssumption, TwoTabs!Init, TwoTabs!NoRequest, TwoTabs!NoTrade,
        TwoTabs!Next, TwoTabs!EndSessions, TwoTabs!InUse, TwoTabs!Pairs, TwoTabs!Held,
        TwoTabs!browser, TwoTabs!Expire, TwoTabs!TabStep, TwoTabs!Find, TwoTabs!Refreshed,
        TwoTabs!Waiting, TwoTabs!TradeRefused, TwoTabs!Leave, TwoTabs!Reload,
        TwoTabs!Forget, TwoTabs!Rotate, TwoTabs!New, TwoTabs!Issue, TwoTabs!Accepted,
        TwoTabs!Refused, TwoTabs!Unauthorized, TwoTabs!Starts, TwoTabs!TradeLost,
        TwoTabs!SignIn, TwoTabs!Send, TwoTabs!Access, TwoTabs!vars, TwoTabs!LeavesForReason,
        First!SessionsAssumption, First!Init, First!NoRequest, First!NoTrade, First!Next,
        First!EndSessions, First!InUse, First!Pairs, First!Held, First!browser,
        First!Expire, First!TabStep, First!Find, First!Refreshed, First!Waiting,
        First!TradeRefused, First!Leave, First!Reload, First!Forget, First!Rotate,
        First!New, First!Issue, First!Accepted, First!Refused, First!Unauthorized,
        First!Starts, First!TradeLost, First!SignIn, First!Send, First!Access, First!vars,
        First!LeavesForReason

LEMMA TwoTabsMoves ==
  /\ Init /\ part = "tabs" => First!Init
  /\ [Next]_vars => ((part = "tabs")' <=> part = "tabs")
  /\ [Next]_vars /\ part = "tabs" => [First!Next]_(First!vars)
PROOF
  BY TwoTabsIs, ZenonT(30)
    DEF Init, OfficeInit, ClientInit, BackgroundInit, Next, OfficeNext, ClientNext,
        BackgroundNext, vars, After8, TwoTabs!vars, TwoTabs!browser

LEMMA TwoTabsSteps ==
  /\ [Next]_vars /\ part = "tabs" /\ [First!LeavesForReason]_(First!vars)
       => [TwoTabs!LeavesForReason]_vars
PROOF
  BY TwoTabsIs, ZenonT(30)
    DEF Next, OfficeNext, ClientNext, BackgroundNext, vars, After8, TwoTabs!vars,
        TwoTabs!browser

LEMMA TwoTabsRuns ==
  Spec => \/ [](~(part = "tabs"))
          \/ First!Spec /\ [](part = "tabs")
PROOF BY TwoTabsMoves, PTL DEF Spec, First!Spec

LEMMA PersonIs ==
  /\ First!Account!AccountsAssumption
  /\ Person!Init <=> First!Account!Init
  /\ [Person!Next]_(Person!vars) <=> [First!Account!Next]_(First!Account!vars)
  /\ Person!LastLinkWorks <=> First!Account!LastLinkWorks
  /\ Person!ListedAsShown <=> First!Account!ListedAsShown
  /\ Person!RemovedHasNoAccess <=> First!Account!RemovedHasNoAccess
  /\ [Person!SparesUser]_(Person!vars) <=> [First!Account!SparesUser]_(First!Account!vars)
PROOF
  BY InstancesAreFit
    DEF OfficeFits, Person!AccountsAssumption, Person!Init, Person!Absent, Person!Nothing,
        Person!Next, Person!FindForInvite, Person!Begin, Person!Found, Person!FindForResend,
        Person!IsPending, Person!FindForRevoke, Person!HasLink, Person!FindForRemove,
        Person!FindForForgot, Person!FindByLink, Person!WriteInvite, Person!Write,
        Person!Invited, Person!Linked, Person!Last, Person!Mail, Person!WriteResend,
        Person!WriteRevoke, Person!Unlinked, Person!Ends, Person!WriteForgot,
        Person!WriteReset, Person!WriteAccepted, Person!WriteVerified, Person!WriteRemove,
        Person!Purge, Person!CreateRefused, Person!Register, Person!WriteRegistered,
        Person!SetActive, Person!Grant, Person!RevokeAccess, Person!Expire, Person!Restart,
        Person!vars, Person!LastLinkWorks, Person!ListedAsShown, Person!Listed,
        Person!OpenInvitation, Person!Badge, Person!RemovedHasNoAccess, Person!SparesUser,
        Person!CanSignIn, First!Account!AccountsAssumption, First!Account!Init,
        First!Account!Absent, First!Account!Nothing, First!Account!Next,
        First!Account!FindForInvite, First!Account!Begin, First!Account!Found,
        First!Account!FindForResend, First!Account!IsPending, First!Account!FindForRevoke,
        First!Account!HasLink, First!Account!FindForRemove, First!Account!FindForForgot,
        First!Account!FindByLink, First!Account!WriteInvite, First!Account!Write,
        First!Account!Invited, First!Account!Linked, First!Account!Last, First!Account!Mail,
        First!Account!WriteResend, First!Account!WriteRevoke, First!Account!Unlinked,
        First!Account!Ends, First!Account!WriteForgot, First!Account!WriteReset,
        First!Account!WriteAccepted, First!Account!WriteVerified, First!Account!WriteRemove,
        First!Account!Purge, First!Account!CreateRefused, First!Account!Register,
        First!Account!WriteRegistered, First!Account!SetActive, First!Account!Grant,
        First!Account!RevokeAccess, First!Account!Expire, First!Account!Restart,
        First!Account!vars, First!Account!LastLinkWorks, First!Account!ListedAsShown,
        First!Account!Listed, First!Account!OpenInvitation, First!Account!Badge,
        First!Account!RemovedHasNoAccess, First!Account!SparesUser, First!Account!CanSignIn

LEMMA PersonMoves ==
  /\ Init /\ part = "person" => First!Account!Init
  /\ [Next]_vars => ((part = "person")' <=> part = "person")
  /\ [Next]_vars /\ part = "person" => [First!Account!Next]_(First!Account!vars)
PROOF
  BY PersonIs, ZenonT(30)
    DEF Init, OfficeInit, ClientInit, BackgroundInit, Next, OfficeNext, ClientNext,
        BackgroundNext, vars, After9, Person!vars

LEMMA PersonSteps ==
  /\ [Next]_vars /\ part = "person"
       /\ [First!Account!SparesUser]_(First!Account!vars)
       => [Person!SparesUser]_vars
PROOF
  BY PersonIs, ZenonT(30)
    DEF Next, OfficeNext, ClientNext, BackgroundNext, vars, After9, Person!vars

LEMMA PersonRuns ==
  Spec => \/ [](~(part = "person"))
          \/ First!Account!Spec /\ [](part = "person")
PROOF BY PersonMoves, PTL DEF Spec, First!Account!Spec

LEMMA TwoCallbacksIs ==
  /\ First!Link!LinkAssumption
  /\ TwoCallbacks!Init <=> First!Link!Init
  /\ [TwoCallbacks!Next]_(TwoCallbacks!vars) <=> [First!Link!Next]_(First!Link!vars)
  /\ TwoCallbacks!CredentialsMatch <=> First!Link!CredentialsMatch
PROOF
  BY InstancesAreFit
    DEF OfficeFits, TwoCallbacks!LinkAssumption, TwoCallbacks!Init, TwoCallbacks!Absent,
        TwoCallbacks!Idle, TwoCallbacks!Next, TwoCallbacks!Look, TwoCallbacks!Matches,
        TwoCallbacks!Live, TwoCallbacks!Connect, TwoCallbacks!Unused,
        TwoCallbacks!Connected, TwoCallbacks!Pure, TwoCallbacks!Fail, TwoCallbacks!Exchange,
        TwoCallbacks!Disconnect, TwoCallbacks!Delete, TwoCallbacks!Renew,
        TwoCallbacks!Renewed, TwoCallbacks!Add, TwoCallbacks!Rename, TwoCallbacks!vars,
        TwoCallbacks!CredentialsMatch, First!Link!LinkAssumption, First!Link!Init,
        First!Link!Absent, First!Link!Idle, First!Link!Next, First!Link!Look,
        First!Link!Matches, First!Link!Live, First!Link!Connect, First!Link!Unused,
        First!Link!Connected, First!Link!Pure, First!Link!Fail, First!Link!Exchange,
        First!Link!Disconnect, First!Link!Delete, First!Link!Renew, First!Link!Renewed,
        First!Link!Add, First!Link!Rename, First!Link!vars, First!Link!CredentialsMatch

LEMMA TwoCallbacksMoves ==
  /\ Init /\ part = "two callbacks" => First!Link!Init
  /\ [Next]_vars => ((part = "two callbacks")' <=> part = "two callbacks")
  /\ [Next]_vars /\ part = "two callbacks" => [First!Link!Next]_(First!Link!vars)
PROOF
  BY TwoCallbacksIs
    DEF Init, OfficeInit, ClientInit, BackgroundInit, Next, OfficeNext, ClientNext,
        BackgroundNext, vars, After4, TwoCallbacks!vars

LEMMA TwoCallbacksRuns ==
  Spec => \/ [](~(part = "two callbacks"))
          \/ First!Link!Spec /\ [](part = "two callbacks")
PROOF BY TwoCallbacksMoves, PTL DEF Spec, First!Link!Spec

-----------------------------------------------------------------------------
\* The second.
Second == INSTANCE AccessProofs WITH
  live <- y1, fresh <- y2, local <- y3, header <- y4, page <- y5, request <- y6,
  trade <- y7, excused <- y8,
  Tabs <- {t1}, Requests <- {r1, r2}, MaxPairs <- 3,
  user <- y1, access <- y2, mailed <- y3, op <- y4, restarts <- y5, stale <- y6,
  fate <- y7, odd <- y8, kept <- y9,
  Visits <- {r1}, MaxLinks <- 3, MaxRestarts <- 1,
  mailbox <- y1, callback <- y2, renewal <- y3, mixed <- y4,
  Accounts <- {a1}, Mailboxes <- {b1, b2}, Callbacks <- {c1}

LEMMA OneTabIs ==
  /\ Second!SessionsAssumption
  /\ OneTab!Init <=> Second!Init
  /\ [OneTab!Next]_(OneTab!vars) <=> [Second!Next]_(Second!vars)
  /\ [OneTab!LeavesForReason]_(OneTab!vars) <=> [Second!LeavesForReason]_(Second!vars)
PROOF
  BY InstancesAreFit
    DEF OneTab!SessionsAssumption, OneTab!Init, OneTab!NoRequest, OneTab!NoTrade,
        OneTab!Next, OneTab!EndSessions, OneTab!InUse, OneTab!Pairs, OneTab!Held,
        OneTab!browser, OneTab!Expire, OneTab!TabStep, OneTab!Find, OneTab!Refreshed,
        OneTab!Waiting, OneTab!TradeRefused, OneTab!Leave, OneTab!Reload, OneTab!Forget,
        OneTab!Rotate, OneTab!New, OneTab!Issue, OneTab!Accepted, OneTab!Refused,
        OneTab!Unauthorized, OneTab!Starts, OneTab!TradeLost, OneTab!SignIn, OneTab!Send,
        OneTab!Access, OneTab!vars, OneTab!LeavesForReason, Second!SessionsAssumption,
        Second!Init, Second!NoRequest, Second!NoTrade, Second!Next, Second!EndSessions,
        Second!InUse, Second!Pairs, Second!Held, Second!browser, Second!Expire,
        Second!TabStep, Second!Find, Second!Refreshed, Second!Waiting, Second!TradeRefused,
        Second!Leave, Second!Reload, Second!Forget, Second!Rotate, Second!New, Second!Issue,
        Second!Accepted, Second!Refused, Second!Unauthorized, Second!Starts,
        Second!TradeLost, Second!SignIn, Second!Send, Second!Access, Second!vars,
        Second!LeavesForReason

LEMMA OneTabMoves ==
  /\ Init /\ part = "tab" => Second!Init
  /\ [Next]_vars => ((part = "tab")' <=> part = "tab")
  /\ [Next]_vars /\ part = "tab" => [Second!Next]_(Second!vars)
PROOF
  BY OneTabIs, ZenonT(30)
    DEF Init, OfficeInit, ClientInit, BackgroundInit, Next, OfficeNext, ClientNext,
        BackgroundNext, vars, After8, OneTab!vars, OneTab!browser

LEMMA OneTabSteps ==
  /\ [Next]_vars /\ part = "tab" /\ [Second!LeavesForReason]_(Second!vars)
       => [OneTab!LeavesForReason]_vars
PROOF
  BY OneTabIs, ZenonT(30)
    DEF Next, OfficeNext, ClientNext, BackgroundNext, vars, After8, OneTab!vars,
        OneTab!browser

LEMMA OneTabRuns ==
  Spec => \/ [](~(part = "tab"))
          \/ Second!Spec /\ [](part = "tab")
PROOF BY OneTabMoves, PTL DEF Spec, Second!Spec

LEMMA RestartedIs ==
  /\ Second!Account!AccountsAssumption
  /\ Restarted!Init <=> Second!Account!Init
  /\ [Restarted!Next]_(Restarted!vars) <=> [Second!Account!Next]_(Second!Account!vars)
  /\ Restarted!LastLinkWorks <=> Second!Account!LastLinkWorks
  /\ Restarted!ListedAsShown <=> Second!Account!ListedAsShown
  /\ Restarted!RemovedHasNoAccess <=> Second!Account!RemovedHasNoAccess
  /\ [Restarted!SparesUser]_(Restarted!vars)
       <=> [Second!Account!SparesUser]_(Second!Account!vars)
PROOF
  BY InstancesAreFit
    DEF OfficeFits, Restarted!AccountsAssumption, Restarted!Init, Restarted!Absent,
        Restarted!Nothing, Restarted!Next, Restarted!FindForInvite, Restarted!Begin,
        Restarted!Found, Restarted!FindForResend, Restarted!IsPending,
        Restarted!FindForRevoke, Restarted!HasLink, Restarted!FindForRemove,
        Restarted!FindForForgot, Restarted!FindByLink, Restarted!WriteInvite,
        Restarted!Write, Restarted!Invited, Restarted!Linked, Restarted!Last,
        Restarted!Mail, Restarted!WriteResend, Restarted!WriteRevoke, Restarted!Unlinked,
        Restarted!Ends, Restarted!WriteForgot, Restarted!WriteReset,
        Restarted!WriteAccepted, Restarted!WriteVerified, Restarted!WriteRemove,
        Restarted!Purge, Restarted!CreateRefused, Restarted!Register,
        Restarted!WriteRegistered, Restarted!SetActive, Restarted!Grant,
        Restarted!RevokeAccess, Restarted!Expire, Restarted!Restart, Restarted!vars,
        Restarted!LastLinkWorks, Restarted!ListedAsShown, Restarted!Listed,
        Restarted!OpenInvitation, Restarted!Badge, Restarted!RemovedHasNoAccess,
        Restarted!SparesUser, Restarted!CanSignIn, Second!Account!AccountsAssumption,
        Second!Account!Init, Second!Account!Absent, Second!Account!Nothing,
        Second!Account!Next, Second!Account!FindForInvite, Second!Account!Begin,
        Second!Account!Found, Second!Account!FindForResend, Second!Account!IsPending,
        Second!Account!FindForRevoke, Second!Account!HasLink, Second!Account!FindForRemove,
        Second!Account!FindForForgot, Second!Account!FindByLink, Second!Account!WriteInvite,
        Second!Account!Write, Second!Account!Invited, Second!Account!Linked,
        Second!Account!Last, Second!Account!Mail, Second!Account!WriteResend,
        Second!Account!WriteRevoke, Second!Account!Unlinked, Second!Account!Ends,
        Second!Account!WriteForgot, Second!Account!WriteReset, Second!Account!WriteAccepted,
        Second!Account!WriteVerified, Second!Account!WriteRemove, Second!Account!Purge,
        Second!Account!CreateRefused, Second!Account!Register,
        Second!Account!WriteRegistered, Second!Account!SetActive, Second!Account!Grant,
        Second!Account!RevokeAccess, Second!Account!Expire, Second!Account!Restart,
        Second!Account!vars, Second!Account!LastLinkWorks, Second!Account!ListedAsShown,
        Second!Account!Listed, Second!Account!OpenInvitation, Second!Account!Badge,
        Second!Account!RemovedHasNoAccess, Second!Account!SparesUser,
        Second!Account!CanSignIn

LEMMA RestartedMoves ==
  /\ Init /\ part = "restarted" => Second!Account!Init
  /\ [Next]_vars => ((part = "restarted")' <=> part = "restarted")
  /\ [Next]_vars /\ part = "restarted" => [Second!Account!Next]_(Second!Account!vars)
PROOF
  BY RestartedIs, ZenonT(30)
    DEF Init, OfficeInit, ClientInit, BackgroundInit, Next, OfficeNext, ClientNext,
        BackgroundNext, vars, After9, Restarted!vars

LEMMA RestartedSteps ==
  /\ [Next]_vars /\ part = "restarted"
       /\ [Second!Account!SparesUser]_(Second!Account!vars)
       => [Restarted!SparesUser]_vars
PROOF
  BY RestartedIs, ZenonT(30)
    DEF Next, OfficeNext, ClientNext, BackgroundNext, vars, After9, Restarted!vars

LEMMA RestartedRuns ==
  Spec => \/ [](~(part = "restarted"))
          \/ Second!Account!Spec /\ [](part = "restarted")
PROOF BY RestartedMoves, PTL DEF Spec, Second!Account!Spec

LEMMA TwoMailboxesIs ==
  /\ Second!Link!LinkAssumption
  /\ TwoMailboxes!Init <=> Second!Link!Init
  /\ [TwoMailboxes!Next]_(TwoMailboxes!vars) <=> [Second!Link!Next]_(Second!Link!vars)
  /\ TwoMailboxes!CredentialsMatch <=> Second!Link!CredentialsMatch
PROOF
  BY InstancesAreFit
    DEF OfficeFits, TwoMailboxes!LinkAssumption, TwoMailboxes!Init, TwoMailboxes!Absent,
        TwoMailboxes!Idle, TwoMailboxes!Next, TwoMailboxes!Look, TwoMailboxes!Matches,
        TwoMailboxes!Live, TwoMailboxes!Connect, TwoMailboxes!Unused,
        TwoMailboxes!Connected, TwoMailboxes!Pure, TwoMailboxes!Fail, TwoMailboxes!Exchange,
        TwoMailboxes!Disconnect, TwoMailboxes!Delete, TwoMailboxes!Renew,
        TwoMailboxes!Renewed, TwoMailboxes!Add, TwoMailboxes!Rename, TwoMailboxes!vars,
        TwoMailboxes!CredentialsMatch, Second!Link!LinkAssumption, Second!Link!Init,
        Second!Link!Absent, Second!Link!Idle, Second!Link!Next, Second!Link!Look,
        Second!Link!Matches, Second!Link!Live, Second!Link!Connect, Second!Link!Unused,
        Second!Link!Connected, Second!Link!Pure, Second!Link!Fail, Second!Link!Exchange,
        Second!Link!Disconnect, Second!Link!Delete, Second!Link!Renew, Second!Link!Renewed,
        Second!Link!Add, Second!Link!Rename, Second!Link!vars, Second!Link!CredentialsMatch

LEMMA TwoMailboxesMoves ==
  /\ Init /\ part = "two mailboxes" => Second!Link!Init
  /\ [Next]_vars => ((part = "two mailboxes")' <=> part = "two mailboxes")
  /\ [Next]_vars /\ part = "two mailboxes" => [Second!Link!Next]_(Second!Link!vars)
PROOF
  BY TwoMailboxesIs
    DEF Init, OfficeInit, ClientInit, BackgroundInit, Next, OfficeNext, ClientNext,
        BackgroundNext, vars, After4, TwoMailboxes!vars

LEMMA TwoMailboxesRuns ==
  Spec => \/ [](~(part = "two mailboxes"))
          \/ Second!Link!Spec /\ [](part = "two mailboxes")
PROOF BY TwoMailboxesMoves, PTL DEF Spec, Second!Link!Spec

-----------------------------------------------------------------------------

\* Sessions!NoSpuriousSignOut in both instances: requests of a tab that fail at once and tabs
\* that refresh one after the other keep the session; it is lost when it was ended, when an
\* answer was lost, or when two tabs traded one token at a time.
THEOREM NobodyIsSignedOutForNothing == Spec => NoSpuriousSignOut
PROOF
<1>1. Spec => [][part = "tabs" => TwoTabs!LeavesForReason]_vars
  BY TwoTabsIs, TwoTabsSteps, TwoTabsRuns, First!NobodyLeavesForNothing, PTL
    DEF Spec, First!NoSpuriousSignOut
<1>2. Spec => [][part = "tab" => OneTab!LeavesForReason]_vars
  BY OneTabIs, OneTabSteps, OneTabRuns, Second!NobodyLeavesForNothing, PTL
    DEF Spec, Second!NoSpuriousSignOut
<1>3. QED  BY <1>1, <1>2, PTL DEF NoSpuriousSignOut

\* Accounts!LastLinkWorks, ListedAsShown and RemovedHasNoAccess, and
\* MailboxLink!CredentialsMatch, in every instance: the link mailed last works, an account
\* is listed under its badge, a removed one has no mailbox, and a connected mailbox has the
\* tokens of its account, with the exceptions those definitions name (of the last: an answer
\* without a token or an address, a renewal that was overtaken, an address changed by hand).
THEOREM AccountsAlwaysAgree == Spec => []AccountsAgree
PROOF
<1>1. Spec => [](part = "person" => /\ Person!LastLinkWorks
                                    /\ Person!ListedAsShown
                                    /\ Person!RemovedHasNoAccess)
  BY PersonIs, PersonRuns, First!LinksWork, First!AccountsAreListed,
     First!RemovalTakesAccess, PTL
<1>2. Spec => [](part = "restarted" => /\ Restarted!LastLinkWorks
                                       /\ Restarted!ListedAsShown
                                       /\ Restarted!RemovedHasNoAccess)
  BY RestartedIs, RestartedRuns, Second!LinksWork, Second!AccountsAreListed,
     Second!RemovalTakesAccess, PTL
<1>3. Spec => [](part = "two callbacks" => TwoCallbacks!CredentialsMatch)
  BY TwoCallbacksIs, TwoCallbacksRuns, First!TokensMatch, PTL
<1>4. Spec => [](part = "two mailboxes" => TwoMailboxes!CredentialsMatch)
  BY TwoMailboxesIs, TwoMailboxesRuns, Second!TokensMatch, PTL
<1>5. QED  BY <1>1, <1>2, <1>3, <1>4, PTL DEF AccountsAgree

\* Accounts!InvitationSparesUsers in both instances: resending or revoking an invitation does
\* not sign out a person who has verified the account, unless that happened meanwhile.
THEOREM InvitationsSpareUsers == Spec => InvitationSparesUsers
PROOF
<1>1. Spec => [][part = "person" => Person!SparesUser]_vars
  BY PersonIs, PersonSteps, PersonRuns, First!VerifiedStaySignedIn, PTL
    DEF Spec, First!Account!InvitationSparesUsers
<1>2. Spec => [][part = "restarted" => Restarted!SparesUser]_vars
  BY RestartedIs, RestartedSteps, RestartedRuns, Second!VerifiedStaySignedIn, PTL
    DEF Spec, Second!Account!InvitationSparesUsers
<1>3. QED  BY <1>1, <1>2, PTL DEF InvitationSparesUsers

-----------------------------------------------------------------------------
\* The first of the instances of Notifications, Exports, Attachments and RateLimiter, and
\* the only one of Webhooks.
Late == INSTANCE ServicesProofs WITH
  quiet <- y1, dispatch <- y2, mailJob <- y3, pushJob <- y4, item <- y5, closed <- y6,
  digestRun <- y7, digestMails <- y8, owners <- y9, claim <- y10, faults <- y11,
  mailed <- y12, pushed <- y13, collected <- y14, overlapped <- y15,
  Notes <- {n1}, Digested <- {n1}, Devices <- {v1}, Accounts <- {a1, a2}, Me <- a1,
  DigestRuns <- {k1, k2}, Attempts <- 2, MaxFaults <- 1, MaxMails <- 4,
  active <- y1, failures <- y2, delivery <- y3, streak <- y4, concurrent <- y5,
  Events <- {e1, e2}, MaxAttempts <- 2, MaxFailures <- 4,
  status <- y1, artifact <- y2, count <- y3, runner <- y4, request <- y5,
  download <- y6, delivered <- y7, restarts <- y8,
  MaxJobs <- 3, Requests <- {r1, r2}, Downloads <- {g1}, Limit <- 1,
  MaxDownloads <- 1, MaxRestarts <- 1,
  enabled <- y1, infected <- y2, row <- y3, objects <- y4, upload <- y5,
  fetch <- y6, deletion <- y7, reboots <- y8, errors <- y9,
  Uploads <- {u1}, Direct <- {}, Fetches <- {g1, g2}, Deletions <- {x1},
  Storage <- "s3", FailOpen <- FALSE, OnDownload <- TRUE, MaxReboots <- 1,
  MaxErrors <- 2,
  now <- y1, bucket <- y2, call <- y3, heap <- y4, pressed <- y5, outcomes <- y6,
  fails <- y7, starts <- y8, grants <- y9, calm <- y10,
  Calls <- {r1, r2}, Mailboxes <- {b1}, Capacity <- 2, Interval <- 3, Spacing <- 1,
  Adaptive <- FALSE, Window <- 2, MaxDelay <- 1, MaxTime <- 6, MaxFails <- 2,
  MaxStarts <- 0

LEMMA DailyIs ==
  /\ Late!NotificationsAssumption
  /\ Daily!Init <=> Late!Init
  /\ [Daily!Next]_(Daily!vars) <=> [Late!Next]_(Late!vars)
  /\ Daily!CopiesBounded <=> Late!CopiesBounded
  /\ Daily!CollectedBounded <=> Late!CollectedBounded
  /\ Daily!OneOwner <=> Late!OneOwner
PROOF
  BY InstancesAreFit
    DEF Daily!NotificationsAssumption, Daily!Init, Daily!NoMail, Daily!NoPush, Daily!Idle,
        Daily!Next, Daily!QuietHours, Daily!queues, Daily!digest, Daily!push, Daily!history,
        Daily!SendDigest, Daily!Recipients, Daily!Create, Daily!Go, Daily!PassMail,
        Daily!NewMail, Daily!PassPush, Daily!NewPush, Daily!DispatchFails, Daily!Fault,
        Daily!SendMail, Daily!Again, Daily!Ended, Daily!MailSent, Daily!StallMail,
        Daily!LastRun, Daily!HandedOut, Daily!GhostMails, Daily!ReadDevices, Daily!PushDone,
        Daily!StallPush, Daily!WindowEnds, Daily!Push, Daily!Serve, Daily!Served,
        Daily!GhostPushes, Daily!GhostServed, Daily!DigestStep, Daily!ReadItems,
        Daily!QueueDigest, Daily!MarkItems, Daily!Mark, Daily!DigestFails, Daily!Register,
        Daily!Claim, Daily!Revoke, Daily!vars, Daily!CopiesBounded, Daily!CollectedBounded,
        Daily!OneOwner, Daily!Cardinality, Daily!IsFiniteSet, Late!NotificationsAssumption,
        Late!Init, Late!NoMail, Late!NoPush, Late!Idle, Late!Next, Late!QuietHours,
        Late!queues, Late!digest, Late!push, Late!history, Late!SendDigest, Late!Recipients,
        Late!Create, Late!Go, Late!PassMail, Late!NewMail, Late!PassPush, Late!NewPush,
        Late!DispatchFails, Late!Fault, Late!SendMail, Late!Again, Late!Ended,
        Late!MailSent, Late!StallMail, Late!LastRun, Late!HandedOut, Late!GhostMails,
        Late!ReadDevices, Late!PushDone, Late!StallPush, Late!WindowEnds, Late!Push,
        Late!Serve, Late!Served, Late!GhostPushes, Late!GhostServed, Late!DigestStep,
        Late!ReadItems, Late!QueueDigest, Late!MarkItems, Late!Mark, Late!DigestFails,
        Late!Register, Late!Claim, Late!Revoke, Late!vars, Late!CopiesBounded,
        Late!CollectedBounded, Late!OneOwner, Late!Cardinality, Late!IsFiniteSet

LEMMA DailyMoves ==
  /\ Init /\ part = "daily" => Late!Init
  /\ [Next]_vars => ((part = "daily")' <=> part = "daily")
  /\ [Next]_vars /\ part = "daily" => [Late!Next]_(Late!vars)
PROOF
  BY DailyIs
    DEF Init, OfficeInit, ClientInit, BackgroundInit, Next, OfficeNext, ClientNext,
        BackgroundNext, vars, Daily!vars, Daily!queues, Daily!digest, Daily!push,
        Daily!history

LEMMA DailyRuns ==
  Spec => \/ [](~(part = "daily"))
          \/ Late!Spec /\ [](part = "daily")
PROOF BY DailyMoves, PTL DEF Spec, Late!Spec

LEMMA HookIs ==
  /\ Late!Hook!WebhooksAssumption
  /\ Hook!Init <=> Late!Hook!Init
  /\ [Hook!Next]_(Hook!vars) <=> [Late!Hook!Next]_(Late!Hook!vars)
  /\ Hook!CountIsStreak <=> Late!Hook!CountIsStreak
PROOF
  BY InstancesAreFit
    DEF Hook!WebhooksAssumption, Hook!Init, Hook!Idle, Hook!Next, Hook!Dispatch, Hook!Post,
        Hook!CountReset, Hook!CountFailure, Hook!Allowed, Hook!Restart, Hook!Update,
        Hook!vars, Hook!CountIsStreak, Late!Hook!WebhooksAssumption, Late!Hook!Init,
        Late!Hook!Idle, Late!Hook!Next, Late!Hook!Dispatch, Late!Hook!Post,
        Late!Hook!CountReset, Late!Hook!CountFailure, Late!Hook!Allowed, Late!Hook!Restart,
        Late!Hook!Update, Late!Hook!vars, Late!Hook!CountIsStreak

LEMMA HookMoves ==
  /\ Init /\ part = "hook" => Late!Hook!Init
  /\ [Next]_vars => ((part = "hook")' <=> part = "hook")
  /\ [Next]_vars /\ part = "hook" => [Late!Hook!Next]_(Late!Hook!vars)
PROOF
  BY HookIs
    DEF Init, OfficeInit, ClientInit, BackgroundInit, Next, OfficeNext, ClientNext,
        BackgroundNext, vars, After5, Hook!vars

LEMMA HookRuns ==
  Spec => \/ [](~(part = "hook"))
          \/ Late!Hook!Spec /\ [](part = "hook")
PROOF BY HookMoves, PTL DEF Spec, Late!Hook!Spec

LEMMA ExportingIs ==
  /\ Late!Export!ExportsAssumption
  /\ Exporting!Init <=> Late!Export!Init
  /\ [Exporting!Next]_(Exporting!vars) <=> [Late!Export!Next]_(Late!Export!vars)
  /\ Exporting!LimitOverrun <=> Late!Export!LimitOverrun
  /\ Exporting!ActiveHasRun <=> Late!Export!ActiveHasRun
  /\ Exporting!DownloadsCounted <=> Late!Export!DownloadsCounted
PROOF
  BY InstancesAreFit
    DEF Exporting!ExportsAssumption, Exporting!Init, Exporting!Jobs, Exporting!Idle,
        Exporting!Next, Exporting!Count, Exporting!BelowLimit, Exporting!Active,
        Exporting!Create, Exporting!Start, Exporting!Finish, Exporting!Check,
        Exporting!Reserve, Exporting!Look, Exporting!Stream, Exporting!Rollback,
        Exporting!Restart, Exporting!vars, Exporting!LimitOverrun, Exporting!ActiveHasRun,
        Exporting!DownloadsCounted, Exporting!Cardinality, Exporting!IsFiniteSet,
        Late!Export!ExportsAssumption, Late!Export!Init, Late!Export!Jobs, Late!Export!Idle,
        Late!Export!Next, Late!Export!Count, Late!Export!BelowLimit, Late!Export!Active,
        Late!Export!Create, Late!Export!Start, Late!Export!Finish, Late!Export!Check,
        Late!Export!Reserve, Late!Export!Look, Late!Export!Stream, Late!Export!Rollback,
        Late!Export!Restart, Late!Export!vars, Late!Export!LimitOverrun,
        Late!Export!ActiveHasRun, Late!Export!DownloadsCounted, Late!Export!Cardinality,
        Late!Export!IsFiniteSet

LEMMA ExportingMoves ==
  /\ Init /\ part = "exporting" => Late!Export!Init
  /\ [Next]_vars => ((part = "exporting")' <=> part = "exporting")
  /\ [Next]_vars /\ part = "exporting" => [Late!Export!Next]_(Late!Export!vars)
PROOF
  BY ExportingIs
    DEF Init, OfficeInit, ClientInit, BackgroundInit, Next, OfficeNext, ClientNext,
        BackgroundNext, vars, After8, Exporting!vars

LEMMA ExportingRuns ==
  Spec => \/ [](~(part = "exporting"))
          \/ Late!Export!Spec /\ [](part = "exporting")
PROOF BY ExportingMoves, PTL DEF Spec, Late!Export!Spec

LEMMA PresignedIs ==
  /\ Late!File!AttachmentsAssumption
  /\ Presigned!Init <=> Late!File!Init
  /\ [Presigned!Next]_(Presigned!vars) <=> [Late!File!Next]_(Late!File!vars)
  /\ Presigned!RowHasObject <=> Late!File!RowHasObject
  /\ Presigned!PendingHasUpload <=> Late!File!PendingHasUpload
  /\ [Presigned!VerdictHolds]_(Presigned!vars) <=> [Late!File!VerdictHolds]_(Late!File!vars)
PROOF
  BY InstancesAreFit
    DEF Presigned!AttachmentsAssumption, Presigned!Init, Presigned!NoRow, Presigned!Idle,
        Presigned!Next, Presigned!Put, Presigned!Go, Presigned!StoreUnscanned,
        Presigned!Arrived, Presigned!Stores, Presigned!Present, Presigned!Source,
        Presigned!Stored, Presigned!CreateUnscanned, Presigned!Result, Presigned!InUse,
        Presigned!CreatePending, Presigned!ScanUpload, Presigned!Verdict,
        Presigned!StoreUpload, Presigned!StatusOf, Presigned!WriteUpload, Presigned!Update,
        Presigned!Download, Presigned!ReadForDelete, Presigned!ScanDownload,
        Presigned!Quarantine, Presigned!WriteDownload, Presigned!Serve,
        Presigned!DeleteObject, Presigned!DeleteRow, Presigned!Restart, Presigned!vars,
        Presigned!RowHasObject, Presigned!BeingDeleted, Presigned!PendingHasUpload,
        Presigned!VerdictHolds, Late!File!AttachmentsAssumption, Late!File!Init,
        Late!File!NoRow, Late!File!Idle, Late!File!Next, Late!File!Put, Late!File!Go,
        Late!File!StoreUnscanned, Late!File!Arrived, Late!File!Stores, Late!File!Present,
        Late!File!Source, Late!File!Stored, Late!File!CreateUnscanned, Late!File!Result,
        Late!File!InUse, Late!File!CreatePending, Late!File!ScanUpload, Late!File!Verdict,
        Late!File!StoreUpload, Late!File!StatusOf, Late!File!WriteUpload, Late!File!Update,
        Late!File!Download, Late!File!ReadForDelete, Late!File!ScanDownload,
        Late!File!Quarantine, Late!File!WriteDownload, Late!File!Serve,
        Late!File!DeleteObject, Late!File!DeleteRow, Late!File!Restart, Late!File!vars,
        Late!File!RowHasObject, Late!File!BeingDeleted, Late!File!PendingHasUpload,
        Late!File!VerdictHolds

LEMMA PresignedMoves ==
  /\ Init /\ part = "presigned" => Late!File!Init
  /\ [Next]_vars => ((part = "presigned")' <=> part = "presigned")
  /\ [Next]_vars /\ part = "presigned" => [Late!File!Next]_(Late!File!vars)
PROOF
  BY PresignedIs, ZenonT(30)
    DEF Init, OfficeInit, ClientInit, BackgroundInit, Next, OfficeNext, ClientNext,
        BackgroundNext, vars, After9, Presigned!vars

LEMMA PresignedSteps ==
  /\ [Next]_vars /\ part = "presigned" /\ [Late!File!VerdictHolds]_(Late!File!vars)
       => [Presigned!VerdictHolds]_vars
PROOF
  BY PresignedIs, ZenonT(30)
    DEF Next, OfficeNext, ClientNext, BackgroundNext, vars, After9, Presigned!vars

LEMMA PresignedRuns ==
  Spec => \/ [](~(part = "presigned"))
          \/ Late!File!Spec /\ [](part = "presigned")
PROOF BY PresignedMoves, PTL DEF Spec, Late!File!Spec

LEMMA SharedIs ==
  /\ Late!Pace!LimiterAssumption
  /\ Shared!Init <=> Late!Pace!Init
  /\ [Shared!Next]_(Shared!vars) <=> [Late!Pace!Next]_(Late!Pace!vars)
  /\ Shared!GrantsBounded <=> Late!Pace!GrantsBounded
  /\ Shared!SlowedByOwnFailures <=> Late!Pace!SlowedByOwnFailures
PROOF
  BY InstancesAreFit
    DEF BackgroundFits, Shared!LimiterAssumption, Shared!Init, Shared!Full, Shared!Idle,
        Shared!Next, Shared!Tick, Shared!Restart, Shared!Heaps, Shared!UseMemory,
        Shared!Proceed, Shared!Acquire, Shared!Filled, Shared!Least, Shared!Most,
        Shared!Begin, Shared!Delays, Shared!Pressed, Shared!Slowed, Shared!Score,
        Shared!Failures, Shared!Record, Shared!Trim, Shared!vars, Shared!GrantsBounded,
        Shared!SlowedByOwnFailures, Late!Pace!LimiterAssumption, Late!Pace!Init,
        Late!Pace!Full, Late!Pace!Idle, Late!Pace!Next, Late!Pace!Tick, Late!Pace!Restart,
        Late!Pace!Heaps, Late!Pace!UseMemory, Late!Pace!Proceed, Late!Pace!Acquire,
        Late!Pace!Filled, Late!Pace!Least, Late!Pace!Most, Late!Pace!Begin,
        Late!Pace!Delays, Late!Pace!Pressed, Late!Pace!Slowed, Late!Pace!Score,
        Late!Pace!Failures, Late!Pace!Record, Late!Pace!Trim, Late!Pace!vars,
        Late!Pace!GrantsBounded, Late!Pace!SlowedByOwnFailures

LEMMA SharedMoves ==
  /\ Init /\ part = "shared" => Late!Pace!Init
  /\ [Next]_vars => ((part = "shared")' <=> part = "shared")
  /\ [Next]_vars /\ part = "shared" => [Late!Pace!Next]_(Late!Pace!vars)
PROOF
  BY SharedIs
    DEF Init, OfficeInit, ClientInit, BackgroundInit, Next, OfficeNext, ClientNext,
        BackgroundNext, vars, After10, Shared!vars

LEMMA SharedRuns ==
  Spec => \/ [](~(part = "shared"))
          \/ Late!Pace!Spec /\ [](part = "shared")
PROOF BY SharedMoves, PTL DEF Spec, Late!Pace!Spec

-----------------------------------------------------------------------------
\* The second.
Early == INSTANCE ServicesProofs WITH
  quiet <- y1, dispatch <- y2, mailJob <- y3, pushJob <- y4, item <- y5, closed <- y6,
  digestRun <- y7, digestMails <- y8, owners <- y9, claim <- y10, faults <- y11,
  mailed <- y12, pushed <- y13, collected <- y14, overlapped <- y15,
  Notes <- {n1}, Digested <- {}, Devices <- {v1, v2}, Accounts <- {a1}, Me <- a1,
  DigestRuns <- {k1}, Attempts <- 2, MaxFaults <- 3, MaxMails <- 4,
  active <- y1, failures <- y2, delivery <- y3, streak <- y4, concurrent <- y5,
  Events <- {e1, e2}, MaxAttempts <- 2, MaxFailures <- 4,
  status <- y1, artifact <- y2, count <- y3, runner <- y4, request <- y5,
  download <- y6, delivered <- y7, restarts <- y8,
  MaxJobs <- 2, Requests <- {r1}, Downloads <- {g1, g2}, Limit <- 1,
  MaxDownloads <- 2, MaxRestarts <- 1,
  enabled <- y1, infected <- y2, row <- y3, objects <- y4, upload <- y5,
  fetch <- y6, deletion <- y7, reboots <- y8, errors <- y9,
  Uploads <- {u1}, Direct <- {u1}, Fetches <- {g1, g2}, Deletions <- {x1},
  Storage <- "local", FailOpen <- TRUE, OnDownload <- TRUE, MaxReboots <- 1,
  MaxErrors <- 1,
  now <- y1, bucket <- y2, call <- y3, heap <- y4, pressed <- y5, outcomes <- y6,
  fails <- y7, starts <- y8, grants <- y9, calm <- y10,
  Calls <- {r1}, Mailboxes <- {b1, b2}, Capacity <- 1, Interval <- 2, Spacing <- 1,
  Adaptive <- TRUE, Window <- 2, MaxDelay <- 1, MaxTime <- 1, MaxFails <- 2,
  MaxStarts <- 1

LEMMA AtOnceIs ==
  /\ Early!NotificationsAssumption
  /\ AtOnce!Init <=> Early!Init
  /\ [AtOnce!Next]_(AtOnce!vars) <=> [Early!Next]_(Early!vars)
  /\ AtOnce!CopiesBounded <=> Early!CopiesBounded
PROOF
<1>1. Early!NotificationsAssumption
  BY InstancesAreFit
    DEF AtOnce!NotificationsAssumption, AtOnce!IsFiniteSet, Early!NotificationsAssumption,
        Early!IsFiniteSet
<1>2. AtOnce!Init <=> Early!Init
  BY DEF AtOnce!Init, AtOnce!NoMail, AtOnce!NoPush, AtOnce!Idle, Early!Init, Early!NoMail,
         Early!NoPush, Early!Idle
<1>3. [AtOnce!Next]_(AtOnce!vars) <=> [Early!Next]_(Early!vars)
  BY DEF AtOnce!Next, AtOnce!QuietHours, AtOnce!queues, AtOnce!digest, AtOnce!push,
         AtOnce!history, AtOnce!SendDigest, AtOnce!Recipients, AtOnce!Create, AtOnce!Go,
         AtOnce!PassMail, AtOnce!NoMail, AtOnce!NewMail, AtOnce!PassPush, AtOnce!NoPush,
         AtOnce!NewPush, AtOnce!DispatchFails, AtOnce!Fault, AtOnce!SendMail, AtOnce!Again,
         AtOnce!Ended, AtOnce!MailSent, AtOnce!StallMail, AtOnce!LastRun, AtOnce!HandedOut,
         AtOnce!GhostMails, AtOnce!ReadDevices, AtOnce!PushDone, AtOnce!StallPush,
         AtOnce!WindowEnds, AtOnce!Push, AtOnce!Serve, AtOnce!Served, AtOnce!GhostPushes,
         AtOnce!GhostServed, AtOnce!DigestStep, AtOnce!ReadItems, AtOnce!QueueDigest,
         AtOnce!MarkItems, AtOnce!Mark, AtOnce!Idle, AtOnce!DigestFails, AtOnce!Register,
         AtOnce!Claim, AtOnce!Revoke, AtOnce!vars, AtOnce!Cardinality, Early!Next,
         Early!QuietHours, Early!queues, Early!digest, Early!push, Early!history,
         Early!SendDigest, Early!Recipients, Early!Create, Early!Go, Early!PassMail,
         Early!NoMail, Early!NewMail, Early!PassPush, Early!NoPush, Early!NewPush,
         Early!DispatchFails, Early!Fault, Early!SendMail, Early!Again, Early!Ended,
         Early!MailSent, Early!StallMail, Early!LastRun, Early!HandedOut, Early!GhostMails,
         Early!ReadDevices, Early!PushDone, Early!StallPush, Early!WindowEnds, Early!Push,
         Early!Serve, Early!Served, Early!GhostPushes, Early!GhostServed, Early!DigestStep,
         Early!ReadItems, Early!QueueDigest, Early!MarkItems, Early!Mark, Early!Idle,
         Early!DigestFails, Early!Register, Early!Claim, Early!Revoke, Early!vars,
         Early!Cardinality
<1>4. AtOnce!CopiesBounded <=> Early!CopiesBounded
  BY DEF AtOnce!CopiesBounded, Early!CopiesBounded
<1>5. QED  BY <1>1, <1>2, <1>3, <1>4

LEMMA AtOnceMoves ==
  /\ Init /\ part = "urgent" => Early!Init
  /\ [Next]_vars => ((part = "urgent")' <=> part = "urgent")
  /\ [Next]_vars /\ part = "urgent" => [Early!Next]_(Early!vars)
PROOF
  BY AtOnceIs
    DEF Init, OfficeInit, ClientInit, BackgroundInit, Next, OfficeNext, ClientNext,
        BackgroundNext, vars, AtOnce!vars, AtOnce!queues, AtOnce!digest, AtOnce!push,
        AtOnce!history

LEMMA AtOnceRuns ==
  Spec => \/ [](~(part = "urgent"))
          \/ Early!Spec /\ [](part = "urgent")
PROOF BY AtOnceMoves, PTL DEF Spec, Early!Spec

LEMMA FetchingIs ==
  /\ Early!Export!ExportsAssumption
  /\ Fetching!Init <=> Early!Export!Init
  /\ [Fetching!Next]_(Fetching!vars) <=> [Early!Export!Next]_(Early!Export!vars)
  /\ Fetching!LimitOverrun <=> Early!Export!LimitOverrun
  /\ Fetching!ActiveHasRun <=> Early!Export!ActiveHasRun
  /\ Fetching!DownloadsCounted <=> Early!Export!DownloadsCounted
PROOF
  BY InstancesAreFit
    DEF Fetching!ExportsAssumption, Fetching!Init, Fetching!Jobs, Fetching!Idle,
        Fetching!Next, Fetching!Count, Fetching!BelowLimit, Fetching!Active,
        Fetching!Create, Fetching!Start, Fetching!Finish, Fetching!Check, Fetching!Reserve,
        Fetching!Look, Fetching!Stream, Fetching!Rollback, Fetching!Restart, Fetching!vars,
        Fetching!LimitOverrun, Fetching!ActiveHasRun, Fetching!DownloadsCounted,
        Fetching!Cardinality, Fetching!IsFiniteSet, Early!Export!ExportsAssumption,
        Early!Export!Init, Early!Export!Jobs, Early!Export!Idle, Early!Export!Next,
        Early!Export!Count, Early!Export!BelowLimit, Early!Export!Active,
        Early!Export!Create, Early!Export!Start, Early!Export!Finish, Early!Export!Check,
        Early!Export!Reserve, Early!Export!Look, Early!Export!Stream, Early!Export!Rollback,
        Early!Export!Restart, Early!Export!vars, Early!Export!LimitOverrun,
        Early!Export!ActiveHasRun, Early!Export!DownloadsCounted, Early!Export!Cardinality,
        Early!Export!IsFiniteSet

LEMMA FetchingMoves ==
  /\ Init /\ part = "fetching" => Early!Export!Init
  /\ [Next]_vars => ((part = "fetching")' <=> part = "fetching")
  /\ [Next]_vars /\ part = "fetching" => [Early!Export!Next]_(Early!Export!vars)
PROOF
  BY FetchingIs
    DEF Init, OfficeInit, ClientInit, BackgroundInit, Next, OfficeNext, ClientNext,
        BackgroundNext, vars, After8, Fetching!vars

LEMMA FetchingRuns ==
  Spec => \/ [](~(part = "fetching"))
          \/ Early!Export!Spec /\ [](part = "fetching")
PROOF BY FetchingMoves, PTL DEF Spec, Early!Export!Spec

LEMMA ThroughIs ==
  /\ Early!File!AttachmentsAssumption
  /\ Through!Init <=> Early!File!Init
  /\ [Through!Next]_(Through!vars) <=> [Early!File!Next]_(Early!File!vars)
  /\ Through!RowHasObject <=> Early!File!RowHasObject
  /\ Through!PendingHasUpload <=> Early!File!PendingHasUpload
  /\ [Through!VerdictHolds]_(Through!vars) <=> [Early!File!VerdictHolds]_(Early!File!vars)
PROOF
  BY InstancesAreFit
    DEF Through!AttachmentsAssumption, Through!Init, Through!NoRow, Through!Idle,
        Through!Next, Through!Put, Through!Go, Through!StoreUnscanned, Through!Arrived,
        Through!Stores, Through!Present, Through!Source, Through!Stored,
        Through!CreateUnscanned, Through!Result, Through!InUse, Through!CreatePending,
        Through!ScanUpload, Through!Verdict, Through!StoreUpload, Through!StatusOf,
        Through!WriteUpload, Through!Update, Through!Download, Through!ReadForDelete,
        Through!ScanDownload, Through!Quarantine, Through!WriteDownload, Through!Serve,
        Through!DeleteObject, Through!DeleteRow, Through!Restart, Through!vars,
        Through!RowHasObject, Through!BeingDeleted, Through!PendingHasUpload,
        Through!VerdictHolds, Early!File!AttachmentsAssumption, Early!File!Init,
        Early!File!NoRow, Early!File!Idle, Early!File!Next, Early!File!Put, Early!File!Go,
        Early!File!StoreUnscanned, Early!File!Arrived, Early!File!Stores,
        Early!File!Present, Early!File!Source, Early!File!Stored,
        Early!File!CreateUnscanned, Early!File!Result, Early!File!InUse,
        Early!File!CreatePending, Early!File!ScanUpload, Early!File!Verdict,
        Early!File!StoreUpload, Early!File!StatusOf, Early!File!WriteUpload,
        Early!File!Update, Early!File!Download, Early!File!ReadForDelete,
        Early!File!ScanDownload, Early!File!Quarantine, Early!File!WriteDownload,
        Early!File!Serve, Early!File!DeleteObject, Early!File!DeleteRow, Early!File!Restart,
        Early!File!vars, Early!File!RowHasObject, Early!File!BeingDeleted,
        Early!File!PendingHasUpload, Early!File!VerdictHolds

LEMMA ThroughMoves ==
  /\ Init /\ part = "through" => Early!File!Init
  /\ [Next]_vars => ((part = "through")' <=> part = "through")
  /\ [Next]_vars /\ part = "through" => [Early!File!Next]_(Early!File!vars)
PROOF
  BY ThroughIs, ZenonT(30)
    DEF Init, OfficeInit, ClientInit, BackgroundInit, Next, OfficeNext, ClientNext,
        BackgroundNext, vars, After9, Through!vars

LEMMA ThroughSteps ==
  /\ [Next]_vars /\ part = "through" /\ [Early!File!VerdictHolds]_(Early!File!vars)
       => [Through!VerdictHolds]_vars
PROOF
  BY ThroughIs, ZenonT(30)
    DEF Next, OfficeNext, ClientNext, BackgroundNext, vars, After9, Through!vars

LEMMA ThroughRuns ==
  Spec => \/ [](~(part = "through"))
          \/ Early!File!Spec /\ [](part = "through")
PROOF BY ThroughMoves, PTL DEF Spec, Early!File!Spec

LEMMA SlowedIs ==
  /\ Early!Pace!LimiterAssumption
  /\ Slowed!Init <=> Early!Pace!Init
  /\ [Slowed!Next]_(Slowed!vars) <=> [Early!Pace!Next]_(Early!Pace!vars)
  /\ Slowed!GrantsBounded <=> Early!Pace!GrantsBounded
  /\ Slowed!SlowedByOwnFailures <=> Early!Pace!SlowedByOwnFailures
PROOF
  BY InstancesAreFit
    DEF BackgroundFits, Slowed!LimiterAssumption, Slowed!Init, Slowed!Full, Slowed!Idle,
        Slowed!Next, Slowed!Tick, Slowed!Restart, Slowed!Heaps, Slowed!UseMemory,
        Slowed!Proceed, Slowed!Acquire, Slowed!Filled, Slowed!Least, Slowed!Most,
        Slowed!Begin, Slowed!Delays, Slowed!Pressed, Slowed!Slowed, Slowed!Score,
        Slowed!Failures, Slowed!Record, Slowed!Trim, Slowed!vars, Slowed!GrantsBounded,
        Slowed!SlowedByOwnFailures, Early!Pace!LimiterAssumption, Early!Pace!Init,
        Early!Pace!Full, Early!Pace!Idle, Early!Pace!Next, Early!Pace!Tick,
        Early!Pace!Restart, Early!Pace!Heaps, Early!Pace!UseMemory, Early!Pace!Proceed,
        Early!Pace!Acquire, Early!Pace!Filled, Early!Pace!Least, Early!Pace!Most,
        Early!Pace!Begin, Early!Pace!Delays, Early!Pace!Pressed, Early!Pace!Slowed,
        Early!Pace!Score, Early!Pace!Failures, Early!Pace!Record, Early!Pace!Trim,
        Early!Pace!vars, Early!Pace!GrantsBounded, Early!Pace!SlowedByOwnFailures

LEMMA SlowedMoves ==
  /\ Init /\ part = "slowed" => Early!Pace!Init
  /\ [Next]_vars => ((part = "slowed")' <=> part = "slowed")
  /\ [Next]_vars /\ part = "slowed" => [Early!Pace!Next]_(Early!Pace!vars)
PROOF
  BY SlowedIs
    DEF Init, OfficeInit, ClientInit, BackgroundInit, Next, OfficeNext, ClientNext,
        BackgroundNext, vars, After10, Slowed!vars

LEMMA SlowedRuns ==
  Spec => \/ [](~(part = "slowed"))
          \/ Early!Pace!Spec /\ [](part = "slowed")
PROOF BY SlowedMoves, PTL DEF Spec, Early!Pace!Spec

-----------------------------------------------------------------------------

\* Notifications!CopiesBounded, CollectedBounded and OneOwner: a mail goes out once and
\* once more for every fault, and no more often than its job has attempts and once more for a
\* stall; an item is collected once per digest run that read it before
\* it was marked, and a device has one account, unless two registered it at a time.
THEOREM NotesGoOutOnce == Spec => []NotifiedOnce
PROOF
<1>1. Spec => [](part = "daily" => /\ Daily!CopiesBounded
                                   /\ Daily!CollectedBounded
                                   /\ Daily!OneOwner)
  BY DailyIs, DailyRuns, Late!CopiesAreFew, Late!ItemsAreCollectedOnce,
     Late!DevicesHaveOneOwner, PTL
<1>2. Spec => [](part = "urgent" => AtOnce!CopiesBounded)
  BY AtOnceIs, AtOnceRuns, Early!CopiesAreFew, PTL
<1>3. QED  BY <1>1, <1>2, PTL DEF NotifiedOnce

\* Webhooks!CountIsStreak: as long as deliveries do not overlap, failureCount is the number
\* of events in a row that could not be delivered.
THEOREM TheCountIsTheStreak == Spec => []CountIsStreak
PROOF
<1>1. Spec => [](part = "hook" => Hook!CountIsStreak)
  BY HookIs, HookRuns, Late!CountsAreStreaks, PTL
<1>2. QED  BY <1>1, PTL DEF CountIsStreak

\* Exports!LimitOverrun, ActiveHasRun and DownloadsCounted, and RateLimiter!GrantsBounded
\* and SlowedByOwnFailures, in every instance: requests that count at the same time overrun
\* the limit by no more than they are, a job under way has its run unless the backend was
\* restarted, no file is delivered more often than allowed, and of one run of the backend a
\* provider gets no more requests than the bucket and the mailbox's own failures allow.
THEOREM LimitsHold == Spec => []LimitHolds
PROOF
<1>1. Spec => [](part = "exporting" => /\ Exporting!LimitOverrun
                                       /\ Exporting!ActiveHasRun
                                       /\ Exporting!DownloadsCounted)
  BY ExportingIs, ExportingRuns, Late!LimitIsOverrunByRequests, Late!ActiveJobsHaveRuns,
     Late!DownloadsAreCounted, PTL
<1>2. Spec => [](part = "fetching" => /\ Fetching!LimitOverrun
                                      /\ Fetching!ActiveHasRun
                                      /\ Fetching!DownloadsCounted)
  BY FetchingIs, FetchingRuns, Early!LimitIsOverrunByRequests, Early!ActiveJobsHaveRuns,
     Early!DownloadsAreCounted, PTL
<1>3. Spec => [](part = "shared" => Shared!GrantsBounded /\ Shared!SlowedByOwnFailures)
  BY SharedIs, SharedRuns, Late!RequestsArePaced, Late!OwnFailuresSlow, PTL
<1>4. Spec => [](part = "slowed" => Slowed!GrantsBounded /\ Slowed!SlowedByOwnFailures)
  BY SlowedIs, SlowedRuns, Early!RequestsArePaced, Early!OwnFailuresSlow, PTL
<1>5. QED  BY <1>1, <1>2, <1>3, <1>4, PTL DEF LimitHolds, LimiterHolds

\* Attachments!RowHasObject and PendingHasUpload in both instances the run checks: a row
\* whose file may be served names an object that exists, unless a deletion took it first
\* or it is on its way to quarantine, and a PENDING row has the upload that will write its
\* verdict, unless the backend was restarted under it.
THEOREM StoresAlwaysAgree == Spec => []StoresAgree
PROOF
<1>1. Spec => [](part = "presigned" => Presigned!RowHasObject /\ Presigned!PendingHasUpload)
  BY PresignedIs, PresignedRuns, Late!RowsHaveObjects, Late!PendingRowsHaveUploads, PTL
<1>2. Spec => [](part = "through" => Through!RowHasObject /\ Through!PendingHasUpload)
  BY ThroughIs, ThroughRuns, Early!RowsHaveObjects, Early!PendingRowsHaveUploads, PTL
<1>3. QED  BY <1>1, <1>2, PTL DEF StoresAgree

\* Attachments!VerdictStays in both instances: a file found infected is not taken back into
\* use by a request that read the row before, unless scanner errors count as clean.
THEOREM VerdictsStay == Spec => VerdictStays
PROOF
<1>1. Spec => [][part = "presigned" => Presigned!VerdictHolds]_vars
  BY PresignedIs, PresignedSteps, PresignedRuns, Late!InfectedRowsStay, PTL
    DEF Spec, Late!File!VerdictStays
<1>2. Spec => [][part = "through" => Through!VerdictHolds]_vars
  BY ThroughIs, ThroughSteps, ThroughRuns, Early!InfectedRowsStay, PTL
    DEF Spec, Early!File!VerdictStays
<1>3. QED  BY <1>1, <1>2, PTL DEF VerdictStays
=============================================================================
