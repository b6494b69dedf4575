------------------------------ MODULE MCOffice ------------------------------
(***************************************************************************)
(* Instances of what an organisation keeps besides mail, as further parts   *)
(* of MCServices: accounts of people, events of calendars with their guests, *)
(* and the accounts its mailboxes are connected to.                          *)
(***************************************************************************)
EXTENDS MCParts

CONSTANTS r1, r2, e1, e2, o1, o2, s1, s2, a1, a2, b1, b2, c1, c2, g1, g2, None

\* Two requests about one person; one, and a restart.
Person == INSTANCE Accounts WITH
  user <- y1, access <- y2, kind <- y3, op <- y4, restarts <- y5, stale <- y6,
  fate <- y7, odd <- y8, kept <- y9,
  Requests <- {r1, r2}, MaxLinks <- 2, MaxRestarts <- 0
Restarted == INSTANCE Accounts WITH
  user <- y1, access <- y2, kind <- y3, op <- y4, restarts <- y5, stale <- y6,
  fate <- y7, odd <- y8, kept <- y9,
  Requests <- {r1}, MaxLinks <- 3, MaxRestarts <- 1

\* A run beside requests that push; two runs at once, and two events, of a calendar
\* that is only pulled; and one or two runs of a calendar whose ids are the rows' own.
Google == INSTANCE CalendarSync WITH
  rows <- y1, objects <- y2, shown <- y3, sync <- y4, push <- y5, raced <- y6,
  late <- y7, made <- y8,
  Rows <- {e1, e2}, Objects <- {o1}, Syncs <- {s1}, Provider <- "google",
  Forms <- {"plain", "garbled"}, MaxStamp <- 2
TwoRuns == INSTANCE CalendarSync WITH
  rows <- y1, objects <- y2, shown <- y3, sync <- y4, push <- y5, raced <- y6,
  late <- y7, made <- y8,
  Rows <- {e1, e2}, Objects <- {o1}, Syncs <- {s1, s2}, Provider <- "microsoft",
  Forms <- {"plain"}, MaxStamp <- 1
TwoEvents == INSTANCE CalendarSync WITH
  rows <- y1, objects <- y2, shown <- y3, sync <- y4, push <- y5, raced <- y6,
  late <- y7, made <- y8,
  Rows <- {e1, e2}, Objects <- {o1, o2}, Syncs <- {s1}, Provider <- "microsoft",
  Forms <- {"plain"}, MaxStamp <- 1
CalDav == INSTANCE CalendarSync WITH
  rows <- y1, objects <- y2, shown <- y3, sync <- y4, push <- y5, raced <- y6,
  late <- y7, made <- y8,
  Rows <- {e1}, Objects <- {e1, o1}, Syncs <- {s1}, Provider <- "caldav",
  Forms <- {"plain", "cancelled", "garbled"}, MaxStamp <- 1
CalDavTwice == INSTANCE CalendarSync WITH
  rows <- y1, objects <- y2, shown <- y3, sync <- y4, push <- y5, raced <- y6,
  late <- y7, made <- y8,
  Rows <- {e1}, Objects <- {e1}, Syncs <- {s1, s2}, Provider <- "caldav",
  Forms <- {"plain", "cancelled", "garbled"}, MaxStamp <- 2

\* Two callbacks about two accounts and one mailbox; one, about one and two.
TwoCallbacks == INSTANCE MailboxLink WITH
  mailbox <- y1, callback <- y2, renewal <- y3, mixed <- y4,
  Accounts <- {a1, a2}, Mailboxes <- {b1}, Callbacks <- {c1, c2}
TwoMailboxes == INSTANCE MailboxLink WITH
  mailbox <- y1, callback <- y2, renewal <- y3, mixed <- y4,
  Accounts <- {a1}, Mailboxes <- {b1, b2}, Callbacks <- {c1}

\* Two requests about a guest who may answer either way; one about two guests and a
\* meeting link; and three about a guest who is listed in several ways.
Guest == INSTANCE Invitations WITH
  event <- y1, row <- y2, request <- y3, mailed <- y4, answer <- y5, wiped <- y6,
  unlisted <- y7, raced <- y8,
  Guests <- {g1}, Answers <- {"accepted", "declined"}, Requests <- {r1, r2},
  Operations <- {"create", "update", "invite", "remove", "rsvp", "ingest", "sync"},
  Provider <- "caldav", Meet <- FALSE, MaxRows <- 4
Linked == INSTANCE Invitations WITH
  event <- y1, row <- y2, request <- y3, mailed <- y4, answer <- y5, wiped <- y6,
  unlisted <- y7, raced <- y8,
  Guests <- {g1, g2}, Answers <- {"accepted"}, Requests <- {r1},
  Operations <- {"create", "update", "invite", "remove", "rsvp", "ingest"},
  Provider <- "google", Meet <- TRUE, MaxRows <- 3
Crowded == INSTANCE Invitations WITH
  event <- y1, row <- y2, request <- y3, mailed <- y4, answer <- y5, wiped <- y6,
  unlisted <- y7, raced <- y8,
  Guests <- {g1}, Answers <- {"accepted"}, Requests <- {r1, r2, s1},
  Operations <- {"create", "invite", "rsvp"}, Provider <- "none", Meet <- FALSE,
  MaxRows <- 5

OfficeFits ==
  /\ Person!AccountsAssumption /\ Restarted!AccountsAssumption
  /\ Google!CalendarAssumption /\ TwoRuns!CalendarAssumption
  /\ TwoEvents!CalendarAssumption
  /\ CalDav!CalendarAssumption /\ CalDavTwice!CalendarAssumption
  /\ TwoCallbacks!LinkAssumption /\ TwoMailboxes!LinkAssumption
  /\ Guest!InvitationsAssumption /\ Linked!InvitationsAssumption
  /\ Crowded!InvitationsAssumption

OfficeInit ==
  \/ part = "person" /\ Person!Init /\ Rest9
  \/ part = "restarted" /\ Restarted!Init /\ Rest9
  \/ part = "google" /\ Google!Init /\ Rest8
  \/ part = "two runs" /\ TwoRuns!Init /\ Rest8
  \/ part = "two events" /\ TwoEvents!Init /\ Rest8
  \/ part = "caldav" /\ CalDav!Init /\ Rest8
  \/ part = "caldav twice" /\ CalDavTwice!Init /\ Rest8
  \/ part = "two callbacks" /\ TwoCallbacks!Init /\ Rest4
  \/ part = "two mailboxes" /\ TwoMailboxes!Init /\ Rest4
  \/ part = "guest" /\ Guest!Init /\ Rest8
  \/ part = "linked" /\ Linked!Init /\ Rest8
  \/ part = "crowded" /\ Crowded!Init /\ Rest8

OfficeNext ==
  \/ part = "person" /\ Person!Next /\ UNCHANGED <<part, After9>>
  \/ part = "restarted" /\ Restarted!Next /\ UNCHANGED <<part, After9>>
  \/ part = "google" /\ Google!Next /\ UNCHANGED <<part, After8>>
  \/ part = "two runs" /\ TwoRuns!Next /\ UNCHANGED <<part, After8>>
  \/ part = "two events" /\ TwoEvents!Next /\ UNCHANGED <<part, After8>>
  \/ part = "caldav" /\ CalDav!Next /\ UNCHANGED <<part, After8>>
  \/ part = "caldav twice" /\ CalDavTwice!Next /\ UNCHANGED <<part, After8>>
  \/ part = "two callbacks" /\ TwoCallbacks!Next /\ UNCHANGED <<part, After4>>
  \/ part = "two mailboxes" /\ TwoMailboxes!Next /\ UNCHANGED <<part, After4>>
  \/ part = "guest" /\ Guest!Next /\ UNCHANGED <<part, After8>>
  \/ part = "linked" /\ Linked!Next /\ UNCHANGED <<part, After8>>
  \/ part = "crowded" /\ Crowded!Next /\ UNCHANGED <<part, After8>>

OfficeTypeOK ==
  /\ part = "person" => Person!TypeOK
  /\ part = "restarted" => Restarted!TypeOK
  /\ part = "google" => Google!TypeOK
  /\ part = "two runs" => TwoRuns!TypeOK
  /\ part = "two events" => TwoEvents!TypeOK
  /\ part = "caldav" => CalDav!TypeOK
  /\ part = "caldav twice" => CalDavTwice!TypeOK
  /\ part = "two callbacks" => TwoCallbacks!TypeOK
  /\ part = "two mailboxes" => TwoMailboxes!TypeOK
  /\ part = "guest" => Guest!TypeOK
  /\ part = "linked" => Linked!TypeOK
  /\ part = "crowded" => Crowded!TypeOK

\* Accounts!LastLinkWorks, ListedAsShown and RemovedHasNoAccess, and
\* MailboxLink!CredentialsMatch: the link mailed last works, an account is listed under
\* its badge, a removed one has no mailbox, and a mailbox has the tokens of its account.
AccountsAgree ==
  /\ part = "person" => /\ Person!LastLinkWorks /\ Person!ListedAsShown
                        /\ Person!RemovedHasNoAccess
  /\ part = "restarted" => /\ Restarted!LastLinkWorks /\ Restarted!ListedAsShown
                           /\ Restarted!RemovedHasNoAccess
  /\ part = "two callbacks" => TwoCallbacks!CredentialsMatch
  /\ part = "two mailboxes" => TwoMailboxes!CredentialsMatch

\* Accounts!InvitationSparesUsers: work on an invitation signs out no verified user.
InvitationSparesUsers ==
  [][/\ part = "person" => Person!SparesUser
     /\ part = "restarted" => Restarted!SparesUser]_vars

\* Of CalendarSync: an event taken in by one party has one row. Of Invitations: a guest
\* is listed once, with the answer they were told, and whoever was invited is listed.
CalendarAgrees ==
  /\ part = "google" => Google!OneRowPerEvent
  /\ part = "two runs" => TwoRuns!OneRowPerEvent
  /\ part = "two events" => TwoEvents!OneRowPerEvent
  /\ part = "caldav" => CalDav!OneRowPerEvent
  /\ part = "caldav twice" => CalDavTwice!OneRowPerEvent
  /\ part = "guest" => /\ Guest!AnswerKept /\ Guest!MailedAreListed
                       /\ Guest!ListedOnce /\ Guest!GoneHasNoGuests
  /\ part = "linked" => /\ Linked!AnswerKept /\ Linked!MailedAreListed
                        /\ Linked!ListedOnce /\ Linked!GoneHasNoGuests
  /\ part = "crowded" => /\ Crowded!AnswerKept /\ Crowded!MailedAreListed
                         /\ Crowded!ListedOnce

\* CalendarSync!CancelsOnlyAbsent: a run cancels events that were gone when it fetched.
CancelsOnlyAbsent ==
  [][/\ part = "google" => Google!CancelsAbsent
     /\ part = "two runs" => TwoRuns!CancelsAbsent
     /\ part = "two events" => TwoEvents!CancelsAbsent
     /\ part = "caldav" => CalDav!CancelsAbsent
     /\ part = "caldav twice" => CalDavTwice!CancelsAbsent]_vars
=============================================================================
