------------------------------ MODULE MCClient ------------------------------
(***************************************************************************)
(* Instances of the inbox page, as further parts of MCServices: its list of  *)
(* threads, the thread that is open, and a note that mentions people.        *)
(***************************************************************************)
EXTENDS MCOffice

CONSTANTS t1, t2, n1, d1, d2, l1, l2, c3

\* Clicks on one star, three at a time; lists that overtake each other; statuses.
StarRow == INSTANCE ThreadList WITH
  stored <- y1, list <- y2, override <- y3, lists <- y4, clicks <- y5,
  lastClick <- y6, changes <- y7, faults <- y8, behind <- y9, raced <- y10,
  crossed <- y11,
  Threads <- {t1}, Clicks <- {c1, c2, c3}, Does <- {"star"}, Lists <- {l1},
  MaxChanges <- 0, MaxFaults <- 1
TwoLists == INSTANCE ThreadList WITH
  stored <- y1, list <- y2, override <- y3, lists <- y4, clicks <- y5,
  lastClick <- y6, changes <- y7, faults <- y8, behind <- y9, raced <- y10,
  crossed <- y11,
  Threads <- {t1}, Clicks <- {c1}, Does <- {"star", "archive"}, Lists <- {l1, l2},
  MaxChanges <- 0, MaxFaults <- 1
StatusRow == INSTANCE ThreadList WITH
  stored <- y1, list <- y2, override <- y3, lists <- y4, clicks <- y5,
  lastClick <- y6, changes <- y7, faults <- y8, behind <- y9, raced <- y10,
  crossed <- y11,
  Threads <- {t1}, Clicks <- {c1}, Does <- {"status", "aside", "archive"}, Lists <- {l1},
  MaxChanges <- 1, MaxFaults <- 1

\* Two requests for details beside a note; two beside failures and a deletion; and one
\* with all of it.
TwoDetails == INSTANCE ThreadPane WITH
  route <- y1, pane <- y2, latest <- y3, fetches <- y4, home <- y5, stored <- y6,
  saving <- y7, removing <- y8, unheard <- y9, deletion <- y10, deleted <- y11,
  faults <- y12, off <- y13,
  Threads <- {t1, t2}, Deletable <- {}, Notes <- {n1}, Fetches <- {d1, d2},
  MaxFaults <- 0
Gone == INSTANCE ThreadPane WITH
  route <- y1, pane <- y2, latest <- y3, fetches <- y4, home <- y5, stored <- y6,
  saving <- y7, removing <- y8, unheard <- y9, deletion <- y10, deleted <- y11,
  faults <- y12, off <- y13,
  Threads <- {t1, t2}, Deletable <- {t1}, Notes <- {}, Fetches <- {d1, d2},
  MaxFaults <- 1
OneDetail == INSTANCE ThreadPane WITH
  route <- y1, pane <- y2, latest <- y3, fetches <- y4, home <- y5, stored <- y6,
  saving <- y7, removing <- y8, unheard <- y9, deletion <- y10, deleted <- y11,
  faults <- y12, off <- y13,
  Threads <- {t1, t2}, Deletable <- {t1}, Notes <- {n1}, Fetches <- {d1},
  MaxFaults <- 1

\* Two people, one with an address like the name of another, who change; one person, and
\* two of one name, and a note that two pages save.
Renamed == INSTANCE Mentions WITH
  user <- y1, note <- y2, page <- y3, request <- y4, told <- y5, added <- y6,
  doubled <- y7, untold <- y8, moved <- y9, changes <- y10, saves <- y11,
  Users <- {"ann", "bob"}, Names <- {"sam", "lee"},
  LocalOf <- [u \in {"ann", "bob"} |-> IF u = "ann" THEN "kim" ELSE "sam"],
  Typed <- {}, Pages <- {t1}, MaxChanges <- 1, MaxSaves <- 2
Single == INSTANCE Mentions WITH
  user <- y1, note <- y2, page <- y3, request <- y4, told <- y5, added <- y6,
  doubled <- y7, untold <- y8, moved <- y9, changes <- y10, saves <- y11,
  Users <- {"ann"}, Names <- {"sam"}, LocalOf <- [u \in {"ann"} |-> "kim"],
  Typed <- {"ann"}, Pages <- {t1, t2}, MaxChanges <- 1, MaxSaves <- 3
OfOneName == INSTANCE Mentions WITH
  user <- y1, note <- y2, page <- y3, request <- y4, told <- y5, added <- y6,
  doubled <- y7, untold <- y8, moved <- y9, changes <- y10, saves <- y11,
  Users <- {"ann", "bob"}, Names <- {"sam"},
  LocalOf <- [u \in {"ann", "bob"} |-> IF u = "ann" THEN "kim" ELSE "lee"],
  Typed <- {}, Pages <- {t1, t2}, MaxChanges <- 0, MaxSaves <- 2

ClientFits ==
  /\ StarRow!ListAssumption /\ TwoLists!ListAssumption /\ StatusRow!ListAssumption
  /\ TwoDetails!PaneAssumption /\ Gone!PaneAssumption /\ OneDetail!PaneAssumption
  /\ Renamed!MentionsAssumption /\ Single!MentionsAssumption
  /\ OfOneName!MentionsAssumption

ClientInit ==
  \/ part = "star" /\ StarRow!Init /\ Rest11
  \/ part = "two lists" /\ TwoLists!Init /\ Rest11
  \/ part = "status" /\ StatusRow!Init /\ Rest11
  \/ part = "two details" /\ TwoDetails!Init /\ Rest13
  \/ part = "gone" /\ Gone!Init /\ Rest13
  \/ part = "one detail" /\ OneDetail!Init /\ Rest13
  \/ part = "renamed" /\ Renamed!Init /\ Rest11
  \/ part = "single" /\ Single!Init /\ Rest11
  \/ part = "of one name" /\ OfOneName!Init /\ Rest11

ClientNext ==
  \/ part = "star" /\ StarRow!Next /\ UNCHANGED <<part, After11>>
  \/ part = "two lists" /\ TwoLists!Next /\ UNCHANGED <<part, After11>>
  \/ part = "status" /\ StatusRow!Next /\ UNCHANGED <<part, After11>>
  \/ part = "two details" /\ TwoDetails!Next /\ UNCHANGED <<part, After13>>
  \/ part = "gone" /\ Gone!Next /\ UNCHANGED <<part, After13>>
  \/ part = "one detail" /\ OneDetail!Next /\ UNCHANGED <<part, After13>>
  \/ part = "renamed" /\ Renamed!Next /\ UNCHANGED <<part, After11>>
  \/ part = "single" /\ Single!Next /\ UNCHANGED <<part, After11>>
  \/ part = "of one name" /\ OfOneName!Next /\ UNCHANGED <<part, After11>>

ClientTypeOK ==
  /\ part = "star" => StarRow!TypeOK
  /\ part = "two lists" => TwoLists!TypeOK
  /\ part = "status" => StatusRow!TypeOK
  /\ part = "two details" => TwoDetails!TypeOK
  /\ part = "gone" => Gone!TypeOK
  /\ part = "one detail" => OneDetail!TypeOK
  /\ part = "renamed" => Renamed!TypeOK
  /\ part = "single" => Single!TypeOK
  /\ part = "of one name" => OfOneName!TypeOK

\* ThreadList!RowsAgree and LastChoiceShown, and ThreadPane!PaneIsRight: with nothing
\* under way a row is as the server has it, the star shows what was chosen last, and the
\* pane has the messages and notes of the open thread. Of Mentions: whom a note names is
\* who was picked, and each is told of it once.
PageAgrees ==
  /\ part = "star" => StarRow!RowsAgree /\ StarRow!LastChoiceShown
  /\ part = "two lists" => TwoLists!RowsAgree /\ TwoLists!LastChoiceShown
  /\ part = "status" => StatusRow!RowsAgree
  /\ part = "two details" => TwoDetails!PaneIsRight
  /\ part = "gone" => Gone!PaneIsRight
  /\ part = "one detail" => OneDetail!PaneIsRight
  /\ part = "renamed" => /\ Renamed!PickedAreMentioned /\ Renamed!MentionedAreTold
                       /\ Renamed!ToldOncePerMention /\ Renamed!MentionedWereNamed
  /\ part = "single" => /\ Single!PickedAreMentioned /\ Single!MentionedAreTold
                      /\ Single!ToldOncePerMention /\ Single!MentionedWereNamed
  /\ part = "of one name" => /\ OfOneName!PickedAreMentioned /\ OfOneName!MentionedAreTold
                           /\ OfOneName!ToldOncePerMention /\ OfOneName!MentionedWereNamed
=============================================================================
