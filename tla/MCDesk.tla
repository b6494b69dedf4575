------------------------------- MODULE MCDesk -------------------------------
(***************************************************************************)
(* Instances of what stands around a user's desk, checked beside the mail   *)
(* components of MCMail: the first state picks one, and only that one moves. *)
(***************************************************************************)
EXTENDS MCParts

CONSTANTS b1, b2, c1, c2, h1, t1, t2, f1, f2, NoOne

\* Two requests at once; two checkouts; a checkout beside a subscription made by hand.
Checkouts == INSTANCE Billing WITH
  org <- y1, customers <- y2, session <- y3, sub <- y4, events <- y5, request <- y6,
  changes <- y7, crossed <- y8, spare <- y9,
  None <- NoOne, Requests <- {b1, b2}, Sessions <- {c1}, ByHand <- {},
  Prices <- {"starter", "professional"}, MaxCustomers <- 2, MaxChanges <- 1
Twice == INSTANCE Billing WITH
  org <- y1, customers <- y2, session <- y3, sub <- y4, events <- y5, request <- y6,
  changes <- y7, crossed <- y8, spare <- y9,
  None <- NoOne, Requests <- {b1}, Sessions <- {c1, c2}, ByHand <- {},
  Prices <- {"other", "professional"}, MaxCustomers <- 2, MaxChanges <- 1
Manual == INSTANCE Billing WITH
  org <- y1, customers <- y2, session <- y3, sub <- y4, events <- y5, request <- y6,
  changes <- y7, crossed <- y8, spare <- y9,
  None <- NoOne, Requests <- {b1}, Sessions <- {c1}, ByHand <- {h1},
  Prices <- {"starter", "professional"}, MaxCustomers <- 2, MaxChanges <- 1

\* One tab that may lose answers, with Firebase, and one that is signed out; two tabs
\* without.
Alone == INSTANCE SignIn WITH
  account <- y1, codes <- y2, remote <- y3, local <- y4, tab <- y5, call <- y6,
  crossed <- y7, late <- y8,
  Tabs <- {t1}, Firebase <- TRUE, Lossy <- TRUE, MaxSecrets <- 2, MaxCalls <- 2,
  Operations <- {"login", "verify", "generate", "enable", "disable", "profile"}
Leaving == INSTANCE SignIn WITH
  account <- y1, codes <- y2, remote <- y3, local <- y4, tab <- y5, call <- y6,
  crossed <- y7, late <- y8,
  Tabs <- {t1}, Firebase <- TRUE, Lossy <- TRUE, MaxSecrets <- 2, MaxCalls <- 1,
  Operations <- {"login", "verify", "generate", "enable", "disable", "logout"}
Paired == INSTANCE SignIn WITH
  account <- y1, codes <- y2, remote <- y3, local <- y4, tab <- y5, call <- y6,
  crossed <- y7, late <- y8,
  Tabs <- {t1, t2}, Firebase <- FALSE, Lossy <- FALSE, MaxSecrets <- 2, MaxCalls <- 2,
  Operations <- {"login", "generate", "enable"}

\* Two notifications, one of them pushed as well; two tabs; two fetches at once.
Rings == INSTANCE Bell WITH
  row <- y1, signed <- y2, list <- y3, socket <- y4, expired <- y5, wire <- y6,
  pushes <- y7, fetch <- y8, mark <- y9, excused <- y10,
  Tabs <- {t1}, Notes <- {1, 2}, Silent <- {}, Pushed <- {2}, Fetches <- {f1}
Echoes == INSTANCE Bell WITH
  row <- y1, signed <- y2, list <- y3, socket <- y4, expired <- y5, wire <- y6,
  pushes <- y7, fetch <- y8, mark <- y9, excused <- y10,
  Tabs <- {t1, t2}, Notes <- {1}, Silent <- {1}, Pushed <- {}, Fetches <- {f1}
Refetches == INSTANCE Bell WITH
  row <- y1, signed <- y2, list <- y3, socket <- y4, expired <- y5, wire <- y6,
  pushes <- y7, fetch <- y8, mark <- y9, excused <- y10,
  Tabs <- {t1}, Notes <- {1}, Silent <- {}, Pushed <- {1}, Fetches <- {f1, f2}

\* A contact's settings beside the user's; two types on one page; two pages.
Narrowed == INSTANCE Preferences WITH
  org <- y1, pref <- y2, override <- y3, page <- y4, wish <- y5, lost <- y6,
  strayed <- y7,
  Types <- {"contact_activity"}, Channels <- {"email", "push"},
  Contact <- "contact_activity",
  Defaults <- [t \in {"contact_activity"} |-> {"email"}], Pages <- {t1}
Typed == INSTANCE Preferences WITH
  org <- y1, pref <- y2, override <- y3, page <- y4, wish <- y5, lost <- y6,
  strayed <- y7,
  Types <- {"mention", "sla_warning"}, Channels <- {"email"}, Contact <- "none",
  Defaults <- [t \in {"mention", "sla_warning"} |-> IF t = "mention" THEN {"email"}
  ELSE {}], Pages <- {t1}
Stale == INSTANCE Preferences WITH
  org <- y1, pref <- y2, override <- y3, page <- y4, wish <- y5, lost <- y6,
  strayed <- y7,
  Types <- {"mention"}, Channels <- {"email"}, Contact <- "none",
  Defaults <- [t \in {"mention"} |-> {"email"}], Pages <- {t1, t2}

DeskFits ==
  /\ Checkouts!BillingAssumption /\ Twice!BillingAssumption /\ Manual!BillingAssumption
  /\ Alone!SignInAssumption /\ Leaving!SignInAssumption
  /\ Paired!SignInAssumption
  /\ Rings!BellAssumption /\ Echoes!BellAssumption /\ Refetches!BellAssumption
  /\ Narrowed!PreferencesAssumption /\ Typed!PreferencesAssumption
  /\ Stale!PreferencesAssumption

DeskInit ==
  \/ part = "checkouts" /\ Checkouts!Init /\ Rest9
  \/ part = "twice" /\ Twice!Init /\ Rest9
  \/ part = "manual" /\ Manual!Init /\ Rest9
  \/ part = "alone" /\ Alone!Init /\ Rest8
  \/ part = "leaving" /\ Leaving!Init /\ Rest8
  \/ part = "paired" /\ Paired!Init /\ Rest8
  \/ part = "rings" /\ Rings!Init /\ Rest10
  \/ part = "echoes" /\ Echoes!Init /\ Rest10
  \/ part = "refetches" /\ Refetches!Init /\ Rest10
  \/ part = "narrowed" /\ Narrowed!Init /\ Rest7
  \/ part = "typed" /\ Typed!Init /\ Rest7
  \/ part = "stale" /\ Stale!Init /\ Rest7

DeskNext ==
  \/ part = "checkouts" /\ Checkouts!Next /\ UNCHANGED <<part, After9>>
  \/ part = "twice" /\ Twice!Next /\ UNCHANGED <<part, After9>>
  \/ part = "manual" /\ Manual!Next /\ UNCHANGED <<part, After9>>
  \/ part = "alone" /\ Alone!Next /\ UNCHANGED <<part, After8>>
  \/ part = "leaving" /\ Leaving!Next /\ UNCHANGED <<part, After8>>
  \/ part = "paired" /\ Paired!Next /\ UNCHANGED <<part, After8>>
  \/ part = "rings" /\ Rings!Next /\ UNCHANGED <<part, After10>>
  \/ part = "echoes" /\ Echoes!Next /\ UNCHANGED <<part, After10>>
  \/ part = "refetches" /\ Refetches!Next /\ UNCHANGED <<part, After10>>
  \/ part = "narrowed" /\ Narrowed!Next /\ UNCHANGED <<part, After7>>
  \/ part = "typed" /\ Typed!Next /\ UNCHANGED <<part, After7>>
  \/ part = "stale" /\ Stale!Next /\ UNCHANGED <<part, After7>>

DeskTypeOK ==
  /\ part = "checkouts" => Checkouts!TypeOK
  /\ part = "twice" => Twice!TypeOK
  /\ part = "manual" => Manual!TypeOK
  /\ part = "alone" => Alone!TypeOK
  /\ part = "leaving" => Leaving!TypeOK
  /\ part = "paired" => Paired!TypeOK
  /\ part = "rings" => Rings!TypeOK
  /\ part = "echoes" => Echoes!TypeOK
  /\ part = "refetches" => Refetches!TypeOK
  /\ part = "narrowed" => Narrowed!TypeOK
  /\ part = "typed" => Typed!TypeOK
  /\ part = "stale" => Stale!TypeOK

\* Billing: the organisation has the plan it pays for, and one customer at Stripe.
BillingAgrees ==
  /\ part = "checkouts" => Checkouts!PlanIsCharged /\ Checkouts!OneCustomer
  /\ part = "twice" => Twice!PlanIsCharged /\ Twice!OneCustomer
  /\ part = "manual" => Manual!PlanIsCharged /\ Manual!OneCustomer

\* SignIn: the second factor can be answered, and a tab shows who is signed in.
SignInAgrees ==
  /\ part = "alone" =>
       Alone!FactorCanBeAnswered /\ Alone!ViewIsTrue /\ Alone!NoneWaitsForNothing
  /\ part = "leaving" =>
       Leaving!FactorCanBeAnswered /\ Leaving!ViewIsTrue /\ Leaving!NoneWaitsForNothing
  /\ part = "paired" =>
       Paired!FactorCanBeAnswered /\ Paired!ViewIsTrue /\ Paired!NoneWaitsForNothing

\* Bell: a tab at rest shows the notifications there are.
BellAgrees ==
  /\ part = "rings" => Rings!BellIsTrue
  /\ part = "echoes" => Echoes!BellIsTrue
  /\ part = "refetches" => Refetches!BellIsTrue

\* Preferences: what the settings page shows, and what was chosen there, is what counts.
SettingsAgree ==
  /\ part = "narrowed" =>
       Narrowed!ShownIsUsed /\ Narrowed!WishesHold /\ Narrowed!ContactKeepsRest
  /\ part = "typed" => Typed!ShownIsUsed /\ Typed!WishesHold
  /\ part = "stale" => Stale!ShownIsUsed /\ Stale!WishesHold

\* What is stored, what another system has and what a page shows agree: an organisation's
\* plan and what Stripe charges, a user's second factor and their authenticator, the bell
\* and the notifications, the settings page and what dispatch uses.
RecordsAgree == BillingAgrees /\ SignInAgrees /\ BellAgrees /\ SettingsAgree
=============================================================================
