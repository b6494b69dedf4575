---------------------------- MODULE AccessProofs ----------------------------
(***************************************************************************)
(* Sessions, accounts and the accounts of mailboxes, proved for any number  *)
(* of tabs, requests, callbacks and mailboxes: who is signed in stays so,   *)
(* who may sign in is what the row says, and a mailbox has its own tokens.  *)
(*                                                                          *)
(* Sessions: while nothing excuses the loss of the session there is at most *)
(* one refresh under way, of the token in localStorage, and the server will *)
(* not refuse it; so the only steps that lead from the application to the   *)
(* login page are excused ones (SessionInv).                                *)
(* Accounts: a request that has found the row may count on the row being    *)
(* there; one that no write has overtaken, on what it found (AccountsInv).  *)
(* Mailboxes: the tokens of every row match its address (LinkInv).          *)
(***************************************************************************)
EXTENDS Sessions, SequenceTheorems, TLAPS

\* The parameters of Accounts; its requests are called Visits here, and
\* what each link is for, mailed.
CONSTANTS Visits, MaxLinks, MaxRestarts

\* Those of MailboxLink.
CONSTANTS Accounts, Mailboxes, Callbacks, None

VARIABLES user, access, mailed, op, restarts, stale, fate, odd, kept
VARIABLES mailbox, callback, renewal, mixed

Account == INSTANCE Accounts WITH Requests <- Visits, kind <- mailed
Link == INSTANCE MailboxLink


Known == SessionsAssumption /\ SessionInv

Kinds == {"api", "logout"}
UnderWay == {"sent", "found", "refused", "stored"}

(***************************************************************************)
(* The records                                                              *)
(***************************************************************************)
LEMMA TradeFacts ==
  ASSUME NEW x \in TradeOf
  PROVE  /\ x = NoTrade => x.pc = "idle"
         /\ x # NoTrade => /\ x.pc \in UnderWay /\ x.pc # "idle"
                           /\ x.old \in 0..MaxPairs /\ x.new \in 0..MaxPairs
PROOF BY DEF TradeOf, NoTrade, UnderWay

LEMMA TradeMade ==
  ASSUME NEW o \in 0..MaxPairs, SessionsAssumption
  PROVE  [pc |-> "sent", old |-> o, new |-> 0] \in TradeOf
PROOF BY DEF TradeOf, SessionsAssumption

LEMMA TradeMoved ==
  ASSUME NEW x \in TradeOf, x # NoTrade, NEW pc \in UnderWay,
         NEW y, y = [x EXCEPT !.pc = pc]
  PROVE  y \in TradeOf /\ y.pc = pc /\ y.old = x.old /\ y.new = x.new
PROOF BY DEF TradeOf, NoTrade, UnderWay

LEMMA TradeNew ==
  ASSUME NEW x \in TradeOf, x # NoTrade, NEW n \in 0..MaxPairs,
         NEW y, y = [x EXCEPT !.new = n]
  PROVE  y \in TradeOf /\ y.pc = x.pc /\ y.old = x.old /\ y.new = n
PROOF BY DEF TradeOf, NoTrade, UnderWay

LEMMA RequestFacts ==
  ASSUME NEW x \in RequestOf
  PROVE  /\ x.pc \in {"idle", "sent", "waiting"}
         /\ x.pc # "idle" => /\ x.kind \in Kinds /\ x.access \in 0..MaxPairs
                             /\ x.again \in BOOLEAN
PROOF BY DEF RequestOf, NoRequest, Kinds

LEMMA NothingAsked == NoRequest \in RequestOf /\ NoTrade \in TradeOf
PROOF BY DEF RequestOf, TradeOf

LEMMA RequestMade ==
  ASSUME NEW kind \in Kinds, NEW a \in 0..MaxPairs
  PROVE  [pc |-> "sent", kind |-> kind, access |-> a, again |-> FALSE] \in RequestOf
PROOF BY DEF RequestOf, Kinds

LEMMA RequestWaits ==
  ASSUME NEW x \in RequestOf, x.pc = "sent"
  PROVE  [x EXCEPT !.pc = "waiting"] \in RequestOf
PROOF BY DEF RequestOf, NoRequest

LEMMA RequestRepeated ==
  ASSUME NEW x \in RequestOf, x.pc = "waiting", NEW a \in 0..MaxPairs
  PROVE  [x EXCEPT !.pc = "sent", !.access = a, !.again = TRUE] \in RequestOf
PROOF
<1> DEFINE R == [pc : {"sent", "waiting"}, kind : Kinds, access : 0..MaxPairs,
                 again : BOOLEAN]
<1>1. x \in R
  <2>1. x # NoRequest  BY DEF NoRequest
  <2>2. QED  BY <2>1 DEF RequestOf, Kinds
<1>2. PICK y : y = [x EXCEPT !.pc = "sent"]  OBVIOUS
<1>3. PICK z : z = [y EXCEPT !.access = a]  OBVIOUS
<1>4. y \in R  BY <1>1, <1>2
<1>5. z \in R  BY <1>4, <1>3
<1>6. [z EXCEPT !.again = TRUE] \in R  BY <1>5
<1>7. [x EXCEPT !.pc = "sent", !.access = a, !.again = TRUE] = [z EXCEPT !.again = TRUE]
  BY Zenon, <1>2, <1>3
<1>8. QED  BY <1>6, <1>7 DEF RequestOf, Kinds

(***************************************************************************)
(* The types                                                                *)
(***************************************************************************)
LEMMA TypesSuffice == Typed => TypeOK
PROOF
<1>1. SUFFICES ASSUME Typed PROVE TypeOK  OBVIOUS
<1>2. ASSUME NEW t \in Tabs, NEW r \in Requests
      PROVE  request[t][r].pc \in {"idle", "sent", "waiting"}
  <2>1. request[t][r] \in RequestOf  BY <1>1 DEF Typed
  <2>2. QED  BY <2>1, RequestFacts
<1>3. ASSUME NEW t \in Tabs
      PROVE  trade[t].pc \in {"idle", "sent", "found", "refused", "stored"}
  <2>1. trade[t] \in TradeOf  BY <1>1 DEF Typed
  <2>2. QED  BY <2>1, TradeFacts DEF UnderWay
<1>4. QED  BY <1>1, <1>2, <1>3 DEF Typed, TypeOK

LEMMA InitKnown == SessionsAssumption /\ Init => Known
PROOF
<1>1. SUFFICES ASSUME SessionsAssumption, Init PROVE SessionInv  BY DEF Known
<1>2. Typed
  <2>1. live \subseteq Pairs /\ fresh \subseteq Pairs /\ excused \in BOOLEAN
    BY <1>1 DEF Init
  <2>2. local \in 0..MaxPairs /\ header \in [Tabs -> 0..MaxPairs]
    BY <1>1 DEF Init, SessionsAssumption
  <2>3. page \in [Tabs -> {"login", "app"}]  BY <1>1 DEF Init
  <2>4. request \in [Tabs -> [Requests -> RequestOf]]
    BY <1>1, NothingAsked DEF Init
  <2>5. trade \in [Tabs -> TradeOf]  BY <1>1, NothingAsked DEF Init
  <2>6. QED  BY <2>1, <2>2, <2>3, <2>4, <2>5 DEF Typed
<1>3. SessionKept  BY <1>1 DEF Init, SessionKept
<1>4. QED  BY <1>2, <1>3 DEF SessionInv

\* Issuing a pair.
LEMMA IssueTyped ==
  ASSUME Typed, NEW n \in Pairs, NEW without, Issue(n, without)
  PROVE  live' \subseteq Pairs /\ fresh' \subseteq Pairs /\ n \in live'
PROOF BY DEF Issue, Typed, InUse

\* A tab that loses the session.
LEMMA LeaveMoves ==
  ASSUME Typed, SessionsAssumption, NEW t \in Tabs, NEW also, Leave(t, also)
  PROVE  /\ local' = 0 /\ header' \in [Tabs -> 0..MaxPairs]
         /\ page' \in [Tabs -> {"login", "app"}]
         /\ request' \in [Tabs -> [Requests -> RequestOf]]
         /\ trade' = [trade EXCEPT ![t] = NoTrade]
         /\ trade' \in [Tabs -> TradeOf]
         /\ page[t] # "app" => page' = page
PROOF
<1>1. trade' = [trade EXCEPT ![t] = NoTrade] /\ local' = 0
  BY DEF Leave, Reload, Forget
<1>2. trade' \in [Tabs -> TradeOf]  BY <1>1, NothingAsked DEF Typed
<1>3. CASE page[t] = "app"
  <2>1. Reload(t)  BY <1>3 DEF Leave
  <2>2. header' \in [Tabs -> 0..MaxPairs] /\ page' \in [Tabs -> {"login", "app"}]
    BY <2>1 DEF Reload, Typed, SessionsAssumption
  <2>3. [r \in Requests |-> NoRequest] \in [Requests -> RequestOf]  BY NothingAsked
  <2>4. request' \in [Tabs -> [Requests -> RequestOf]]
    BY <2>1, <2>3 DEF Reload, Typed
  <2>5. QED  BY <1>1, <1>2, <1>3, <2>2, <2>4
<1>4. CASE page[t] # "app"
  <2> DEFINE left == [r \in Requests |-> IF r \in Waiting(t) \cup also
                                         THEN NoRequest ELSE request[t][r]]
  <2>1. Forget(t, also)  BY <1>4 DEF Leave
  <2>2. left \in [Requests -> RequestOf]  BY NothingAsked DEF Typed
  <2>3. request' = [request EXCEPT ![t] = left]  BY <2>1 DEF Forget
  <2>4. request' \in [Tabs -> [Requests -> RequestOf]]  BY <2>2, <2>3 DEF Typed
  <2>5. header' = header /\ page' = page  BY <2>1 DEF Forget
  <2>6. QED  BY <1>1, <1>2, <2>4, <2>5 DEF Typed
<1>5. QED  BY <1>3, <1>4

\* The requests of a tab after a step that touches one of them.
LEMMA RequestSet ==
  ASSUME Typed, NEW t \in Tabs, NEW r \in Requests, NEW q \in RequestOf
  PROVE  [request EXCEPT ![t][r] = q] \in [Tabs -> [Requests -> RequestOf]]
PROOF BY DEF Typed

LEMMA AccessTyped ==
  ASSUME Typed, NEW t \in Tabs
  PROVE  Access(t) \in 0..MaxPairs
PROOF BY DEF Typed, Access

(***************************************************************************)
(* The session                                                              *)
(***************************************************************************)
Sound == Typed' /\ SessionKept' /\ LeavesForReason

\* A step that leaves the session alone.
LEMMA SessionAlone ==
  ASSUME Known, UNCHANGED <<live, local, page, trade, excused>>
  PROVE  SessionKept' /\ LeavesForReason
PROOF BY DEF Known, SessionInv, SessionKept, LeavesForReason, TradesWell

\* A step that is excused.
LEMMA Excused ==
  ASSUME excused'
  PROVE  SessionKept' /\ LeavesForReason
PROOF BY DEF SessionKept, LeavesForReason

\* Unless it is excused, the only refresh under way is that of the token in
\* localStorage.
LEMMA OnlyTrade ==
  ASSUME Known, ~excused, NEW t \in Tabs, trade[t] # NoTrade
  PROVE  /\ \A u \in Tabs : trade[u] # NoTrade => u = t
         /\ local # 0 /\ trade[t].old = local
         /\ \/ trade[t].pc \in {"sent", "found"} /\ trade[t].old \in live
            \/ trade[t].pc = "stored" /\ trade[t].new # 0 /\ trade[t].new \in live
PROOF BY DEF Known, SessionInv, SessionKept, TradesWell

LEMMA AppHasTokens ==
  ASSUME Known, ~excused, NEW t \in Tabs, page[t] = "app"
  PROVE  local # 0
PROOF BY DEF Known, SessionInv, SessionKept

LEMMA ExpireSound == ASSUME Known, NEW n \in Pairs, Expire(n) PROVE Sound
PROOF
<1>1. SessionKept' /\ LeavesForReason  BY SessionAlone DEF Expire, browser
<1>2. Typed'  BY DEF Known, SessionInv, Typed, Expire, browser
<1>3. QED  BY <1>1, <1>2 DEF Sound

LEMMA EndSound == ASSUME Known, EndSessions PROVE Sound
PROOF
<1>1. SessionKept' /\ LeavesForReason  BY Excused DEF EndSessions
<1>2. Typed'  BY DEF Known, SessionInv, Typed, EndSessions, browser
<1>3. QED  BY <1>1, <1>2 DEF Sound

LEMMA SendSound ==
  ASSUME Known, NEW t \in Tabs, NEW r \in Requests, NEW kind \in Kinds,
         Send(t, r, kind)
  PROVE  Sound
PROOF
<1> DEFINE q == [pc |-> "sent", kind |-> kind, access |-> Access(t), again |-> FALSE]
<1>1. SessionKept' /\ LeavesForReason  BY SessionAlone DEF Send
<1>2. q \in RequestOf  BY AccessTyped, RequestMade DEF Known, SessionInv
<1>3. request' = [request EXCEPT ![t][r] = q]  BY DEF Send
<1>4. request' \in [Tabs -> [Requests -> RequestOf]]
  <2> HIDE DEF q
  <2>1. QED  BY <1>2, <1>3, RequestSet DEF Known, SessionInv
<1>5. Typed'  BY <1>4 DEF Known, SessionInv, Typed, Send
<1>6. QED  BY <1>1, <1>5 DEF Sound

LEMMA FindSound == ASSUME Known, NEW t \in Tabs, Find(t) PROVE Sound
PROOF
<1>1. trade[t] \in TradeOf /\ trade[t] # NoTrade /\ trade[t].pc = "sent"
  BY DEF Known, SessionInv, Typed, Find, NoTrade
<1> DEFINE pc == IF trade[t].old \in live THEN "found" ELSE "refused"
<1>2. pc \in UnderWay  BY DEF UnderWay
<1>3. PICK y : y = [trade[t] EXCEPT !.pc = pc]  OBVIOUS
<1>4. y \in TradeOf /\ y.pc = pc /\ y.old = trade[t].old /\ y.new = trade[t].new
  BY <1>1, <1>2, <1>3, TradeMoved
<1>5. trade' = [trade EXCEPT ![t] = y]  BY <1>3 DEF Find
<1>6. trade' \in [Tabs -> TradeOf]  BY <1>4, <1>5 DEF Known, SessionInv, Typed
<1>7. UNCHANGED <<live, fresh, local, header, page, request, excused>>
  BY DEF Find, browser
<1>8. Typed'  BY <1>6, <1>7 DEF Known, SessionInv, Typed
<1>9. LeavesForReason  BY <1>7 DEF LeavesForReason
<1>10. trade'[t] = y /\ \A u \in Tabs : u # t => trade'[u] = trade[u]
  BY <1>5 DEF Known, SessionInv, Typed
<1>11. ASSUME ~excused PROVE SessionKept'
  <2>1. /\ \A u \in Tabs : trade[u] # NoTrade => u = t
        /\ local # 0 /\ trade[t].old = local /\ trade[t].old \in live
    BY <1>1, <1>11, OnlyTrade
  <2>2. y.pc = "found" /\ y # NoTrade  BY <1>4, <2>1 DEF NoTrade
  <2>3. TradesWell(t)'  BY <2>1, <2>2, <1>4, <1>7, <1>10 DEF TradesWell
  <2>4. \A u \in Tabs : page'[u] = "app" => local' # 0  BY <1>7, <2>1
  <2>5. \A u \in Tabs : trade'[u] # NoTrade => u = t  BY <1>10, <2>1
  <2>6. QED  BY <2>2, <2>3, <2>4, <2>5, <1>10 DEF SessionKept
<1>12. QED  BY <1>7, <1>8, <1>9, <1>11 DEF Sound, SessionKept
LEMMA RotateSound ==
  ASSUME Known, NEW t \in Tabs, NEW n \in Pairs, Rotate(t, n)
  PROVE  Sound
PROOF
<1>1. trade[t] \in TradeOf /\ trade[t] # NoTrade /\ trade[t].pc = "found"
  BY DEF Known, SessionInv, Typed, Rotate, NoTrade
<1>2. n \in 0..MaxPairs /\ n # 0  BY DEF Pairs, Known, SessionsAssumption
<1>3. PICK z : z = [trade[t] EXCEPT !.pc = "stored"]  OBVIOUS
<1> PICK y : y = [z EXCEPT !.new = n]  OBVIOUS
<1>4. y \in TradeOf /\ y.pc = "stored" /\ y.old = trade[t].old /\ y.new = n
  <2>1. z \in TradeOf /\ z.pc = "stored" /\ z.old = trade[t].old
    BY <1>1, <1>3, TradeMoved DEF UnderWay
  <2>2. z # NoTrade  BY <2>1 DEF NoTrade
  <2>3. QED  BY <2>1, <2>2, <1>2, TradeNew
<1>5. trade' = [trade EXCEPT ![t] = y]  BY Zenon, <1>3 DEF Rotate
<1>6. trade' \in [Tabs -> TradeOf]  BY <1>4, <1>5 DEF Known, SessionInv, Typed
<1>7. UNCHANGED <<local, header, page, request, excused>>  BY DEF Rotate, browser
<1>8. live' \subseteq Pairs /\ fresh' \subseteq Pairs /\ n \in live'
  BY IssueTyped DEF Rotate, Known, SessionInv
<1>9. Typed'  BY <1>6, <1>7, <1>8 DEF Known, SessionInv, Typed
<1>10. LeavesForReason  BY <1>7 DEF LeavesForReason
<1>11. trade'[t] = y /\ \A u \in Tabs : u # t => trade'[u] = trade[u]
  BY <1>5 DEF Known, SessionInv, Typed
<1>12. ASSUME ~excused PROVE SessionKept'
  <2>1. /\ \A u \in Tabs : trade[u] # NoTrade => u = t
        /\ local # 0 /\ trade[t].old = local
    BY <1>1, <1>12, OnlyTrade
  <2>2. y # NoTrade  BY <1>4 DEF NoTrade
  <2>3. TradesWell(t)'  BY <2>1, <1>2, <1>4, <1>7, <1>8, <1>11 DEF TradesWell
  <2>4. \A u \in Tabs : page'[u] = "app" => local' # 0  BY <1>7, <2>1
  <2>5. \A u \in Tabs : trade'[u] # NoTrade => u = t  BY <1>11, <2>1
  <2>6. QED  BY <2>2, <2>3, <2>4, <2>5, <1>11 DEF SessionKept
<1>13. QED  BY <1>7, <1>9, <1>10, <1>12 DEF Sound, SessionKept

LEMMA SignInSound ==
  ASSUME Known, NEW t \in Tabs, NEW n \in Pairs, SignIn(t, n)
  PROVE  Sound
PROOF
<1>1. n \in 0..MaxPairs /\ n # 0  BY DEF Pairs, Known, SessionsAssumption
<1>2. live' \subseteq Pairs /\ fresh' \subseteq Pairs /\ n \in live'
  BY IssueTyped DEF SignIn, Known, SessionInv
<1>3. local' = n /\ UNCHANGED <<header, request, trade>>  BY DEF SignIn
<1>4. page' = [page EXCEPT ![t] = "app"]  BY DEF SignIn
<1>5. excused' \in BOOLEAN
  BY DEF SignIn
<1>6. Typed'  BY <1>1, <1>2, <1>3, <1>4, <1>5 DEF Known, SessionInv, Typed
<1>7. LeavesForReason  BY <1>4 DEF LeavesForReason, Known, SessionInv, Typed
<1>8. ASSUME ~excused' PROVE SessionKept'
  <2>1. ASSUME NEW u \in Tabs PROVE trade'[u] = NoTrade
    <3>1. trade[u].pc = "idle"  BY <1>8 DEF SignIn
    <3>2. trade[u] \in TradeOf  BY DEF Known, SessionInv, Typed
    <3>3. QED  BY <3>1, <3>2, <1>3, TradeFacts
  <2>2. QED  BY <2>1, <1>1, <1>2, <1>3 DEF SessionKept
<1>9. QED  BY <1>6, <1>7, <1>8 DEF Sound, SessionKept

LEMMA LostSound == ASSUME Known, NEW t \in Tabs, TradeLost(t) PROVE Sound
PROOF
<1>1. SessionKept' /\ LeavesForReason  BY Excused DEF TradeLost
<1>2. Leave(t, {}) /\ UNCHANGED <<live, fresh>> /\ excused'  BY DEF TradeLost
<1>3. Typed'
  BY <1>2, LeaveMoves DEF TradeLost, Known, SessionInv, Typed, SessionsAssumption
<1>4. QED  BY <1>1, <1>3 DEF Sound

LEMMA TradeRefusedSound ==
  ASSUME Known, NEW t \in Tabs, TradeRefused(t)
  PROVE  Sound
PROOF
<1>1. trade[t] # NoTrade /\ trade[t].pc = "refused"  BY DEF TradeRefused, NoTrade
<1>2. excused /\ excused' = excused  BY <1>1, OnlyTrade DEF TradeRefused
<1>3. SessionKept' /\ LeavesForReason  BY <1>2, Excused
<1>4. Leave(t, {}) /\ UNCHANGED <<live, fresh>>  BY DEF TradeRefused
<1>5. Typed'
  BY <1>2, <1>4, LeaveMoves DEF Known, SessionInv, Typed, SessionsAssumption
<1>6. QED  BY <1>3, <1>5 DEF Sound
LEMMA RefreshedSound ==
  ASSUME Known, NEW t \in Tabs, Refreshed(t)
  PROVE  Sound
PROOF
<1> DEFINE n == trade[t].new
           Again(r) == [request[t][r] EXCEPT !.pc = "sent", !.access = n,
                                             !.again = TRUE]
           repeated == [r \in Requests |-> IF r \in Waiting(t) THEN Again(r)
                                           ELSE request[t][r]]
<1>1. trade[t] \in TradeOf /\ trade[t] # NoTrade /\ trade[t].pc = "stored"
  <2>1. trade[t].pc = "stored"  BY Zenon DEF Refreshed
  <2>2. QED  BY <2>1 DEF Known, SessionInv, Typed, NoTrade
<1>2. n \in 0..MaxPairs  BY <1>1, TradeFacts
<1>3. /\ local' = n /\ header' = [header EXCEPT ![t] = n]
      /\ trade' = [trade EXCEPT ![t] = NoTrade]
      /\ UNCHANGED <<live, fresh, page, excused>>
  BY DEF Refreshed
<1>4. request' = [request EXCEPT ![t] = repeated]  BY Zenon DEF Refreshed
<1>5. repeated \in [Requests -> RequestOf]
  <2>1. ASSUME NEW r \in Requests
        PROVE  request[t][r] \in RequestOf /\ (r \in Waiting(t) => Again(r) \in RequestOf)
    <3>1. request[t][r] \in RequestOf  BY DEF Known, SessionInv, Typed
    <3>2. r \in Waiting(t) => request[t][r].pc = "waiting"  BY DEF Waiting
    <3> HIDE DEF n
    <3>3. QED  BY <3>1, <3>2, <1>2, RequestRepeated
  <2> HIDE DEF Again
  <2>2. QED  BY <2>1
<1>6. request' \in [Tabs -> [Requests -> RequestOf]]
  <2> HIDE DEF repeated
  <2>1. QED  BY <1>4, <1>5 DEF Known, SessionInv, Typed
<1>7. trade' \in [Tabs -> TradeOf]
  BY <1>3, NothingAsked DEF Known, SessionInv, Typed
<1>8. header' \in [Tabs -> 0..MaxPairs]
  BY <1>2, <1>3 DEF Known, SessionInv, Typed
<1>9. Typed'
  <2> HIDE DEF n
  <2>1. QED  BY <1>2, <1>3, <1>6, <1>7, <1>8 DEF Known, SessionInv, Typed
<1>10. LeavesForReason  BY <1>3 DEF LeavesForReason
<1>11. ASSUME ~excused PROVE SessionKept'
  <2>1. /\ \A u \in Tabs : trade[u] # NoTrade => u = t
        /\ n # 0 /\ n \in live
    BY <1>1, <1>11, OnlyTrade
  <2>2. \A u \in Tabs : trade'[u] = NoTrade
    BY <2>1, <1>3 DEF Known, SessionInv, Typed
  <2> HIDE DEF n
  <2>3. QED  BY <2>1, <2>2, <1>3 DEF SessionKept
<1>12. QED  BY <1>3, <1>9, <1>10, <1>11 DEF Sound, SessionKept

LEMMA AcceptedSound ==
  ASSUME Known, NEW t \in Tabs, NEW r \in Requests, Accepted(t, r)
  PROVE  Sound
PROOF
<1>1. request' \in [Tabs -> [Requests -> RequestOf]]
  BY NothingAsked, RequestSet DEF Accepted, Known, SessionInv
<1>2. UNCHANGED <<fresh, header, trade>>  BY DEF Accepted
<1>3. CASE request[t][r].kind = "logout"
  <2>1. /\ live' = {} /\ local' = 0 /\ excused' = TRUE
        /\ page' = [page EXCEPT ![t] = "login"]
    BY <1>3 DEF Accepted
  <2>2. Typed'
    BY <1>1, <1>2, <2>1 DEF Known, SessionInv, Typed, SessionsAssumption
  <2>3. QED  BY <2>1, <2>2, Excused DEF Sound
<1>4. CASE request[t][r].kind # "logout"
  <2>1. UNCHANGED <<live, local, page, excused>>  BY <1>4 DEF Accepted
  <2>2. Typed'  BY <1>1, <1>2, <2>1 DEF Known, SessionInv, Typed
  <2>3. QED  BY <1>2, <2>1, <2>2, SessionAlone DEF Sound
<1>5. QED  BY <1>3, <1>4

LEMMA RefusedSound ==
  ASSUME Known, NEW t \in Tabs, NEW r \in Requests, Refused(t, r)
  PROVE  Sound
PROOF
<1>1. request' \in [Tabs -> [Requests -> RequestOf]]
  BY NothingAsked, RequestSet DEF Refused, Known, SessionInv
<1>2. UNCHANGED <<live, fresh, header, trade>>  BY DEF Refused
<1>3. CASE request[t][r].kind = "logout"
  <2>1. /\ local' = 0 /\ excused' = TRUE
        /\ page' = [page EXCEPT ![t] = "login"]
    BY <1>3 DEF Refused
  <2>2. Typed'
    BY <1>1, <1>2, <2>1 DEF Known, SessionInv, Typed, SessionsAssumption
  <2>3. QED  BY <2>1, <2>2, Excused DEF Sound
<1>4. CASE request[t][r].kind # "logout"
  <2>1. UNCHANGED <<local, page, excused>>  BY <1>4 DEF Refused
  <2>2. Typed'  BY <1>1, <1>2, <2>1 DEF Known, SessionInv, Typed
  <2>3. QED  BY <1>2, <2>1, <2>2, SessionAlone DEF Sound
<1>5. QED  BY <1>3, <1>4

\* A 401 without a token to trade.
LEMMA NothingToTrade ==
  ASSUME Known, NEW t \in Tabs, NEW r \in Requests, Unauthorized(t, r),
         Starts(t), local = 0
  PROVE  Sound
PROOF
<1>1. Leave(t, {r}) /\ UNCHANGED <<live, fresh, excused>>  BY DEF Unauthorized
<1>2. Typed'
  BY <1>1, LeaveMoves DEF Known, SessionInv, Typed, SessionsAssumption
<1>3. CASE excused  BY <1>1, <1>2, <1>3, Excused DEF Sound
<1>4. CASE ~excused
  <2>1. page[t] # "app"  BY <1>4, AppHasTokens
  <2>2. page' = page /\ local' = local
    BY <1>1, <2>1, LeaveMoves DEF Known, SessionInv
  <2>3. trade' = trade
    BY <1>1, LeaveMoves DEF Known, SessionInv, Typed, Starts
  <2>4. QED  BY <1>1, <1>2, <2>2, <2>3, SessionAlone DEF Sound
<1>5. QED  BY <1>3, <1>4

\* One that waits for the refresh of its tab, or begins it.
LEMMA WaitsSound ==
  ASSUME Known, NEW t \in Tabs, NEW r \in Requests, Unauthorized(t, r),
         ~(Starts(t) /\ local = 0)
  PROVE  Sound
PROOF
<1> DEFINE others == {u \in Tabs \ {t} : trade[u].pc # "idle" /\ trade[u].old = local}
           o == [pc |-> "sent", old |-> local, new |-> 0]
<1>1. /\ request' = [request EXCEPT ![t][r].pc = "waiting"]
      /\ IF Starts(t) THEN /\ trade' = [trade EXCEPT ![t] = o]
                           /\ excused' = (excused \/ others # {})
                      ELSE UNCHANGED <<trade, excused>>
      /\ UNCHANGED <<local, header, page, live, fresh>>
  BY Zenon DEF Unauthorized
<1>2. request' \in [Tabs -> [Requests -> RequestOf]]
  <2>1. request[t][r] \in RequestOf /\ request[t][r].pc = "sent"
    BY DEF Known, SessionInv, Typed, Unauthorized
  <2>2. PICK q : q = [request[t][r] EXCEPT !.pc = "waiting"]  OBVIOUS
  <2>3. q \in RequestOf  BY <2>1, <2>2, RequestWaits
  <2>4. request' = [request EXCEPT ![t][r] = q]  BY Zenon, <1>1, <2>2
  <2>5. QED  BY <2>3, <2>4, RequestSet DEF Known, SessionInv
<1>3. UNCHANGED <<live, fresh, local, header, page>>  BY <1>1
<1>4. LeavesForReason  BY <1>3 DEF LeavesForReason
<1>5. CASE ~Starts(t)
  <2>1. UNCHANGED <<trade, excused>>  BY <1>1, <1>5
  <2>2. Typed'  BY <1>2, <1>3, <2>1 DEF Known, SessionInv, Typed
  <2>3. QED  BY <1>3, <2>1, <2>2, SessionAlone DEF Sound
<1>6. CASE Starts(t)
  <2>1. local # 0 /\ local \in 0..MaxPairs  BY <1>6 DEF Known, SessionInv, Typed
  <2>2. o \in TradeOf /\ o.pc = "sent" /\ o.old = local
    BY <2>1, TradeMade DEF Known
  <2>3. trade' = [trade EXCEPT ![t] = o] /\ excused' = (excused \/ others # {})
    BY <1>1, <1>6
  <2> HIDE DEF o
  <2>4. trade' \in [Tabs -> TradeOf] /\ excused' \in BOOLEAN
    BY <2>2, <2>3 DEF Known, SessionInv, Typed
  <2>5. Typed'  BY <1>2, <1>3, <2>4 DEF Known, SessionInv, Typed
  <2>6. trade'[t] = o /\ \A u \in Tabs : u # t => trade'[u] = trade[u]
    BY <2>3 DEF Known, SessionInv, Typed
  <2>7. ASSUME ~excused' PROVE SessionKept'
    <3>1. ~excused /\ others = {}  BY <2>3, <2>7
    <3>2. \A u \in Tabs : trade[u] = NoTrade
      <4>1. SUFFICES ASSUME NEW u \in Tabs, trade[u] # NoTrade PROVE FALSE
        OBVIOUS
      <4>2. trade[u].old = local  BY <3>1, <4>1, OnlyTrade
      <4>3. trade[u].pc # "idle"
        BY <4>1, TradeFacts DEF Known, SessionInv, Typed
      <4>4. u # t  BY <4>1, <1>6 DEF Starts
      <4>5. QED  BY <3>1, <4>2, <4>3, <4>4
    <3>3. local \in live
      BY <3>1, <3>2, <2>1 DEF Known, SessionInv, SessionKept
    <3>4. o # NoTrade  BY <2>2 DEF NoTrade
    <3>5. \A u \in Tabs : trade'[u] # NoTrade => u = t  BY <2>6, <3>2
    <3>6. TradesWell(t)'
      BY <2>1, <2>2, <2>6, <3>3, <3>5, <1>3 DEF TradesWell
    <3>7. QED  BY <3>4, <3>5, <3>6, <2>1, <2>6, <1>3 DEF SessionKept
  <2>8. QED  BY <1>4, <2>5, <2>7 DEF Sound, SessionKept
<1>7. QED  BY <1>5, <1>6

(***************************************************************************)
(* The theorems                                                             *)
(***************************************************************************)
LEMMA StepSound == ASSUME Known, Next PROVE Sound
PROOF
<1>1. CASE EndSessions  BY <1>1, EndSound
<1>2. CASE \E n \in Pairs : Expire(n)  BY <1>2, ExpireSound
<1>3. ASSUME NEW t \in Tabs, TabStep(t) PROVE Sound
  BY <1>3, FindSound, RefreshedSound, TradeRefusedSound, RotateSound, AcceptedSound,
     RefusedSound, NothingToTrade, WaitsSound
     DEF TabStep
<1>4. ASSUME NEW t \in Tabs, NEW n \in Pairs, SignIn(t, n) PROVE Sound
  BY <1>4, SignInSound
<1>5. ASSUME NEW t \in Tabs, TradeLost(t) PROVE Sound  BY <1>5, LostSound
<1>6. ASSUME NEW t \in Tabs, NEW r \in Requests, NEW kind \in Kinds, Send(t, r, kind)
      PROVE  Sound
  BY <1>6, SendSound
<1>7. QED  BY <1>1, <1>2, <1>3, <1>4, <1>5, <1>6 DEF Next, Kinds

LEMMA StutterSound == ASSUME Known, UNCHANGED vars PROVE Sound
PROOF
<1>1. UNCHANGED <<live, fresh, local, header, page, request, trade, excused>>
  BY DEF vars, browser
<1>2. Typed'  BY <1>1 DEF Known, SessionInv, Typed
<1>3. QED  BY <1>1, <1>2, SessionAlone DEF Sound

LEMMA InvHolds == ASSUME SessionsAssumption PROVE Spec => []Known
PROOF
<1>1. Init => Known  BY InitKnown
<1>2. Known /\ [Next]_vars => Known'
  BY StepSound, StutterSound DEF Known, SessionInv, Sound, SessionsAssumption
<1>3. QED  BY <1>1, <1>2, PTL DEF Spec

\* Whatever the tabs and the server do, the tokens, requests and refreshes keep
\* their types (no pair is held that was never issued).
THEOREM SessionsTyped == ASSUME SessionsAssumption PROVE Spec => []TypeOK
PROOF
<1>1. Known => TypeOK  BY TypesSuffice DEF Known, SessionInv
<1>2. QED  BY <1>1, InvHolds, PTL

\* Nobody is sent from the application to the login page without a reason:
\* neither expired access tokens, however many requests of a tab meet one at
\* once, nor tabs that refresh one after the other, cost the session
\* (api.ts's refreshPromise and AuthService.refresh).
THEOREM NobodyLeavesForNothing ==
  ASSUME SessionsAssumption PROVE Spec => NoSpuriousSignOut
PROOF
<1>1. Known /\ [Next]_vars => [LeavesForReason]_vars
  BY StepSound DEF Sound
<1>2. QED  BY <1>1, InvHolds, PTL DEF Spec, NoSpuriousSignOut

(***************************************************************************)
(* Accounts                                                                 *)
(*                                                                          *)
(* A request that has found the row may count on the row being there; one   *)
(* that no write has overtaken, on what it found.                           *)
(***************************************************************************)
AccountKnown == Account!AccountsAssumption /\ Account!AccountsInv

UserState == [made : BOOLEAN, active : BOOLEAN, verified : BOOLEAN, deleted : BOOLEAN,
              password : BOOLEAN, link : 0..MaxLinks, expired : BOOLEAN]
Acts == {"nothing", "create", "invite", "resend", "revoke", "remove", "purge", "register",
         "forgot", "invited", "reset", "verify"}
OpState == [do : Acts, link : 0..MaxLinks]
LinkKinds == {"invite", "reset", "verify"}
Mailed == UNION {[1..n -> LinkKinds] : n \in 0..MaxLinks}

LEMMA AccountTypes ==
  /\ Account!TypeOK <=> /\ user \in UserState /\ access \in BOOLEAN /\ mailed \in Mailed
                        /\ op \in [Visits -> OpState]
                        /\ restarts \in 0..MaxRestarts /\ stale \subseteq Visits
                        /\ fate \in {"open", "ended"}
                        /\ odd \in BOOLEAN /\ kept \in BOOLEAN
  /\ Account!TypeOK' <=> /\ user' \in UserState /\ access' \in BOOLEAN /\ mailed' \in Mailed
                         /\ op' \in [Visits -> OpState]
                         /\ restarts' \in 0..MaxRestarts /\ stale' \subseteq Visits
                         /\ fate' \in {"open", "ended"}
                         /\ odd' \in BOOLEAN /\ kept' \in BOOLEAN
PROOF BY DEF Account!TypeOK, UserState, OpState, Acts, LinkKinds, Mailed

LEMMA AccountParts ==
  ASSUME AccountKnown
  PROVE  /\ user \in UserState /\ access \in BOOLEAN /\ mailed \in Mailed
         /\ op \in [Visits -> OpState]
         /\ restarts \in 0..MaxRestarts /\ stale \subseteq Visits
         /\ fate \in {"open", "ended"} /\ odd \in BOOLEAN /\ kept \in BOOLEAN
         /\ Account!FoundForGood /\ Account!LastLinkWorks /\ Account!RemovedHasNoAccess
         /\ Account!SeenPending /\ Account!Accepted
         /\ MaxLinks \in Nat /\ MaxRestarts \in Nat
PROOF
<1>1. Account!TypeOK  BY DEF AccountKnown, Account!AccountsInv
<1>2. QED
  BY <1>1, AccountTypes DEF AccountKnown, Account!AccountsInv, Account!AccountsAssumption

\* The list of mailed links grows by one.
LEMMA MailedGrows ==
  ASSUME AccountKnown, NEW what \in LinkKinds, Account!Last < MaxLinks, mailed' = Append(mailed, what)
  PROVE  /\ Account!Last \in Nat /\ Account!Last + 1 \in 0..MaxLinks
         /\ Account!Last' = Account!Last + 1 /\ mailed' \in Mailed
PROOF
<1>1. PICK n \in 0..MaxLinks : mailed \in [1..n -> LinkKinds]  BY AccountParts DEF Mailed
<1>2. MaxLinks \in Nat  BY AccountParts
<1>3. mailed \in Seq(LinkKinds) /\ Len(mailed) = n  BY <1>1, <1>2
<1>4. /\ Append(mailed, what) \in Seq(LinkKinds) /\ Len(Append(mailed, what)) = Len(mailed) + 1
  BY <1>3, AppendProperties
<1>5. Append(mailed, what) \in [1..(n + 1) -> LinkKinds]  BY <1>3, <1>4, LenProperties
<1>6. n + 1 \in 0..MaxLinks  BY <1>1, <1>2, <1>3 DEF Account!Last
<1>7. QED  BY <1>1, <1>3, <1>4, <1>5, <1>6 DEF Mailed, Account!Last

LEMMA UserFields ==
  ASSUME NEW u \in UserState
  PROVE  /\ u.made \in BOOLEAN /\ u.active \in BOOLEAN /\ u.verified \in BOOLEAN
         /\ u.deleted \in BOOLEAN /\ u.link \in 0..MaxLinks
PROOF BY DEF UserState

\* What a write changes of the row.
LEMMA LinkedRow ==
  ASSUME NEW u \in UserState, Account!Last + 1 \in 0..MaxLinks
  PROVE  /\ Account!Linked(u) \in UserState /\ Account!Linked(u).link = Account!Last + 1
         /\ Account!Linked(u).made = u.made /\ Account!Linked(u).active = u.active
         /\ Account!Linked(u).verified = u.verified /\ Account!Linked(u).deleted = u.deleted
PROOF
<1>1. PICK x, y : x = [u EXCEPT !.link = Account!Last + 1] /\ y = [x EXCEPT !.expired = FALSE]
  OBVIOUS
<1>2. Account!Linked(u) = y  BY <1>1 DEF Account!Linked
<1>3. x \in UserState /\ x.link = Account!Last + 1  BY <1>1 DEF UserState
<1>4. /\ x.made = u.made /\ x.active = u.active
      /\ x.verified = u.verified /\ x.deleted = u.deleted
  BY <1>1 DEF UserState
<1>5. y \in UserState /\ y.link = x.link  BY <1>1, <1>3 DEF UserState
<1>6. /\ y.made = x.made /\ y.active = x.active
      /\ y.verified = x.verified /\ y.deleted = x.deleted
  BY <1>1, <1>3 DEF UserState
<1>7. QED  BY <1>2, <1>3, <1>4, <1>5, <1>6

LEMMA UnlinkedRow ==
  ASSUME NEW u \in UserState, MaxLinks \in Nat
  PROVE  /\ Account!Unlinked(u) \in UserState
         /\ Account!Unlinked(u).made = u.made /\ Account!Unlinked(u).active = u.active
         /\ Account!Unlinked(u).verified = u.verified /\ Account!Unlinked(u).deleted = u.deleted
PROOF
<1>1. PICK x, y : x = [u EXCEPT !.link = 0] /\ y = [x EXCEPT !.expired = FALSE]
  OBVIOUS
<1>2. Account!Unlinked(u) = y  BY <1>1 DEF Account!Unlinked
<1>3. 0 \in 0..MaxLinks  OBVIOUS
<1>4. /\ x \in UserState /\ x.made = u.made /\ x.active = u.active
      /\ x.verified = u.verified /\ x.deleted = u.deleted
  BY <1>1, <1>3 DEF UserState
<1>5. /\ y \in UserState /\ y.made = x.made /\ y.active = x.active
      /\ y.verified = x.verified /\ y.deleted = x.deleted
  BY <1>1, <1>4 DEF UserState
<1>6. QED  BY <1>2, <1>4, <1>5

LEMMA InvitedRow ==
  ASSUME NEW u, u = [user EXCEPT !.made = TRUE, !.active = FALSE, !.verified = FALSE,
                                 !.deleted = FALSE],
         user \in UserState
  PROVE  u \in UserState /\ u.made /\ ~u.active /\ ~u.verified /\ ~u.deleted
PROOF
<1>1. PICK x1, x2, x3, x4 :
        /\ x1 = [user EXCEPT !.made = TRUE] /\ x2 = [x1 EXCEPT !.active = FALSE]
        /\ x3 = [x2 EXCEPT !.verified = FALSE] /\ x4 = [x3 EXCEPT !.deleted = FALSE]
  OBVIOUS
<1>2. u = x4  BY <1>1
<1>3. x2 \in UserState /\ x2.made /\ ~x2.active  BY <1>1 DEF UserState
<1>4. QED  BY <1>1, <1>2, <1>3 DEF UserState

LEMMA NothingTyped ==
  ASSUME Account!AccountsAssumption
  PROVE  /\ Account!Nothing \in OpState /\ Account!Nothing.do = "nothing"
         /\ Account!Absent \in UserState /\ ~Account!Absent.made /\ ~Account!Absent.active
         /\ ~Account!Absent.deleted
PROOF
  BY DEF Account!Nothing, OpState, Acts, Account!Absent, UserState, Account!AccountsAssumption

LEMMA AccountInitKnown == Account!AccountsAssumption /\ Account!Init => AccountKnown
PROOF
<1>1. SUFFICES ASSUME Account!AccountsAssumption, Account!Init PROVE Account!AccountsInv
  BY DEF AccountKnown
<1>2. Account!TypeOK
  <2>1. mailed \in Mailed
    <3>1. <<>> \in [1..0 -> LinkKinds]  OBVIOUS
    <3>2. 0 \in 0..MaxLinks  BY <1>1 DEF Account!AccountsAssumption
    <3>3. <<>> \in Mailed  BY <3>1, <3>2, Zenon DEF Mailed
    <3>4. QED  BY <1>1, <3>3 DEF Account!Init
  <2>2. user \in UserState /\ op \in [Visits -> OpState]  BY <1>1, NothingTyped DEF Account!Init
  <2>3. restarts \in 0..MaxRestarts  BY <1>1 DEF Account!Init, Account!AccountsAssumption
  <2>4. access \in BOOLEAN /\ stale \subseteq Visits /\ fate \in {"open", "ended"}
        /\ odd \in BOOLEAN /\ kept \in BOOLEAN
    BY <1>1 DEF Account!Init
  <2>5. QED  BY <2>1, <2>2, <2>3, <2>4, AccountTypes
<1>3. \A r \in Visits : op[r].do = "nothing"  BY <1>1, NothingTyped DEF Account!Init
<1>4. QED
  BY <1>1, <1>2, <1>3, NothingTyped
     DEF Account!Init, Account!AccountsInv, Account!FoundForGood, Account!LastLinkWorks,
         Account!RemovedHasNoAccess, Account!SeenPending, Account!Accepted, Account!Found

(***************************************************************************)
(* Steps                                                                    *)
(***************************************************************************)
\* A request finds the row: nothing but its own entry changes.
LEMMA BeginStep ==
  ASSUME AccountKnown, NEW r \in Visits, NEW do \in Acts \ {"purge"},
         NEW link \in 0..MaxLinks, Account!Begin(r, do, link),
         do \notin {"nothing", "create"} => Account!Found,
         do \in {"resend", "revoke"} => ~user.verified
  PROVE  Account!AccountsInv'
PROOF
<1>1. /\ op[r] = Account!Nothing /\ op' = [op EXCEPT ![r] = [do |-> do, link |-> link]]
      /\ stale' = stale \ {r}
      /\ UNCHANGED <<user, access, mailed, restarts, fate, odd, kept>>
  BY DEF Account!Begin
<1>2. PICK x : x = [do |-> do, link |-> link]  OBVIOUS
<1>3. x \in OpState /\ x.do = do  BY <1>2 DEF OpState
<1>4. op' = [op EXCEPT ![r] = x]  BY <1>1, <1>2
<1>5. op'[r] = x /\ \A q \in Visits \ {r} : op'[q] = op[q]  BY <1>4, AccountParts
<1>6. Account!TypeOK'  BY <1>1, <1>3, <1>4, AccountParts, AccountTypes
<1>7. Account!FoundForGood'
  BY <1>1, <1>3, <1>5, AccountParts DEF Account!FoundForGood, Account!Found
<1>8. Account!LastLinkWorks' /\ Account!Accepted'
  BY <1>1, AccountParts DEF Account!LastLinkWorks, Account!Accepted, Account!Found, Account!Last
<1>9. Account!RemovedHasNoAccess'
  <2>1. op[r].do = "nothing"  BY <1>1, NothingTyped DEF AccountKnown
  <2>2. QED  BY <1>1, <1>5, <2>1, AccountParts DEF Account!RemovedHasNoAccess
<1>10. Account!SeenPending'  BY <1>1, <1>3, <1>5, AccountParts DEF Account!SeenPending
<1>11. QED  BY <1>6, <1>7, <1>8, <1>9, <1>10 DEF Account!AccountsInv

\* A request writes the row: the others have been overtaken.
LEMMA WriteStep ==
  ASSUME AccountKnown, NEW r \in Visits, NEW x \in UserState, NEW then \in OpState,
         Account!Write(r, x, then), op[r].do # "purge",
         then.do \in {"nothing", "purge", "register"}, x.made,
         access' \in BOOLEAN, mailed' \in Mailed, fate' \in {"open", "ended"},
         odd' \in BOOLEAN, kept' \in BOOLEAN,
         fate' = "open" => x.link = Account!Last',
         x.active => x.verified \/ odd',
         \/ UNCHANGED <<access, kept>> /\ (x.deleted => user.deleted)
         \/ then.do = "purge"
  PROVE  Account!AccountsInv'
PROOF
<1>1. /\ user' = x /\ op' = [op EXCEPT ![r] = then]
      /\ stale' = {q \in Visits \ {r} : op[q] # Account!Nothing} /\ UNCHANGED restarts
  BY DEF Account!Write
<1>2. op'[r] = then /\ \A q \in Visits \ {r} : op'[q] = op[q]  BY <1>1, AccountParts
<1>3. Account!TypeOK'  BY <1>1, AccountParts, AccountTypes
<1>4. Account!FoundForGood'  BY <1>1 DEF Account!FoundForGood, Account!Found
<1>5. Account!LastLinkWorks' /\ Account!Accepted'
  BY <1>1 DEF Account!LastLinkWorks, Account!Accepted, Account!Found
<1>6. Account!RemovedHasNoAccess'
  <2>1. CASE then.do = "purge"
    <3>1. op'[r].do = "purge"  BY <1>2, <2>1
    <3>2. QED  BY <3>1 DEF Account!RemovedHasNoAccess
  <2>2. CASE UNCHANGED <<access, kept>> /\ (x.deleted => user.deleted)
    <3>1. Account!RemovedHasNoAccess  BY AccountParts
    <3>2. \A q \in Visits : op[q].do = "purge" => op'[q].do = "purge"  BY <1>2
    <3>3. QED  BY <1>1, <2>2, <3>1, <3>2 DEF Account!RemovedHasNoAccess
  <2>3. QED  BY <2>1, <2>2
<1>7. Account!SeenPending'
  <2>1. Account!Nothing.do = "nothing"  BY NothingTyped DEF AccountKnown
  <2>2. QED  BY <1>1, <1>2, <2>1 DEF Account!SeenPending
<1>8. QED  BY <1>3, <1>4, <1>5, <1>6, <1>7 DEF Account!AccountsInv

\* The ways a request changes the row.
LEMMA ChangedRow ==
  ASSUME user \in UserState, NEW x,
         \/ x = [user EXCEPT !.active = FALSE]
         \/ x = [user EXCEPT !.password = TRUE]
         \/ x = [user EXCEPT !.verified = TRUE]
  PROVE  /\ x \in UserState /\ x.made = user.made /\ x.deleted = user.deleted
         /\ x.link = user.link
         /\ x.active => user.active
         /\ user.verified => x.verified
PROOF BY DEF UserState

LEMMA AcceptedRow ==
  ASSUME user \in UserState, NEW x,
         x = [user EXCEPT !.password = TRUE, !.verified = TRUE, !.active = TRUE]
  PROVE  x \in UserState /\ x.made = user.made /\ x.deleted = user.deleted /\ x.verified
PROOF
<1>1. PICK x1, x2, x3 :
        /\ x1 = [user EXCEPT !.password = TRUE] /\ x2 = [x1 EXCEPT !.verified = TRUE]
        /\ x3 = [x2 EXCEPT !.active = TRUE]
  OBVIOUS
<1>2. x = x3  BY <1>1
<1>3. QED  BY <1>1, <1>2 DEF UserState

LEMMA RemovedRow ==
  ASSUME user \in UserState, NEW x, x = [user EXCEPT !.deleted = TRUE, !.active = FALSE]
  PROVE  x \in UserState /\ x.made = user.made /\ x.link = user.link /\ ~x.active
PROOF
<1>1. PICK x1, x2 : x1 = [user EXCEPT !.deleted = TRUE] /\ x2 = [x1 EXCEPT !.active = FALSE]
  OBVIOUS
<1>2. x = x2  BY <1>1
<1>3. QED  BY <1>1, <1>2 DEF UserState

LEMMA RegisteredRow ==
  ASSUME Account!AccountsAssumption, NEW x,
         x = [Account!Absent EXCEPT !.made = TRUE, !.active = TRUE, !.password = TRUE]
  PROVE  x \in UserState /\ x.made /\ ~x.deleted
PROOF
<1>1. PICK x1, x2, x3 :
        /\ x1 = [Account!Absent EXCEPT !.made = TRUE] /\ x2 = [x1 EXCEPT !.active = TRUE]
        /\ x3 = [x2 EXCEPT !.password = TRUE]
  OBVIOUS
<1>2. x = x3  BY <1>1
<1>3. QED  BY <1>1, <1>2, NothingTyped DEF UserState, Account!Absent

\* A request mails a link: the row has it.
LEMMA MailStep ==
  ASSUME AccountKnown, NEW r \in Visits, NEW u \in UserState, NEW what \in LinkKinds,
         Account!Write(r, Account!Linked(u), Account!Nothing), Account!Mail(what), op[r].do # "purge", u.made,
         u.active => u.verified \/ odd', u.deleted => user.deleted,
         odd' \in BOOLEAN, UNCHANGED <<access, kept>>
  PROVE  Account!AccountsInv'
PROOF
<1>1. Account!Last < MaxLinks /\ mailed' = Append(mailed, what) /\ fate' = "open"
  BY DEF Account!Mail
<1>2. Account!Last + 1 \in 0..MaxLinks /\ Account!Last' = Account!Last + 1 /\ mailed' \in Mailed
  BY <1>1, MailedGrows
<1>3. PICK x : x = Account!Linked(u)  OBVIOUS
<1>4. /\ x \in UserState /\ x.link = Account!Last + 1 /\ x.made = u.made /\ x.active = u.active
      /\ x.verified = u.verified /\ x.deleted = u.deleted
  BY <1>2, <1>3, LinkedRow
<1>5. Account!Nothing \in OpState /\ Account!Nothing.do = "nothing"
  BY NothingTyped DEF AccountKnown
<1>6. Account!Write(r, x, Account!Nothing)  BY <1>3
<1>7. access' \in BOOLEAN /\ kept' \in BOOLEAN  BY AccountParts
<1>8. x.made /\ (x.active => x.verified \/ odd') /\ (x.deleted => user.deleted)  BY <1>4
<1>9. x.link = Account!Last'  BY <1>2, <1>4
<1>10. QED  BY <1>1, <1>2, <1>4, <1>5, <1>6, <1>7, <1>8, <1>9, WriteStep

\* A request clears the column.
LEMMA ClearStep ==
  ASSUME AccountKnown, NEW r \in Visits, NEW u \in UserState,
         Account!Write(r, Account!Unlinked(u), Account!Nothing), Account!Ends, op[r].do # "purge", u.made,
         u.active => u.verified \/ odd, u.deleted => user.deleted,
         UNCHANGED <<access, odd, kept>>
  PROVE  Account!AccountsInv'
PROOF
<1>1. fate' = "ended" /\ UNCHANGED mailed  BY DEF Account!Ends
<1>2. PICK x : x = Account!Unlinked(u)  OBVIOUS
<1>3. /\ x \in UserState /\ x.made = u.made /\ x.active = u.active
      /\ x.verified = u.verified /\ x.deleted = u.deleted
  BY <1>2, UnlinkedRow, AccountParts
<1>4. Account!Nothing \in OpState /\ Account!Nothing.do = "nothing"
  BY NothingTyped DEF AccountKnown
<1>5. Account!Write(r, x, Account!Nothing)  BY <1>2
<1>6. /\ access' \in BOOLEAN /\ kept' \in BOOLEAN /\ odd' \in BOOLEAN
      /\ mailed' \in Mailed
  BY <1>1, AccountParts
<1>7. x.made /\ (x.active => x.verified \/ odd') /\ (x.deleted => user.deleted)  BY <1>3
<1>8. QED  BY <1>1, <1>3, <1>4, <1>5, <1>6, <1>7, WriteStep

LEMMA FindSteps ==
  ASSUME AccountKnown, NEW r \in Visits,
         \/ Account!FindForInvite(r) \/ Account!FindForResend(r) \/ Account!FindForRevoke(r)
         \/ Account!FindForRemove(r) \/ Account!FindForForgot(r) \/ Account!FindByLink(r)
  PROVE  Account!AccountsInv'
PROOF
<1>1. 0 \in 0..MaxLinks /\ user.link \in 0..MaxLinks  BY AccountParts, UserFields
<1>2. CASE Account!FindForInvite(r)
  <2>1. PICK do \in {"invite", "create"} : do = (IF Account!Found THEN "invite" ELSE "create")
    OBVIOUS
  <2>2. Account!Begin(r, do, 0) /\ (do # "create" => Account!Found)
    BY <1>2, <2>1 DEF Account!FindForInvite
  <2>3. do \in Acts \ {"purge"} /\ do \notin {"resend", "revoke"}  BY <2>1 DEF Acts
  <2>4. QED  BY <1>1, <2>2, <2>3, BeginStep
<1>3. CASE Account!FindForResend(r) \/ Account!FindForRevoke(r)
  <2>1. PICK do \in {"resend", "revoke"} : Account!IsPending /\ Account!Begin(r, do, 0)
    BY <1>3 DEF Account!FindForResend, Account!FindForRevoke
  <2>2. do \in Acts \ {"purge"} /\ Account!Found /\ ~user.verified
    BY <2>1 DEF Acts, Account!IsPending
  <2>3. QED  BY <1>1, <2>1, <2>2, BeginStep
<1>4. CASE Account!FindForRemove(r) \/ Account!FindForForgot(r)
  <2>1. PICK do \in {"remove", "forgot"} : Account!Found /\ Account!Begin(r, do, 0)
    BY <1>4 DEF Account!FindForRemove, Account!FindForForgot
  <2>2. do \in Acts \ {"purge"} /\ do \notin {"resend", "revoke"}  BY <2>1 DEF Acts
  <2>3. QED  BY <1>1, <2>1, <2>2, BeginStep
<1>5. CASE Account!FindByLink(r)
  <2>1. PICK do : do = CASE mailed[user.link] = "invite" -> "invited"
                         [] mailed[user.link] = "reset" -> "reset"
                         [] OTHER -> "verify"
    OBVIOUS
  <2>2. do \in {"invited", "reset", "verify"}  BY <2>1
  <2>3. Account!Found /\ Account!Begin(r, do, user.link)  BY <1>5, <2>1 DEF Account!FindByLink
  <2>4. do \in Acts \ {"purge"} /\ do \notin {"resend", "revoke"}  BY <2>2 DEF Acts
  <2>5. QED  BY <1>1, <2>3, <2>4, BeginStep
<1>6. QED  BY <1>2, <1>3, <1>4, <1>5

LEMMA MailSteps ==
  ASSUME AccountKnown, NEW r \in Visits,
         Account!WriteInvite(r) \/ Account!WriteResend(r) \/ Account!WriteForgot(r) \/ Account!WriteRegistered(r)
  PROVE  Account!AccountsInv'
PROOF
<1>1. /\ user \in UserState /\ Account!Accepted /\ Account!FoundForGood /\ odd \in BOOLEAN
      /\ user.made \in BOOLEAN /\ user.active \in BOOLEAN
  BY AccountParts, UserFields
<1>2. "invite" \in LinkKinds /\ "reset" \in LinkKinds /\ "verify" \in LinkKinds
  BY DEF LinkKinds
<1>3. CASE Account!WriteInvite(r)
  <2>1. PICK u : u = [user EXCEPT !.made = TRUE, !.active = FALSE, !.verified = FALSE,
                                  !.deleted = FALSE]
    OBVIOUS
  <2>2. u \in UserState /\ u.made /\ ~u.active /\ ~u.deleted  BY <1>1, <2>1, InvitedRow
  <2>3. /\ Account!Write(r, Account!Linked(u), Account!Nothing) /\ Account!Mail("invite")
        /\ op[r].do # "purge"
        /\ odd' = FALSE /\ UNCHANGED <<access, kept>>
    BY <1>3, <2>1 DEF Account!WriteInvite, Account!Invited
  <2>4. QED  BY <1>2, <2>2, <2>3, MailStep
<1>4. CASE Account!WriteResend(r)
  <2>1. PICK u : u = [user EXCEPT !.active = FALSE]  OBVIOUS
  <2>2. u \in UserState /\ u.made = user.made /\ u.deleted = user.deleted
    BY <1>1, <2>1, ChangedRow
  <2>3. ~u.active  BY <1>1, <2>1 DEF UserState
  <2>4. /\ Account!Write(r, Account!Linked(u), Account!Nothing) /\ Account!Mail("invite")
        /\ op[r].do = "resend"
        /\ UNCHANGED <<access, odd, kept>>
    BY <1>4, <2>1 DEF Account!WriteResend
  <2>5. user.made  BY <1>1, <2>4 DEF Account!FoundForGood, Account!Found
  <2>6. QED  BY <1>1, <1>2, <2>2, <2>3, <2>4, <2>5, MailStep
<1>5. CASE Account!WriteForgot(r)
  <2>1. /\ Account!Write(r, Account!Linked(user), Account!Nothing) /\ Account!Mail("reset")
        /\ op[r].do = "forgot"
        /\ odd' = TRUE /\ UNCHANGED <<access, kept>>
    BY <1>5 DEF Account!WriteForgot
  <2>2. user.made  BY <1>1, <2>1 DEF Account!FoundForGood, Account!Found
  <2>3. PICK u : u = user  OBVIOUS
  <2>4. Account!Write(r, Account!Linked(u), Account!Nothing)  BY <2>1, <2>3
  <2>5. QED  BY <1>1, <1>2, <2>1, <2>2, <2>3, <2>4, MailStep
<1>6. CASE Account!WriteRegistered(r)
  <2>1. /\ Account!Write(r, Account!Linked(user), Account!Nothing) /\ Account!Mail("verify")
        /\ op[r].do = "register"
        /\ UNCHANGED <<access, odd, kept>>
    BY <1>6 DEF Account!WriteRegistered
  <2>2. user.made  BY <1>1, <2>1 DEF Account!FoundForGood, Account!Found
  <2>3. PICK u : u = user  OBVIOUS
  <2>4. Account!Write(r, Account!Linked(u), Account!Nothing)  BY <2>1, <2>3
  <2>5. QED  BY <1>1, <1>2, <2>1, <2>2, <2>3, <2>4, MailStep DEF Account!Accepted
<1>7. QED  BY <1>3, <1>4, <1>5, <1>6

LEMMA ClearSteps ==
  ASSUME AccountKnown, NEW r \in Visits,
         Account!WriteRevoke(r) \/ Account!WriteReset(r) \/ Account!WriteAccepted(r) \/ Account!WriteVerified(r)
  PROVE  Account!AccountsInv'
PROOF
<1>1. user \in UserState /\ Account!Accepted /\ Account!FoundForGood  BY AccountParts
<1>2. op[r].do \in {"revoke", "reset", "invited", "verify"}
  BY DEF Account!WriteRevoke, Account!WriteReset, Account!WriteAccepted, Account!WriteVerified
<1>3. user.made /\ op[r].do # "purge"  BY <1>1, <1>2 DEF Account!FoundForGood, Account!Found
<1>4. Account!Ends /\ UNCHANGED <<access, odd, kept>>
  BY DEF Account!WriteRevoke, Account!WriteReset, Account!WriteAccepted, Account!WriteVerified
<1>5. CASE Account!WriteRevoke(r) \/ Account!WriteReset(r) \/ Account!WriteVerified(r)
  <2>1. PICK u : /\ \/ u = [user EXCEPT !.active = FALSE]
                    \/ u = [user EXCEPT !.password = TRUE]
                    \/ u = [user EXCEPT !.verified = TRUE]
                 /\ Account!Write(r, Account!Unlinked(u), Account!Nothing)
    BY <1>5 DEF Account!WriteRevoke, Account!WriteReset, Account!WriteVerified
  <2>2. /\ u \in UserState /\ u.made = user.made /\ u.deleted = user.deleted
        /\ u.active => user.active
        /\ user.verified => u.verified
    BY <1>1, <2>1, ChangedRow
  <2>3. QED  BY <1>1, <1>3, <1>4, <2>1, <2>2, ClearStep DEF Account!Accepted
<1>6. CASE Account!WriteAccepted(r)
  <2>1. PICK u : u = [user EXCEPT !.password = TRUE, !.verified = TRUE, !.active = TRUE]
    OBVIOUS
  <2>2. u \in UserState /\ u.made = user.made /\ u.deleted = user.deleted /\ u.verified
    BY <1>1, <2>1, AcceptedRow
  <2>3. Account!Write(r, Account!Unlinked(u), Account!Nothing)
    BY <1>6, <2>1 DEF Account!WriteAccepted
  <2>4. QED  BY <1>3, <1>4, <2>2, <2>3, ClearStep
<1>7. QED  BY <1>5, <1>6

LEMMA RemoveStep ==
  ASSUME AccountKnown, NEW r \in Visits, Account!WriteRemove(r) PROVE Account!AccountsInv'
PROOF
<1>1. PICK x, then : /\ x = [user EXCEPT !.deleted = TRUE, !.active = FALSE]
                     /\ then = [do |-> "purge", link |-> 0]
  OBVIOUS
<1>2. /\ op[r].do = "remove" /\ Account!Write(r, x, then)
      /\ kept' = FALSE /\ UNCHANGED <<access, mailed, fate, odd>>
  BY <1>1 DEF Account!WriteRemove
<1>3. /\ user \in UserState /\ Account!FoundForGood /\ Account!LastLinkWorks /\ MaxLinks \in Nat
      /\ access' \in BOOLEAN /\ mailed' \in Mailed /\ fate' \in {"open", "ended"}
      /\ odd' \in BOOLEAN
  BY <1>2, AccountParts
<1>4. x \in UserState /\ x.made = user.made /\ x.link = user.link /\ ~x.active
  BY <1>1, <1>3, RemovedRow
<1>5. then \in OpState /\ then.do = "purge"  BY <1>1, <1>3 DEF OpState, Acts
<1>6. user.made  BY <1>2, <1>3 DEF Account!FoundForGood, Account!Found
<1>7. fate' = "open" => x.link = Account!Last'
  BY <1>2, <1>3, <1>4 DEF Account!LastLinkWorks, Account!Last
<1>8. QED  BY <1>2, <1>3, <1>4, <1>5, <1>6, <1>7, WriteStep

LEMMA RegisterStep ==
  ASSUME AccountKnown, NEW r \in Visits, Account!Register(r) PROVE Account!AccountsInv'
PROOF
<1>1. PICK x, then : /\ x = [Account!Absent EXCEPT !.made = TRUE, !.active = TRUE, !.password = TRUE]
                     /\ then = [do |-> "register", link |-> 0]
  OBVIOUS
<1>2. /\ op[r] = Account!Nothing /\ ~Account!Found /\ Account!Write(r, x, then)
      /\ odd' = TRUE /\ UNCHANGED <<access, mailed, fate, kept>>
  BY <1>1 DEF Account!Register
<1>3. /\ Account!LastLinkWorks /\ MaxLinks \in Nat
      /\ access' \in BOOLEAN /\ mailed' \in Mailed /\ fate' \in {"open", "ended"}
      /\ kept' \in BOOLEAN
  BY <1>2, AccountParts
<1>4. x \in UserState /\ x.made /\ ~x.deleted  BY <1>1, RegisteredRow DEF AccountKnown
<1>5. then \in OpState /\ then.do = "register"  BY <1>1, <1>3 DEF OpState, Acts
<1>6. op[r].do # "purge"  BY <1>2, NothingTyped DEF AccountKnown
<1>7. fate' # "open"  BY <1>2, <1>3 DEF Account!LastLinkWorks
<1>8. QED  BY <1>2, <1>3, <1>4, <1>5, <1>6, <1>7, WriteStep

LEMMA SetActiveStep ==
  ASSUME AccountKnown, NEW on \in BOOLEAN, Account!SetActive(on) PROVE Account!AccountsInv'
PROOF
<1>1. /\ Account!Found /\ user' = [user EXCEPT !.active = on, !.deleted = user.deleted /\ ~on]
      /\ stale' = {q \in Visits : op[q] # Account!Nothing}
      /\ odd' = (odd \/ (on /\ ~user.verified)) /\ kept' = (kept /\ ~on)
      /\ UNCHANGED <<access, mailed, op, restarts, fate>>
  BY DEF Account!SetActive
<1>2. PICK x1, x2 : /\ x1 = [user EXCEPT !.active = on]
                    /\ x2 = [x1 EXCEPT !.deleted = user.deleted /\ ~on]
  OBVIOUS
<1>3. user' = x2  BY <1>1, <1>2
<1>4. user \in UserState /\ user.deleted \in BOOLEAN /\ user.verified \in BOOLEAN
  BY AccountParts, UserFields
<1>5. /\ x1 \in UserState /\ x1.made = user.made /\ x1.link = user.link
      /\ x1.verified = user.verified /\ x1.active = on
  BY <1>2, <1>4 DEF UserState
<1>6. /\ x2 \in UserState /\ x2.made = x1.made /\ x2.link = x1.link
      /\ x2.verified = x1.verified /\ x2.active = x1.active
      /\ x2.deleted = (user.deleted /\ ~on)
  <2>1. PICK gone \in BOOLEAN : gone = (user.deleted /\ ~on)  OBVIOUS
  <2>2. x2 = [x1 EXCEPT !.deleted = gone]  BY <1>2, <2>1
  <2>3. QED  BY <1>5, <2>1, <2>2 DEF UserState
<1>7. odd' \in BOOLEAN /\ kept' \in BOOLEAN  BY <1>1
<1>8. Account!TypeOK'
  <2>1. stale' \subseteq Visits  BY <1>1
  <2>2. QED  BY <1>1, <1>3, <1>6, <1>7, <2>1, AccountParts, AccountTypes
<1>9. Account!FoundForGood' /\ Account!LastLinkWorks'
  BY <1>1, <1>3, <1>5, <1>6, AccountParts
     DEF Account!FoundForGood, Account!LastLinkWorks, Account!Found, Account!Last
<1>10. Account!RemovedHasNoAccess'
  BY <1>1, <1>3, <1>6, AccountParts DEF Account!RemovedHasNoAccess
<1>11. Account!SeenPending'  BY <1>1, NothingTyped DEF Account!SeenPending, AccountKnown
<1>12. Account!Accepted'  BY <1>1, <1>3, <1>5, <1>6, AccountParts DEF Account!Accepted
<1>13. QED  BY <1>8, <1>9, <1>10, <1>11, <1>12 DEF Account!AccountsInv

\* Steps that leave the row as it is, or only let its link expire.
LEMMA OtherSteps ==
  ASSUME AccountKnown,
         \/ Account!Grant \/ Account!RevokeAccess \/ Account!Expire \/ Account!Restart
         \/ UNCHANGED Account!vars
         \/ \E r \in Visits : Account!Purge(r) \/ Account!CreateRefused(r)
  PROVE  Account!AccountsInv'
PROOF
<1>1. Account!Nothing \in OpState /\ Account!Nothing.do = "nothing"
  BY NothingTyped DEF AccountKnown
<1>2. CASE Account!Grant \/ Account!RevokeAccess \/ UNCHANGED Account!vars
  <2>1. /\ UNCHANGED <<user, mailed, op, restarts, stale, fate, odd>>
        /\ access' \in BOOLEAN /\ kept' \in BOOLEAN
    BY <1>2, AccountParts, UserFields DEF Account!Grant, Account!RevokeAccess, Account!vars
  <2>2. Account!TypeOK'  BY <2>1, AccountParts, AccountTypes
  <2>3. Account!FoundForGood' /\ Account!LastLinkWorks' /\ Account!SeenPending' /\ Account!Accepted'
    BY <2>1, AccountParts
       DEF Account!FoundForGood, Account!LastLinkWorks, Account!SeenPending, Account!Accepted,
           Account!Found, Account!Last
  <2>4. Account!RemovedHasNoAccess'
    <3>1. CASE Account!Grant  BY <3>1 DEF Account!Grant, Account!RemovedHasNoAccess
    <3>2. CASE Account!RevokeAccess
      BY <3>2 DEF Account!RevokeAccess, Account!RemovedHasNoAccess
    <3>3. CASE UNCHANGED Account!vars
      BY <3>3, AccountParts DEF Account!vars, Account!RemovedHasNoAccess
    <3>4. QED  BY <1>2, <3>1, <3>2, <3>3
  <2>5. QED  BY <2>2, <2>3, <2>4 DEF Account!AccountsInv
<1>3. CASE Account!Expire
  <2>1. PICK x : x = [user EXCEPT !.expired = TRUE]  OBVIOUS
  <2>2. user' = x /\ UNCHANGED <<access, mailed, op, restarts, stale, fate, odd, kept>>
    BY <1>3, <2>1 DEF Account!Expire
  <2>3. /\ x \in UserState /\ x.made = user.made /\ x.link = user.link
        /\ x.active = user.active /\ x.verified = user.verified /\ x.deleted = user.deleted
    <3>1. user \in UserState  BY AccountParts
    <3>2. QED  BY <2>1, <3>1 DEF UserState
  <2>4. Account!TypeOK'  BY <2>2, <2>3, AccountParts, AccountTypes
  <2>5. Account!FoundForGood' /\ Account!LastLinkWorks' /\ Account!SeenPending' /\ Account!Accepted'
    BY <2>2, <2>3, AccountParts
       DEF Account!FoundForGood, Account!LastLinkWorks, Account!SeenPending, Account!Accepted,
           Account!Found, Account!Last
  <2>6. Account!RemovedHasNoAccess'  BY <2>2, <2>3, AccountParts DEF Account!RemovedHasNoAccess
  <2>7. QED  BY <2>4, <2>5, <2>6 DEF Account!AccountsInv
<1>4. CASE Account!Restart
  <2>1. /\ restarts < MaxRestarts /\ restarts' = restarts + 1
        /\ op' = [r \in Visits |-> Account!Nothing] /\ stale' = {}
        /\ kept' = (kept \/ \E r \in Visits : op[r].do = "purge")
        /\ UNCHANGED <<user, access, mailed, fate, odd>>
    BY <1>4 DEF Account!Restart
  <2>2. \A r \in Visits : op'[r].do = "nothing"  BY <1>1, <2>1
  <2>3. Account!TypeOK'
    <3>1. op' \in [Visits -> OpState] /\ kept' \in BOOLEAN /\ stale' \subseteq Visits
      BY <1>1, <2>1
    <3>2. restarts' \in 0..MaxRestarts  BY <2>1, AccountParts
    <3>3. QED  BY <2>1, <3>1, <3>2, AccountParts, AccountTypes
  <2>4. Account!FoundForGood' /\ Account!SeenPending'
    BY <2>2 DEF Account!FoundForGood, Account!SeenPending
  <2>5. Account!LastLinkWorks' /\ Account!Accepted'
    BY <2>1, AccountParts
       DEF Account!LastLinkWorks, Account!Accepted, Account!Found, Account!Last
  <2>6. Account!RemovedHasNoAccess'  BY <2>1, AccountParts DEF Account!RemovedHasNoAccess
  <2>7. QED  BY <2>3, <2>4, <2>5, <2>6 DEF Account!AccountsInv
<1>5. ASSUME NEW r \in Visits, Account!Purge(r) \/ Account!CreateRefused(r)
      PROVE  Account!AccountsInv'
  <2>1. /\ op' = [op EXCEPT ![r] = Account!Nothing]
        /\ UNCHANGED <<user, mailed, restarts, stale, fate, odd, kept>>
        /\ access' = FALSE \/ (access' = access /\ op[r].do = "create")
    BY <1>5 DEF Account!Purge, Account!CreateRefused
  <2>2. op'[r] = Account!Nothing /\ \A q \in Visits \ {r} : op'[q] = op[q]
    BY <2>1, AccountParts
  <2>3. Account!TypeOK'
    <3>1. op' \in [Visits -> OpState]  BY <1>1, <2>1, AccountParts
    <3>2. access' \in BOOLEAN  BY <2>1, AccountParts
    <3>3. QED  BY <2>1, <3>1, <3>2, AccountParts, AccountTypes
  <2>4. Account!FoundForGood' /\ Account!SeenPending'
    BY <1>1, <2>1, <2>2, AccountParts
       DEF Account!FoundForGood, Account!SeenPending, Account!Found
  <2>5. Account!LastLinkWorks' /\ Account!Accepted'
    BY <2>1, AccountParts
       DEF Account!LastLinkWorks, Account!Accepted, Account!Found, Account!Last
  <2>6. Account!RemovedHasNoAccess'
    <3>1. \A q \in Visits : access' /\ op[q].do = "purge" => op'[q].do = "purge"
      BY <2>1, <2>2
    <3>2. QED  BY <2>1, <3>1, AccountParts DEF Account!RemovedHasNoAccess
  <2>7. QED  BY <2>3, <2>4, <2>5, <2>6 DEF Account!AccountsInv
<1>6. QED  BY <1>2, <1>3, <1>4, <1>5

LEMMA AccountStepKnown == AccountKnown /\ [Account!Next]_(Account!vars) => AccountKnown'
PROOF
<1>1. SUFFICES ASSUME AccountKnown, [Account!Next]_(Account!vars) PROVE Account!AccountsInv'
  BY DEF AccountKnown, Account!AccountsAssumption
<1>2. CASE \/ Account!Grant \/ Account!RevokeAccess \/ Account!Expire \/ Account!Restart
           \/ UNCHANGED Account!vars
           \/ \E r \in Visits : Account!Purge(r) \/ Account!CreateRefused(r)
  BY <1>1, <1>2, OtherSteps
<1>3. CASE Account!SetActive(TRUE) \/ Account!SetActive(FALSE)
  <2>1. PICK on \in BOOLEAN : Account!SetActive(on)  BY <1>3
  <2>2. QED  BY <1>1, <2>1, SetActiveStep
<1>4. ASSUME NEW r \in Visits,
             \/ Account!FindForInvite(r) \/ Account!FindForResend(r) \/ Account!FindForRevoke(r)
             \/ Account!FindForRemove(r) \/ Account!FindForForgot(r) \/ Account!FindByLink(r)
             \/ Account!WriteInvite(r) \/ Account!WriteResend(r) \/ Account!WriteRevoke(r)
             \/ Account!WriteForgot(r)
             \/ Account!WriteReset(r) \/ Account!WriteAccepted(r) \/ Account!WriteVerified(r)
             \/ Account!WriteRemove(r) \/ Account!Register(r) \/ Account!WriteRegistered(r)
      PROVE  Account!AccountsInv'
  BY <1>1, <1>4, FindSteps, MailSteps, ClearSteps, RemoveStep, RegisterStep
<1>5. QED  BY <1>1, <1>2, <1>3, <1>4 DEF Account!Next

LEMMA AccountInvHolds == Account!AccountsAssumption /\ Account!Spec => []AccountKnown
PROOF
<1>1. Account!AccountsAssumption /\ Account!Init => AccountKnown  BY AccountInitKnown
<1>2. AccountKnown /\ [Account!Next]_(Account!vars) => AccountKnown'  BY AccountStepKnown
<1>3. QED  BY <1>1, <1>2, PTL DEF Account!Spec

\* The row, the links and the requests keep their types (users.service.ts,
\* auth.service.ts).
THEOREM AccountsTyped == ASSUME Account!AccountsAssumption PROVE Account!Spec => []Account!TypeOK
PROOF
<1>1. AccountKnown => Account!TypeOK  BY DEF AccountKnown, Account!AccountsInv
<1>2. QED  BY <1>1, AccountInvHolds, PTL

\* However many requests write the one column for links, the link mailed last is the one
\* stored until some request clears it (auth.service.ts:787-873, users.service.ts:420-446).
THEOREM LinksWork == ASSUME Account!AccountsAssumption PROVE Account!Spec => []Account!LastLinkWorks
PROOF
<1>1. AccountKnown => Account!LastLinkWorks  BY DEF AccountKnown, Account!AccountsInv
<1>2. QED  BY <1>1, AccountInvHolds, PTL

\* The filter of the list and the badge of the row agree on every account that was not
\* reset or activated before it was accepted (users.service.ts:671, 735).
THEOREM AccountsAreListed ==
  ASSUME Account!AccountsAssumption
  PROVE  Account!Spec => []Account!ListedAsShown
PROOF
<1>1. AccountKnown => Account!ListedAsShown
  <2>1. SUFFICES ASSUME AccountKnown, ~odd, ~(user.verified /\ Account!HasLink),
                        NEW s \in {"deleted", "active", "invited", "inactive"}
                 PROVE  Account!Listed(s) <=> Account!Badge = s
    BY DEF Account!ListedAsShown
  <2>2. user.active => user.verified  BY <2>1, AccountParts DEF Account!Accepted
  <2>3. CASE s = "deleted"  BY <2>3 DEF Account!Listed, Account!Badge
  <2>4. CASE s = "active"
    BY <2>1, <2>2, <2>4 DEF Account!Listed, Account!Badge, Account!OpenInvitation
  <2>5. CASE s = "invited"  BY <2>5 DEF Account!Listed, Account!Badge
  <2>6. CASE s = "inactive"
    BY <2>1, <2>2, <2>6 DEF Account!Listed, Account!Badge, Account!OpenInvitation
  <2>7. QED  BY <2>1, <2>3, <2>4, <2>5, <2>6
<1>2. QED  BY <1>1, AccountInvHolds, PTL

\* A removed person keeps no access to mailboxes unless the backend stopped between the
\* two writes of the removal or the access was granted later (users.service.ts:604-611).
THEOREM RemovalTakesAccess ==
  ASSUME Account!AccountsAssumption
  PROVE  Account!Spec => []Account!RemovedHasNoAccess
PROOF
<1>1. AccountKnown => Account!RemovedHasNoAccess  BY DEF AccountKnown, Account!AccountsInv
<1>2. QED  BY <1>1, AccountInvHolds, PTL

\* A request that resends or revokes an invitation signs out no verified person, unless
\* some write came between its find and its update (users.service.ts:356, 426).
THEOREM VerifiedStaySignedIn ==
  ASSUME Account!AccountsAssumption PROVE Account!Spec => Account!InvitationSparesUsers
PROOF
<1>1. ASSUME AccountKnown, [Account!Next]_(Account!vars) PROVE Account!SparesUser
  BY <1>1, AccountParts DEF Account!SparesUser, Account!SeenPending
<1>2. QED  BY <1>1, AccountInvHolds, PTL DEF Account!Spec, Account!InvitationSparesUsers

(***************************************************************************)
(* The accounts of mailboxes                                                *)
(*                                                                          *)
(* The invariant is that of every row, a deleted one as well: a callback     *)
(* that found a mailbox writes into it whatever became of it (RowsMatch).    *)
(***************************************************************************)
\* What a row and a callback are.
Mailbox == [at : {"none", "live", "deleted"}, email : Link!Maybe, linked : BOOLEAN,
            access : Link!Maybe, refresh : Link!Maybe]
Callback == [at : {"idle", "known", "found"}, account : Link!Maybe, email : Link!Maybe,
             refresh : Link!Maybe, into : Mailboxes \cup {None}]

\* Of every mailbox, one that was deleted as well: a callback may still find its row.
RowsMatch ==
  \A b \in Mailboxes \ mixed : mailbox[b].linked =>
    /\ mailbox[b].access = mailbox[b].email
    /\ mailbox[b].refresh \in {mailbox[b].email, None}

\* The types, row by row.
LinkTyped ==
  /\ mailbox \in [Mailboxes -> Mailbox] /\ callback \in [Callbacks -> Callback]
  /\ renewal \in [Mailboxes -> Link!Maybe] /\ mixed \subseteq Mailboxes

\* The invariant.
LinkInv == LinkTyped /\ RowsMatch

LEMMA LinkMoves == ASSUME LinkInv, [Link!Next]_(Link!vars) PROVE LinkInv'
PROOF
<1> USE DEF LinkInv
<1>1. CASE UNCHANGED Link!vars  BY <1>1 DEF LinkTyped, RowsMatch, Link!vars
<1>2. ASSUME NEW c \in Callbacks, NEW a \in Accounts, Link!Exchange(c, a) PROVE LinkInv'
  <2>1. \A email, refresh \in {a, None} :
          [at |-> "known", account |-> a, email |-> email, refresh |-> refresh,
           into |-> None] \in Callback
    BY DEF Callback, Link!Maybe
  <2>2. LinkTyped'  BY <1>2, <2>1 DEF LinkTyped, Link!Exchange
  <2>3. QED  BY <1>2, <2>2 DEF Link!Exchange, RowsMatch
<1>3. ASSUME NEW c \in Callbacks, Link!Look(c) PROVE LinkInv'
  <2>1. PICK b \in Mailboxes \cup {None} :
          callback' = [callback EXCEPT ![c].at = "found", ![c].into = b]
    BY <1>3 DEF Link!Look, Link!Matches, Link!Live
  <2>2. [callback[c] EXCEPT !.at = "found", !.into = b] \in Callback
    BY DEF Callback, LinkTyped
  <2>3. callback' = [callback EXCEPT ![c] = [callback[c] EXCEPT !.at = "found", !.into = b]]
    BY <2>1 DEF LinkTyped
  <2>4. LinkTyped'  BY <1>3, <2>2, <2>3 DEF LinkTyped, Link!Look
  <2>5. QED  BY <1>3, <2>4 DEF Link!Look, RowsMatch
<1>4. ASSUME NEW c \in Callbacks, Link!Connect(c) PROVE LinkInv'
  <2>1. PICK b \in Mailboxes :
          /\ mailbox' = [mailbox EXCEPT ![b] = Link!Connected(@, callback[c])]
          /\ mixed' = IF Link!Pure(mailbox[b], callback[c]) THEN mixed \ {b} ELSE mixed \cup {b}
    <3>1. callback[c].into \in Mailboxes \cup {None}  BY DEF LinkTyped, Callback
    <3>2. QED  BY <1>4, <3>1 DEF Link!Connect, Link!Unused
  <2>2. Link!Connected(mailbox[b], callback[c]) \in Mailbox
    <3>1. mailbox[b] \in Mailbox /\ callback[c] \in Callback  BY DEF LinkTyped
    <3>2. QED  BY <3>1 DEF Link!Connected, Mailbox, Callback
  <2>3. Link!Idle \in Callback  BY DEF Link!Idle, Callback, Link!Maybe
  <2>4. LinkTyped'  BY <1>4, <2>1, <2>2, <2>3 DEF LinkTyped, Link!Connect
  <2>5. ASSUME NEW d \in Mailboxes \ mixed', mailbox'[d].linked
        PROVE  /\ mailbox'[d].access = mailbox'[d].email
               /\ mailbox'[d].refresh \in {mailbox'[d].email, None}
    <3>1. CASE d # b  BY <3>1, <2>1, <2>5 DEF LinkTyped, RowsMatch
    <3>2. CASE d = b
      <4>1. Link!Pure(mailbox[b], callback[c])  BY <2>1, <2>5, <3>2
      <4>2. mailbox'[d] = Link!Connected(mailbox[b], callback[c])
        BY <2>1, <3>2 DEF LinkTyped
      <4>3. mailbox[b] \in Mailbox  BY DEF LinkTyped
      <4>4. QED  BY <4>1, <4>2, <4>3, <3>2 DEF Link!Pure, Link!Connected, Mailbox
    <3>3. QED  BY <3>1, <3>2
  <2>6. QED  BY <2>4, <2>5 DEF RowsMatch
<1>5. ASSUME NEW c \in Callbacks, Link!Fail(c) PROVE LinkInv'
  <2>1. Link!Idle \in Callback  BY DEF Link!Idle, Callback, Link!Maybe
  <2>2. QED  BY <1>5, <2>1 DEF LinkTyped, RowsMatch, Link!Fail
<1>6. ASSUME NEW b \in Mailboxes, NEW a \in Accounts, Link!Add(b, a) PROVE LinkInv'
  <2>1. /\ [Link!Absent EXCEPT !.at = "live", !.email = a] \in Mailbox
        /\ ~[Link!Absent EXCEPT !.at = "live", !.email = a].linked
    BY DEF Link!Absent, Mailbox, Link!Maybe
  <2>2. QED  BY <1>6, <2>1 DEF LinkTyped, RowsMatch, Link!Add
<1>7. ASSUME NEW b \in Mailboxes, Link!Disconnect(b) PROVE LinkInv'
  <2>1. [mailbox[b] EXCEPT !.linked = FALSE, !.access = None, !.refresh = None] \in Mailbox
    BY DEF LinkTyped, Mailbox, Link!Maybe
  <2>2. mailbox' = [mailbox EXCEPT ![b] =
          [mailbox[b] EXCEPT !.linked = FALSE, !.access = None, !.refresh = None]]
    BY <1>7 DEF Link!Disconnect, LinkTyped
  <2>3. LinkTyped'  BY <1>7, <2>1, <2>2 DEF LinkTyped, Link!Disconnect
  <2>4. ~mailbox'[b].linked  BY <1>7 DEF Link!Disconnect, LinkTyped, Mailbox
  <2>5. QED  BY <1>7, <2>2, <2>3, <2>4 DEF RowsMatch, Link!Disconnect, LinkTyped
<1>8. ASSUME NEW b \in Mailboxes, Link!Delete(b) PROVE LinkInv'
  <2>1. [mailbox[b] EXCEPT !.at = "deleted"] \in Mailbox  BY DEF LinkTyped, Mailbox
  <2>2. mailbox' = [mailbox EXCEPT ![b] = [mailbox[b] EXCEPT !.at = "deleted"]]
    BY <1>8 DEF Link!Delete, LinkTyped
  <2>3. LinkTyped'  BY <1>8, <2>1, <2>2 DEF LinkTyped, Link!Delete
  <2>4. QED  BY <1>8, <2>3 DEF LinkTyped, RowsMatch, Link!Delete
<1>9. ASSUME NEW b \in Mailboxes, Link!Renew(b) PROVE LinkInv'
  <2>1. mailbox[b].refresh \in Link!Maybe  BY DEF LinkTyped, Mailbox
  <2>2. QED  BY <1>9, <2>1 DEF LinkTyped, RowsMatch, Link!Renew
<1>10. ASSUME NEW b \in Mailboxes, Link!Renewed(b) PROVE LinkInv'
  <2>1. None \in Link!Maybe  BY DEF Link!Maybe
  <2>2. CASE mailbox' = mailbox /\ mixed' = mixed
    BY <1>10, <2>1, <2>2 DEF LinkTyped, RowsMatch, Link!Renewed
  <2>3. ASSUME NEW refresh \in {renewal[b], mailbox[b].refresh},
               mailbox' = [mailbox EXCEPT ![b].access = renewal[b], ![b].refresh = refresh],
               mixed' = IF mailbox[b].email # renewal[b] THEN mixed \cup {b} ELSE mixed
        PROVE  LinkInv'
    <3>1. [mailbox[b] EXCEPT !.access = renewal[b], !.refresh = refresh] \in Mailbox
      BY <2>3 DEF LinkTyped, Mailbox
    <3>2. mailbox' =
            [mailbox EXCEPT ![b] = [mailbox[b] EXCEPT !.access = renewal[b],
                                                      !.refresh = refresh]]
      BY <2>3 DEF LinkTyped
    <3>3. LinkTyped'  BY <1>10, <2>1, <2>3, <3>1, <3>2 DEF LinkTyped, Link!Renewed
    <3>4. RowsMatch'  BY <2>3 DEF LinkTyped, RowsMatch
    <3>5. QED  BY <3>3, <3>4
  <2>4. QED  BY <1>10, <2>2, <2>3 DEF Link!Renewed
<1>11. ASSUME NEW b \in Mailboxes, NEW a \in Accounts, Link!Rename(b, a) PROVE LinkInv'
  <2>1. [mailbox[b] EXCEPT !.email = a] \in Mailbox
        /\ [mailbox[b] EXCEPT !.email = a].linked = mailbox[b].linked
    BY DEF LinkTyped, Mailbox, Link!Maybe
  <2>2. mailbox' = [mailbox EXCEPT ![b] = [mailbox[b] EXCEPT !.email = a]]
    BY <1>11 DEF Link!Rename, LinkTyped
  <2>3. LinkTyped'  BY <1>11, <2>1, <2>2 DEF LinkTyped, Link!Rename
  <2>4. ASSUME NEW d \in Mailboxes \ mixed', mailbox'[d].linked
        PROVE  /\ d \in Mailboxes \ mixed /\ mailbox'[d] = mailbox[d]
    BY <1>11, <2>1, <2>2, <2>4 DEF LinkTyped, Link!Rename
  <2>5. RowsMatch'  BY <2>4 DEF RowsMatch
  <2>6. QED  BY <2>3, <2>5
<1>12. QED
  BY <1>1, <1>2, <1>3, <1>4, <1>5, <1>6, <1>7, <1>8, <1>9, <1>10, <1>11 DEF Link!Next

LEMMA LinkBegins == ASSUME Link!LinkAssumption, Link!Init PROVE LinkInv
PROOF
<1>1. Link!Absent \in Mailbox /\ ~Link!Absent.linked  BY DEF Link!Absent, Mailbox, Link!Maybe
<1>2. Link!Idle \in Callback  BY DEF Link!Idle, Callback, Link!Maybe
<1>3. None \in Link!Maybe  BY DEF Link!Maybe
<1>4. QED  BY <1>1, <1>2, <1>3 DEF Link!Init, LinkInv, LinkTyped, RowsMatch

LEMMA LinkHolds == ASSUME Link!LinkAssumption PROVE Link!Spec => []LinkInv
PROOF BY LinkBegins, LinkMoves, PTL DEF Link!Spec

\* Rows, callbacks and renewals are of their types (auth.service.ts, mailboxes.service.ts).
THEOREM MailboxesTyped == ASSUME Link!LinkAssumption PROVE Link!Spec => []Link!TypeOK
PROOF
<1>1. LinkInv => Link!TypeOK
  BY DEF LinkInv, LinkTyped, Link!TypeOK, Mailbox, Callback
<1>2. QED  BY <1>1, LinkHolds, PTL

\* Whatever callbacks, renewals, disconnections and deletions interleave, a connected
\* mailbox has the tokens of the account it is named after, unless the provider left out
\* the refresh token or the address, a renewal was overtaken, or the connected mailbox was
\* given another address by hand (auth.service.ts, mailboxes.service.ts).
THEOREM TokensMatch == ASSUME Link!LinkAssumption PROVE Link!Spec => []Link!CredentialsMatch
PROOF
<1>1. LinkInv => Link!CredentialsMatch
  BY DEF LinkInv, RowsMatch, Link!CredentialsMatch, Link!Live
<1>2. QED  BY <1>1, LinkHolds, PTL
=============================================================================
