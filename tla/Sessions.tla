------------------------------ MODULE Sessions ------------------------------
(***************************************************************************)
(* A signed-in browser: the tabs of the frontend, which share the tokens in *)
(* localStorage, and AuthService, which rotates the refresh token.          *)
(*                                                                         *)
(* api.ts answers a 401 by trading the refresh token for a new pair, once   *)
(* per tab at a time (refreshPromise), and repeats the request once.        *)
(* AuthService.refresh looks the token up, and later revokes it and stores  *)
(* its heir.  A pair of tokens is a number; 0 stands for none.              *)
(***************************************************************************)
EXTENDS Naturals, FiniteSets

CONSTANTS
  Tabs,
  Requests,   \* the requests a tab has under way
  MaxPairs    \* bound: pairs in use at a time

Pairs == 1..MaxPairs

SessionsAssumption == MaxPairs \in Nat

VARIABLES
  live,       \* RefreshToken rows that are not revoked
  fresh,      \* pairs whose access token has not expired
  local,      \* the pair in localStorage
  header,     \* header[t]: the default Authorization header of the tab
  page,       \* page[t]: the tab is at the login page or in the application
  request,    \* request[t][r]
  trade,      \* trade[t]: the refresh of the tab (refreshPromise), if any
  excused     \* history: the session was ended, an answer was lost, or two tabs
              \* were trading one token at a time

browser == <<local, header, page, request>>
vars == <<live, fresh, browser, trade, excused>>

NoRequest == [pc |-> "idle"]
NoTrade   == [pc |-> "idle"]

TypeOK ==
  /\ live \subseteq Pairs /\ fresh \subseteq Pairs
  /\ local \in 0..MaxPairs
  /\ header \in [Tabs -> 0..MaxPairs]
  /\ page \in [Tabs -> {"login", "app"}]
  /\ \A t \in Tabs, r \in Requests :
       request[t][r].pc \in {"idle", "sent", "waiting"}
  /\ \A t \in Tabs : trade[t].pc \in {"idle", "sent", "found", "refused", "stored"}
  /\ excused \in BOOLEAN

Init ==
  /\ live = {} /\ fresh = {} /\ local = 0
  /\ header = [t \in Tabs |-> 0]
  /\ page = [t \in Tabs |-> "login"]
  /\ request = [t \in Tabs |-> [r \in Requests |-> NoRequest]]
  /\ trade = [t \in Tabs |-> NoTrade]
  /\ excused = FALSE

(***************************************************************************)
(* The server                                                               *)
(***************************************************************************)
\* A number that no browser holds any more stands for a new pair.
Held(n) ==
  \/ n = local
  \/ \E t \in Tabs : \/ header[t] = n
                     \/ trade[t].pc # "idle" /\ n \in {trade[t].old, trade[t].new}
                     \/ \E r \in Requests : request[t][r].pc = "sent"
                                            /\ request[t][r].access = n
New(n) == ~Held(n) /\ \A k \in 1..(n - 1) : Held(k)
InUse == {n \in Pairs : Held(n)}

\* issueRefreshToken and generateAccessToken.
Issue(n, without) ==
  /\ live' = ((live \cap InUse) \ without) \cup {n}
  /\ fresh' = (fresh \cap InUse) \cup {n}

Expire(n) ==
  /\ n \in fresh \cap InUse
  /\ fresh' = fresh \ {n}
  /\ UNCHANGED <<live, browser, trade, excused>>

\* logout without a refresh token, changePassword, revokeSession: elsewhere.
EndSessions ==
  /\ \E gone \in {live} \cup {{n} : n \in live \cap InUse} :
       gone # {} /\ live' = live \ gone
  /\ excused' = TRUE
  /\ UNCHANGED <<fresh, browser, trade>>

\* refresh: the lookup ...
Find(t) ==
  /\ trade[t].pc = "sent"
  /\ trade' = [trade EXCEPT ![t].pc = IF trade[t].old \in live THEN "found"
                                                              ELSE "refused"]
  /\ UNCHANGED <<live, fresh, browser, excused>>

\* ... and the transaction, which revokes the token if it still can (how many
\* rows that changed is not looked at) and stores its heir.
Rotate(t, n) ==
  /\ trade[t].pc = "found" /\ New(n)
  /\ Issue(n, {trade[t].old})
  /\ trade' = [trade EXCEPT ![t] = [@ EXCEPT !.pc = "stored", !.new = n]]
  /\ UNCHANGED <<browser, excused>>

(***************************************************************************)
(* A tab                                                                    *)
(***************************************************************************)
SignIn(t, n) ==
  /\ page[t] = "login" /\ New(n)
  /\ Issue(n, {})
  /\ local' = n
  /\ page' = [page EXCEPT ![t] = "app"]
  /\ excused' = (\E u \in Tabs : trade[u].pc # "idle")
  /\ UNCHANGED <<header, request, trade>>

\* The request interceptor: localStorage, else the header of the last refresh.
Access(t) == IF local # 0 THEN local ELSE header[t]

Send(t, r, kind) ==
  /\ page[t] = "app" /\ request[t][r] = NoRequest
  /\ request' = [request EXCEPT ![t][r] =
       [pc |-> "sent", kind |-> kind, access |-> Access(t), again |-> FALSE]]
  /\ UNCHANGED <<live, fresh, local, header, page, trade, excused>>

\* The answer of a request that is accepted; that of logout ends every session,
\* and clearSession forgets the tokens.
Accepted(t, r) ==
  /\ request[t][r].pc = "sent" /\ request[t][r].access \in fresh
  /\ request' = [request EXCEPT ![t][r] = NoRequest]
  /\ IF request[t][r].kind = "logout"
     THEN /\ live' = {} /\ local' = 0 /\ excused' = TRUE
          /\ page' = [page EXCEPT ![t] = "login"]
     ELSE UNCHANGED <<live, local, page, excused>>
  /\ UNCHANGED <<fresh, header, trade>>

\* Requests that wait for the refresh of their tab.
Waiting(t) == {r \in Requests : request[t][r].pc = "waiting"}

\* The page is loaded anew: everything under way in the tab is gone.
Reload(t) ==
  /\ local' = 0
  /\ header' = [header EXCEPT ![t] = 0]
  /\ page' = [page EXCEPT ![t] = "login"]
  /\ request' = [request EXCEPT ![t] = [r \in Requests |-> NoRequest]]
  /\ trade' = [trade EXCEPT ![t] = NoTrade]

\* At the login page already, only the tokens and the waiting requests go.
Forget(t, also) ==
  /\ local' = 0
  /\ request' = [request EXCEPT ![t] =
       [r \in Requests |-> IF r \in Waiting(t) \cup also THEN NoRequest
                           ELSE request[t][r]]]
  /\ trade' = [trade EXCEPT ![t] = NoTrade]
  /\ UNCHANGED <<header, page>>

Leave(t, also) == IF page[t] = "app" THEN Reload(t) ELSE Forget(t, also)

\* Whether a 401 starts a refresh: only when the tab has none under way.
\* Mutant: every 401 starts one.
StartsAlways(t) == TRUE

Starts(t) == trade[t] = NoTrade

\* A 401.  The second one is final; a logout forgets the tokens anyhow.
Refused(t, r) ==
  /\ request[t][r].pc = "sent" /\ request[t][r].access \notin fresh
  /\ request[t][r].again
  /\ request' = [request EXCEPT ![t][r] = NoRequest]
  /\ IF request[t][r].kind = "logout"
     THEN local' = 0 /\ excused' = TRUE /\ page' = [page EXCEPT ![t] = "login"]
     ELSE UNCHANGED <<local, excused, page>>
  /\ UNCHANGED <<live, fresh, header, trade>>

\* The first one waits for a refresh, which needs a token to trade.
Unauthorized(t, r) ==
  /\ request[t][r].pc = "sent" /\ request[t][r].access \notin fresh
  /\ ~request[t][r].again
  /\ IF Starts(t) /\ local = 0
     THEN Leave(t, {r}) /\ UNCHANGED excused
     ELSE LET others == {u \in Tabs \ {t} : trade[u].pc # "idle"
                                           /\ trade[u].old = local}
          IN /\ request' = [request EXCEPT ![t][r].pc = "waiting"]
             /\ IF Starts(t)
                THEN /\ trade' = [trade EXCEPT ![t] =
                          [pc |-> "sent", old |-> local, new |-> 0]]
                     /\ excused' = (excused \/ others # {})
                ELSE UNCHANGED <<trade, excused>>
             /\ UNCHANGED <<local, header, page>>
  /\ UNCHANGED <<live, fresh>>

\* Mutant: the repeated request may be repeated again.
RefreshedForever(t) ==
  /\ trade[t].pc = "stored"
  /\ local' = trade[t].new
  /\ header' = [header EXCEPT ![t] = trade[t].new]
  /\ request' = [request EXCEPT ![t] = [r \in Requests |->
       IF r \in Waiting(t)
       THEN [request[t][r] EXCEPT !.pc = "sent", !.access = trade[t].new]
       ELSE request[t][r]]]
  /\ trade' = [trade EXCEPT ![t] = NoTrade]
  /\ UNCHANGED <<live, fresh, page, excused>>

\* refreshAuthTokens stores the pair; the waiting requests are sent again.
Refreshed(t) ==
  /\ trade[t].pc = "stored"
  /\ local' = trade[t].new
  /\ header' = [header EXCEPT ![t] = trade[t].new]
  /\ request' = [request EXCEPT ![t] = [r \in Requests |->
       IF r \in Waiting(t)
       THEN [request[t][r] EXCEPT !.pc = "sent", !.access = trade[t].new,
                                  !.again = TRUE]
       ELSE request[t][r]]]
  /\ trade' = [trade EXCEPT ![t] = NoTrade]
  /\ UNCHANGED <<live, fresh, page, excused>>

\* The server refused the token: the session is over for every tab.
TradeRefused(t) ==
  /\ trade[t].pc = "refused"
  /\ Leave(t, {})
  /\ UNCHANGED <<live, fresh, excused>>

\* The network loses the refresh or its answer, with the same effect.
TradeLost(t) ==
  /\ trade[t].pc # "idle"
  /\ Leave(t, {})
  /\ excused' = TRUE
  /\ UNCHANGED <<live, fresh>>

TabStep(t) ==
  \/ Find(t) \/ Refreshed(t) \/ TradeRefused(t)
  \/ \E n \in Pairs : Rotate(t, n)
  \/ \E r \in Requests : Accepted(t, r) \/ Refused(t, r) \/ Unauthorized(t, r)

Next ==
  \/ EndSessions \/ \E n \in Pairs : Expire(n)
  \/ \E t \in Tabs : \/ TabStep(t) \/ TradeLost(t)
                     \/ \E n \in Pairs : SignIn(t, n)
                     \/ \E r \in Requests, kind \in {"api", "logout"} : Send(t, r, kind)

Spec == Init /\ [][Next]_vars

\* Servers answer, and the tabs take the answers.
Fairness ==
  \A t \in Tabs : /\ WF_vars(Find(t) \/ (\E n \in Pairs : Rotate(t, n))
                             \/ Refreshed(t) \/ TradeRefused(t))
                  /\ \A r \in Requests :
                       WF_vars(Accepted(t, r) \/ Refused(t, r) \/ Unauthorized(t, r))

FairSpec == Spec /\ Fairness

(***************************************************************************)
(* Properties                                                               *)
(***************************************************************************)
\* Nobody is sent to the login page for nothing: several requests of a tab that
\* fail at once, and tabs that refresh one after the other, keep the session.
\* It is lost when it was ended, when an answer was lost, or when two tabs
\* traded one token at a time (there is a refreshPromise per tab).
LeavesForReason ==
  \A t \in Tabs : page[t] = "app" /\ page'[t] = "login" => excused'
NoSpuriousSignOut == [][LeavesForReason]_vars

\* Every request gets an answer, or its tab is at the login page: a refresh is
\* tried once per request.
RequestsSettle ==
  \A t \in Tabs, r \in Requests : request[t][r].pc # "idle" ~> request[t][r].pc = "idle"

(***************************************************************************)
(* What NoSpuriousSignOut rests on                                          *)
(***************************************************************************)
TradeOf ==
  {NoTrade} \cup
  [pc : {"sent", "found", "refused", "stored"}, old : 0..MaxPairs, new : 0..MaxPairs]

RequestOf ==
  {NoRequest} \cup
  [pc : {"sent", "waiting"}, kind : {"api", "logout"}, access : 0..MaxPairs,
   again : BOOLEAN]

Typed ==
  /\ live \subseteq Pairs /\ fresh \subseteq Pairs
  /\ local \in 0..MaxPairs
  /\ header \in [Tabs -> 0..MaxPairs]
  /\ page \in [Tabs -> {"login", "app"}]
  /\ request \in [Tabs -> [Requests -> RequestOf]]
  /\ trade \in [Tabs -> TradeOf]
  /\ excused \in BOOLEAN

\* Nobody but t trades, and what t trades is the token in localStorage, which
\* the server will not refuse; once it has been traded, its heir is good.
TradesWell(t) ==
  /\ \A u \in Tabs : trade[u] # NoTrade => u = t
  /\ local # 0 /\ trade[t].old = local
  /\ \/ trade[t].pc \in {"sent", "found"} /\ trade[t].old \in live
     \/ trade[t].pc = "stored" /\ trade[t].new # 0 /\ trade[t].new \in live

\* As long as nothing excuses the loss of the session: a tab in the application
\* has tokens, and they are good, or on their way to being replaced.
SessionKept ==
  ~excused =>
    /\ \A t \in Tabs : page[t] = "app" => local # 0
    /\ \A t \in Tabs : trade[t] # NoTrade => TradesWell(t)
    /\ (\A t \in Tabs : trade[t] = NoTrade) /\ local # 0 => local \in live

SessionInv == Typed /\ SessionKept
=============================================================================
