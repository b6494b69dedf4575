------------------------------- MODULE SignIn -------------------------------
(***************************************************************************)
(* Signing in, and the second factor: AuthService, and in each tab of the   *)
(* browser AuthContext, the pages that ask for a password or a code, and     *)
(* MfaSetup.  A tab keeps the user it was told of, with the flag of the      *)
(* second factor, and so does localStorage; what a call tells is applied     *)
(* when its answer comes.  Firebase keeps a session of its own, which signs  *)
(* a browser without tokens in again.  A secret is a number; 0 is none.      *)
(***************************************************************************)
EXTENDS Naturals, FiniteSets

CONSTANTS
  Tabs,
  Operations,  \* what the user asks for
  Firebase,    \* whether it is configured
  Lossy,       \* whether requests and answers are lost
  MaxSecrets,  \* bound on the secrets made
  MaxCalls     \* bound on the calls under way

SignInAssumption ==
  {Firebase, Lossy} \subseteq BOOLEAN /\ {MaxSecrets, MaxCalls} \subseteq Nat

VARIABLES
  account,   \* the user's row: mfaSecret and mfaEnabled
  codes,     \* the secrets in the user's authenticator
  remote,    \* the browser has a user at Firebase
  local,     \* localStorage: whether there are tokens, and the user
  tab,
  call,      \* call[t][kind]
  crossed,   \* a secret was replaced while the factor was, or was being, enabled
  late       \* what a tab shows was overtaken, or an answer lost

vars == <<account, codes, remote, local, tab, call, crossed, late>>
server == <<account, crossed>>
browser == <<codes, remote, local, tab>>

Secrets == 1..MaxSecrets
Users == {"none", "off", "on"}
Kinds == {"me", "heal", "act", "save", "out"}
NoCall == [op |-> "none", pc |-> "idle", sees |-> "no", code |-> 0, old |-> FALSE]

TypeOK ==
  /\ account \in [secret : 0..MaxSecrets, enabled : BOOLEAN]
  /\ codes \subseteq Secrets
  /\ remote \in BOOLEAN
  /\ local \in [token : BOOLEAN, user : Users]
  /\ tab \in [Tabs -> [user : Users, loading : BOOLEAN, told : {"nothing", "in", "out"},
                       page : {"login", "code", "app"}, pending : BOOLEAN,
                       step : {"initial", "qr", "confirm"}, shown : 0..MaxSecrets]]
  /\ call \in [Tabs -> [Kinds ->
       [op : {"none", "me", "login", "firebase", "verify", "generate", "enable", "disable",
              "profile", "logout"},
        pc : {"idle", "sent", "checked", "answered"}, sees : {"no", "mfa", "off", "on"},
        code : 0..MaxSecrets, old : BOOLEAN]]]
  /\ crossed \in BOOLEAN /\ late \in BOOLEAN

Flag == IF account.enabled THEN "on" ELSE "off"

NewTab == [user |-> "none", loading |-> Firebase, told |-> "nothing", page |-> "login",
           pending |-> FALSE, step |-> "initial", shown |-> 0]

Init ==
  /\ account = [secret |-> 0, enabled |-> FALSE]
  /\ codes = {} /\ remote = FALSE
  /\ local = [token |-> FALSE, user |-> "none"]
  /\ tab = [t \in Tabs |-> NewTab]
  /\ call = [t \in Tabs |-> [k \in Kinds |-> NoCall]]
  /\ crossed = FALSE /\ late = FALSE

(***************************************************************************)
(* What a tab does with its state                                           *)
(***************************************************************************)
\* RequireAuth sends a tab that shows nobody, and waits for nothing, to the login page;
\* MfaSetup goes back to its first step when the factor is shown to be on.
Settle(s) ==
  [s EXCEPT !.page = IF @ = "app" /\ ~s.loading /\ s.user = "none" THEN "login" ELSE @,
            !.step = IF s.page # "app" \/ (s.user = "on" /\ @ = "qr") THEN "initial" ELSE @]

SetTab(t, s) == tab' = [tab EXCEPT ![t] = Settle(s)]

\* Calls: sent, and over.  Each is one at a time in its tab.
Idle(t, k) == call[t][k] = NoCall
UnderWay == {c \in Tabs \X Kinds : call[c[1]][c[2]] # NoCall}
Send(t, k, op, code) ==
  /\ op \in Operations \cup {"firebase"}
  /\ Cardinality(UnderWay) < MaxCalls
  /\ call' = [call EXCEPT ![t][k] = [NoCall EXCEPT !.op = op, !.pc = "sent", !.code = code]]
Over(t, k) == call' = [call EXCEPT ![t][k] = NoCall]
Answered(t, k, op) == call[t][k].pc = "answered" /\ call[t][k].op = op

\* updateUser and login, by an answer that may have been overtaken.
Overtaken(c) == late' = (late \/ c.old \/ c.sees # Flag)
Show(t, user, s) ==
  /\ local' = [local EXCEPT !.user = user]
  /\ SetTab(t, [s EXCEPT !.user = user])

\* clearSession: the calls under way belong to a session that is over, and so does
\* what other tabs show.
ClearSession(t, s) ==
  /\ local' = [token |-> FALSE, user |-> "none"]
  /\ SetTab(t, [s EXCEPT !.user = "none", !.page = "login"])
  /\ late' = (late \/ \E u \in Tabs \ {t} : tab[u].user # "none")

Ended(t, k) ==
  call' = [u \in Tabs |-> [j \in Kinds |->
    IF (u = t /\ j = k) \/ call[u][j] = NoCall THEN NoCall ELSE [call[u][j] EXCEPT !.old = TRUE]]]

(***************************************************************************)
(* Loading, and Firebase                                                    *)
(***************************************************************************)
\* The tab is opened or loaded anew; what it had under way is gone.
Open(t, page) ==
  LET fresh == [NewTab EXCEPT !.page = page, !.pending = tab[t].pending,
                  !.user = IF local.token THEN local.user ELSE "none",
                  !.loading = Firebase /\ ~local.token,
                  !.told = IF Firebase THEN "nothing" ELSE "out"]
  IN  /\ SetTab(t, fresh)
      /\ call' = [call EXCEPT ![t] = [k \in Kinds |->
           IF k = "me" /\ local.token THEN [NoCall EXCEPT !.op = "me", !.pc = "sent"]
           ELSE NoCall]]
      /\ late' = (late \/ (local.token /\ local.user # Flag)
                       \/ \E k \in Kinds : call[t][k].pc \in {"checked", "answered"})
      /\ UNCHANGED <<server, codes, remote, local>>

\* onAuthStateChanged tells each tab, once of each state.
FirebaseTells(t) ==
  LET now == IF remote THEN "in" ELSE "out"
  IN  /\ Firebase /\ Idle(t, "heal")
      /\ tab[t].told # now
      /\ IF remote /\ ~local.token
           THEN /\ Send(t, "heal", "firebase", 0)
                /\ UNCHANGED tab
           ELSE /\ SetTab(t, [tab[t] EXCEPT !.told = now, !.loading = FALSE])
                /\ UNCHANGED call
      /\ UNCHANGED <<server, codes, remote, local, late>>

(***************************************************************************)
(* Requests of the user                                                     *)
(***************************************************************************)
At(t, page) == tab[t].page = page /\ Idle(t, "act")

SubmitLogin(t) ==
  /\ At(t, "login") /\ Send(t, "act", "login", 0)
  /\ UNCHANGED <<server, browser, late>>

OAuth(t) ==
  /\ At(t, "login") /\ Firebase
  /\ remote' = TRUE
  /\ Send(t, "act", "firebase", 0)
  /\ UNCHANGED <<server, codes, local, tab, late>>

Verify(t) ==
  /\ At(t, "code") /\ tab[t].pending
  /\ \E code \in codes : Send(t, "act", "verify", code)
  /\ UNCHANGED <<server, browser, late>>

BackToLogin(t) ==
  /\ At(t, "code")
  /\ SetTab(t, [tab[t] EXCEPT !.page = "login"])
  /\ UNCHANGED <<server, codes, remote, local, call, late>>

Generate(t) ==
  /\ At(t, "app") /\ tab[t].step = "initial" /\ tab[t].user = "off"
  /\ Send(t, "act", "generate", 0)
  /\ UNCHANGED <<server, browser, late>>

\* The code is that of the secret shown, which the authenticator takes up.
Enable(t) ==
  /\ At(t, "app") /\ tab[t].step = "qr"
  /\ codes' = codes \cup {tab[t].shown}
  /\ Send(t, "act", "enable", tab[t].shown)
  /\ UNCHANGED <<server, remote, local, tab, late>>

Step(t, from, to) ==
  /\ At(t, "app") /\ tab[t].step = from
  /\ to = "confirm" => tab[t].user = "on"
  /\ SetTab(t, [tab[t] EXCEPT !.step = to, !.shown = 0])
  /\ UNCHANGED <<server, codes, remote, local, call, late>>

Disable(t) ==
  /\ At(t, "app") /\ tab[t].step = "confirm"
  /\ \E code \in codes : Send(t, "act", "disable", code)
  /\ UNCHANGED <<server, browser, late>>

\* ProfilePage sends the user's name or picture; it keeps the user shown while it waits.
SaveProfile(t) ==
  /\ tab[t].page = "app" /\ tab[t].user # "none" /\ Idle(t, "save")
  /\ "profile" \in Operations /\ Cardinality(UnderWay) < MaxCalls
  /\ call' = [call EXCEPT ![t]["save"] =
                [NoCall EXCEPT !.op = "profile", !.pc = "sent", !.sees = tab[t].user]]
  /\ UNCHANGED <<server, browser, late>>

Logout(t) ==
  /\ tab[t].page = "app" /\ tab[t].user # "none" /\ Idle(t, "out")
  /\ Send(t, "out", "logout", 0)
  /\ UNCHANGED <<server, browser, late>>

(***************************************************************************)
(* The server                                                               *)
(***************************************************************************)
Answers(t, k, sees) ==
  call' = [call EXCEPT ![t][k].pc = "answered", ![t][k].sees = sees]
Checks(t, k) == call' = [call EXCEPT ![t][k].pc = "checked", ![t][k].sees = Flag]
Asked(t, k, op) == call[t][k].pc = "sent" /\ call[t][k].op = op

ServeMe(t) ==
  /\ Asked(t, "me", "me")
  /\ Answers(t, "me", Flag)
  /\ UNCHANGED <<server, browser, late>>

ServeLogout(t) ==
  /\ Asked(t, "out", "logout")
  /\ Answers(t, "out", "no")
  /\ UNCHANGED <<server, browser, late>>

\* A code is asked for when the factor is enabled.
AskForCode(t, k) ==
  /\ IF account.enabled THEN Answers(t, k, "mfa") ELSE Checks(t, k)
  /\ UNCHANGED <<server, browser, late>>

ServeLogin(t) == Asked(t, "act", "login") /\ AskForCode(t, "act")
ServeFirebase(t, k) == Asked(t, k, "firebase") /\ AskForCode(t, k)

CodeFits(c) == account.secret # 0 /\ c.code = account.secret

\* mfaVerifyLogin.
ServeVerify(t) ==
  /\ Asked(t, "act", "verify")
  /\ IF account.enabled /\ CodeFits(call[t]["act"]) THEN Checks(t, "act")
     ELSE Answers(t, "act", "no")
  /\ UNCHANGED <<server, browser, late>>

\* lastLogin is written, and the user told is the one that returns.
Issue(t, k) ==
  /\ call[t][k].pc = "checked"
  /\ call[t][k].op \in {"login", "firebase", "verify"}
  /\ Answers(t, k, IF call[t][k].op = "firebase" THEN call[t][k].sees ELSE Flag)
  /\ UNCHANGED <<server, browser, late>>

Enabling == \E t \in Tabs : call[t]["act"].op = "enable" /\ call[t]["act"].pc = "checked"

\* mfaGenerate overwrites the secret, whether or not the factor is enabled.
Known == codes \cup {account.secret} \cup {tab[t].shown : t \in Tabs}
         \cup {call[t]["act"].code : t \in Tabs}
ServeGenerate(t, n) ==
  /\ Asked(t, "act", "generate")
  /\ n \in Secrets \ Known
  /\ account' = [account EXCEPT !.secret = n]
  /\ crossed' = (crossed \/ account.enabled \/ Enabling)
  /\ call' = [call EXCEPT ![t]["act"].pc = "answered", ![t]["act"].code = n,
                          ![t]["act"].sees = Flag]
  /\ UNCHANGED <<browser, late>>

\* mfaEnable and mfaDisable read the user and check the code ...
ServeCheck(t) ==
  LET c == call[t]["act"]
  IN  /\ Asked(t, "act", "enable") \/ Asked(t, "act", "disable")
      /\ IF CodeFits(c) /\ (c.op = "disable" => account.enabled) THEN Checks(t, "act")
         ELSE Answers(t, "act", "no")
      /\ UNCHANGED <<server, browser, late>>

\* ... and write.  Other tabs, and a call that read the flag before, show the old one.
Changed(t, enabled) ==
  late' = (late \/ (enabled # account.enabled
                    /\ \/ \E u \in Tabs \ {t} : tab[u].user # "none"
                       \/ \E u \in Tabs, k \in Kinds :
                            <<u, k>> # <<t, "act">> /\ call[u][k].sees \in {"off", "on"}))

WriteEnabled(t) ==
  /\ call[t]["act"].op = "enable" /\ call[t]["act"].pc = "checked"
  /\ account' = [account EXCEPT !.enabled = TRUE]
  /\ Answers(t, "act", "on")
  /\ Changed(t, TRUE)
  /\ UNCHANGED <<crossed, browser>>

WriteDisabled(t) ==
  /\ call[t]["act"].op = "disable" /\ call[t]["act"].pc = "checked"
  /\ account' = [secret |-> 0, enabled |-> FALSE]
  /\ crossed' = (crossed \/ Enabling)
  /\ Answers(t, "act", "off")
  /\ Changed(t, FALSE)
  /\ UNCHANGED browser

\* A request or an answer is lost, or the server fails.
Lose(t, k) ==
  /\ Lossy
  /\ call[t][k].pc \in {"sent", "answered"}
  /\ Answers(t, k, "no")
  /\ late' = (late \/ call[t][k].sees \in {"off", "on"})
  /\ call[t][k].sees # "no" \/ call[t][k].pc = "sent"
  /\ UNCHANGED <<server, browser>>

(***************************************************************************)
(* Answers                                                                  *)
(***************************************************************************)
\* initAuth: any failure ends the session.
TakeMe(t) ==
  LET c == call[t]["me"]
      s == [tab[t] EXCEPT !.loading = FALSE]
  IN  /\ Answered(t, "me", "me")
      /\ IF c.sees = "no"
           THEN ClearSession(t, s) /\ Ended(t, "me")
           ELSE /\ Show(t, c.sees, s)
                /\ Overtaken(c)
                /\ Over(t, "me")
      /\ UNCHANGED <<server, codes, remote>>

\* login, by the page that asked or by Firebase.
TakeSession(t, k, s) ==
  /\ local' = [token |-> TRUE, user |-> call[t][k].sees]
  /\ SetTab(t, [s EXCEPT !.user = call[t][k].sees])
  /\ Overtaken(call[t][k])

TakeSignIn(t, op) ==
  LET c == call[t]["act"]
  IN  /\ Answered(t, "act", op)
      /\ Over(t, "act")
      /\ CASE c.sees = "no" -> UNCHANGED <<local, tab, late>>
           [] c.sees = "mfa" ->
                /\ SetTab(t, [tab[t] EXCEPT !.page = "code", !.pending = TRUE])
                /\ UNCHANGED <<local, late>>
           [] OTHER -> TakeSession(t, "act",
                [tab[t] EXCEPT !.page = "app", !.pending = @ /\ op # "verify"])
      /\ UNCHANGED <<server, codes, remote>>

\* Whatever comes of healing, the tab waits no longer.
TakeHeal(t) ==
  LET s == [tab[t] EXCEPT !.told = "in", !.loading = FALSE]
  IN  /\ Answered(t, "heal", "firebase")
      /\ Over(t, "heal")
      /\ IF call[t]["heal"].sees \in {"off", "on"} THEN TakeSession(t, "heal", s)
         ELSE SetTab(t, s) /\ UNCHANGED <<local, late>>
      /\ UNCHANGED <<server, codes, remote>>

TakeGenerate(t) ==
  LET c == call[t]["act"]
  IN  /\ Answered(t, "act", "generate")
      /\ Over(t, "act")
      /\ IF c.sees # "no" /\ tab[t].page = "app"
           THEN SetTab(t, [tab[t] EXCEPT !.step = "qr", !.shown = c.code])
           ELSE UNCHANGED tab
      /\ UNCHANGED <<server, codes, remote, local, late>>

\* The user of the page is shown with the new flag, even when it was signed out since.
TakeMfa(t, op) ==
  LET c == call[t]["act"]
      s == [tab[t] EXCEPT !.step = "initial", !.shown = 0]
  IN  /\ Answered(t, "act", op)
      /\ Over(t, "act")
      /\ IF c.sees = "no" THEN UNCHANGED <<local, tab, late>>
         ELSE Show(t, IF op = "enable" THEN "on" ELSE "off", s) /\ Overtaken(c)
      /\ UNCHANGED <<server, codes, remote>>

\* updateMe tells nothing of the factor: the user kept is shown again with its old flag,
\* after a failure only by the picture, and even when it was signed out since.
TakeProfile(t) ==
  LET c == call[t]["save"]
  IN  /\ Asked(t, "save", "profile")
      /\ Over(t, "save")
      /\ \/ Show(t, c.sees, tab[t]) /\ Overtaken(c)
         \/ Lossy /\ UNCHANGED <<local, tab, late>>
      /\ UNCHANGED <<server, codes, remote>>

\* Failed or not, logging out clears the session.
TakeLogout(t) ==
  /\ Answered(t, "out", "logout")
  /\ ClearSession(t, tab[t])
  /\ Ended(t, "out")
  /\ UNCHANGED <<server, codes, remote>>

Next ==
  \E t \in Tabs :
    \/ \E page \in {"login", "app"} : Open(t, page)
    \/ FirebaseTells(t) \/ SubmitLogin(t) \/ OAuth(t) \/ Verify(t) \/ BackToLogin(t)
    \/ Generate(t) \/ Enable(t) \/ Disable(t) \/ Logout(t)
    \/ SaveProfile(t) \/ TakeProfile(t)
    \/ Step(t, "qr", "initial") \/ Step(t, "initial", "confirm")
    \/ Step(t, "confirm", "initial")
    \/ ServeMe(t) \/ ServeLogout(t) \/ ServeVerify(t) \/ ServeCheck(t)
    \/ \E n \in Secrets : ServeGenerate(t, n)
    \/ WriteEnabled(t) \/ WriteDisabled(t)
    \/ ServeLogin(t) \/ \E k \in {"act", "heal"} : ServeFirebase(t, k) \/ Issue(t, k)
    \/ \E k \in Kinds \ {"save"} : Lose(t, k)
    \/ TakeMe(t) \/ \E op \in {"login", "firebase", "verify"} : TakeSignIn(t, op)
    \/ TakeHeal(t) \/ TakeGenerate(t) \/ TakeLogout(t)
    \/ \E op \in {"enable", "disable"} : TakeMfa(t, op)

Spec == Init /\ [][Next]_vars

\* Once the second factor is enabled its user can answer it, unless a secret was made or
\* withdrawn while it was being enabled, or made again since (mfaGenerate, mfaEnable).
FactorCanBeAnswered ==
  account.enabled /\ ~crossed => account.secret \in codes

\* A tab with nothing under way shows the user as the account is, and only while the
\* browser has tokens, unless an answer was overtaken or lost, or another tab changed or
\* ended the session (AuthContext).
ViewIsTrue ==
  ~late => \A t \in Tabs :
    /\ tab[t].user # "none" => local.token
    /\ tab[t].user # "none" /\ Idle(t, "act") => tab[t].user = Flag

\* A tab that shows nothing yet waits for an answer or for Firebase (loading).
NoneWaitsForNothing ==
  \A t \in Tabs : tab[t].loading =>
    \/ \E k \in {"me", "heal"} : ~Idle(t, k)
    \/ Firebase /\ tab[t].told # (IF remote THEN "in" ELSE "out")
=============================================================================
