---------------------------- MODULE MailboxLink ----------------------------
(***************************************************************************)
(* Which account at the provider the mailboxes of an organisation are        *)
(* connected to. The OAuth callback (auth.service.ts) writes into any mailbox *)
(* that has the account's address or is connected to the same provider,      *)
(* beside other callbacks, renewals of the access token                      *)
(* (email-sync.processor.ts), and the requests that change a mailbox's       *)
(* address, disconnect or delete it (mailboxes.service.ts).                  *)
(***************************************************************************)
EXTENDS FiniteSets

CONSTANTS
  Accounts,   \* at one provider
  Mailboxes,
  Callbacks,  \* callbacks under way at the same time
  None

LinkAssumption == None \notin Accounts \cup Mailboxes

VARIABLES
  mailbox,   \* the rows
  callback,
  renewal,   \* the account whose refresh token is being used for each mailbox
  \* history
  mixed      \* mailboxes that got an access token without a refresh token or an
             \* address, or from a renewal that the connection has overtaken, and
             \* connected ones given another address by hand

vars == <<mailbox, callback, renewal, mixed>>

Absent == [at |-> "none", email |-> None, linked |-> FALSE, access |-> None,
           refresh |-> None]
Idle == [at |-> "idle", account |-> None, email |-> None, refresh |-> None, into |-> None]

Maybe == Accounts \cup {None}

TypeOK ==
  /\ mailbox \in [Mailboxes -> [at : {"none", "live", "deleted"}, email : Maybe,
                                linked : BOOLEAN, access : Maybe, refresh : Maybe]]
  /\ callback \in [Callbacks -> [at : {"idle", "known", "found"}, account : Maybe,
                                 email : Maybe, refresh : Maybe,
                                 into : Mailboxes \cup {None}]]
  /\ renewal \in [Mailboxes -> Maybe]
  /\ mixed \subseteq Mailboxes

Init ==
  /\ mailbox = [b \in Mailboxes |-> Absent]
  /\ callback = [c \in Callbacks |-> Idle]
  /\ renewal = [b \in Mailboxes |-> None]
  /\ mixed = {}

Live == {b \in Mailboxes : mailbox[b].at = "live"}
Unused == {b \in Mailboxes : mailbox[b].at = "none"}

----------------------------------------------------------------------------
(* The callback. *)

\* The code is exchanged for tokens; there may be no refresh token among them, and the
\* address may not be told: then it is the user's own, None.
Exchange(c, a) ==
  /\ callback[c] = Idle
  /\ \E email, refresh \in {a, None} :
       callback' = [callback EXCEPT ![c] =
         [at |-> "known", account |-> a, email |-> email, refresh |-> refresh,
          into |-> None]]
  /\ UNCHANGED <<mailbox, renewal, mixed>>

\* Any one that matches.
Matches(c) == {b \in Live : mailbox[b].email = callback[c].email \/ mailbox[b].linked}

Look(c) ==
  /\ callback[c].at = "known"
  /\ \E b \in IF Matches(c) = {} THEN {None} ELSE Matches(c) :
       callback' = [callback EXCEPT ![c].at = "found", ![c].into = b]
  /\ UNCHANGED <<mailbox, renewal, mixed>>

ConnectedOnly(row, k) ==
  [row EXCEPT !.at = IF @ = "none" THEN "live" ELSE @, !.linked = TRUE,
              !.access = k.account,
              !.refresh = IF k.refresh = None THEN @ ELSE k.refresh]

\* Without a refresh token the row keeps the one it has.
Connected(row, k) ==
  [row EXCEPT !.at = IF @ = "none" THEN "live" ELSE @, !.email = k.email,
              !.linked = TRUE, !.access = k.account,
              !.refresh = IF k.refresh = None THEN @ ELSE k.refresh]
Pure(row, k) == k.email = k.account /\ Connected(row, k).refresh \in {k.account, None}

\* By id, a mailbox deleted in the meantime as well.
Connect(c) ==
  LET k == callback[c]
  IN /\ k.at = "found"
     /\ \E b \in IF k.into # None THEN {k.into} ELSE Unused :
          /\ mailbox' = [mailbox EXCEPT ![b] = Connected(@, k)]
          /\ mixed' = IF Pure(mailbox[b], k) THEN mixed \ {b} ELSE mixed \cup {b}
     /\ callback' = [callback EXCEPT ![c] = Idle]
     /\ UNCHANGED renewal

Fail(c) ==
  /\ callback[c] # Idle
  /\ callback' = [callback EXCEPT ![c] = Idle]
  /\ UNCHANGED <<mailbox, renewal, mixed>>

----------------------------------------------------------------------------
(* What else happens to a mailbox. *)

\* With a password.
Add(b, a) ==
  /\ b \in Unused
  /\ mailbox' = [mailbox EXCEPT ![b] = [Absent EXCEPT !.at = "live", !.email = a]]
  /\ UNCHANGED <<callback, renewal, mixed>>

\* PATCH /mailboxes/:id writes the address and leaves connection and tokens.
Rename(b, a) ==
  /\ b \in Live /\ mailbox[b].email # a
  /\ mailbox' = [mailbox EXCEPT ![b].email = a]
  /\ mixed' = IF mailbox[b].linked THEN mixed \cup {b} ELSE mixed
  /\ UNCHANGED <<callback, renewal>>

Disconnect(b) ==
  /\ b \in Live
  /\ mailbox[b].linked \/ mailbox[b].access # None \/ mailbox[b].refresh # None
  /\ mailbox' = [mailbox EXCEPT ![b].linked = FALSE, ![b].access = None,
                                ![b].refresh = None]
  /\ UNCHANGED <<callback, renewal, mixed>>

Delete(b) ==
  /\ b \in Live
  /\ mailbox' = [mailbox EXCEPT ![b].at = "deleted"]
  /\ UNCHANGED <<callback, renewal, mixed>>

Renew(b) ==
  /\ b \in Live /\ mailbox[b].linked /\ mailbox[b].refresh # None /\ renewal[b] = None
  /\ renewal' = [renewal EXCEPT ![b] = mailbox[b].refresh]
  /\ UNCHANGED <<mailbox, callback, mixed>>

\* The new access token, and with Microsoft a refresh token, is written by id; or there
\* is none.
Renewed(b) ==
  /\ renewal[b] # None
  /\ \/ /\ \E refresh \in {renewal[b], mailbox[b].refresh} :
             mailbox' = [mailbox EXCEPT ![b].access = renewal[b], ![b].refresh = refresh]
        /\ mixed' = IF mailbox[b].email # renewal[b] THEN mixed \cup {b} ELSE mixed
     \/ UNCHANGED <<mailbox, mixed>>
  /\ renewal' = [renewal EXCEPT ![b] = None]
  /\ UNCHANGED callback

Next ==
  \/ \E c \in Callbacks :
       Look(c) \/ Connect(c) \/ Fail(c) \/ \E a \in Accounts : Exchange(c, a)
  \/ \E b \in Mailboxes :
       \/ Disconnect(b) \/ Delete(b) \/ Renew(b) \/ Renewed(b)
       \/ \E a \in Accounts : Add(b, a) \/ Rename(b, a)

Spec == Init /\ [][Next]_vars

----------------------------------------------------------------------------
(* Properties. *)

\* The tokens of a connected mailbox are those of the account it is named after, unless
\* the provider left out the refresh token or the address, a renewal was overtaken by
\* the connection (auth.service.ts:1108, email-sync.processor.ts:1182), or the connected
\* mailbox was given another address by hand (mailboxes.service.ts:255).
CredentialsMatch ==
  \A b \in Live \ mixed : mailbox[b].linked =>
    /\ mailbox[b].access = mailbox[b].email
    /\ mailbox[b].refresh \in {mailbox[b].email, None}
=============================================================================
