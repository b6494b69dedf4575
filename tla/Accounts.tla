------------------------------ MODULE Accounts ------------------------------
(***************************************************************************)
(* The account of one person in one organisation: invitation, registration, *)
(* the links mailed to the person, and what administrators do to the row     *)
(* meanwhile (users.service.ts, auth.service.ts).                            *)
(*                                                                           *)
(* Every request finds the row under a condition and later updates it by id, *)
(* without the condition; accepting and resetting hash a password between    *)
(* the two. The row has one link column (inviteToken), shared by invitations,*)
(* e-mail verification and password resets.                                  *)
(***************************************************************************)
EXTENDS Naturals, Sequences

CONSTANTS
  Requests,    \* requests under way at the same time
  MaxLinks,    \* bound: links mailed
  MaxRestarts  \* bound: restarts of the backend

AccountsAssumption == MaxLinks \in Nat /\ MaxRestarts \in Nat

VARIABLES
  user,      \* the row
  access,    \* the person has a mailbox access row
  kind,      \* what each mailed link is for, in the order they were mailed
  op,        \* what each request is about to write
  restarts,
  \* history
  stale,     \* requests whose find some write has overtaken
  fate,      \* what became of the link mailed last
  odd,       \* the row was registered, reset, or activated before it was accepted
  kept       \* the access row is not one a removal had to take away

vars == <<user, access, kind, op, restarts, stale, fate, odd, kept>>

Nothing == [do |-> "nothing", link |-> 0]
Last == Len(kind)
Absent == [made |-> FALSE, active |-> FALSE, verified |-> FALSE, deleted |-> FALSE,
           password |-> FALSE, link |-> 0, expired |-> FALSE]

TypeOK ==
  /\ user \in [made : BOOLEAN, active : BOOLEAN, verified : BOOLEAN,
               deleted : BOOLEAN, password : BOOLEAN, link : 0..MaxLinks,
               expired : BOOLEAN]
  /\ access \in BOOLEAN
  /\ kind \in UNION {[1..n -> {"invite", "reset", "verify"}] : n \in 0..MaxLinks}
  /\ op \in [Requests -> [do : {"nothing", "create", "invite", "resend", "revoke",
                                "remove", "purge", "register", "forgot", "invited",
                                "reset", "verify"},
                          link : 0..MaxLinks]]
  /\ restarts \in 0..MaxRestarts /\ stale \subseteq Requests
  /\ fate \in {"open", "ended"}
  /\ odd \in BOOLEAN /\ kept \in BOOLEAN

Init ==
  /\ user = Absent /\ access = FALSE /\ kind = <<>>
  /\ op = [r \in Requests |-> Nothing] /\ restarts = 0
  /\ stale = {} /\ fate = "ended" /\ odd = FALSE /\ kept = FALSE

Found == user.made
HasLink == user.link # 0
IsAnyone == Found /\ ~user.deleted  \* verified or not
IsPending == Found /\ ~user.deleted /\ ~user.verified
CanSignIn == Found /\ user.active /\ ~user.deleted /\ user.password

----------------------------------------------------------------------------
(* The finds. *)

Begin(r, do, link) ==
  /\ op[r] = Nothing
  /\ op' = [op EXCEPT ![r] = [do |-> do, link |-> link]]
  /\ stale' = stale \ {r}
  /\ UNCHANGED <<user, access, kind, restarts, fate, odd, kept>>

\* users.invite: the row of the address, if there is one, is taken over.
FindForInvite(r) == Begin(r, IF Found THEN "invite" ELSE "create", 0)
FindForResend(r) == IsPending /\ Begin(r, "resend", 0)
FindForRevoke(r) == IsPending /\ HasLink /\ Begin(r, "revoke", 0)
FindForRemove(r) == Found /\ ~user.deleted /\ Begin(r, "remove", 0)
FindForForgot(r) == Found /\ Begin(r, "forgot", 0)

\* The person opens a link: acceptInvite, resetPassword and verifyEmail find the row
\* by the link, while it is valid.
FindByLink(r) ==
  /\ Found /\ HasLink /\ ~user.expired
  /\ Begin(r, CASE kind[user.link] = "invite" -> "invited"
                [] kind[user.link] = "reset" -> "reset"
                [] OTHER -> "verify", user.link)

----------------------------------------------------------------------------
(* The updates. *)

\* A request writes the row and either ends or goes on with another write.
Write(r, row, then) ==
  /\ user' = row
  /\ op' = [op EXCEPT ![r] = then]
  /\ stale' = {q \in Requests \ {r} : op[q] # Nothing}
  /\ UNCHANGED restarts

\* The row keeps the link it has, and the new one is mailed.
LinkedOnce(row) == IF row.link # 0 THEN row ELSE [row EXCEPT !.link = Last + 1]

\* The row with a new link in it, which is then mailed.
Linked(row) == [row EXCEPT !.link = Last + 1, !.expired = FALSE]
Unlinked(row) == [row EXCEPT !.link = 0, !.expired = FALSE]

Mail(what) ==
  /\ Last < MaxLinks
  /\ kind' = Append(kind, what)
  /\ fate' = "open"

\* Whoever clears the column ends the link in it, be it the one that was found there or
\* one that was mailed since.
Ends == fate' = "ended" /\ UNCHANGED kind

Invited == Linked([user EXCEPT !.made = TRUE, !.active = FALSE, !.verified = FALSE,
                               !.deleted = FALSE])

WriteInvite(r) ==
  /\ op[r].do \in IF Found THEN {"invite"} ELSE {"create"}
  /\ Write(r, Invited, Nothing) /\ Mail("invite")
  /\ odd' = FALSE
  /\ UNCHANGED <<access, kept>>

WriteResend(r) ==
  /\ op[r].do = "resend"
  /\ Write(r, Linked([user EXCEPT !.active = FALSE]), Nothing) /\ Mail("invite")
  /\ UNCHANGED <<access, odd, kept>>

WriteRevoke(r) ==
  /\ op[r].do = "revoke"
  /\ Write(r, Unlinked([user EXCEPT !.active = FALSE]), Nothing) /\ Ends
  /\ UNCHANGED <<access, odd, kept>>

WriteForgot(r) ==
  /\ op[r].do = "forgot"
  /\ Write(r, Linked(user), Nothing) /\ Mail("reset")
  /\ odd' = TRUE
  /\ UNCHANGED <<access, kept>>

WriteReset(r) ==
  /\ op[r].do = "reset"
  /\ Write(r, Unlinked([user EXCEPT !.password = TRUE]), Nothing) /\ Ends
  /\ UNCHANGED <<access, odd, kept>>

WriteAccepted(r) ==
  /\ op[r].do = "invited"
  /\ Write(r, Unlinked([user EXCEPT !.password = TRUE, !.verified = TRUE,
                                    !.active = TRUE]), Nothing)
  /\ Ends
  /\ UNCHANGED <<access, odd, kept>>

WriteVerified(r) ==
  /\ op[r].do = "verify"
  /\ Write(r, Unlinked([user EXCEPT !.verified = TRUE]), Nothing) /\ Ends
  /\ UNCHANGED <<access, odd, kept>>

\* users.remove: the row first, then the mailbox access rows.
WriteRemove(r) ==
  /\ op[r].do = "remove"
  /\ Write(r, [user EXCEPT !.deleted = TRUE, !.active = FALSE],
           [do |-> "purge", link |-> 0])
  /\ kept' = FALSE
  /\ UNCHANGED <<access, kind, fate, odd>>

Purge(r) ==
  /\ op[r].do = "purge"
  /\ access' = FALSE
  /\ op' = [op EXCEPT ![r] = Nothing]
  /\ UNCHANGED <<user, kind, restarts, stale, fate, odd, kept>>

\* The address was taken meanwhile: the create fails on the unique index.
CreateRefused(r) ==
  /\ op[r].do = "create" /\ Found
  /\ op' = [op EXCEPT ![r] = Nothing]
  /\ UNCHANGED <<user, access, kind, restarts, stale, fate, odd, kept>>

\* auth.register: the row, active at once, then the verification link.
Register(r) ==
  /\ op[r] = Nothing /\ ~Found
  /\ Write(r, [Absent EXCEPT !.made = TRUE, !.active = TRUE, !.password = TRUE],
           [do |-> "register", link |-> 0])
  /\ odd' = TRUE
  /\ UNCHANGED <<access, kind, fate, kept>>

WriteRegistered(r) ==
  /\ op[r].do = "register"
  /\ Write(r, Linked(user), Nothing) /\ Mail("verify")
  /\ UNCHANGED <<access, odd, kept>>

\* users.update: an administrator switches the account on, which also restores a
\* removed one, or off. Find and update are one step: no condition lies between them.
SetActive(on) ==
  /\ Found /\ user.active # on
  /\ user' = [user EXCEPT !.active = on, !.deleted = @ /\ ~on]
  /\ stale' = {q \in Requests : op[q] # Nothing}
  /\ odd' = (odd \/ (on /\ ~user.verified))
  /\ kept' = (kept /\ ~on)
  /\ UNCHANGED <<access, kind, op, restarts, fate>>

\* mailboxes.createAccess does not look at the person's row.
Grant ==
  /\ Found /\ ~access
  /\ access' = TRUE
  /\ kept' = user.deleted
  /\ UNCHANGED <<user, kind, op, restarts, stale, fate, odd>>

RevokeAccess ==
  /\ access
  /\ access' = FALSE
  /\ UNCHANGED <<user, kind, op, restarts, stale, fate, odd, kept>>

Expire ==
  /\ HasLink /\ ~user.expired
  /\ user' = [user EXCEPT !.expired = TRUE]
  /\ UNCHANGED <<access, kind, op, restarts, stale, fate, odd, kept>>

\* The backend stops: what the requests had not written is not written.
Restart ==
  /\ restarts < MaxRestarts
  /\ restarts' = restarts + 1
  /\ op' = [r \in Requests |-> Nothing] /\ stale' = {}
  /\ kept' = (kept \/ \E r \in Requests : op[r].do = "purge")
  /\ UNCHANGED <<user, access, kind, fate, odd>>

Next ==
  \/ \E r \in Requests :
       \/ FindForInvite(r) \/ FindForResend(r) \/ FindForRevoke(r)
       \/ FindForRemove(r) \/ FindForForgot(r) \/ FindByLink(r)
       \/ WriteInvite(r) \/ WriteResend(r) \/ WriteRevoke(r) \/ WriteForgot(r)
       \/ WriteReset(r) \/ WriteAccepted(r) \/ WriteVerified(r)
       \/ WriteRemove(r) \/ Purge(r) \/ CreateRefused(r)
       \/ Register(r) \/ WriteRegistered(r)
  \/ SetActive(TRUE) \/ SetActive(FALSE) \/ Grant \/ RevokeAccess
  \/ Expire \/ Restart

Spec == Init /\ [][Next]_vars

----------------------------------------------------------------------------
(* The list of users: users.service.ts filters in the database by a condition *)
(* (buildUsersWhereInput) and shows a badge computed from the row              *)
(* (deriveUserStatus).                                                         *)

OpenInvitation == HasLink /\ ~user.verified /\ ~user.expired

Badge ==
  IF user.deleted THEN "deleted"
  ELSE IF OpenInvitation THEN "invited"
  ELSE IF user.active THEN "active" ELSE "inactive"

Listed(status) ==
  CASE status = "deleted" -> user.deleted
    [] status = "active" -> ~user.deleted /\ user.active /\ user.verified /\ ~HasLink
    [] status = "invited" -> ~user.deleted /\ OpenInvitation
    [] status = "inactive" ->
         /\ ~user.deleted
         /\ \/ ~user.active /\ ~HasLink
            \/ ~user.verified /\ HasLink /\ user.expired

----------------------------------------------------------------------------
(* Properties. *)

\* The link mailed last opens the account until a request clears the column: that the
\* link was mailed means that it is the one stored, whichever requests cross
\* (auth.service.ts:787-873, users.service.ts:420-446).
LastLinkWorks == fate = "open" => Found /\ user.link = Last

\* An invited account is in exactly the list of the status it is shown with, unless it
\* was reset, or activated by hand before it was accepted: the filter and the badge are
\* two computations (users.service.ts:671, 735).
ListedAsShown ==
  Found /\ ~odd /\ ~(user.verified /\ HasLink)
    => \A s \in {"deleted", "active", "invited", "inactive"} : Listed(s) <=> Badge = s

\* A removed person's mailbox access goes with the removal, unless the backend stopped
\* between its two writes or the access was granted later (users.service.ts:604-611).
RemovedHasNoAccess ==
  user.deleted /\ access => kept \/ \E r \in Requests : op[r].do = "purge"

\* Resending or revoking an invitation does not sign out a person who has verified the
\* account, unless that happened while the request ran (users.service.ts:356, 426).
SparesUser ==
  CanSignIn /\ user.verified /\ ~CanSignIn'
    => \A r \in Requests : op[r].do \in {"resend", "revoke"} /\ op'[r] = Nothing
                             => r \in stale \/ restarts' # restarts
InvitationSparesUsers == [][SparesUser]_vars

----------------------------------------------------------------------------
(* What they rest on. *)

\* A row that was found is never lost, only marked as deleted.
FoundForGood == \A r \in Requests : op[r].do \notin {"nothing", "create"} => Found

\* Who resends or revokes an invitation found it open; if nobody wrote since, it is.
SeenPending ==
  \A r \in Requests \ stale : op[r].do \in {"resend", "revoke"} => ~user.verified
Accepted == user.active => user.verified \/ odd

AccountsInv ==
  TypeOK /\ FoundForGood /\ LastLinkWorks /\ RemovedHasNoAccess /\ SeenPending /\ Accepted
=============================================================================
