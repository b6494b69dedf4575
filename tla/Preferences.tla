---------------------------- MODULE Preferences ----------------------------
(***************************************************************************)
(* Which notifications a user gets: the organisation's settings by type of   *)
(* notification, the user's own, and those for a single contact, each with a *)
(* set of channels.  A page shows settings as they were when it loaded them, *)
(* merged with the organisation's, and saves all of them; dispatch merges    *)
(* them anew for every notification.                                        *)
(***************************************************************************)
EXTENDS Naturals

CONSTANTS
  Types, Channels,
  Contact,     \* the type that may have settings for a contact
  Defaults,    \* Defaults[t]: the channels of NOTIFICATION_TYPE_DEFS
  Pages        \* settings pages of one user

PreferencesAssumption == Defaults \in [Types -> SUBSET Channels]

VARIABLES
  org,       \* Organization.notificationSettings
  pref,      \* NotificationPreference by type, if there is one
  override,  \* ContactNotificationPreference of one contact, if there is one
  page,      \* what a page shows, and the channels the organisation had
  wish,      \* what the user chose last for a channel
  lost,      \* a page saved over what it had not seen, or froze what the
             \* organisation did not allow at the time
  strayed    \* a choice for the contact changed another channel

vars == <<org, pref, override, page, wish, lost, strayed>>

Setting == [enabled : BOOLEAN, channels : SUBSET Channels]
Unset == [set |-> FALSE, enabled |-> TRUE, channels |-> {}]
Stored == [set : BOOLEAN, enabled : BOOLEAN, channels : SUBSET Channels]
Default == [t \in Types |-> [enabled |-> TRUE, channels |-> Defaults[t]]]
Closed == [open |-> FALSE, old |-> FALSE, shown |-> Default, allowed |-> Defaults]

TypeOK ==
  /\ org \in [Types -> Setting]
  /\ pref \in [Types -> Stored]
  /\ override \in Stored
  /\ page \in [Pages -> [open : BOOLEAN, old : BOOLEAN, shown : [Types -> Setting],
                         allowed : [Types -> SUBSET Channels]]]
  /\ wish \in [Types -> [Channels -> {"none", "on", "off"}]]
  /\ lost \in BOOLEAN /\ strayed \in BOOLEAN

Init ==
  /\ org = Default
  /\ pref = [t \in Types |-> Unset]
  /\ override = Unset
  /\ page = [p \in Pages |-> Closed]
  /\ wish = [t \in Types |-> [c \in Channels |-> "none"]]
  /\ lost = FALSE /\ strayed = FALSE

\* getSettings: a channel is shown when the organisation has it and the user's settings,
\* or in their absence the organisation's, have it too.
Shown(t) ==
  IF pref[t].set THEN [enabled |-> pref[t].enabled, channels |-> org[t].channels \cap pref[t].channels]
                 ELSE org[t]

\* dispatch: the channels a notification takes; about is the contact's settings, if any.
Used(t, about) ==
  LET own == CASE about.set -> about.channels
               [] ~about.set /\ pref[t].set -> pref[t].channels
               [] OTHER -> org[t].channels
  IN  IF org[t].enabled /\ (pref[t].set => pref[t].enabled) /\ (about.set => about.enabled)
        THEN org[t].channels \cap own
        ELSE {}

\* s with one switch turned: type t's own, or that of a channel in allowed[t].
Turned(s, allowed) ==
  {[s EXCEPT ![t].enabled = ~@] : t \in Types}
    \cup UNION {{[s EXCEPT ![t].channels = IF c \in @ THEN @ \ {c} ELSE @ \cup {c}] :
                c \in allowed[t]} : t \in Types}

\* loadNotificationPreferences.
Load(p) ==
  /\ page' = [page EXCEPT ![p] =
       [open |-> TRUE, old |-> FALSE, shown |-> [t \in Types |-> Shown(t)],
        allowed |-> [t \in Types |-> org[t].channels]]]
  /\ UNCHANGED <<org, pref, override, wish, lost, strayed>>

\* What the user wants of a channel once choice is saved over what page p showed.
Wanted(p, choice, t, c) ==
  LET before == c \in page[p].shown[t].channels
      now == c \in choice[t].channels
  IN  IF before = now THEN wish[t][c] ELSE IF now THEN "on" ELSE "off"

\* saveNotificationPreferences: the page loads anew, others show what was before.
Saved(p) ==
  page' = [q \in Pages |-> IF q = p THEN Closed ELSE [page[q] EXCEPT !.old = page[q].open]]

\* A choice saved: of every type, what the page shows, whoever changed it since.
UpdateSettings(p) ==
  /\ page[p].open
  /\ \E choice \in Turned(page[p].shown, page[p].allowed) :
       /\ pref' = [t \in Types |->
            [set |-> TRUE, enabled |-> choice[t].enabled, channels |-> choice[t].channels]]
       /\ wish' = [t \in Types |-> [c \in Channels |-> Wanted(p, choice, t, c)]]
       /\ lost' = (lost \/ page[p].old
                   \/ \E t \in Types, c \in Channels :
                        wish'[t][c] = "on" /\ c \notin choice[t].channels)
  /\ Saved(p)
  /\ UNCHANGED <<org, override, strayed>>

\* updateOrganizationSettings; a user's open page does not hear of it.
UpdateOrganizationSettings ==
  /\ org' \in Turned(org, [t \in Types |-> Channels])
  /\ UNCHANGED <<pref, override, page, wish, lost, strayed>>

\* updateContactNotificationPreference changes one field; the others are those stored for
\* the contact, the user's, or constants, and never the organisation's.
BaseOverride ==
  IF override.set THEN override
  ELSE IF pref[Contact].set THEN pref[Contact]
  ELSE [set |-> FALSE, enabled |-> TRUE, channels |-> Channels \cap {"in_app", "email"}]

UpdateContact ==
  /\ \/ \E c \in Channels :
          /\ override' = [BaseOverride EXCEPT !.set = TRUE,
               !.channels = IF c \in @ THEN @ \ {c} ELSE @ \cup {c}]
          /\ strayed' = (strayed \/ (/\ pref[Contact].set
                                   /\ Used(Contact, override') \ {c}
                                        # Used(Contact, override) \ {c}))
     \/ /\ override' = [BaseOverride EXCEPT !.set = TRUE, !.enabled = ~@]
        /\ UNCHANGED <<strayed>>
  /\ UNCHANGED <<org, pref, page, wish, lost>>

Next ==
  \/ \E p \in Pages : Load(p) \/ UpdateSettings(p)
  \/ UpdateOrganizationSettings
  \/ Contact \in Types /\ UpdateContact

Spec == Init /\ [][Next]_vars

\* What the settings page would show now is what a notification takes, as long as the
\* organisation has the type enabled (getSettings, dispatch).
ShownIsUsed ==
  \A t \in Types : org[t].enabled =>
    Used(t, Unset) = IF Shown(t).enabled THEN Shown(t).channels ELSE {}

\* No notification takes a channel that its user switched off last, and one that was
\* switched on is taken whenever the organisation and the user have the type enabled,
\* unless a page saved over a change it had not seen (updateSettings).
WishesHold ==
  ~lost => \A t \in Types, c \in Channels :
    /\ wish[t][c] = "off" => c \notin Used(t, Unset)
    /\ /\ wish[t][c] = "on" /\ c \in org[t].channels
       /\ org[t].enabled /\ pref[t].enabled
       => c \in Used(t, Unset)

\* Of a user with settings of their own, choosing a channel for a contact leaves every
\* other channel of that contact's notifications as it was
\* (updateContactNotificationPreference, dispatch).
ContactKeepsRest == ~strayed
=============================================================================
