----------------------------- MODULE PostIngest -----------------------------
(***************************************************************************)
(* What is done with a mail once it is stored (runPostIngestWork of          *)
(* email-sync.processor.ts): its sender becomes a contact of a company       *)
(* (crm.service.ts), the rules act on its thread (rules-engine.service.ts),  *)
(* and the thread gets a category that costs credits                         *)
(* (ai-categorization.service.ts). Mails of several mailboxes, and those a   *)
(* user's own refresh fetches, are worked on at the same time.               *)
(***************************************************************************)
EXTENDS Naturals, FiniteSets

CONSTANTS
  Mails,       \* mails of one sender
  Threads,
  ThreadOf,    \* the thread of each mail
  Rules,       \* how many rules there are, in their order
  Hits,        \* the rules whose conditions each mail meets
  Overriding,  \* rules that end the evaluation
  Categories,
  Credits,     \* at the start, in units of one classification
  MaxCrashes   \* bound: restarts of the backend

RuleTag == "rule"

IngestAssumption ==
  /\ ThreadOf \in [Mails -> Threads] /\ Rules \in Nat
  /\ Hits \in [Mails -> SUBSET (1..Rules)] /\ Overriding \subseteq 1..Rules
  /\ RuleTag \notin Categories /\ Credits \in Nat /\ MaxCrashes \in Nat

VARIABLES
  work,       \* how far each mail is
  companies,  \* rows of the company of the sender's domain
  contact,    \* the row of the sender, which stays when the contact is deleted
  linked,     \* threads linked to the contact
  tags,       \* rows of each tag
  tagged,     \* the tags each thread has, by name and row
  credits,
  halted,     \* DISABLE_RULES_EVALUATION
  triggered,  \* how often each rule says it was triggered
  crashes,
  \* history
  paid,       \* classifications paid for
  acted,      \* how often the actions of each rule were run
  lapsed,     \* rules whose run was not counted because of a crash
  raced       \* rows two mails looked for at once, and threads two were classifying

vars == <<work, companies, contact, linked, tags, tagged, credits, halted, triggered,
          crashes, paid, acted, lapsed, raced>>

Names == Categories \cup {RuleTag}
Max2 == 0..Cardinality(Mails)
Idle == [at |-> "stored", rule |-> 0, tag |-> RuleTag]
Done == [at |-> "done", rule |-> 0, tag |-> RuleTag]

TypeOK ==
  /\ work \in [Mails -> [at : {"stored", "no company", "contact", "no contact", "rules",
                               "acted", "look", "no tag", "category", "pay", "ask",
                               "done"},
                         rule : 0..Rules, tag : Names]]
  /\ companies \in Max2
  /\ contact \in {"none", "live", "deleted"}
  /\ linked \subseteq Threads
  /\ tags \in [Names -> Max2]
  /\ tagged \in [Threads -> SUBSET (Names \X Max2)]
  /\ credits \in 0..Credits /\ halted \in BOOLEAN
  /\ triggered \in [1..Rules -> Max2] /\ acted \in [1..Rules -> Max2]
  /\ crashes \in 0..MaxCrashes /\ paid \in Max2
  /\ lapsed \subseteq 1..Rules
  /\ raced \subseteq {"company", "contact"} \cup Names \cup Threads

Init ==
  /\ work = [m \in Mails |-> Idle]
  /\ companies = 0 /\ contact = "none" /\ linked = {}
  /\ tags = [n \in Names |-> 0] /\ tagged = [t \in Threads |-> {}]
  /\ credits = Credits /\ halted = FALSE
  /\ triggered = [r \in 1..Rules |-> 0] /\ acted = [r \in 1..Rules |-> 0]
  /\ crashes = 0 /\ paid = 0 /\ lapsed = {} /\ raced = {}

Goto(m, at) == work' = [work EXCEPT ![m].at = at]
Meets(m, at) == \E k \in Mails \ {m} : work[k].at = at
crm == <<companies, contact, linked>>
labels == <<tags, tagged>>

----------------------------------------------------------------------------
(* The sender. *)

\* A sender without a company on record gets one; so does a second mail that looked
\* before the row was there.
LookCompany(m) ==
  /\ work[m].at = "stored"
  /\ IF companies > 0 THEN Goto(m, "contact") /\ UNCHANGED raced
     ELSE /\ Goto(m, "no company")
          /\ raced' = IF Meets(m, "no company") THEN raced \cup {"company"} ELSE raced
  /\ UNCHANGED <<crm, labels, credits, halted, triggered, crashes, paid, acted, lapsed>>

MakeCompany(m) ==
  /\ work[m].at = "no company"
  /\ companies' = companies + 1
  /\ Goto(m, "contact")
  /\ UNCHANGED <<contact, linked, labels, credits, halted, triggered, crashes, paid,
                 acted, lapsed, raced>>

\* Deleted contacts are not found.
LookContact(m) ==
  /\ work[m].at = "contact"
  /\ IF contact = "live"
     THEN Goto(m, "rules") /\ linked' = linked \cup {ThreadOf[m]} /\ UNCHANGED raced
     ELSE /\ Goto(m, "no contact")
          /\ raced' = IF Meets(m, "no contact") THEN raced \cup {"contact"} ELSE raced
          /\ UNCHANGED linked
  /\ UNCHANGED <<companies, contact, labels, credits, halted, triggered, crashes, paid,
                 acted, lapsed>>

\* The address is unique, deleted contacts included; then the thread stays without.
MakeContact(m) ==
  /\ work[m].at = "no contact"
  /\ IF contact = "none"
     THEN contact' = "live" /\ linked' = linked \cup {ThreadOf[m]}
     ELSE UNCHANGED <<contact, linked>>
  /\ Goto(m, "rules")
  /\ UNCHANGED <<companies, labels, credits, halted, triggered, crashes, paid, acted,
                 lapsed, raced>>

\* By a user; making one is refused like here if the address has a row.
DeleteContact ==
  /\ contact = "live" /\ contact' = "deleted"
  /\ UNCHANGED <<work, companies, linked, labels, credits, halted, triggered, crashes,
                 paid, acted, lapsed, raced>>

----------------------------------------------------------------------------
(* The rules. *)

ToggleHalt ==
  /\ halted' = ~halted
  /\ UNCHANGED <<work, crm, labels, credits, triggered, crashes, paid, acted, lapsed,
                 raced>>

\* Of the rules after the one last run, the next that the mail meets.
Left(m) == {r \in Hits[m] : r > work[m].rule}
First(S) == CHOOSE r \in S : \A q \in S : r <= q

\* The flag is read before each rule.
StartRule(m) ==
  /\ work[m].at = "rules" /\ ~halted /\ Left(m) # {}
  /\ LET r == First(Left(m))
     IN work' = [work EXCEPT ![m] = [at |-> "look", rule |-> r, tag |-> RuleTag]]
  /\ UNCHANGED <<crm, labels, credits, halted, triggered, crashes, paid, acted, lapsed,
                 raced>>

EndRules(m) ==
  /\ work[m].at = "rules" /\ (halted \/ Left(m) = {})
  /\ Goto(m, "category")
  /\ UNCHANGED <<crm, labels, credits, halted, triggered, crashes, paid, acted, lapsed,
                 raced>>

\* After its actions a rule is counted.
CountRule(m) ==
  LET r == work[m].rule
  IN /\ work[m].at = "acted"
     /\ triggered' = [triggered EXCEPT ![r] = @ + 1]
     /\ Goto(m, IF r \in Overriding THEN "category" ELSE "rules")
     /\ UNCHANGED <<crm, labels, credits, halted, crashes, paid, acted, lapsed, raced>>

----------------------------------------------------------------------------
(* Tags, for a rule's action and for a category. *)

Attach(m, row) ==
  LET t == ThreadOf[m]
      n == work[m].tag
  IN /\ tagged' = [tagged EXCEPT ![t] = @ \cup {<<n, row>>}]
     /\ IF n = RuleTag
        THEN /\ Goto(m, "acted")
             /\ acted' = [acted EXCEPT ![work[m].rule] = @ + 1]
        ELSE work' = [work EXCEPT ![m] = Done] /\ UNCHANGED acted

LookTag(m) ==
  LET n == work[m].tag
  IN /\ work[m].at = "look"
     /\ IF tags[n] > 0 THEN Attach(m, 1) /\ UNCHANGED raced
        ELSE /\ Goto(m, "no tag")
             /\ raced' = IF \E k \in Mails \ {m} : work[k].at = "no tag" /\ work[k].tag = n
                         THEN raced \cup {n} ELSE raced
             /\ UNCHANGED <<tagged, acted>>
     /\ UNCHANGED <<crm, tags, credits, halted, triggered, crashes, paid, lapsed>>

MakeTag(m) ==
  LET n == work[m].tag
  IN /\ work[m].at = "no tag"
     /\ tags' = [tags EXCEPT ![n] = @ + 1]
     /\ Attach(m, tags[n] + 1)
     /\ UNCHANGED <<crm, credits, halted, triggered, crashes, paid, lapsed, raced>>

\* A user takes the tags off a thread.
Untag(t) ==
  /\ tagged[t] # {} /\ tagged' = [tagged EXCEPT ![t] = {}]
  /\ UNCHANGED <<work, crm, tags, credits, halted, triggered, crashes, paid, acted,
                 lapsed, raced>>

----------------------------------------------------------------------------
(* The category. *)

CategoriesOf(t) == {tag \in tagged[t] : tag[1] \in Categories}
Classifying(t) == {m \in Mails : ThreadOf[m] = t /\
  (work[m].at \in {"pay", "ask"}
     \/ (work[m].at \in {"look", "no tag"} /\ work[m].tag \in Categories))}

NeverCategorised(t) == FALSE
Categorised(t) == CategoriesOf(t) # {}

\* A thread with a category keeps it.
LookCategory(m) ==
  LET t == ThreadOf[m]
  IN /\ work[m].at = "category"
     /\ IF Categorised(t) THEN work' = [work EXCEPT ![m] = Done] /\ UNCHANGED raced
        ELSE /\ Goto(m, "pay")
             /\ raced' = IF Classifying(t) # {} THEN raced \cup {t} ELSE raced
     /\ UNCHANGED <<crm, labels, credits, halted, triggered, crashes, paid, acted, lapsed>>

\* Checked and deducted in one statement.
Pay(m) ==
  /\ work[m].at = "pay"
  /\ IF credits > 0
     THEN Goto(m, "ask") /\ credits' = credits - 1 /\ paid' = paid + 1
     ELSE work' = [work EXCEPT ![m] = Done] /\ UNCHANGED <<credits, paid>>
  /\ UNCHANGED <<crm, labels, halted, triggered, crashes, acted, lapsed, raced>>

\* The model names a category, or there is none after four seconds: the credit is gone.
Ask(m) ==
  /\ work[m].at = "ask"
  /\ \/ \E n \in Categories :
          work' = [work EXCEPT ![m] = [at |-> "look", rule |-> 0, tag |-> n]]
     \/ work' = [work EXCEPT ![m] = Done]
  /\ UNCHANGED <<crm, labels, credits, halted, triggered, crashes, paid, acted, lapsed,
                 raced>>

----------------------------------------------------------------------------

\* The mails are stored, so nothing takes up what was left.
Crash ==
  /\ crashes < MaxCrashes /\ crashes' = crashes + 1
  /\ lapsed' = lapsed \cup {work[m].rule : m \in {k \in Mails : work[k].at = "acted"}}
  /\ work' = [m \in Mails |-> IF work[m] = Idle THEN Idle ELSE Done]
  /\ UNCHANGED <<crm, labels, credits, halted, triggered, paid, acted, raced>>

Next ==
  \/ DeleteContact \/ ToggleHalt \/ Crash
  \/ \E m \in Mails :
       \/ LookCompany(m) \/ MakeCompany(m) \/ LookContact(m) \/ MakeContact(m)
       \/ StartRule(m) \/ EndRules(m) \/ CountRule(m)
       \/ LookTag(m) \/ MakeTag(m)
       \/ LookCategory(m) \/ Pay(m) \/ Ask(m)
  \/ \E t \in Threads : Untag(t)

Spec == Init /\ [][Next]_vars

----------------------------------------------------------------------------
(* Properties. *)

\* A company and a tag have one row each, and a thread one category, unless two mails
\* were looking at once (crm.service.ts:709, ai-categorization.service.ts:188, 392,
\* rules-engine.service.ts:484).
OneRowEach ==
  /\ "company" \notin raced => companies <= 1
  /\ \A n \in Names \ raced : tags[n] <= 1
  /\ \A t \in Threads \ raced : Cardinality({tag[1] : tag \in CategoriesOf(t)}) <= 1

\* A mail worked through has linked its thread to the sender, unless the contact was
\* deleted, another mail was making it, or the work was cut short
\* (crm.service.ts:586, schema.prisma:402).
SenderLinked ==
  contact = "live" /\ "contact" \notin raced /\ crashes = 0 =>
    \A m \in Mails : work[m].at \in {"category", "pay", "ask", "done"}
                     => ThreadOf[m] \in linked

\* What is left of the credits and what was paid is what there was, and every category
\* on a thread was paid for (ai-categorization.service.ts:300).
CreditsAddUp ==
  /\ credits + paid = Credits
  /\ \A t \in Threads : Cardinality(CategoriesOf(t)) <= paid

\* A rule says how often its actions were run, but for a crash in between
\* (rules-engine.service.ts:90-101).
TriggersCounted ==
  \A r \in 1..Rules :
    acted[r] = triggered[r] + Cardinality({m \in Mails : work[m].at = "acted"
                                                        /\ work[m].rule = r})
    \/ r \in lapsed
=============================================================================
