-------------------------------- MODULE Sla --------------------------------
(***************************************************************************)
(* The deadlines of a thread (sla.service.ts), computed when a user replies  *)
(* or changes its priority (threads.service.ts) and by check jobs, two at a  *)
(* time, which also warn of a deadline and tell of its breach                *)
(* (sla-check.processor.ts). Who files these jobs is outside: nothing in the *)
(* repository does.                                                          *)
(***************************************************************************)
EXTENDS Naturals, FiniteSets

CONSTANTS
  Checks,     \* check jobs at the same time
  Targets,    \* of each priority: minutes until the first, each next and the last answer
  Period,     \* minutes in a week
  OpenMinutes, \* those of them that are business hours; all of them without any
  Threshold,  \* minutes before the deadline in which a warning is due
  MaxTime,    \* bound: minutes that pass
  None

SlaAssumption ==
  /\ Period \in Nat \ {0} /\ OpenMinutes \subseteq 0..(Period - 1)
  /\ OpenMinutes # {}
  /\ \A p \in DOMAIN Targets : \A m \in {"first", "next", "resolution"} :
       Targets[p][m] \in Nat
  /\ Threshold \in Nat /\ MaxTime \in Nat

VARIABLES
  now,
  mail,      \* when the latest mail of each direction was stored; None if there is none
  priority,
  closed,    \* the thread is done, so jobs leave it alone
  row,       \* what the thread's row says: two deadlines and whether one is broken
  check,     \* the check jobs
  update,    \* a reply or a change of priority under way
  noted,     \* notifications of a warning stored: what later ones are looked up by
  warned,    \* times the webhooks were warned; 2 is more than once
  told,      \* breaches told since the row was last marked
  \* history
  unnoted,   \* a warning went out that no user was notified of
  overlapped, \* two check jobs have run at once
  silent     \* the row was marked by an update, or beside one, or its job ended early or
             \* reached nobody

warning == <<noted, warned, unnoted>>
vars == <<now, mail, priority, closed, row, check, update, warning, told, overlapped,
          silent>>

Times == 0..MaxTime \cup {None}
Dues == Nat \cup {None}
NoDues == [response |-> None, resolution |-> None]
IdleCheck == [at |-> "idle", was |-> FALSE, priority |-> None, dues |-> NoDues]
IdleUpdate == [at |-> "idle", dues |-> NoDues, broken |-> FALSE, priority |-> None]

DuesType == [response : Dues, resolution : Dues]

TypeOK ==
  /\ now \in 0..MaxTime
  /\ mail \in [inbound : Times, outbound : Times]
  /\ priority \in DOMAIN Targets /\ closed \in BOOLEAN
  /\ row.dues \in DuesType /\ row.broken \in BOOLEAN
  /\ \A c \in Checks :
       /\ check[c].at \in {"idle", "read", "computed", "warn", "notify", "hook", "tell"}
       /\ check[c].was \in BOOLEAN /\ check[c].dues \in DuesType
       /\ check[c].priority \in DOMAIN Targets \cup {None}
  /\ update.at \in {"idle", "sent", "computed"} /\ update.dues \in DuesType
  /\ update.broken \in BOOLEAN /\ update.priority \in DOMAIN Targets \cup {None}
  /\ noted \in Nat /\ warned \in 0..2 /\ told \in Nat
  /\ unnoted \in BOOLEAN /\ overlapped \in BOOLEAN /\ silent \in BOOLEAN

Init ==
  /\ now = 0
  /\ mail = [inbound |-> None, outbound |-> None]
  /\ priority \in DOMAIN Targets /\ closed = FALSE
  /\ row = [dues |-> NoDues, broken |-> FALSE]
  /\ check = [c \in Checks |-> IdleCheck] /\ update = IdleUpdate
  /\ noted = 0 /\ warned = 0 /\ told = 0
  /\ unnoted = FALSE /\ overlapped = FALSE /\ silent = FALSE

----------------------------------------------------------------------------
(* Deadlines; the thread is created at time 0. *)

IsOpen(t) == t % Period \in OpenMinutes

\* One minute after the other, until as many open ones have passed.
Horizon(start, minutes) == start + (minutes + 1) * Period
Deadline(start, minutes) ==
  LET passed[t \in start..Horizon(start, minutes)] ==
        IF t = start THEN 0 ELSE passed[t - 1] + IF IsOpen(t - 1) THEN 1 ELSE 0
  IN CHOOSE t \in start..Horizon(start, minutes) :
       /\ passed[t] = minutes
       /\ \A u \in start..(t - 1) : passed[u] < minutes

\* What is due depends on who wrote last.
Answered(m) ==
  \/ m.inbound = None
  \/ m.outbound # None /\ m.inbound <= m.outbound
DuesOf(m, p) ==
  LET target == Targets[p]
  IN [response |-> IF Answered(m) THEN None
                   ELSE Deadline(m.inbound, IF m.outbound = None THEN target.first
                                                                 ELSE target.next),
      resolution |-> Deadline(0, target.resolution)]

\* A check goes by the response, and by the resolution only if no response is due; an
\* update by both.
CheckedDue(d) == IF d.response # None THEN d.response ELSE d.resolution
Past(due) == due # None /\ due <= now

----------------------------------------------------------------------------
(* Mail, replies and other changes. *)

Tick ==
  /\ now < MaxTime /\ now' = now + 1
  /\ UNCHANGED <<mail, priority, closed, row, check, update, warning, told,
                 overlapped, silent>>

Receive ==
  /\ mail' = [mail EXCEPT !.inbound = now]
  /\ UNCHANGED <<now, priority, closed, row, check, update, warning, told,
                 overlapped, silent>>

SetStatus ==
  /\ closed' = ~closed
  /\ UNCHANGED <<now, mail, priority, row, check, update, warning, told,
                 overlapped, silent>>

Reply ==
  /\ update = IdleUpdate
  /\ mail' = [mail EXCEPT !.outbound = now]
  /\ update' = [IdleUpdate EXCEPT !.at = "sent"]
  /\ UNCHANGED <<now, priority, closed, row, check, warning, told, overlapped,
                 silent>>

\* Of a reply that is stored, or of a new priority.
ComputeUpdate(p) ==
  /\ \/ update.at = "sent" /\ p = priority
     \/ update = IdleUpdate /\ p # priority
  /\ LET d == DuesOf(mail, p)
     IN update' = [at |-> "computed", dues |-> d, priority |-> p,
                   broken |-> Past(d.response) \/ Past(d.resolution)]
  /\ UNCHANGED <<now, mail, priority, closed, row, check, warning, told,
                 overlapped, silent>>

Marks(broken) == broken /\ ~row.broken

WriteUpdate ==
  /\ update.at = "computed"
  /\ row' = [dues |-> update.dues, broken |-> update.broken]
  /\ priority' = update.priority
  /\ silent' = IF update.broken THEN silent \/ ~row.broken ELSE FALSE
  /\ told' = IF Marks(update.broken) THEN 0 ELSE told
  /\ update' = IdleUpdate
  /\ UNCHANGED <<now, mail, closed, check, warning, overlapped>>

----------------------------------------------------------------------------
(* A check job. *)

ReadThread(c) ==
  /\ check[c] = IdleCheck /\ ~closed
  /\ check' = [check EXCEPT ![c] = [IdleCheck EXCEPT
       !.at = "read", !.was = row.broken, !.priority = priority]]
  /\ overlapped' = (overlapped \/ \E d \in Checks \ {c} : check[d] # IdleCheck)
  /\ UNCHANGED <<now, mail, priority, closed, row, update, warning, told, silent>>

ReadMail(c) ==
  /\ check[c].at = "read"
  /\ check' = [check EXCEPT ![c].at = "computed",
                            ![c].dues = DuesOf(mail, check[c].priority)]
  /\ UNCHANGED <<now, mail, priority, closed, row, update, warning, told,
                 overlapped, silent>>

Tells(c) == ~check[c].was

WriteThread(c) ==
  LET d == check[c].dues
      due == CheckedDue(d)
      broken == Past(due)
  IN /\ check[c].at = "computed"
     /\ row' = [dues |-> d, broken |-> broken]
     /\ told' = IF Marks(broken) THEN 0 ELSE told
     /\ silent' = (broken /\ IF row.broken THEN silent ELSE check[c].was)
     /\ check' = [check EXCEPT ![c] =
          IF broken /\ Tells(c) THEN [IdleCheck EXCEPT !.at = "tell"]
          ELSE IF ~broken /\ due - now <= Threshold THEN [IdleCheck EXCEPT !.at = "warn"]
          ELSE IdleCheck]
     /\ UNCHANGED <<now, mail, priority, closed, update, warning, overlapped>>

\* Once for the thread, whichever deadline it was, if a notification is found.
LookForWarning(c) ==
  /\ check[c].at = "warn"
  /\ check' = [check EXCEPT ![c] = IF noted > 0 THEN IdleCheck
                                   ELSE [IdleCheck EXCEPT !.at = "notify"]]
  /\ UNCHANGED <<now, mail, priority, closed, row, update, warning, told,
                 overlapped, silent>>

\* There may be nobody to notify, or nobody who wants to be; an error is passed over.
NotifyWarning(c) ==
  /\ check[c].at = "notify"
  /\ \/ noted' = noted + 1 /\ UNCHANGED unnoted
     \/ unnoted' = TRUE /\ UNCHANGED noted
  /\ check' = [check EXCEPT ![c].at = "hook"]
  /\ UNCHANGED <<now, mail, priority, closed, row, update, warned, told, overlapped,
                 silent>>

\* The webhooks are warned whether or not somebody was; that may fail as well.
Warn(c) ==
  /\ check[c].at = "hook"
  /\ \/ warned' = IF warned = 0 THEN 1 ELSE 2
     \/ UNCHANGED warned
  /\ check' = [check EXCEPT ![c] = IdleCheck]
  /\ UNCHANGED <<now, mail, priority, closed, row, update, noted, unnoted, told,
                 overlapped, silent>>

\* To the user assigned or the managers, to the webhooks, and by the escalation rules
\* that are due. Errors are passed over: it may reach nobody.
Tell(c) ==
  /\ check[c].at = "tell"
  /\ \/ told' = told + 1 /\ UNCHANGED silent
     \/ silent' = TRUE /\ UNCHANGED told
  /\ check' = [check EXCEPT ![c] = IdleCheck]
  /\ UNCHANGED <<now, mail, priority, closed, row, update, warning, overlapped>>

\* A restart or an error; a later run finds the row as it was left.
Fail(c) ==
  /\ check[c] # IdleCheck
  /\ check' = [check EXCEPT ![c] = IdleCheck]
  /\ silent' = (silent \/ check[c].at = "tell")
  /\ UNCHANGED <<now, mail, priority, closed, row, update, warning, told,
                 overlapped>>

Next ==
  \/ Tick \/ Receive \/ SetStatus \/ Reply \/ WriteUpdate
  \/ \E p \in DOMAIN Targets : ComputeUpdate(p)
  \/ \E c \in Checks :
       \/ ReadThread(c) \/ ReadMail(c) \/ WriteThread(c)
       \/ LookForWarning(c) \/ Warn(c) \/ Tell(c) \/ Fail(c)

Spec == Init /\ [][Next]_vars

----------------------------------------------------------------------------
(* Properties. *)

\* Of jobs one after the other, a breach is told once, users are notified of a warning
\* once, and webhooks are warned again only if no user could be notified; and a breach is
\* not told at all only if an update marked the row, if one came between a job's read and
\* its write, or if the job ended early or its messages failed
\* (sla-check.processor.ts:102-122, 269, 304, 349).
BreachToldOnce ==
  /\ ~overlapped => /\ told <= 1 /\ noted <= 1
                    /\ warned <= 1 \/ unnoted
  /\ row.broken /\ ~silent /\ (\A c \in Checks : check[c].at # "tell") => told > 0

\* The deadline of an answer leaves the customer's mail exactly the minutes of its
\* target within business hours, and a mail answered has none (sla.service.ts:107, 172).
DueInOpenMinutes ==
  \A p \in DOMAIN Targets :
    LET due == DuesOf(mail, p).response
        waits == mail.inbound # None
                 /\ (mail.outbound # None => mail.outbound < mail.inbound)
        minutes == Targets[p][IF mail.outbound = None THEN "first" ELSE "next"]
    IN /\ waits <=> due # None
       /\ waits => /\ Cardinality({t \in mail.inbound..(due - 1) : IsOpen(t)}) = minutes
                   /\ minutes > 0 => IsOpen(due - 1)
=============================================================================
