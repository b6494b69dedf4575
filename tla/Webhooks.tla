------------------------------ MODULE Webhooks ------------------------------
(***************************************************************************)
(* The outgoing webhook of an organisation: WebhooksService.dispatch        *)
(* delivers an event with retries in memory, from the row it read before    *)
(* the first attempt, and disables the hook after repeated failures.        *)
(***************************************************************************)
EXTENDS Naturals, FiniteSets

CONSTANTS
  Events,      \* deliveries under way at a time
  MaxAttempts, \* Webhook.maxRetries (3)
  MaxFailures  \* bound: consecutiveFailures

WebhooksAssumption == MaxAttempts \in Nat \ {0} /\ MaxFailures \in Nat \ {0}

VARIABLES
  active,      \* Webhook.isActive
  failures,    \* Webhook.consecutiveFailures
  delivery,    \* delivery[e]: the delivery of an event
  streak,      \* history: deliveries that failed since the last that succeeded
  overlapped   \* history: some delivery began while another was under way

vars == <<active, failures, delivery, streak, overlapped>>

Idle == [pc |-> "idle"]
Allowed == 3

\* A delivery has read the count before it reached the bound.
Delivery ==
  [pc : {"posting", "accepted", "failed"}, read : 0..(MaxFailures - 1),
   attempt : 0..MaxAttempts]

TypeOK ==
  /\ active \in BOOLEAN /\ overlapped \in BOOLEAN
  /\ failures \in 0..MaxFailures /\ streak \in 0..MaxFailures
  /\ delivery \in [Events -> {Idle} \cup Delivery]

Init ==
  /\ active = TRUE /\ failures = 0
  /\ delivery = [e \in Events |-> Idle]
  /\ streak = 0 /\ overlapped = FALSE

\* dispatch reads the active hooks, with their failures so far.
Dispatch(e) ==
  /\ delivery[e] = Idle /\ active /\ failures < MaxFailures
  /\ delivery' = [delivery EXCEPT ![e] =
       [pc |-> "posting", read |-> failures, attempt |-> 0]]
  /\ overlapped' = (overlapped \/ \E f \in Events : delivery[f] # Idle)
  /\ UNCHANGED <<active, failures, streak>>

\* One attempt: an answer 2xx, or anything else, after which it waits and tries
\* again until the attempts are used up.
Post(e) ==
  /\ delivery[e].pc = "posting"
  /\ LET read == delivery[e].read
         tried == delivery[e].attempt
     IN \/ delivery' = [delivery EXCEPT ![e] =
             [pc |-> "accepted", read |-> read, attempt |-> tried]]
        \/ delivery' = [delivery EXCEPT ![e] =
             [pc |-> IF tried + 1 = MaxAttempts THEN "failed" ELSE "posting",
              read |-> read, attempt |-> tried + 1]]
  /\ UNCHANGED <<active, failures, streak, overlapped>>

\* Mutant: a success does not reset the count.
CountKept(e) ==
  /\ delivery[e].pc = "accepted"
  /\ streak' = 0
  /\ delivery' = [delivery EXCEPT ![e] = Idle]
  /\ UNCHANGED <<active, failures, overlapped>>

CountReset(e) ==
  /\ delivery[e].pc = "accepted"
  /\ failures' = 0 /\ streak' = 0
  /\ delivery' = [delivery EXCEPT ![e] = Idle]
  /\ UNCHANGED <<active, overlapped>>

\* The end of deliverWithRetry: the count read before is written back plus one.
CountFailure(e) ==
  LET count == delivery[e].read + 1
  IN /\ delivery[e].pc = "failed"
     /\ failures' = count
     /\ active' = (active /\ count < Allowed)
     /\ streak' = IF streak < MaxFailures THEN streak + 1 ELSE streak
     /\ delivery' = [delivery EXCEPT ![e] = Idle]
     /\ UNCHANGED overlapped

\* A restart of the backend forgets what is under way.
Restart ==
  /\ delivery' = [e \in Events |-> Idle]
  /\ UNCHANGED <<active, failures, streak, overlapped>>

\* WebhooksService.update; the count stays.
Update ==
  /\ active' = ~active
  /\ UNCHANGED <<failures, delivery, streak, overlapped>>

Next ==
  \/ \E e \in Events : Dispatch(e) \/ Post(e) \/ CountReset(e) \/ CountFailure(e)
  \/ Restart \/ Update

Spec == Init /\ [][Next]_vars

(***************************************************************************)
(* Properties                                                               *)
(***************************************************************************)
\* As long as deliveries do not overlap, the count is the number of events in a
\* row that could not be delivered.
CountIsStreak == ~overlapped => failures = streak

\* Counting this failure disables the hook.
Disables(e) ==
  delivery[e] # Idle /\ delivery[e].pc = "failed" /\ active /\ ~active' /\ delivery'[e] = Idle

\* What the code logs when it disables a hook: "Auto-disabled hook=... after 3
\* consecutive failures".
DisabledAfterThree == [][\A e \in Events : Disables(e) => streak' >= Allowed]_vars

\* It is true of deliveries that do not overlap.
AloneDisabledAfterThree ==
  [][\A e \in Events : ~overlapped /\ Disables(e) => streak' >= Allowed]_vars

----------------------------------------------------------------------------
(* What CountIsStreak rests on: a delivery that is alone has read the count *)
(* that is stored, and has an attempt left while it posts.                   *)
Alone ==
  ~overlapped => \A e, f \in Events : delivery[e] # Idle /\ delivery[f] # Idle => e = f
ReadIsStored ==
  ~overlapped => \A e \in Events : delivery[e] # Idle => delivery[e].read = failures
AttemptsLeft ==
  \A e \in Events : delivery[e].pc = "posting" => delivery[e].attempt < MaxAttempts

WebhooksInv == TypeOK /\ CountIsStreak /\ Alone /\ ReadIsStored /\ AttemptsLeft
=============================================================================
