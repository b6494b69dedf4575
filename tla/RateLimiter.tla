---------------------------- MODULE RateLimiter ----------------------------
(***************************************************************************)
(* How requests to a mail provider are paced: a token bucket shared by all  *)
(* mailboxes of the provider (email-sync-provider-policy.ts), and before it a *)
(* delay by the memory in use and by the mailbox's recent outcomes          *)
(* (email-sync-adaptive-throttle.ts). Everything is kept in memory.          *)
(***************************************************************************)
EXTENDS Integers, Sequences, SequencesExt

CONSTANTS
  Requests,
  Mailboxes,
  Capacity,   \* tokens of a full bucket
  Interval,   \* time for one token to come back
  Spacing,    \* least time between two requests
  Adaptive,   \* ENABLE_BACKPRESSURE and ENABLE_SMART_BACKOFF
  Window,     \* outcomes of a mailbox that count
  MaxDelay,   \* longest adaptive delay
  MaxTime, MaxFails, MaxRestarts  \* bounds

LimiterAssumption ==
  /\ {Capacity, Interval, Spacing, Window, MaxDelay} \subseteq Nat \ {0}
  /\ Adaptive \in BOOLEAN /\ {MaxTime, MaxFails, MaxRestarts} \subseteq Nat

VARIABLES
  now,
  bucket,    \* tokens, in units of 1/Interval; when last filled; when the next may go
  request,   \* what each request waits for, and until when
  heap,      \* memory in use, by the two watermarks
  pressed,   \* backpressureActive
  outcomes,  \* the last outcomes of each mailbox
  fails,     \* its failures in a row
  restarts,
  \* history
  grants,    \* when requests went out, since the last restart
  calm       \* successes of each mailbox since its last failure, up to Window

vars == <<now, bucket, request, heap, pressed, outcomes, fails, restarts, grants, calm>>

Heaps == {"low", "between", "high"}
Idle == [at |-> "idle", until |-> 0]

TypeOK ==
  /\ now \in 0..MaxTime
  /\ bucket.tokens \in 0..(Capacity * Interval)
  /\ bucket.filled \in 0..MaxTime /\ bucket.next \in 0..(MaxTime + Spacing)
  /\ request \in [Requests -> [at : {"idle", "throttled", "waiting"},
                               until : 0..(MaxTime + MaxDelay + Interval + Spacing)]]
  /\ heap \in Heaps /\ pressed \in BOOLEAN
  /\ \A m \in Mailboxes : outcomes[m] \in BoundedSeq(BOOLEAN, Window)
  /\ fails \in [Mailboxes -> 0..MaxFails] /\ calm \in [Mailboxes -> 0..Window]
  /\ restarts \in 0..MaxRestarts
  /\ \A i \in DOMAIN grants : grants[i] \in 0..MaxTime

Full(t) == [tokens |-> Capacity * Interval, filled |-> t, next |-> t]

Init ==
  /\ now = 0 /\ bucket = Full(0)
  /\ request = [r \in Requests |-> Idle]
  /\ heap = "low" /\ pressed = FALSE
  /\ outcomes = [m \in Mailboxes |-> <<>>] /\ fails = [m \in Mailboxes |-> 0]
  /\ restarts = 0
  /\ grants = <<>> /\ calm = [m \in Mailboxes |-> Window]

----------------------------------------------------------------------------
(* The adaptive delay. *)

Failures(m) == {i \in DOMAIN outcomes[m] : ~outcomes[m][i]}

\* Share and row of failures give a score, the delay grows with it up to its limit.
Score(m) == fails[m] + (IF Failures(m) = {} THEN 0 ELSE 1)
Slowed(m) == outcomes[m] # <<>> /\ Score(m) > 0

\* Between the watermarks nothing changes.
Pressed == IF pressed THEN heap # "low" ELSE heap = "high"

Delays(m) == IF Adaptive /\ (Pressed \/ Slowed(m)) THEN 1..MaxDelay ELSE {0}

\* A request of a mailbox; an interactive one is not delayed.
Begin(r, m) ==
  /\ request[r] = Idle
  /\ \/ request' = [request EXCEPT ![r] = [at |-> "waiting", until |-> now]]
        /\ UNCHANGED pressed
     \/ /\ \E d \in Delays(m) :
             request' = [request EXCEPT ![r] = [at |-> "throttled", until |-> now + d]]
        /\ pressed' = (Adaptive /\ Pressed)
  /\ UNCHANGED <<now, bucket, heap, outcomes, fails, restarts, grants, calm>>

Proceed(r) ==
  /\ request[r].at = "throttled" /\ request[r].until <= now
  /\ request' = [request EXCEPT ![r] = [at |-> "waiting", until |-> now]]
  /\ UNCHANGED <<now, bucket, heap, pressed, outcomes, fails, restarts, grants, calm>>

Trim(s) == IF Len(s) > Window THEN SubSeq(s, Len(s) - Window + 1, Len(s)) ELSE s

\* Of a folder or of a whole run.
Record(m, ok) ==
  /\ Adaptive
  /\ ok \/ fails[m] < MaxFails
  /\ outcomes' = [outcomes EXCEPT ![m] = Trim(Append(@, ok))]
  /\ fails' = [fails EXCEPT ![m] = IF ok THEN 0 ELSE @ + 1]
  /\ calm' = [calm EXCEPT ![m] = IF ~ok THEN 0 ELSE IF @ < Window THEN @ + 1 ELSE @]
  /\ UNCHANGED <<now, bucket, request, heap, pressed, restarts, grants>>

----------------------------------------------------------------------------
(* The bucket. *)

Least(a, b) == IF a < b THEN a ELSE b
Most(a, b) == IF a < b THEN b ELSE a

\* Filled by the time since it was last looked at.
FilledTwice == [bucket EXCEPT !.tokens = Least(Capacity * Interval, @ + now - bucket.filled)]
Filled == [bucket EXCEPT !.tokens = Least(Capacity * Interval, @ + now - bucket.filled),
                         !.filled = now]

\* One pass of the loop: a token is taken, or the request sleeps until there may be one.
Acquire(r) ==
  LET b == Filled
      wait == Most(0, b.next - now)
      missing == Most(0, Interval - b.tokens)
  IN /\ request[r].at = "waiting" /\ request[r].until <= now
     /\ \/ /\ missing = 0 /\ wait = 0
           /\ bucket' = [b EXCEPT !.tokens = @ - Interval, !.next = now + Spacing]
           /\ request' = [request EXCEPT ![r] = Idle]
           /\ grants' = Append(grants, now)
        \/ /\ missing > 0 \/ wait > 0
           /\ bucket' = b
           /\ request' = [request EXCEPT ![r].until = now + Most(wait, missing)]
           /\ UNCHANGED grants
     /\ UNCHANGED <<now, heap, pressed, outcomes, fails, restarts, calm>>

----------------------------------------------------------------------------

Tick ==
  /\ now < MaxTime /\ now' = now + 1
  /\ UNCHANGED <<bucket, request, heap, pressed, outcomes, fails, restarts, grants, calm>>

UseMemory(h) ==
  /\ Adaptive /\ heap' = h
  /\ UNCHANGED <<now, bucket, request, pressed, outcomes, fails, restarts, grants, calm>>

\* A full bucket again.
Restart ==
  /\ restarts < MaxRestarts /\ restarts' = restarts + 1
  /\ bucket' = Full(now)
  /\ request' = [r \in Requests |-> Idle]
  /\ pressed' = FALSE
  /\ outcomes' = [m \in Mailboxes |-> <<>>] /\ fails' = [m \in Mailboxes |-> 0]
  /\ grants' = <<>> /\ calm' = [m \in Mailboxes |-> Window]
  /\ UNCHANGED <<now, heap>>

Next ==
  \/ Tick \/ Restart
  \/ \E h \in Heaps : UseMemory(h)
  \/ \E r \in Requests : Proceed(r) \/ Acquire(r) \/ \E m \in Mailboxes : Begin(r, m)
  \/ \E m \in Mailboxes, ok \in BOOLEAN : Record(m, ok)

Spec == Init /\ [][Next]_vars

----------------------------------------------------------------------------
(* Properties. *)

\* Of one run of the backend the provider gets at no time more requests than a bucket and
\* what came back since, and no two at once (email-sync-provider-policy.ts:281).
GrantsBounded ==
  \A i, j \in DOMAIN grants : i < j =>
    /\ (j - i + 1 - Capacity) * Interval <= grants[j] - grants[i]
    /\ grants[j] - grants[i] >= (j - i) * Spacing

\* A mailbox is slowed until as many runs as count have succeeded, and not by the others'
\* failures (email-sync-adaptive-throttle.ts:84).
SlowedByOwnFailures ==
  \A m \in Mailboxes : Slowed(m) <=> calm[m] < Window
=============================================================================
