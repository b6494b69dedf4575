------------------------------- MODULE Outbox -------------------------------
(***************************************************************************)
(* What the outbound side of the system promises for every mail, without    *)
(* queues, rows or processors: a request is stored, then queued or lost;    *)
(* copies of a queued mail go out, never more than one plus the number of   *)
(* runs whose outcome was lost; and the work on it is closed for good.      *)
(***************************************************************************)
EXTENDS Naturals

CONSTANT Messages

VARIABLES
  phase,    \* new -> accepted -> queued -> closed, or accepted -> abandoned
  copies,   \* copies the provider has accepted
  lost      \* runs whose outcome was lost

vars == <<phase, copies, lost>>

Init ==
  /\ phase = [m \in Messages |-> "new"]
  /\ copies = [m \in Messages |-> 0]
  /\ lost = [m \in Messages |-> 0]

Accept(m) ==
  /\ phase[m] = "new"
  /\ phase' = [phase EXCEPT ![m] = "accepted"]
  /\ UNCHANGED <<copies, lost>>

\* Requests that were stored and never reach a queue: nobody will send them.
Abandon(M) ==
  /\ \A m \in M : phase[m] = "accepted"
  /\ phase' = [m \in Messages |-> IF m \in M THEN "abandoned" ELSE phase[m]]
  /\ UNCHANGED <<copies, lost>>

Queue(m) ==
  /\ phase[m] = "accepted"
  /\ phase' = [phase EXCEPT ![m] = "queued"]
  /\ UNCHANGED <<copies, lost>>

Close(m) ==
  /\ phase[m] = "queued"
  /\ phase' = [phase EXCEPT ![m] = "closed"]
  /\ UNCHANGED <<copies, lost>>

\* A copy goes out; its outcome may be lost, which may close the work.
Copy(m) ==
  /\ phase[m] \in {"queued", "closed"}
  /\ copies[m] <= lost[m]
  /\ copies' = [copies EXCEPT ![m] = @ + 1]
  /\ \/ UNCHANGED <<phase, lost>>
     \/ /\ lost' = [lost EXCEPT ![m] = @ + 1]
        /\ phase' \in {phase, [phase EXCEPT ![m] = "closed"]}

Lose(m) ==
  /\ phase[m] \in {"queued", "closed"}
  /\ lost' = [lost EXCEPT ![m] = @ + 1]
  /\ phase' \in {phase, [phase EXCEPT ![m] = "closed"]}
  /\ UNCHANGED copies

Next ==
  \/ \E m \in Messages : \/ Accept(m) \/ Queue(m) \/ Close(m)
                         \/ Copy(m) \/ Lose(m)
  \/ \E M \in SUBSET Messages : Abandon(M)

Spec == Init /\ [][Next]_vars

\* Work on a queued mail does not go on for ever.
Fairness == \A m \in Messages : WF_vars(Close(m))

FairSpec == Spec /\ Fairness
=============================================================================
