------------------------- MODULE MCOutboundDelivery -------------------------
(***************************************************************************)
(* Instances of OutboundDelivery for TLC.  All counters are bounded by the  *)
(* queue's own limits (Attempts, MaxStalled), so no constraint is needed.   *)
(***************************************************************************)
EXTENDS OutboundDelivery, TLC

\* Workers are interchangeable (safety runs only).
WorkerSymmetry == Permutations(Workers)

\* The first state picks the only mail that is sent: the scheduled or the immediate.
VARIABLE sent

OneInit ==
  /\ Init
  /\ sent \in Messages
  /\ \A m \in Messages : due[m] => m = sent /\ m \in Scheduled
OneNext ==
  /\ Next
  /\ \A m \in Messages \ {sent} : request'[m] = request[m] /\ due'[m] = due[m]
  /\ UNCHANGED sent
OneSpec == OneInit /\ [][OneNext]_<<vars, sent>>
=============================================================================
