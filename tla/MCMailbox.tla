----------------------------- MODULE MCMailbox -----------------------------
(***************************************************************************)
(* Three mailboxes for TLC, one at a time (the first state picks one): that *)
(* of the constants, which a worker of the queue synchronises; one of       *)
(* Microsoft, which the scheduler leaves alone and a request synchronises;   *)
(* and one with a password, synchronised by both at once.                    *)
(***************************************************************************)
EXTENDS MailboxSync

VARIABLE provider

Microsoft == INSTANCE MailboxSync WITH Provider <- "microsoft"
Password == INSTANCE MailboxSync WITH
              Provider <- "imap", MaxStalled <- 0, MaxCrashes <- 0

Resting(runs) == \A r \in runs : run'[r] = run[r]

MCInit == Init /\ provider \in {Provider, "microsoft", "imap"}

MCNext ==
  \/ provider = Provider /\ Next /\ Resting(Requests) /\ UNCHANGED provider
  \/ provider = "microsoft" /\ Microsoft!Next /\ Resting(Processors) /\ UNCHANGED provider
  \/ provider = "imap" /\ Password!Next /\ UNCHANGED provider

MCSpec == MCInit /\ [][MCNext]_<<vars, provider>>
=============================================================================
