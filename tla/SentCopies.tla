----------------------------- MODULE SentCopies -----------------------------
(***************************************************************************)
(* Mail sent through Microsoft Graph and its copy in the folder Sent Items. *)
(* A request (compose, reply, forward) asks Graph to send the mail and then *)
(* stores a row for it.  Graph tells no id, so the row has none.  A run of   *)
(* the synchronisation lists the copies in Sent Items: a copy whose id no   *)
(* row has takes over the row without an id that resembles it, or gets a    *)
(* row of its own; one that has a row takes up the row without an id that   *)
(* was stored meanwhile.  Neither side holds a transaction.                 *)
(***************************************************************************)
EXTENDS Integers, Sequences, FiniteSets

CONSTANTS
  Mails,      \* numbers of the mails, in the order in which they are stored
  Kind,       \* which request sends a mail
  Attached,   \* mails with a file (only composed ones have one)
  Title,      \* subject and sender of a mail
  Text,       \* its recipients and its text
  Runs,       \* runs of the synchronisation at a time
  MaxRows,    \* bound on the rows that exist or that a run still names
  None

SentAssumption ==
  /\ Mails \subseteq Nat
  /\ Kind \in [Mails -> {"compose", "reply", "forward"}]
  /\ Attached \subseteq {m \in Mails : Kind[m] = "compose"}
  /\ MaxRows \in Nat
  /\ None \notin Mails \cup Runs \cup (1..MaxRows)

VARIABLES
  request,   \* the request of a mail, and the row it stored
  copy,      \* the copy in Sent Items
  row,       \* rows of messages: their mail, its id, the mails whose files they have
  run,
  calm       \* the run that nothing has disturbed since it began

vars == <<request, copy, row, run, calm>>

Rows == 1..MaxRows
Absent == [mail |-> None, id |-> None, files |-> {}]
Live == {x \in Rows : row[x] # Absent}

\* A run: the copies still to be read, the one it is at, the row for it, the row that
\* takes up others, and the steps still to be taken for this copy.
Idle == [on |-> FALSE, todo |-> {}, mail |-> None, keep |-> None, into |-> None,
         others |-> {}, steps |-> <<>>]
Steps == {"take up", "place", "take over", "create", "dedupe", "move", "purge",
          "count", "attach"}

\* A number for a new row: one that no row has and nobody remembers.
Fresh(x) ==
  /\ x \in Rows \ Live
  /\ \A m \in Mails : request[m].row # x
  /\ \A r \in Runs : x \notin {run[r].keep, run[r].into} \cup run[r].others
NewRow == CHOOSE x \in Rows : Fresh(x) /\ \A y \in 1..(x - 1) : ~Fresh(y)

\* There is always a number left: MaxRows bounds nothing.
TypeOK ==
  /\ request \in [Mails ->
       [step : {"none", "asked", "accepted", "stored", "over"}, row : Rows \cup {None}]]
  /\ copy \in [Mails -> {"none", "coming", "there"}]
  /\ row \in [Rows -> [mail : Mails \cup {None}, id : Mails \cup {None},
                       files : SUBSET Mails]]
  /\ run \in [Runs ->
       [on : BOOLEAN, todo : SUBSET Mails, mail : Mails \cup {None},
        keep : Rows \cup {None}, into : Rows \cup {None}, others : SUBSET Rows,
        steps : UNION {[1..n -> Steps] : n \in 0..4}]]
  /\ calm \in Runs \cup {None}
  /\ \E x \in Rows : Fresh(x)

Init ==
  /\ request = [m \in Mails |-> [step |-> "none", row |-> None]]
  /\ copy = [m \in Mails |-> "none"]
  /\ row = [x \in Rows |-> Absent]
  /\ run = [r \in Runs |-> Idle]
  /\ calm = None

(***************************************************************************)
(* The requests                                                             *)
(***************************************************************************)
To(m, step) == request' = [request EXCEPT ![m].step = step]

\* A request reads what it needs and is refused (no recipient, no mailbox, the
\* scanner blocks an attachment) or goes on to the provider.
Asked(m, kind) ==
  /\ request[m].step = "none"
  /\ Kind[m] = kind
  /\ To(m, "asked") \/ To(m, "over")
  /\ calm' = None
  /\ UNCHANGED <<copy, row, run>>

Compose(m) == Asked(m, "compose")
Reply(m) == Asked(m, "reply")
Forward(m) == Asked(m, "forward")

\* sendReplyThroughProvider refuses (kill switch, disconnected mailbox), or Graph does.
Refuse(m) ==
  /\ request[m].step = "asked"
  /\ To(m, "over")
  /\ calm' = None
  /\ UNCHANGED <<copy, row, run>>

\* Graph takes the mail and will file a copy (saveToSentItems); its answer may be lost,
\* which the request reports as a failure.
Accept(m) ==
  /\ request[m].step = "asked"
  /\ copy' = [copy EXCEPT ![m] = "coming"]
  /\ To(m, "accepted") \/ To(m, "over")
  /\ calm' = None
  /\ UNCHANGED <<row, run>>

Appear(m) ==
  /\ copy[m] = "coming"
  /\ copy' = [copy EXCEPT ![m] = "there"]
  /\ calm' = None
  /\ UNCHANGED <<request, row, run>>

\* The row of a sent mail has no id: Graph told none.
Sent(m) == [mail |-> m, id |-> None, files |-> {}]

Store(m, kind, step) ==
  /\ request[m].step = "accepted"
  /\ Kind[m] = kind
  /\ row' = [row EXCEPT ![NewRow] = Sent(m)]
  /\ request' = [request EXCEPT ![m] =
       [step |-> step, row |-> IF step = "stored" THEN NewRow ELSE None]]
  /\ calm' = None
  /\ UNCHANGED <<copy, run>>

StoreComposed(m) == Store(m, "compose", IF m \in Attached THEN "stored" ELSE "over")
StoreReply(m) == Store(m, "reply", "over")
StoreForward(m) == Store(m, "forward", "over")

\* The file is uploaded and its row created; when the message is gone, or storage
\* fails, the error is logged and the mail has no file.
AttachOwn(m) ==
  /\ request[m].step = "stored"
  /\ \/ /\ request[m].row \in Live
        /\ row' = [row EXCEPT ![request[m].row].files = @ \cup {m}]
     \/ UNCHANGED row
  /\ request' = [request EXCEPT ![m] = [step |-> "over", row |-> None]]
  /\ calm' = None
  /\ UNCHANGED <<copy, run>>

\* The database fails, or the process stops.
GiveUp(m) ==
  /\ request[m].step \in {"asked", "accepted", "stored"}
  /\ request' = [request EXCEPT ![m] = [step |-> "over", row |-> None]]
  /\ calm' = None
  /\ UNCHANGED <<copy, row, run>>

(***************************************************************************)
(* A run over Sent Items                                                    *)
(***************************************************************************)
Quiet ==
  /\ \A r \in Runs : run[r] = Idle
  /\ \A m \in Mails : request[m].step \in {"none", "over"}

\* Every run lists every copy again.
Begin(r) ==
  /\ run[r] = Idle
  /\ run' = [run EXCEPT ![r] =
       [Idle EXCEPT !.on = TRUE, !.todo = {m \in Mails : copy[m] = "there"}]]
  /\ calm' = IF Quiet THEN r ELSE None
  /\ UNCHANGED <<request, copy, row>>

\* The file of a mail that has one is fetched if its row has none.
Ingest(m) == IF m \in Attached THEN <<"count">> ELSE <<>>

\* upsertOutlookApiMessage looks for a row with the id of the copy.
Look(r, m) ==
  /\ run[r].steps = <<>>
  /\ m \in run[r].todo
  /\ LET rows == {x \in Live : row[x].id = m}
     IN  \E x \in IF rows = {} THEN {None} ELSE rows :
           run' = [run EXCEPT ![r] =
             [Idle EXCEPT !.on = TRUE, !.todo = run[r].todo \ {m}, !.mail = m, !.keep = x,
                !.steps = IF x = None THEN <<"place">>
                          ELSE <<"take up", "dedupe">> \o Ingest(m)]]
  /\ UNCHANGED <<request, copy, row, calm>>

End(r) ==
  /\ run[r].on /\ run[r].steps = <<>> /\ run[r].todo = {}
  /\ run' = [run EXCEPT ![r] = Idle]
  /\ UNCHANGED <<request, copy, row, calm>>

At(r, step) == run[r].steps # <<>> /\ Head(run[r].steps) = step
Then(r) == Tail(run[r].steps)

\* The run ends at an error: the folder is marked as failed.
Broken(r) ==
  /\ run' = [run EXCEPT ![r] = Idle]
  /\ calm' = None
  /\ UNCHANGED row

\* The database fails, the provider does, or the process stops.
Fail(r) ==
  /\ run[r].on
  /\ Broken(r)
  /\ UNCHANGED <<request, copy>>

\* findOutboundPlaceholderMessage: the rows without an id and with the same subject and
\* sender; of these the newest with the same text, or else the newest.
Placeholders(m) ==
  {x \in Live : row[x].id = None /\ Title[row[x].mail] = Title[m]}

Newest(rows) == CHOOSE x \in rows : \A y \in rows : row[y].mail <= row[x].mail

Found(m) ==
  LET same == {x \in Placeholders(m) : Text[row[x].mail] = Text[m]}
  IN  Newest(IF same # {} THEN same ELSE Placeholders(m))

\* The copy has a row: it takes up the row without an id that is found.
TakeUp(r) ==
  /\ At(r, "take up")
  /\ LET m == run[r].mail
     IN  run' = IF Placeholders(m) # {} /\ Found(m) # run[r].keep
                  THEN [run EXCEPT ![r].into = run[r].keep, ![r].others = {Found(m)},
                                   ![r].steps = <<"move", "purge">> \o Then(r)]
                  ELSE [run EXCEPT ![r].steps = Then(r)]
  /\ UNCHANGED <<request, copy, row, calm>>

\* It has none: it takes over the row found, or gets one of its own, whose file is
\* fetched before duplicates are looked for.
Place(r) ==
  /\ At(r, "place")
  /\ LET m == run[r].mail
     IN  run' = IF Placeholders(m) # {}
                  THEN [run EXCEPT ![r].keep = Found(m),
                          ![r].steps = <<"take over", "dedupe">> \o Ingest(m)]
                  ELSE [run EXCEPT ![r].steps = <<"create">> \o Ingest(m) \o <<"dedupe">>]
  /\ UNCHANGED <<request, copy, row, calm>>

\* The row found becomes that of the copy; an error when it is gone.
TakeOver(r) ==
  /\ At(r, "take over")
  /\ IF run[r].keep \in Live
       THEN /\ row' = [row EXCEPT ![run[r].keep].mail = run[r].mail,
                                  ![run[r].keep].id = run[r].mail]
            /\ run' = [run EXCEPT ![r].steps = Then(r)]
            /\ UNCHANGED calm
       ELSE Broken(r)
  /\ UNCHANGED <<request, copy>>

Create(r) ==
  /\ At(r, "create")
  /\ row' = [row EXCEPT ![NewRow] =
       [mail |-> run[r].mail, id |-> run[r].mail, files |-> {}]]
  /\ run' = [run EXCEPT ![r].keep = NewRow, ![r].steps = Then(r)]
  /\ UNCHANGED <<request, copy, calm>>

\* Duplicates are not looked for.
DedupeNever(r) ==
  /\ At(r, "dedupe")
  /\ run' = [run EXCEPT ![r].steps = Then(r)]
  /\ UNCHANGED <<request, copy, row, calm>>

\* reconcileDuplicateMessageEntriesByMessageId reads the rows with the id; the row the
\* run works on takes up the others, or the first one when that is gone.
Dedupe(r) ==
  /\ At(r, "dedupe")
  /\ LET rows == {x \in Live : row[x].id = run[r].mail}
     IN  IF Cardinality(rows) <= 1
           THEN run' = [run EXCEPT ![r].steps = Then(r)]
           ELSE \E k \in IF run[r].keep \in rows THEN {run[r].keep} ELSE rows :
                  run' = [run EXCEPT ![r].into = k, ![r].others = rows \ {k},
                                     ![r].steps = <<"move", "purge">> \o Then(r)]
  /\ UNCHANGED <<request, copy, row, calm>>

\* The files of the others are given to the row that takes them up: an error when there
\* are any and it is gone.
Move(r) ==
  LET into == run[r].into
      files == UNION {row[x].files : x \in run[r].others}
  IN  /\ At(r, "move")
      /\ IF files # {} /\ into \notin Live THEN Broken(r)
         ELSE /\ row' = [x \in Rows |->
                   IF files = {} THEN row[x]
                   ELSE IF x = into THEN [row[x] EXCEPT !.files = @ \cup files]
                   ELSE IF x \in run[r].others THEN [row[x] EXCEPT !.files = {}]
                   ELSE row[x]]
              /\ run' = [run EXCEPT ![r].steps = Then(r)]
              /\ UNCHANGED calm
      /\ UNCHANGED <<request, copy>>

\* deleteMissingProviderMessages: one transaction deletes the others and their files.
Purge(r) ==
  /\ At(r, "purge")
  /\ row' = [x \in Rows |-> IF x \in run[r].others THEN Absent ELSE row[x]]
  /\ run' = [run EXCEPT ![r].steps = Then(r), ![r].others = {}, ![r].into = None]
  /\ UNCHANGED <<request, copy, calm>>

\* persistParsedAttachments leaves a row alone that has a file.
Count(r) ==
  /\ At(r, "count")
  /\ run' = [run EXCEPT ![r].steps =
       IF row[run[r].keep].files = {} THEN <<"attach">> \o Then(r) ELSE Then(r)]
  /\ UNCHANGED <<request, copy, row, calm>>

\* The file is attached, as the provider lists it or as the mail's source has it; an
\* error is logged when the row is gone.
GiveFile(r) ==
  /\ run' = [run EXCEPT ![r].steps = Then(r)]
  /\ row' = IF run[r].keep \in Live
              THEN [row EXCEPT ![run[r].keep].files = @ \cup {run[r].mail}] ELSE row

AttachListed(r) ==
  /\ At(r, "attach")
  /\ GiveFile(r)
  /\ UNCHANGED <<request, copy, calm>>

\* The list cannot be read, or what it has cannot be stored.
AttachFromSource(r) ==
  /\ At(r, "attach")
  /\ GiveFile(r)
  /\ calm' = None
  /\ UNCHANGED <<request, copy>>

\* Nor can the source: the mail stays without its file until the next run.
AttachNothing(r) ==
  /\ At(r, "attach")
  /\ run' = [run EXCEPT ![r].steps = Then(r)]
  /\ calm' = None
  /\ UNCHANGED <<request, copy, row>>

(***************************************************************************)
(* Specification and properties                                             *)
(***************************************************************************)
RequestStep(m) ==
  \/ Compose(m) \/ Reply(m) \/ Forward(m) \/ Refuse(m) \/ Accept(m) \/ Appear(m)
  \/ StoreComposed(m) \/ StoreReply(m) \/ StoreForward(m) \/ AttachOwn(m) \/ GiveUp(m)

RunStep(r) ==
  \/ Begin(r) \/ (\E m \in Mails : Look(r, m)) \/ End(r) \/ Fail(r)
  \/ TakeUp(r) \/ Place(r) \/ TakeOver(r) \/ Create(r) \/ Dedupe(r)
  \/ Move(r) \/ Purge(r) \/ Count(r)
  \/ AttachListed(r) \/ AttachFromSource(r) \/ AttachNothing(r)

Next == (\E m \in Mails : RequestStep(m)) \/ (\E r \in Runs : RunStep(r))

Spec == Init /\ [][Next]_vars

Lookalikes(m) == {n \in Mails \ {m} : Title[n] = Title[m]}

\* A copy is filed: one row has its id and its mail; unless another mail has the same
\* subject and sender, that row has the mail's file and no other, and no row
\* without an id is left for it.
IsFiled(m) ==
  \E x \in Live :
    /\ {y \in Live : row[y].id = m} = {x}
    /\ row[x].mail = m
    /\ Lookalikes(m) = {} => /\ row[x].files = Attached \cap {m}
                             /\ {y \in Live : row[y].mail = m} = {x}

\* Whatever requests, runs, failures and restarts left behind, the next run over Sent
\* Items that nothing disturbs leaves every copy filed (upsertOutlookApiMessage).
SentIsFiled ==
  calm # None /\ ~run[calm].on => \A m \in Mails : copy[m] = "there" => IsFiled(m)
=============================================================================
