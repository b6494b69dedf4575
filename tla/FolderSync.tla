----------------------------- MODULE FolderSync -----------------------------
(***************************************************************************)
(* One mailbox, folder by folder: how EmailSyncProcessor.syncFolder copies  *)
(* the mails of an IMAP server into Message rows.                           *)
(*                                                                         *)
(* A queue run fetches what lies above the folder's watermark (uidNext of   *)
(* its MailboxFolder row); an interactive run compares the whole folder     *)
(* with the rows, deletes what the server no longer has and fetches what is *)
(* missing.  Nothing keeps two runs of a mailbox apart, and every await is  *)
(* a step.  UIDVALIDITY is taken to be stable: the code stores it and never *)
(* compares it.  On Gmail a folder is a label and every mail outside spam   *)
(* and trash lies in All Mail too, which is synced as `archive': such a     *)
(* mail is in several folders at once, with a uid of its own in each.       *)
(***************************************************************************)
EXTENDS Naturals, FiniteSets, FiniteSetsExt

CONSTANTS
  Mails,        \* Message-IDs
  Folders,      \* the syncable folders, a subset of the keys of Priority
  QueueRuns,    \* workers of the email-sync queue on this mailbox
  LiveRuns,     \* refreshMailboxInteractive requests
  MaySwitch,    \* whether DISABLE_THREADING may be switched
  Labels,       \* the folders are labels, and `archive' is All Mail
  MaxUid,       \* bound: uids a folder hands out
  MaxRows,      \* bound: Message rows ever created
  MaxFailures   \* bound: folder runs that fail

\* FOLDER_MESSAGE_PRIORITY of the canonical types.
Priority == [inbox |-> 0, sent |-> 1, drafts |-> 2, spam |-> 3, trash |-> 4,
             archive |-> 5]

\* What the constants satisfy (MCMail assumes it of its instances).
FolderAssumption ==
  /\ Folders \subseteq DOMAIN Priority /\ "inbox" \in Folders
  /\ QueueRuns \cap LiveRuns = {}
  /\ MaySwitch \in BOOLEAN
  /\ Labels \in BOOLEAN /\ (Labels => "archive" \in Folders)
  /\ MaxUid \in Nat /\ MaxRows \in Nat /\ MaxFailures \in Nat

VARIABLES
  server,       \* server[f][m]: the uid of mail m in folder f, 0 if it is not there
  uidNext,      \* uidNext[f]: the next uid the server will give in f
  wandered,     \* history: mails that have left a folder
  unthreaded,   \* DISABLE_THREADING is on
  skipped,      \* history: mails left out under DISABLE_THREADING
  crossed,      \* history: mails in several folders that a run set out to store
                \* while another was about to
  mark,         \* mark[f]: uidNext of the MailboxFolder row, 0 if there is none
  row,          \* row[i]: the Message rows
  purged,       \* history: mails deleted here while they were at the server
  run,          \* the runs: where they are and what they have read
  failures      \* folder runs that have failed

atServer == <<server, uidNext, wandered>>
vars == <<atServer, unthreaded, skipped, crossed, mark, row, purged, run, failures>>

Runs   == QueueRuns \cup LiveRuns
RowIds == 1..MaxRows
Uids   == 1..MaxUid

Steps == {"idle", "readRow", "search", "compare", "purge", "fetch",
          "look", "move", "create", "dedupe", "drop", "close"}

Row == [state : {"none", "present", "trashed", "deleted"}, mail : Mails,
        folder : Folders, uid : Uids]

NoRow == [state |-> "none"]
Idle  == [pc |-> "idle"]

InFolder(f) == {server[f][m] : m \in Mails} \ {0}
Present == {i \in RowIds : row[i].state = "present"}
Stored  == {i \in RowIds : row[i].state \in {"present", "trashed"}}

\* Mutant: the unique index is missing.
NeverOccupied(f, u) == FALSE

\* The row that holds uid u of folder f (uniq_messages_imap_uid, @@unique).
Holds(i, f, u) == i \in Stored /\ row[i].folder = f /\ row[i].uid = u
Occupied(f, u) == \E i \in RowIds : Holds(i, f, u)

TypeOK ==
  /\ server \in [Folders -> [Mails -> 0..MaxUid]]
  /\ uidNext \in [Folders -> 1..(MaxUid + 1)]
  /\ wandered \subseteq Mails /\ skipped \subseteq Mails /\ purged \subseteq Mails
  /\ crossed \subseteq Mails
  /\ unthreaded \in BOOLEAN
  /\ mark \in [Folders -> 0..(MaxUid + 1)]
  /\ \A i \in RowIds : row[i] = NoRow \/ row[i] \in Row
  /\ \A r \in Runs : run[r].pc \in Steps
  /\ failures \in 0..MaxFailures

Init ==
  /\ server = [f \in Folders |-> [m \in Mails |-> 0]]
  /\ uidNext = [f \in Folders |-> 1]
  /\ wandered = {} /\ skipped = {} /\ purged = {} /\ crossed = {}
  /\ unthreaded = FALSE
  /\ mark = [f \in Folders |-> 0]
  /\ row = [i \in RowIds |-> NoRow]
  /\ run = [r \in Runs |-> Idle]
  /\ failures = 0

(***************************************************************************)
(* The server                                                               *)
(***************************************************************************)
Apart == {"spam", "trash"}

\* Where a mail may arrive: in one folder, or under some labels and in All Mail.
Arrivals ==
  IF Labels
  THEN {{f} : f \in Folders \cap Apart} \cup
       {fs \cup {"archive"} : fs \in SUBSET (Folders \ Apart)}
  ELSE {{f} : f \in Folders}

\* A mail that was never here arrives.
Deliver(m, fs) ==
  /\ \A f \in fs : uidNext[f] <= MaxUid
  /\ \A g \in Folders : server[g][m] = 0
  /\ m \notin wandered
  /\ \A i \in RowIds : row[i] # NoRow => row[i].mail # m
  /\ server' = [f \in Folders |->
       IF f \in fs THEN [server[f] EXCEPT ![m] = uidNext[f]] ELSE server[f]]
  /\ uidNext' = [f \in Folders |-> IF f \in fs THEN uidNext[f] + 1 ELSE uidNext[f]]
  /\ UNCHANGED <<wandered, unthreaded, skipped, crossed, mark, row, purged, run, failures>>

\* Another client deletes a mail, or moves it to another folder.
Expunge(m, f) ==
  /\ server[f][m] > 0
  /\ server' = [server EXCEPT ![f][m] = 0]
  /\ wandered' = wandered \cup {m}
  /\ UNCHANGED <<uidNext, unthreaded, skipped, crossed, mark, row, purged, run, failures>>

Move(m, f, g) ==
  /\ server[f][m] > 0 /\ server[g][m] = 0 /\ uidNext[g] <= MaxUid
  /\ server' = [server EXCEPT ![f][m] = 0, ![g][m] = uidNext[g]]
  /\ uidNext' = [uidNext EXCEPT ![g] = @ + 1]
  /\ wandered' = wandered \cup {m}
  /\ UNCHANGED <<unthreaded, skipped, crossed, mark, row, purged, run, failures>>

ToggleThreading ==
  /\ MaySwitch
  /\ unthreaded' = ~unthreaded
  /\ UNCHANGED <<atServer, skipped, crossed, mark, row, purged, run, failures>>

(***************************************************************************)
(* A run takes up a folder                                                  *)
(***************************************************************************)
Goto(r, step) == run' = [run EXCEPT ![r] = step]
At(r, pc) == run[r].pc = pc
Reading == <<atServer, unthreaded, skipped, crossed, mark, row, purged, failures>>

\* upsertMailboxFolderMetadata gives a new folder a row with uidNext 1; then the
\* folder is opened, and the server says which uid it will give next.
Open(r, f) ==
  /\ At(r, "idle")
  /\ mark' = [mark EXCEPT ![f] = IF @ = 0 THEN 1 ELSE @]
  /\ Goto(r, [pc |-> "readRow", folder |-> f, next |-> uidNext[f]])
  /\ UNCHANGED <<atServer, unthreaded, skipped, crossed, row, purged, failures>>

\* A watermark above the server's is drift, and the folder is read from 1; a
\* queue run that finds the watermark where the server is has nothing to do.
ReadRow(r) ==
  LET f == run[r].folder
      from == IF mark[f] > run[r].next THEN 1 ELSE mark[f]
  IN /\ At(r, "readRow")
     /\ Goto(r, IF r \in QueueRuns /\ from = run[r].next
                THEN [pc |-> "close", folder |-> f, top |-> run[r].next]
                ELSE [pc |-> "search", folder |-> f, next |-> run[r].next,
                      from |-> from])
     /\ UNCHANGED Reading

\* Mutant: the range to fetch ends before its last uid.
FetchingBut(f, next, todo) ==
  IF todo = {} \/ todo = {Max(todo)} THEN [pc |-> "close", folder |-> f, top |-> next]
  ELSE [pc |-> "fetch", folder |-> f, todo |-> todo \ {Max(todo)},
        top |-> Max(todo) + 1]

\* With nothing to fetch the watermark becomes what the server said at first.
Fetching(f, next, todo) ==
  IF todo = {} THEN [pc |-> "close", folder |-> f, top |-> next]
  ELSE [pc |-> "fetch", folder |-> f, todo |-> todo, top |-> Max(todo) + 1]

\* UID SEARCH from:* always names the last mail, also when its uid is lower.
Incremental(f, from) ==
  LET above == {u \in InFolder(f) : u >= from}
  IN IF above = {} /\ InFolder(f) # {} THEN {Max(InFolder(f))} ELSE above

Search(r) ==
  LET f == run[r].folder
  IN /\ At(r, "search") /\ r \in QueueRuns
     /\ \E todo \in {Incremental(f, run[r].from), InFolder(f)} :
          Goto(r, Fetching(f, run[r].next, todo))
     /\ UNCHANGED Reading

SearchAll(r) ==
  /\ At(r, "search") /\ r \in LiveRuns
  /\ Goto(r, [pc |-> "compare", folder |-> run[r].folder,
              next |-> run[r].next, seen |-> InFolder(run[r].folder)])
  /\ UNCHANGED Reading

\* Mutant: the comparison forgets the folder of the rows.
LocalAnywhere(f) == Present

\* Rows in the trash (deletedAt) are not looked at.
Local(f) == {i \in Present : row[i].folder = f}

Compare(r) ==
  LET f == run[r].folder
      seen == run[r].seen
      missing == {i \in Local(f) : row[i].uid \notin seen}
      todo == seen \ {row[i].uid : i \in Local(f)}
  IN /\ At(r, "compare")
     /\ Goto(r, IF missing = {} THEN Fetching(f, run[r].next, todo)
                ELSE [pc |-> "purge", folder |-> f, next |-> run[r].next,
                      todo |-> todo, drop |-> missing])
     /\ UNCHANGED Reading

Without(ids) == [i \in RowIds |->
  IF i \in ids /\ row[i] # NoRow THEN [row[i] EXCEPT !.state = "deleted"]
  ELSE row[i]]

\* deleteMissingProviderMessages goes by the ids that were read before.
Purge(r) ==
  /\ At(r, "purge")
  /\ row' = Without(run[r].drop)
  /\ purged' = purged \cup
       {m \in Mails : /\ \E i \in run[r].drop : row[i].mail = m
                     /\ server[run[r].folder][m] > 0}
  /\ Goto(r, Fetching(run[r].folder, run[r].next, run[r].todo))
  /\ UNCHANGED <<atServer, unthreaded, skipped, crossed, mark, failures>>

\* What is left of the mails the search named is read in one go.
Fetch(r) ==
  LET f == run[r].folder
      got == {g \in run[r].todo \X Mails : server[f][g[2]] = g[1]}
  IN /\ At(r, "fetch")
     /\ Goto(r, [pc |-> IF got = {} THEN "close" ELSE "look", folder |-> f,
                 got |-> got, top |-> run[r].top])
     /\ UNCHANGED Reading

(***************************************************************************)
(* upsertMessage: a queue run stores the mails one by one, by uid           *)
(***************************************************************************)
First(got) == CHOOSE g \in got : \A h \in got : g[1] <= h[1]

\* The run goes on with the mails in `got', or writes the watermark.
GoOn(r, got) ==
  [pc |-> IF got = {} THEN "close" ELSE "look", folder |-> run[r].folder,
   got |-> got, top |-> run[r].top]

Rest(r) == run[r].got \ {First(run[r].got)}

With(r, pc, id) == [pc |-> pc, folder |-> run[r].folder, got |-> run[r].got,
                    top |-> run[r].top, id |-> id]

\* A better folder, or the trash, takes the row over.
TakesOver(f, i) ==
  \/ Priority[f] < Priority[row[i].folder]
  \/ f = "trash" /\ row[i].folder # "trash"

SameMail(m) == {i \in Present : row[i].mail = m}

\* Run r found no row of mail m and is about to create one.
Storing(r, m) ==
  IF r \in QueueRuns THEN At(r, "create") /\ First(run[r].got)[2] = m
  ELSE run[r].pc \in {"move", "create"} /\ \E g \in run[r].got : g[2] = m

InSeveral(m) == \E f, g \in Folders : f # g /\ server[f][m] > 0 /\ server[g][m] > 0

\* Of the mails in `ms', those two runs now store side by side.
Crossing(r, ms) ==
  {m \in ms : InSeveral(m) /\ \E q \in Runs \ {r} : Storing(q, m)}

Look(r) ==
  LET f == run[r].folder
      uid == First(run[r].got)[1]
      m == First(run[r].got)[2]
  IN /\ At(r, "look") /\ r \in QueueRuns
     /\ \/ /\ Occupied(f, uid)
           /\ Goto(r, GoOn(r, Rest(r))) /\ UNCHANGED <<skipped, crossed>>
        \/ /\ ~Occupied(f, uid)
           /\ \E i \in SameMail(m) :
                Goto(r, With(r, IF TakesOver(f, i) THEN "move" ELSE "dedupe", i))
           /\ UNCHANGED <<skipped, crossed>>
        \/ /\ ~Occupied(f, uid) /\ SameMail(m) = {} /\ unthreaded
           /\ skipped' = skipped \cup {m}
           /\ Goto(r, GoOn(r, Rest(r))) /\ UNCHANGED crossed
        \/ /\ ~Occupied(f, uid) /\ SameMail(m) = {} /\ ~unthreaded
           /\ crossed' = crossed \cup Crossing(r, {m})
           /\ Goto(r, With(r, "create", 0)) /\ UNCHANGED skipped
     /\ UNCHANGED <<atServer, unthreaded, mark, row, purged, failures>>

StateIn(f) == IF f = "trash" THEN "trashed" ELSE "present"

\* The row is written by id; it must still be there, and the place be free.
MoveRow(r) ==
  LET f == run[r].folder
      i == run[r].id
      uid == First(run[r].got)[1]
      fits == i \in Stored /\ \A j \in RowIds : Holds(j, f, uid) => j = i
  IN /\ At(r, "move") /\ r \in QueueRuns
     /\ IF fits
        THEN /\ row' = [row EXCEPT ![i].folder = f, ![i].uid = uid,
                                   ![i].state = StateIn(f)]
             /\ Goto(r, With(r, "dedupe", i))
        ELSE Goto(r, Idle) /\ UNCHANGED row
     /\ UNCHANGED <<atServer, unthreaded, skipped, crossed, mark, purged, failures>>

Free == {i \in RowIds : row[i] = NoRow}
Made(m, f, uid) == [state |-> "present", mail |-> m, folder |-> f, uid |-> uid]

\* The unique index refuses a second row for a uid: the folder run fails.
Create(r) ==
  LET f == run[r].folder
      uid == First(run[r].got)[1]
      m == First(run[r].got)[2]
  IN /\ At(r, "create") /\ r \in QueueRuns /\ Free # {}
     /\ IF Occupied(f, uid)
        THEN Goto(r, Idle) /\ UNCHANGED row
        ELSE /\ row' = [row EXCEPT ![Min(Free)] = Made(m, f, uid)]
             /\ Goto(r, With(r, "dedupe", Min(Free)))
     /\ UNCHANGED <<atServer, unthreaded, skipped, crossed, mark, purged, failures>>

\* reconcileDuplicateMessageEntriesByMessageId: read the rows of the mail ...
Dedupe(r) ==
  LET same == SameMail(First(run[r].got)[2])
      keep == IF run[r].id \in same THEN run[r].id ELSE Min(same)
  IN /\ At(r, "dedupe")
     /\ Goto(r, IF Cardinality(same) <= 1 THEN GoOn(r, Rest(r))
                ELSE With(r, "drop", same \ {keep}))
     /\ UNCHANGED Reading

\* ... and delete all but the one to keep.
Drop(r) ==
  /\ At(r, "drop")
  /\ row' = Without(run[r].id)
  /\ Goto(r, GoOn(r, Rest(r)))
  /\ UNCHANGED <<atServer, unthreaded, skipped, crossed, mark, purged, failures>>

(***************************************************************************)
(* upsertInteractiveBatch: an interactive run stores them together          *)
(***************************************************************************)
LookBatch(r) ==
  LET f == run[r].folder
      known == {g \in run[r].got : SameMail(g[2]) # {}}
  IN /\ At(r, "look") /\ r \in LiveRuns
     /\ \E which \in [known -> RowIds] :
          /\ \A g \in known : which[g] \in SameMail(g[2])
          /\ Goto(r, [pc |-> "move", folder |-> f, top |-> run[r].top,
               shift |-> {<<which[g], g[1]>> : g \in
                            {h \in known : TakesOver(f, which[h])}},
               got |-> run[r].got \ known])
     /\ crossed' = crossed \cup Crossing(r, {g[2] : g \in run[r].got \ known})
     /\ UNCHANGED <<atServer, unthreaded, skipped, mark, row, purged, failures>>

\* One UPDATE moves the rows that are still there, or none of them.
MoveBatch(r) ==
  LET f == run[r].folder
      shift == run[r].shift
      moved == {s[1] : s \in shift}
      clash == \E s \in shift : \E j \in RowIds \ moved : Holds(j, f, s[2])
      at(i) == CHOOSE s \in shift : s[1] = i
  IN /\ At(r, "move") /\ r \in LiveRuns
     /\ IF clash THEN Goto(r, Idle) /\ UNCHANGED row
        ELSE /\ row' = [i \in RowIds |->
                  IF i \in moved \cap Stored
                  THEN [row[i] EXCEPT !.folder = f, !.uid = at(i)[2],
                                      !.state = StateIn(f)]
                  ELSE row[i]]
             /\ Goto(r, [pc |-> "create", folder |-> f, got |-> run[r].got,
                         top |-> run[r].top])
     /\ UNCHANGED <<atServer, unthreaded, skipped, crossed, mark, purged, failures>>

\* createMany skips the rows the unique index refuses.
CreateBatch(r) ==
  LET f == run[r].folder
      new == {g \in run[r].got : ~Occupied(f, g[1])}
  IN /\ At(r, "create") /\ r \in LiveRuns
     /\ \E id \in [new -> Free] :
          /\ \A g, h \in new : g[1] < h[1] => id[g] < id[h]
          /\ \A i \in Free, g \in new : i < id[g] => \E h \in new : id[h] = i
          /\ row' = [i \in RowIds |->
               IF \E g \in new : id[g] = i
               THEN LET g == CHOOSE g \in new : id[g] = i IN Made(g[2], f, g[1])
               ELSE row[i]]
     /\ Goto(r, GoOn(r, {}))
     /\ UNCHANGED <<atServer, unthreaded, skipped, crossed, mark, purged, failures>>

(***************************************************************************)
(* The end of a folder                                                      *)
(***************************************************************************)
\* Mutant: the watermark becomes what the server would give out now.
CloseAtServer(r) ==
  /\ At(r, "close")
  /\ mark' = [mark EXCEPT ![run[r].folder] = uidNext[run[r].folder]]
  /\ Goto(r, Idle)
  /\ UNCHANGED <<atServer, unthreaded, skipped, crossed, row, purged, failures>>

Close(r) ==
  /\ At(r, "close")
  /\ mark' = [mark EXCEPT ![run[r].folder] = run[r].top]
  /\ Goto(r, Idle)
  /\ UNCHANGED <<atServer, unthreaded, skipped, crossed, row, purged, failures>>

\* A refused request, an error or a crash ends the folder where it is.
Fail(r) ==
  /\ run[r].pc # "idle" /\ failures < MaxFailures
  /\ failures' = failures + 1
  /\ Goto(r, Idle)
  /\ UNCHANGED <<atServer, unthreaded, skipped, crossed, mark, row, purged>>

ServerStep ==
  \/ \E m \in Mails, fs \in Arrivals : Deliver(m, fs)
  \/ \E m \in Mails, f \in Folders : Expunge(m, f)
  \/ \E m \in Mails, f, g \in Folders : Move(m, f, g)
  \/ ToggleThreading

RunStep(r) ==
  \/ ReadRow(r) \/ Search(r) \/ SearchAll(r) \/ Compare(r)
  \/ Purge(r) \/ Fetch(r) \/ Look(r) \/ MoveRow(r) \/ Create(r) \/ Dedupe(r)
  \/ Drop(r) \/ LookBatch(r) \/ MoveBatch(r) \/ CreateBatch(r) \/ Close(r)

Next ==
  \/ ServerStep
  \/ \E r \in Runs, f \in Folders : Open(r, f)
  \/ \E r \in Runs : RunStep(r) \/ Fail(r)

Spec == Init /\ [][Next]_vars

\* A queue run goes through every folder and the scheduler starts another; an
\* open inbox is refreshed again and again.
Fairness ==
  /\ \A r \in Runs : WF_vars(RunStep(r))
  /\ \A r \in QueueRuns, f \in Folders : SF_vars(Open(r, f))
  /\ \A r \in LiveRuns : SF_vars(Open(r, "inbox"))

FairSpec == Spec /\ Fairness

(***************************************************************************)
(* Properties                                                               *)
(***************************************************************************)
StoredMail(m) == \E i \in Stored : row[i].mail = m

\* Mails whose only story is that they arrived.
Settled == Mails \ (wandered \cup skipped \cup purged \cup crossed)

\* No mail is skipped: what lies below a folder's watermark, where no queue
\* run will look for it again, has its row, whatever runs overlap or fail.
NoMailSkipped ==
  \A f \in Folders, m \in Settled :
    server[f][m] \in 1..(mark[f] - 1) => StoredMail(m)

\* A mail that stays where it arrived never has two rows, although two runs
\* look for it before either of them creates it; but the unique index goes by
\* the place, and of a mail in several folders two runs may each store a row.
NoMailTwice ==
  \A i, j \in Stored :
    row[i].mail = row[j].mail /\ row[i].mail \notin wandered \cup crossed => i = j

\* What is stored stays, unless the mail left its folder or an interactive run
\* deletes it for a search that is older than the row.
KeepsStored == \A m \in Settled' : StoredMail(m) => StoredMail(m)'
StoredStays == [][KeepsStored]_vars

\* Every mail that stays in its folder is stored in the end.
MailArrives ==
  \A m \in Mails, f \in Folders :
    server[f][m] > 0 ~>
      StoredMail(m) \/ m \in wandered \cup skipped \cup purged \cup crossed

\* In the inbox also what was deleted by mistake comes back.
MailComesBack ==
  \A m \in Mails :
    m \in purged ~> StoredMail(m) \/ m \in wandered \cup crossed

(***************************************************************************)
(* The inductive invariant of the proofs                                    *)
(***************************************************************************)
\* A row, or a mail read from the server: mail m had uid u in folder f, which no
\* other mail ever gets, and is still there unless it wandered off.
Sighting(f, u, m) ==
  /\ f \in Folders /\ m \in Mails /\ u \in 1..(uidNext[f] - 1)
  /\ m \notin wandered => server[f][m] = u
  /\ \A n \in Mails : server[f][n] = u => n = m

Server ==
  /\ \A f \in Folders, m \in Mails : server[f][m] < uidNext[f]
  /\ \A f \in Folders, m, n \in Mails :
       server[f][m] = server[f][n] /\ server[f][m] > 0 => m = n
  /\ \A f, g \in Folders, m \in Mails \ wandered :
       server[f][m] > 0 /\ server[g][m] > 0 /\ f \in Apart => f = g

RowsSighted ==
  \A i \in RowIds :
    row[i] # NoRow => Sighting(row[i].folder, row[i].uid, row[i].mail)

UniquePlaces ==
  \A i, j \in Stored :
    row[i].folder = row[j].folder /\ row[i].uid = row[j].uid => i = j

TrashedThere == \A i \in Stored : row[i].state = "trashed" => row[i].folder = "trash"

\* A mail in several folders that one run is about to store has no row yet, and
\* no other run is about to store it.
StoredByOne ==
  \A r \in Runs, m \in Mails \ (wandered \cup crossed) :
    Storing(r, m) /\ InSeveral(m) =>
      /\ ~StoredMail(m)
      /\ \A q \in Runs \ {r} : ~Storing(q, m)

\* The settled mails of folder f with a uid below `top' have a row, or are in todo.
Covered(f, top, todo) ==
  \A m \in Settled :
    server[f][m] \in 1..(top - 1) => server[f][m] \in todo \/ StoredMail(m)

\* The mails a search found, those already stored left out; what came later comes
\* after them.
Found(f, next, todo) ==
  /\ todo \subseteq 1..(uidNext[f] - 1)
  /\ \A m \in Settled :
       server[f][m] > 0 =>
         \/ server[f][m] \in todo \/ StoredMail(m)
         \/ (server[f][m] >= next /\ \A u \in todo : u < server[f][m])

Gotten(f, top, got) ==
  /\ \A g \in got : g = <<g[1], g[2]>> /\ Sighting(f, g[1], g[2])
  /\ \A g, h \in got : g[1] = h[1] \/ g[2] = h[2] => g = h
  /\ \A m \in Settled :
       server[f][m] \in 1..(top - 1) => <<server[f][m], m>> \in got \/ StoredMail(m)

Shifted(f, shift) ==
  /\ \A s \in shift : /\ s[1] \in RowIds /\ row[s[1]] # NoRow
                      /\ Sighting(f, s[2], row[s[1]].mail)
  /\ \A s, t \in shift : s[1] = t[1] \/ s[2] = t[2] => s = t

\* What the run has read still tells which mails are left to store.
RunKnows(r) ==
  LET f == run[r].folder
      pc == run[r].pc
  IN /\ pc \in Steps
     /\ pc # "idle" => f \in Folders
     /\ pc \in {"readRow", "search", "compare", "purge"} => run[r].next \in 1..uidNext[f]
     /\ pc = "search" => run[r].from \in 0..run[r].next /\ Covered(f, run[r].from, {})
     /\ pc = "compare" => Found(f, run[r].next, run[r].seen)
     /\ pc = "purge" =>
          /\ Found(f, run[r].next, run[r].todo)
          /\ \A i \in run[r].drop :
               /\ i \in RowIds /\ row[i] # NoRow
               /\ row[i].mail \notin wandered => server[f][row[i].mail] > 0
     /\ pc \in {"fetch", "look", "move", "create", "dedupe", "drop", "close"} =>
          run[r].top \in 1..uidNext[f]
     /\ pc = "fetch" => /\ run[r].todo \subseteq Uids
                         /\ Covered(f, run[r].top, run[r].todo)
     /\ pc \in {"look", "move", "create", "dedupe", "drop"} =>
          Gotten(f, run[r].top, run[r].got)
     /\ (pc = "look" \/ (r \in QueueRuns /\ pc \in {"move", "create", "dedupe", "drop"}))
          => run[r].got # {}
     /\ pc \in {"dedupe", "drop"} => r \in QueueRuns
     /\ pc = "move" /\ r \in QueueRuns =>
          /\ run[r].id \in RowIds /\ row[run[r].id] # NoRow
          /\ row[run[r].id].mail = First(run[r].got)[2]
     /\ pc = "move" /\ r \in LiveRuns => Shifted(f, run[r].shift)
     /\ pc \in {"dedupe", "drop"} =>
          (First(run[r].got)[2] \in Settled => StoredMail(First(run[r].got)[2]))
     /\ pc = "drop" =>
          \A i \in run[r].id : i \in RowIds /\ row[i] # NoRow
                                /\ row[i].mail \in wandered \cup crossed
     /\ pc = "close" => Covered(f, run[r].top, {})

FolderInv ==
  /\ TypeOK /\ DOMAIN row = RowIds /\ DOMAIN run = Runs
  /\ Server /\ RowsSighted /\ UniquePlaces /\ TrashedThere
  /\ NoMailTwice /\ StoredByOne
  /\ \A f \in Folders : mark[f] <= uidNext[f] /\ Covered(f, mark[f], {})
  /\ \A r \in Runs : RunKnows(r)
=============================================================================
