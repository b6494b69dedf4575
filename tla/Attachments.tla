---------------------------- MODULE Attachments ----------------------------
(***************************************************************************)
(* An attachment in two stores: its row, and its object in the object       *)
(* storage, which no transaction joins.  AttachmentScanService creates the  *)
(* row, scans, moves the object and writes the verdict; downloads of        *)
(* attachments not scanned yet do the same; deletions of the attachments    *)
(* controller and of the cleanup processor run beside both.                 *)
(***************************************************************************)
EXTENDS Naturals, FiniteSets

CONSTANTS
  Uploads,       \* the uploads, and the attachments they make
  Direct,        \* those sent through the backend; the others are presigned
  Downloads,     \* download requests
  Deletions,     \* requests to delete, and steps of a cleanup sweep
  Storage,       \* "s3" or "local"
  FailOpen,      \* attachment.scan.failOpenOnError
  OnDownload,    \* attachment.scan.onDownload
  MaxRestarts,   \* bound: restarts of the backend
  MaxFaults      \* bound: errors of the storage

AttachmentsAssumption ==
  /\ Direct \subseteq Uploads
  /\ Storage \in {"s3", "local"} /\ (Storage = "local" => Direct = Uploads)
  /\ FailOpen \in BOOLEAN /\ OnDownload \in BOOLEAN
  /\ MaxRestarts \in Nat /\ MaxFaults \in Nat

VARIABLES
  enabled,     \* the scanner is configured (read when the backend starts)
  infected,    \* the uploads whose file carries malware
  row,         \* row[u]: the Attachment row
  objects,     \* objects[u]: the keys under which the file is stored
  upload,      \* upload[u]: the request that uploads u
  download,    \* download[d]
  deletion,    \* deletion[x]
  restarts, faults

vars == <<enabled, infected, row, objects, upload, download, deletion, restarts,
          faults>>

\* A quarantine key is random: it is named after the request that draws it.
Keys == {"staging", "final", "held"} \cup Downloads

NoRow == [status |-> "none"]
Rows ==
  {NoRow} \cup
  [status : {"UNSCANNED", "PENDING", "CLEAN", "INFECTED", "FAILED"}, key : Keys,
   quarantined : BOOLEAN]

Verdicts == {"clean", "infected", "failed"}
Idle == [pc |-> "idle"]

TypeOK ==
  /\ enabled \in BOOLEAN /\ infected \subseteq Uploads
  /\ row \in [Uploads -> Rows]
  /\ objects \in [Uploads -> SUBSET Keys]
  /\ \A u \in Uploads : upload[u].pc \in
       {"idle", "put", "moved", "scanning", "storing", "writing", "done"}
  /\ \A d \in Downloads : download[d].pc \in
       {"idle", "scanning", "storing", "writing", "serving", "done"}
  /\ \A x \in Deletions : deletion[x].pc \in {"idle", "object", "row", "done"}
  /\ restarts \in 0..MaxRestarts /\ faults \in 0..MaxFaults

Init ==
  /\ enabled \in BOOLEAN /\ infected \in SUBSET Uploads
  /\ row = [u \in Uploads |-> NoRow]
  /\ objects = [u \in Uploads |-> {}]
  /\ upload = [u \in Uploads |-> Idle]
  /\ download = [d \in Downloads |-> Idle]
  /\ deletion = [x \in Deletions |-> Idle]
  /\ restarts = 0 /\ faults = 0

(***************************************************************************)
(* The storage and the scanner                                              *)
(***************************************************************************)
Present(u, key) == key \in objects[u]

\* AttachmentStorageService.upload and .move: how the keys of u may be after it,
\* and whether it succeeded.  S3 copies and then deletes; a missing source is an
\* error of S3 only.  NoUpload as source: the file comes from memory.
Stores(u, from, to) ==
  LET gone == (objects[u] \ {from}) \cup {to}
      fine == IF from = "memory" THEN {[keys |-> objects[u] \cup {to}, ok |-> TRUE]}
              ELSE IF Present(u, from) THEN {[keys |-> gone, ok |-> TRUE]}
              ELSE {[keys |-> objects[u], ok |-> Storage = "local"]}
      half == IF Storage = "s3" /\ from # "memory" /\ Present(u, from)
              THEN {[keys |-> objects[u] \cup {to}, ok |-> FALSE]} ELSE {}
      none == {[keys |-> objects[u], ok |-> FALSE]}
  IN fine \cup (IF faults < MaxFaults THEN half \cup none ELSE {})

Stored(u, s) ==
  /\ objects' = [objects EXCEPT ![u] = s.keys]
  /\ faults' = IF ~s.ok /\ faults < MaxFaults THEN faults + 1 ELSE faults

\* scanStream: an answer of the scanner, or an error.
Verdict(u) == {"failed", IF u \in infected THEN "infected" ELSE "clean"}

\* Mutant: errors of the scanner always fail open.
StatusOpen(verdict) ==
  CASE verdict = "clean"    -> "CLEAN"
    [] verdict = "infected" -> "INFECTED"
    [] OTHER                -> "UNSCANNED"

\* What a verdict makes of the attachment, and whether the file stays in use.
StatusOf(verdict) ==
  CASE verdict = "clean"    -> "CLEAN"
    [] verdict = "infected" -> "INFECTED"
    [] OTHER                -> IF FailOpen THEN "UNSCANNED" ELSE "FAILED"

InUse(status) == status \in {"CLEAN", "UNSCANNED"}

Result(status, key) ==
  [status |-> status, key |-> key, quarantined |-> ~InUse(status)]

(***************************************************************************)
(* Uploads                                                                  *)
(***************************************************************************)
Go(u, pc) == upload' = [upload EXCEPT ![u] = [@ EXCEPT !.pc = pc]]

\* createPresignedUpload: the client puts the file at the staging key.
Put(u) ==
  /\ upload[u].pc = "idle" /\ u \notin Direct
  /\ objects' = [objects EXCEPT ![u] = @ \cup {"staging"}]
  /\ Go(u, "put")
  /\ UNCHANGED <<enabled, infected, row, download, deletion, restarts, faults>>

Arrived(u) == upload[u].pc = (IF u \in Direct THEN "idle" ELSE "put")
Source(u) == IF u \in Direct THEN "memory" ELSE "staging"

\* Without a scanner: the object first, then the row.
StoreUnscanned(u) ==
  /\ Arrived(u) /\ ~enabled
  /\ \E s \in Stores(u, Source(u), "final") :
       Stored(u, s) /\ Go(u, IF s.ok THEN "moved" ELSE "done")
  /\ UNCHANGED <<enabled, infected, row, download, deletion, restarts>>

CreateUnscanned(u) ==
  /\ upload[u].pc = "moved"
  /\ row' = [row EXCEPT ![u] = Result("UNSCANNED", "final")]
  /\ Go(u, "done")
  /\ UNCHANGED <<enabled, infected, objects, download, deletion, restarts, faults>>

\* With one: the row first.
CreatePending(u) ==
  /\ Arrived(u) /\ enabled
  /\ row' = [row EXCEPT ![u] = [status |-> "PENDING", quarantined |-> FALSE,
       key |-> IF u \in Direct THEN "final" ELSE "staging"]]
  /\ Go(u, "scanning")
  /\ UNCHANGED <<enabled, infected, objects, download, deletion, restarts, faults>>

ScanUpload(u) ==
  /\ upload[u].pc = "scanning"
  /\ \E v \in Verdict(u) :
       /\ u \notin Direct /\ ~Present(u, "staging") => v = "failed"
       /\ upload' = [upload EXCEPT ![u] = [pc |-> "storing", verdict |-> v]]
  /\ UNCHANGED <<enabled, infected, row, objects, download, deletion, restarts,
                 faults>>

\* finalizeUploadScan moves the file to where the verdict wants it.  A direct
\* upload whose scan failed is stored nowhere.
StoreUpload(u) ==
  LET status == StatusOf(upload[u].verdict)
      target == IF InUse(status) THEN "final" ELSE "held"
      old    == IF u \in Direct THEN "final" ELSE "staging"
      To(r)  == upload' = [upload EXCEPT ![u] = [pc |-> "writing", result |-> r]]
  IN /\ upload[u].pc = "storing"
     /\ IF status = "FAILED" /\ u \in Direct
        THEN To(Result("FAILED", old)) /\ UNCHANGED <<objects, faults>>
        ELSE \E s \in Stores(u, Source(u), target) :
               /\ Stored(u, s)
               /\ To(IF s.ok THEN Result(status, target) ELSE Result("FAILED", old))
     /\ UNCHANGED <<enabled, infected, row, download, deletion, restarts>>

\* The row is updated by id: a row deleted meanwhile is an error.
Update(u, result) ==
  row' = [row EXCEPT ![u] = IF @ = NoRow THEN NoRow ELSE result]

\* Mutant: an error of the storage is thrown before the row is written.
WriteStored(u) ==
  /\ upload[u].pc = "writing"
  /\ IF upload[u].result.status = "FAILED" THEN UNCHANGED row
     ELSE Update(u, upload[u].result)
  /\ Go(u, "done")
  /\ UNCHANGED <<enabled, infected, objects, download, deletion, restarts, faults>>

\* Mutant: the update forgets the new key.
WriteStatus(u) ==
  /\ upload[u].pc = "writing"
  /\ Update(u, [upload[u].result EXCEPT !.key =
                  IF row[u] = NoRow THEN @ ELSE row[u].key])
  /\ Go(u, "done")
  /\ UNCHANGED <<enabled, infected, objects, download, deletion, restarts, faults>>

WriteUpload(u) ==
  /\ upload[u].pc = "writing"
  /\ Update(u, upload[u].result)
  /\ Go(u, "done")
  /\ UNCHANGED <<enabled, infected, objects, download, deletion, restarts, faults>>

(***************************************************************************)
(* Downloads                                                                *)
(***************************************************************************)
\* ensureAttachmentDownloadAllowed, on the row as it is read.
Download(d, u) ==
  /\ download[d] = Idle /\ row[u] # NoRow
  /\ LET pc == CASE row[u].status = "INFECTED" \/ row[u].quarantined -> "done"
                 [] ~enabled \/ row[u].status = "CLEAN"           -> "serving"
                 [] row[u].status = "UNSCANNED" /\ OnDownload     -> "scanning"
                 [] OTHER                                         -> "done"
     IN download' = [download EXCEPT ![d] =
          [pc |-> pc, of |-> u, key |-> row[u].key]]
  /\ UNCHANGED <<enabled, infected, row, objects, upload, deletion, restarts,
                 faults>>

\* The file is read under the key read before; S3 answers that it is missing
\* with an error that ends the request.
ScanDownload(d) ==
  /\ download[d].pc = "scanning"
  /\ \E v \in Verdict(download[d].of) :
       /\ ~Present(download[d].of, download[d].key) => v = "failed"
       /\ download' = [download EXCEPT ![d] =
            IF Storage = "s3" /\ ~Present(@.of, @.key) THEN [@ EXCEPT !.pc = "done"]
            ELSE [pc |-> IF v = "infected" THEN "storing" ELSE "writing",
                  of |-> @.of, key |-> @.key, status |-> StatusOf(v)]]
  /\ UNCHANGED <<enabled, infected, row, objects, upload, deletion, restarts,
                 faults>>

\* An infected file is moved to quarantine; an error of the move is logged.
Quarantine(d) ==
  /\ download[d].pc = "storing"
  /\ \E s \in Stores(download[d].of, download[d].key, d) :
       /\ Stored(download[d].of, s)
       /\ download' = [download EXCEPT ![d] =
            [@ EXCEPT !.pc = "writing",
                      !.key = IF s.ok THEN d ELSE download[d].key]]
  /\ UNCHANGED <<enabled, infected, row, upload, deletion, restarts>>

\* The update writes the key only together with INFECTED.
WriteDownload(d) ==
  LET u == download[d].of
      r == Result(download[d].status, download[d].key)
      kept == [r EXCEPT !.key = row[u].key]
  IN /\ download[d].pc = "writing"
     /\ Update(u, IF r.status # "INFECTED" /\ row[u] # NoRow THEN kept ELSE r)
     /\ download' = [download EXCEPT ![d] =
          [@ EXCEPT !.pc = IF row[u] # NoRow /\ InUse(r.status) THEN "serving"
                           ELSE "done",
                    !.key = IF row[u] # NoRow THEN row'[u].key
                            ELSE download[d].key]]
     /\ UNCHANGED <<enabled, infected, objects, upload, deletion, restarts, faults>>

\* The file is sent, or found missing.
Serve(d) ==
  /\ download[d].pc = "serving"
  /\ download' = [download EXCEPT ![d] = [@ EXCEPT !.pc = "done"]]
  /\ UNCHANGED <<enabled, infected, row, objects, upload, deletion, restarts,
                 faults>>

(***************************************************************************)
(* Deletions and restarts                                                   *)
(***************************************************************************)
\* AttachmentsController.remove, and deleteAttachment of the cleanup processor.
ReadForDelete(x, u) ==
  /\ deletion[x] = Idle /\ row[u] # NoRow
  /\ deletion' = [deletion EXCEPT ![x] = [pc |-> "object", of |-> u,
                                          key |-> row[u].key]]
  /\ UNCHANGED <<enabled, infected, row, objects, upload, download, restarts,
                 faults>>

\* An error of the storage leaves the row.
DeleteObject(x) ==
  LET u == deletion[x].of
  IN /\ deletion[x].pc = "object"
     /\ \/ /\ objects' = [objects EXCEPT ![u] = @ \ {deletion[x].key}]
           /\ deletion' = [deletion EXCEPT ![x] = [@ EXCEPT !.pc = "row"]]
           /\ UNCHANGED faults
        \/ /\ faults < MaxFaults /\ faults' = faults + 1
           /\ deletion' = [deletion EXCEPT ![x] = [@ EXCEPT !.pc = "done"]]
           /\ UNCHANGED objects
     /\ UNCHANGED <<enabled, infected, row, upload, download, restarts>>

DeleteRow(x) ==
  /\ deletion[x].pc = "row"
  /\ row' = [row EXCEPT ![deletion[x].of] = NoRow]
  /\ deletion' = [deletion EXCEPT ![x] = [@ EXCEPT !.pc = "done"]]
  /\ UNCHANGED <<enabled, infected, objects, upload, download, restarts, faults>>

\* Requests end with the process; the scanner may be configured differently.
Restart ==
  /\ restarts < MaxRestarts /\ restarts' = restarts + 1
  /\ enabled' \in BOOLEAN
  /\ upload' = [u \in Uploads |->
       IF upload[u].pc \in {"idle", "put"} THEN upload[u]
       ELSE [upload[u] EXCEPT !.pc = "done"]]
  /\ download' = [d \in Downloads |-> IF download[d] = Idle THEN Idle
                                      ELSE [download[d] EXCEPT !.pc = "done"]]
  /\ deletion' = [x \in Deletions |-> IF deletion[x] = Idle THEN Idle
                                      ELSE [deletion[x] EXCEPT !.pc = "done"]]
  /\ UNCHANGED <<infected, row, objects, faults>>

Next ==
  \/ \E u \in Uploads :
       \/ Put(u) \/ StoreUnscanned(u) \/ CreateUnscanned(u) \/ CreatePending(u)
       \/ ScanUpload(u) \/ StoreUpload(u) \/ WriteUpload(u)
       \/ \E d \in Downloads : Download(d, u)
       \/ \E x \in Deletions : ReadForDelete(x, u)
  \/ \E d \in Downloads : ScanDownload(d) \/ Quarantine(d) \/ WriteDownload(d)
                          \/ Serve(d)
  \/ \E x \in Deletions : DeleteObject(x) \/ DeleteRow(x)
  \/ Restart

Spec == Init /\ [][Next]_vars

(***************************************************************************)
(* Properties                                                               *)
(***************************************************************************)
BeingDeleted(u) == \E x \in Deletions : deletion[x] # Idle /\ deletion[x].of = u

\* The two stores agree: a row whose file may be served names an object that
\* exists, unless a deletion took it first or it is on its way to quarantine.
RowHasObject ==
  \A u \in Uploads \ infected :
    row[u] # NoRow /\ InUse(row[u].status) =>
      Present(u, row[u].key) \/ BeingDeleted(u)

\* A scan is never forgotten: a PENDING row has the upload that will write its
\* verdict, unless the backend was restarted under it.
PendingHasUpload ==
  \A u \in Uploads :
    row[u] # NoRow /\ row[u].status = "PENDING" =>
      upload[u].pc \in {"scanning", "storing", "writing"} \/ restarts > 0

\* A file found infected is not taken back into use by another request that read
\* the row before (unless errors of the scanner are taken for clean files).
VerdictHolds ==
  \A u \in Uploads :
    row[u] # NoRow /\ row[u].status = "INFECTED" =>
      row'[u] = NoRow \/ ~InUse(row'[u].status) \/ FailOpen
VerdictStays == [][VerdictHolds]_vars

(***************************************************************************)
(* What they rest on                                                        *)
(***************************************************************************)
Statuses == {"CLEAN", "INFECTED", "UNSCANNED", "FAILED"}
Results == [status : Statuses, key : Keys, quarantined : BOOLEAN]

UploadState ==
  [pc : {"idle", "put", "moved", "scanning", "done"}]
    \cup [pc : {"storing", "done"}, verdict : Verdicts]
    \cup [pc : {"writing", "done"}, result : Results]
DownloadState ==
  {Idle}
    \cup [pc : {"scanning", "serving", "done"}, of : Uploads, key : Keys]
    \cup [pc : {"storing", "writing", "serving", "done"}, of : Uploads, key : Keys,
          status : Statuses]
DeletionState == {Idle} \cup [pc : {"object", "row", "done"}, of : Uploads, key : Keys]

Typed ==
  /\ enabled \in BOOLEAN /\ infected \subseteq Uploads
  /\ row \in [Uploads -> Rows]
  /\ objects \in [Uploads -> SUBSET Keys]
  /\ upload \in [Uploads -> UploadState]
  /\ download \in [Downloads -> DownloadState]
  /\ deletion \in [Deletions -> DeletionState]
  /\ restarts \in 0..MaxRestarts /\ faults \in 0..MaxFaults

\* Only the upload itself makes the row, once, and it stays PENDING until the upload
\* writes its verdict.
Stage(u) ==
  /\ upload[u].pc \in {"idle", "put", "moved"} => row[u] = NoRow
  /\ upload[u].pc \in {"scanning", "storing", "writing"} =>
       row[u] = NoRow \/ row[u].status = "PENDING"

\* A status a scan of u may have led to.
Proper(u, status) ==
  /\ status = "INFECTED" => u \in infected
  /\ u \in infected /\ InUse(status) => FailOpen

\* Verdicts fit their files, and a download judges only what no upload still writes.
Judged ==
  /\ \A u \in Uploads :
       /\ row[u] # NoRow /\ row[u].status = "INFECTED" => u \in infected
       /\ upload[u].pc = "storing" => upload[u].verdict \in Verdict(u)
       /\ upload[u].pc = "writing" => Proper(u, upload[u].result.status)
  /\ \A d \in Downloads :
       /\ download[d].pc \in {"scanning", "storing", "writing"} =>
            upload[download[d].of].pc = "done"
       /\ download[d].pc = "storing" => download[d].of \in infected
       /\ download[d].pc \in {"storing", "writing"} =>
            Proper(download[d].of, download[d].status)

\* The file is where the row of a clean file says.
Filed(u) == row[u] # NoRow /\ row[u].key = "final" /\ Present(u, "final")

\* A clean file is in its place before its row says so, and while a download judges it.
Placed(u) ==
  u \in infected \/ BeingDeleted(u) \/
  /\ upload[u].pc = "moved" => Present(u, "final")
  /\ upload[u].pc = "writing" /\ InUse(upload[u].result.status) =>
       upload[u].result.key = "final" /\ Present(u, "final")
  /\ row[u] # NoRow /\ InUse(row[u].status) => Filed(u)
  /\ \A d \in Downloads :
       download[d].pc \in {"scanning", "writing"} /\ download[d].of = u => Filed(u)

AttachmentsInv ==
  Typed /\ (\A u \in Uploads : Stage(u)) /\ PendingHasUpload /\ Judged
    /\ (\A u \in Uploads : Placed(u))
=============================================================================
