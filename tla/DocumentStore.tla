---------------------------- MODULE DocumentStore ----------------------------
(***************************************************************************)
(* The documents of one case: their rows, their extracted pages and their  *)
(* stored files, as upload, reprocess and delete change them                *)
(* (server/app/api/routes/documents.py, services/document_processing.py    *)
(* and services/storage.py).                                               *)
(*                                                                         *)
(* A request interleaves with the others at each await.  The database      *)
(* changes at its commits, the file system at once, and nothing ties the   *)
(* two together but the order of the steps and the except clauses.  A      *)
(* commit writes the columns that differ from what was LOADED.             *)
(*                                                                         *)
(* Audit events, the validation of a file's name and signature and the     *)
(* choice of the parser are left out.  Every extraction that yields pages  *)
(* is "processed" here, with one page; what a parser raises is known only  *)
(* by whether the code catches it.                                         *)
(***************************************************************************)
EXTENDS Naturals

CONSTANTS
    Requests,  \* the requests in flight at one time
    Ids,       \* the identifiers new_uuid draws
    Contents,  \* the contents a client uploads, told apart by their SHA-256
    Calls,     \* the routes the requests call
    Faults,    \* what goes wrong
    Provider   \* the storage provider: "local" or "supabase"

AllCalls  == {"upload", "metadata", "reprocess", "delete"}
\* A deadlock that the database ends is the failure of one of the commits.
AllFaults == {"crash", "commit_fails", "acknowledgement_lost"}

ASSUME IdsAssumption      == Ids # {} /\ Contents # {}
ASSUME CallsAssumption    == Calls \subseteq AllCalls
ASSUME FaultsAssumption   == Faults \subseteq AllFaults
ASSUME ProviderAssumption == Provider \in {"local", "supabase"}

VARIABLES
    row,      \* the documents rows
    pages,    \* the number of document_pages rows of each document
    file,     \* where the binary of each document is
    req,      \* what each request is doing
    deleted,  \* history: the documents a "document_deleted" event names
    raised,   \* history: the documents whose extraction has raised since its
              \* "processing" was committed
    faulted,  \* history: something in Faults happened
    raced     \* history: a request has processed a document that another
              \* one had changed since it read it

vars == <<row, pages, file, req, deleted, raised, faulted, raced>>

-----------------------------------------------------------------------------
(* Rows, files and requests.                                               *)

Results  == {"processed", "failed"}
Statuses == Results \cup {"none", "metadata_only", "uploaded", "processing"}

\* Status "none": there is no such row.
Row    == [content: Contents, key: BOOLEAN, status: Statuses,
           page_count: {0, 1}]
Absent == [content |-> CHOOSE c \in Contents : TRUE, key |-> FALSE,
           status |-> "none", page_count |-> 0]

Exists(d)   == row[d].status # "none"
HasPages(d) == pages[d] # 0

\* at: the last thing the request has done.  status and page_count are the
\* attributes of its record as loaded; doomed, its DELETE found page rows;
\* moved, its quarantine moved the file; stale (history), another request
\* has changed the document since.
Steps == {"idle", "staged", "finalized", "stored", "pages_deleted",
          "extracting", "extracted", "quarantined", "record_deleted"}

Request == [at: Steps, doc: Ids, content: Contents, status: Statuses,
            page_count: {0, 1}, doomed: BOOLEAN, moved: BOOLEAN,
            stale: BOOLEAN]
Idle    == [at |-> "idle", doc |-> CHOOSE d \in Ids : TRUE,
            content |-> CHOOSE c \in Contents : TRUE, status |-> "none",
            page_count |-> 0, doomed |-> FALSE, moved |-> FALSE,
            stale |-> FALSE]

\* Every row, file and request has its type.
TypeOK ==
    /\ row \in [Ids -> Row]
    /\ pages \in [Ids -> {0, 1}]
    /\ file \in [Ids -> {"none", "original", "quarantine"}]
    /\ req \in [Requests -> Request]
    /\ deleted \subseteq Ids
    /\ raised \subseteq Ids
    /\ faulted \in BOOLEAN
    /\ raced \in BOOLEAN

Init ==
    /\ row = [d \in Ids |-> Absent]
    /\ pages = [d \in Ids |-> 0]
    /\ file = [d \in Ids |-> "none"]
    /\ req = [r \in Requests |-> Idle]
    /\ deleted = {}
    /\ raised = {}
    /\ faulted = FALSE
    /\ raced = FALSE

\* r goes on to its next step; others that have read document d are behind.
Goes(r, next, d) ==
    req' = [q \in Requests |->
               IF q = r THEN next
               ELSE IF req[q].at # "idle" /\ req[q].doc = d
                    THEN [req[q] EXCEPT !.stale = TRUE]
                    ELSE req[q]]

\* r goes on, or ends, and has changed nothing that another request reads.
Alone(r, next) == req' = [req EXCEPT ![r] = next]

-----------------------------------------------------------------------------
(* Upload.                                                                 *)

\* An identifier of which nothing is left stands for one never drawn.
Fresh(d) == /\ ~Exists(d)
            /\ file[d] = "none"
            /\ \A r \in Requests : req[r].at # "idle" => req[r].doc # d

\* The first commit, of the audit event, and stage_upload.
StageUpload(r, d, c) ==
    /\ req[r].at = "idle" /\ "upload" \in Calls
    /\ Fresh(d)
    /\ deleted' = deleted \ {d}
    /\ Alone(r, [Idle EXCEPT !.at = "staged", !.doc = d, !.content = c])
    /\ UNCHANGED <<row, pages, file, raised, faulted, raced>>

\* The unique index uq_document_records_case_id_sha256, and the SELECT that
\* looks for a duplicate first.
NoUniqueIndex(c) == TRUE
ContentIsFree(c) == \A d \in Ids : Exists(d) => row[d].content # c

RefuseDuplicate(r) ==
    /\ req[r].at = "staged"
    /\ \E d \in Ids : Exists(d) /\ row[d].content = req[r].content
    /\ Alone(r, Idle)
    /\ UNCHANGED <<row, pages, file, deleted, raised, faulted, raced>>

Finalize(r) ==
    /\ req[r].at = "staged"
    /\ ~\E d \in Ids : Exists(d) /\ row[d].content = req[r].content
    /\ file' = [file EXCEPT ![req[r].doc] = "original"]
    /\ Alone(r, [req[r] EXCEPT !.at = "finalized"])
    /\ UNCHANGED <<row, pages, deleted, raised, faulted, raced>>

\* The INSERT and its commit.
Insert(d, c, key, status) ==
    row' = [row EXCEPT ![d] = [content |-> c, key |-> key, status |-> status,
                               page_count |-> 0]]

\* upload_document calls process_document once the row is stored.
ReturnAtOnce == "idle"
ThenProcess  == "stored"

CommitUpload(r) ==
    /\ req[r].at = "finalized"
    /\ ContentIsFree(req[r].content)
    /\ Insert(req[r].doc, req[r].content, TRUE, "uploaded")
    /\ Alone(r, [req[r] EXCEPT !.at = ThenProcess, !.status = "uploaded"])
    /\ UNCHANGED <<pages, file, deleted, raised, faulted, raced>>

\* except IntegrityError: rollback, delete_key.  That of the Supabase service
\* raises before it sends anything (httpx.delete takes no body).
LeaveFile(d)  == file[d]
DeleteKey(d)  == IF Provider = "local" THEN "none" ELSE file[d]

UploadCollides(r) ==
    /\ req[r].at = "finalized"
    /\ ~ContentIsFree(req[r].content)
    /\ file' = [file EXCEPT ![req[r].doc] = DeleteKey(req[r].doc)]
    /\ Alone(r, Idle)
    /\ UNCHANGED <<row, pages, deleted, raised, faulted, raced>>

\* except Exception: the commit raised.  It may have reached the database
\* all the same, when only its acknowledgement was lost.
UploadFails(r) ==
    /\ req[r].at = "finalized"
    /\ \/ "commit_fails" \in Faults /\ UNCHANGED row
       \/ /\ "acknowledgement_lost" \in Faults
          /\ ContentIsFree(req[r].content)
          /\ Insert(req[r].doc, req[r].content, TRUE, "uploaded")
    /\ file' = [file EXCEPT ![req[r].doc] = DeleteKey(req[r].doc)]
    /\ Alone(r, Idle)
    /\ faulted' = TRUE
    /\ UNCHANGED <<pages, deleted, raised, raced>>

\* create_document_metadata: a row without a binary.
CreateDocumentMetadata(d, c) ==
    /\ "metadata" \in Calls
    /\ Fresh(d)
    /\ ContentIsFree(c)
    /\ deleted' = deleted \ {d}
    /\ Insert(d, c, FALSE, "metadata_only")
    /\ UNCHANGED <<pages, file, req, raised, faulted, raced>>

-----------------------------------------------------------------------------
(* process_document, called by upload and by reprocess.                    *)

\* Only an attribute that differs from its loaded value is in the UPDATE.
Written(loaded, new, stored) == IF new = loaded THEN stored ELSE new

BinaryExists(d) == row[d].key /\ file[d] = "original"

Reprocess(r, d) ==
    /\ req[r].at = "idle" /\ "reprocess" \in Calls
    /\ Exists(d) /\ BinaryExists(d)
    /\ Alone(r, [Idle EXCEPT !.at = "stored", !.doc = d,
                             !.status = row[d].status,
                             !.page_count = row[d].page_count])
    /\ UNCHANGED <<row, pages, file, deleted, raised, faulted, raced>>

\* Page rows that a DELETE has found stay, locked, until its commit.
PagesLocked(d) == \E q \in Requests : /\ req[q].at = "pages_deleted"
                                      /\ req[q].doc = d
                                      /\ req[q].doomed

KeepPages(d) == FALSE
OldPages(d)  == HasPages(d)

DeletePages(r) ==
    LET d == req[r].doc IN
    /\ req[r].at = "stored"
    /\ file[d] = "original"    \* path_for_key
    /\ ~PagesLocked(d)
    /\ Alone(r, [req[r] EXCEPT !.at = "pages_deleted", !.doomed = OldPages(d)])
    /\ UNCHANGED <<row, pages, file, deleted, raised, faulted, raced>>

SourceIsGone(r) ==
    /\ req[r].at = "stored"
    /\ file[req[r].doc] # "original"
    /\ Alone(r, Idle)
    /\ UNCHANGED <<row, pages, file, deleted, raised, faulted, raced>>

\* The attributes of the record differ from those loaded: there is an UPDATE,
\* and it fails when the row is gone.
Dirty(r) == req[r].status # "processing" \/ req[r].page_count # 0

CommitProcessing(r) ==
    LET d == req[r].doc IN
    /\ req[r].at = "pages_deleted"
    /\ Dirty(r) => Exists(d)
    /\ row' = [row EXCEPT
                  ![d].status = Written(req[r].status, "processing", @),
                  ![d].page_count = Written(req[r].page_count, 0, @)]
    /\ pages' = IF req[r].doomed THEN [pages EXCEPT ![d] = 0] ELSE pages
    /\ Goes(r, [req[r] EXCEPT !.at = "extracting", !.status = "processing",
                              !.page_count = 0, !.doomed = FALSE], d)
    /\ raised' = raised \ {d}
    /\ raced' = (raced \/ req[r].stale)
    /\ UNCHANGED <<file, deleted, faulted>>

\* extract_document, in the thread pool: it reports what it cannot read ...
Extract(r) ==
    /\ req[r].at = "extracting"
    /\ \E result \in Results :
          /\ result = "processed" => file[req[r].doc] = "original"
          /\ Alone(r, [req[r] EXCEPT !.at = "extracted", !.status = result])
    /\ UNCHANGED <<row, pages, file, deleted, raised, faulted, raced>>

\* ... unless its parser raises what nothing on the way catches.  The request
\* ends, and the "processing" it has committed stays.
ExtractRaises(r) ==
    /\ req[r].at = "extracting"
    /\ raised' = raised \cup {req[r].doc}
    /\ Alone(r, Idle)
    /\ UNCHANGED <<row, pages, file, deleted, faulted, raced>>

NewPages(r) == IF req[r].status = "processed" THEN 1 ELSE 0

CommitPages(r) ==
    LET d == req[r].doc IN
    /\ req[r].at = "extracted"
    /\ Exists(d)
    /\ NewPages(r) # 0 => ~HasPages(d)    \* the unique index on page numbers
    /\ row' = [row EXCEPT ![d].status = req[r].status,
                           ![d].page_count = Written(0, NewPages(r), @)]
    /\ pages' = [pages EXCEPT ![d] = @ + NewPages(r)]
    /\ Goes(r, Idle, d)
    /\ raced' = (raced \/ req[r].stale)
    /\ UNCHANGED <<file, deleted, raised, faulted>>

\* An INSERT or an UPDATE of processing fails, the transaction is rolled back
\* and the request ends: the row is gone, or the pages are there already.
ProcessingFails(r) ==
    LET d == req[r].doc IN
    /\ \/ req[r].at = "pages_deleted" /\ Dirty(r) /\ ~Exists(d)
       \/ req[r].at = "extracted" /\ ~Exists(d)
       \/ /\ req[r].at = "extracted"
          /\ NewPages(r) # 0 /\ HasPages(d) /\ ~PagesLocked(d)
    /\ Alone(r, Idle)
    /\ UNCHANGED <<row, pages, file, deleted, raised, faulted, raced>>

-----------------------------------------------------------------------------
(* Delete.                                                                 *)

\* storage.quarantine moves a file below the local root.  The Supabase
\* service inherits it, and finds no such file.
Removed(d)      == IF Provider = "local" /\ BinaryExists(d) THEN "none"
                                                            ELSE file[d]
InQuarantine(d) == IF Provider = "local" /\ BinaryExists(d) THEN "quarantine"
                                                            ELSE file[d]

Quarantine(r, d) ==
    /\ req[r].at = "idle" /\ "delete" \in Calls
    /\ Exists(d)
    /\ file' = [file EXCEPT ![d] = InQuarantine(d)]
    /\ Goes(r, [Idle EXCEPT !.at = "quarantined", !.doc = d,
                            !.moved = InQuarantine(d) # file[d]], d)
    /\ UNCHANGED <<row, pages, deleted, raised, faulted, raced>>

\* The foreign key removes the pages with the row.  A row that another
\* request has deleted already makes SQLAlchemy warn, no more.
NoCascade(d) == pages[d]
CascadeTo(d) == 0

RowDeleted(d) ==
    /\ ~PagesLocked(d)
    /\ row' = [row EXCEPT ![d] = Absent]
    /\ pages' = [pages EXCEPT ![d] = CascadeTo(d)]
    /\ deleted' = deleted \cup {d}
    /\ raised' = raised \ {d}

CommitDelete(r) ==
    LET d == req[r].doc IN
    /\ req[r].at = "quarantined"
    /\ RowDeleted(d)
    /\ Goes(r, [req[r] EXCEPT !.at = "record_deleted"], d)
    /\ UNCHANGED <<file, faulted, raced>>

\* except Exception: the commit raised, and may have reached the database all
\* the same.  rollback, restore_quarantined.
DeleteFails(r) ==
    LET d == req[r].doc IN
    /\ req[r].at = "quarantined"
    /\ \/ "commit_fails" \in Faults /\ UNCHANGED <<row, pages, deleted, raised>>
       \/ "acknowledgement_lost" \in Faults /\ RowDeleted(d)
    /\ file' = IF req[r].moved THEN [file EXCEPT ![d] = "original"] ELSE file
    /\ Goes(r, Idle, d)
    /\ faulted' = TRUE
    /\ UNCHANGED raced

ToPurge(r) == req[r].moved

Purge(r) ==
    LET d == req[r].doc IN
    /\ req[r].at = "record_deleted"
    /\ file' = IF ToPurge(r) THEN [file EXCEPT ![d] = "none"] ELSE file
    /\ Alone(r, Idle)
    /\ UNCHANGED <<row, pages, deleted, raised, faulted, raced>>

-----------------------------------------------------------------------------
(* Faults of a request, and the specification.                             *)

\* The process of r dies: the rows it has not committed are as they were,
\* its locks are released, and no except clause runs.
Crash(r) ==
    /\ "crash" \in Faults
    /\ req[r].at # "idle"
    /\ Alone(r, Idle)
    /\ faulted' = TRUE
    /\ UNCHANGED <<row, pages, file, deleted, raised, raced>>

\* A commit of process_document raises, and nothing catches it.  One of which
\* only the acknowledgement is lost is the commit and then a crash.
ProcessingAborts(r) ==
    /\ "commit_fails" \in Faults
    /\ req[r].at \in {"pages_deleted", "extracted"}
    /\ Alone(r, Idle)
    /\ faulted' = TRUE
    /\ UNCHANGED <<row, pages, file, deleted, raised, raced>>

\* What a request that has begun does next, when nothing goes wrong.
Continues(r) ==
    \/ RefuseDuplicate(r)
    \/ Finalize(r)
    \/ CommitUpload(r)
    \/ UploadCollides(r)
    \/ DeletePages(r)
    \/ SourceIsGone(r)
    \/ CommitProcessing(r)
    \/ Extract(r)
    \/ ExtractRaises(r)
    \/ CommitPages(r)
    \/ ProcessingFails(r)
    \/ CommitDelete(r)
    \/ Purge(r)

Begins(r) ==
    \E d \in Ids :
        \/ \E c \in Contents : StageUpload(r, d, c)
        \/ Reprocess(r, d)
        \/ Quarantine(r, d)

GoesWrong(r) ==
    \/ UploadFails(r)
    \/ DeleteFails(r)
    \/ ProcessingAborts(r)
    \/ Crash(r)

Next ==
    \/ \E d \in Ids, c \in Contents : CreateDocumentMetadata(d, c)
    \/ \E r \in Requests : Begins(r) \/ Continues(r) \/ GoesWrong(r)

Spec == Init /\ [][Next]_vars

\* The event loop resumes every coroutine whose await has completed, and
\* each await of a handler completes when nothing goes wrong.
FairSpec == Spec /\ \A r \in Requests : WF_vars(Continues(r))

-----------------------------------------------------------------------------
(* Properties of every execution, faults included.                         *)

\* A case holds each content once, however many uploads of it pass the
\* duplicate check at one time (upload_document, create_document_metadata).
NoDuplicateContent ==
    \A d, e \in Ids :
        (Exists(d) /\ Exists(e) /\ row[d].content = row[e].content) => d = e

\* What a row says of its extraction is what is stored.
Truthful(d) ==
    row[d].status \in Results =>
        /\ row[d].page_count = pages[d]
        /\ row[d].status = "processed" <=> HasPages(d)

\* Whatever a crash or an overlapping request has left behind, a reprocess
\* that nobody disturbs repairs it (process_document).
Repaired(r, d) ==
    (/\ req[r].at = "extracted" /\ req[r].doc = d
     /\ ~req[r].stale
     /\ req'[r].at = "idle"
     /\ row'[d].status \in Results)
       => Truthful(d)'
ReprocessRepairs == [][\A r \in Requests, d \in Ids : Repaired(r, d)]_vars

\* Nothing takes away the binary of a document that is still listed: the worst
\* that a deletion which dies or fails leaves of it is a file in quarantine
\* (delete_document, upload_document's except clauses).
Kept(d)      == row[d].key /\ file[d] # "none" => file'[d] # "none"
BinariesKept == [][\A d \in Ids : Kept(d)]_vars

-----------------------------------------------------------------------------
(* Properties of the executions without a fault.                           *)

Deleting(d) == \E r \in Requests : /\ req[r].doc = d
                                    /\ req[r].moved
                                    /\ req[r].at # "idle"
Uploading(d) == \E r \in Requests : req[r].doc = d /\ req[r].at = "finalized"

\* The two stores agree: a file belongs to a row or to a request that is
\* about to store or to purge it, and a row that names a file has it, or is
\* about to be deleted (upload_document, delete_document).
StoresAgree ==
    (~faulted /\ Provider = "local") => \A d \in Ids :
        /\ file[d] = "original" => row[d].key \/ Uploading(d)
        /\ file[d] = "quarantine" => Deleting(d)
        /\ row[d].key => file[d] = "original" \/ Deleting(d)

\* "Document record, extracted pages, and stored binary deleted": nothing of
\* a deleted document is left once its file is purged, and no slow request
\* brings a part of it back (delete_document).
Gone(d) == ~Exists(d) /\ ~HasPages(d) /\ file[d] = "none"
DeletedIsGone ==
    (~faulted /\ Provider = "local") =>
        \A d \in deleted : Gone(d) \/ Deleting(d)

\* A document nobody is processing is described truthfully, as long as no
\* two requests have processed one document at a time: "processing" is then
\* left only by an extraction that raised (process_document).
Processing(d) == \E r \in Requests :
                    /\ req[r].doc = d
                    /\ req[r].at \in {"stored", "pages_deleted",
                                       "extracting", "extracted"}
TruthfulWhenSerial ==
    (~faulted /\ ~raced) => \A d \in Ids :
        ~Processing(d) => /\ Truthful(d)
                          /\ row[d].status = "processing" => d \in raised

\* Every upload that is stored is extracted in the end, or deleted, or its
\* extraction raises (upload_document, under FairSpec).
Pending(d)  == row[d].status \in {"uploaded", "processing"}
UploadsSettle == \A d \in Ids : Pending(d) ~> ~Pending(d) \/ d \in raised

-----------------------------------------------------------------------------
(* The inductive invariant (see DocumentStoreProofs).                      *)

\* A row that is not there names no file and has no pages, also when it is
\* that of a deleted document.
RowsGone ==
    /\ \A d \in Ids : ~Exists(d) => ~row[d].key /\ ~HasPages(d)
    /\ \A d \in deleted : ~Exists(d)

\* Nobody else knows the identifier of a document that is being uploaded.
UploadsAlone ==
    \A r \in Requests : req[r].at \in {"staged", "finalized"} =>
        /\ ~Exists(req[r].doc) /\ req[r].doc \notin deleted
        /\ ~req[r].stale /\ req[r].page_count = 0
        /\ \A q \in Requests \ {r} :
              req[q].at = "idle" \/ req[q].doc # req[r].doc

\* What the steps of a request leave in its record.
StepsOrdered ==
    \A r \in Requests :
        /\ req[r].at # "idle" /\ req[r].moved
             => req[r].at \in {"quarantined", "record_deleted"}
        /\ req[r].at = "record_deleted" => ~Exists(req[r].doc)
        /\ req[r].at = "extracted" => req[r].status \in Results

\* A request that is not stale has loaded what is stored.
LoadedIsStored ==
    \A r \in Requests : ~req[r].stale =>
        LET d == req[r].doc IN
        /\ req[r].at \in {"stored", "pages_deleted"} =>
              /\ Exists(d)
              /\ req[r].status = row[d].status
              /\ req[r].page_count = row[d].page_count
        /\ req[r].at = "pages_deleted" => (req[r].doomed <=> HasPages(d))
        /\ req[r].at \in {"extracting", "extracted"} =>
              row[d].status = "processing" /\ row[d].page_count = 0 /\ pages[d] = 0

\* Without a fault and a race, "processing" is the word of a request that
\* will replace it, or that an extraction which raised has left.
ProcessingIsTrue ==
    (~faulted /\ ~raced) => \A d \in Ids : Exists(d) =>
        /\ row[d].page_count = pages[d]
        /\ Truthful(d)
        /\ row[d].status = "processing" =>
              /\ pages[d] = 0
              /\ \/ d \in raised
                 \/ \E r \in Requests : /\ req[r].doc = d
                                        /\ req[r].at \in {"extracting", "extracted"}

\* Without a fault, where a file is follows from the requests.
FilesFollow ==
    (~faulted /\ Provider = "local") => \A r \in Requests :
        LET d == req[r].doc IN
        /\ req[r].at = "staged" => file[d] = "none"
        /\ req[r].at = "finalized" => file[d] = "original"
        /\ req[r].at = "quarantined" => file[d] # "original"
        /\ req[r].at # "idle" /\ req[r].moved =>
              /\ file[d] = "quarantine"
              /\ \A q \in Requests \ {r} :
                    req[q].at # "idle" /\ req[q].moved => req[q].doc # d

\* The invariant that every step keeps: together its parts say of each request
\* what it may still rely on, and of each stored thing who answers for it.
IInv == /\ TypeOK /\ NoDuplicateContent /\ RowsGone /\ UploadsAlone
        /\ StepsOrdered /\ LoadedIsStored /\ ProcessingIsTrue
        /\ FilesFollow /\ StoresAgree
=============================================================================
