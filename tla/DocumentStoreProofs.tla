------------------------- MODULE DocumentStoreProofs -------------------------
(***************************************************************************)
(* The safety of DocumentStore for any requests, identifiers and contents, *)
(* any choice of routes and any faults.                                    *)
(*                                                                         *)
(* A step that leaves rows, pages and files alone changes one request      *)
(* (QuietStep); every other step has a lemma of its own, with one step per *)
(* part of IInv.                                                           *)
(***************************************************************************)
EXTENDS DocumentStore, TLAPS

InUpload == {"staged", "finalized"}

\* The record of a request that is not in flight.
LEMMA IdleFact ==
    /\ Idle \in Request
    /\ Idle.at = "idle" /\ Idle.status = "none" /\ Idle.page_count = 0
    /\ ~Idle.doomed /\ ~Idle.moved /\ ~Idle.stale
  <1>1. (CHOOSE d \in Ids : TRUE) \in Ids /\ (CHOOSE c \in Contents : TRUE) \in Contents
    BY IdsAssumption
  <1> QED
    BY <1>1 DEF Idle, Request, Steps, Statuses

\* The row that is not there.
LEMMA AbsentFact ==
    /\ Absent \in Row
    /\ Absent.status = "none" /\ ~Absent.key /\ Absent.page_count = 0
  <1>1. (CHOOSE c \in Contents : TRUE) \in Contents
    BY IdsAssumption
  <1> QED
    BY <1>1 DEF Absent, Row, Statuses

\* Alone changes one request.
LEMMA AloneFact ==
    ASSUME TypeOK, NEW r \in Requests, NEW s \in Request, Alone(r, s)
    PROVE  /\ req' \in [Requests -> Request]
           /\ req'[r] = s
           /\ \A q \in Requests \ {r} : req'[q] = req[q]
  BY DEF TypeOK, Alone

\* Goes changes one request, and marks those that have read its document.
LEMMA GoesFact ==
    ASSUME TypeOK, NEW r \in Requests, NEW s \in Request, NEW d \in Ids,
           Goes(r, s, d)
    PROVE  /\ req' \in [Requests -> Request]
           /\ req'[r] = s
           /\ \A q \in Requests \ {r} :
                /\ req'[q].at = req[q].at /\ req'[q].doc = req[q].doc
                /\ req'[q].content = req[q].content
                /\ req'[q].status = req[q].status
                /\ req'[q].page_count = req[q].page_count
                /\ req'[q].doomed = req[q].doomed
                /\ req'[q].moved = req[q].moved
                /\ req[q].at # "idle" /\ req[q].doc = d => req'[q].stale
                /\ req[q].doc # d => req'[q].stale = req[q].stale
                /\ req[q].at = "idle" => req'[q].stale = req[q].stale
  <1>1. \A q \in Requests : req[q] \in Request
    BY DEF TypeOK
  <1>2. \A q \in Requests : [req[q] EXCEPT !.stale = TRUE] \in Request
    BY <1>1 DEF Request
  <1>3. \A q \in Requests \ {r} :
           req'[q] = IF req[q].at # "idle" /\ req[q].doc = d
                     THEN [req[q] EXCEPT !.stale = TRUE] ELSE req[q]
    BY DEF Goes
  <1>4. req' \in [Requests -> Request]
    BY <1>1, <1>2 DEF Goes
  <1>5. req'[r] = s
    BY DEF Goes
  <1>6. ASSUME NEW q \in Requests \ {r}
        PROVE  /\ req'[q].at = req[q].at /\ req'[q].doc = req[q].doc
               /\ req'[q].content = req[q].content
               /\ req'[q].status = req[q].status
               /\ req'[q].page_count = req[q].page_count
               /\ req'[q].doomed = req[q].doomed
               /\ req'[q].moved = req[q].moved
               /\ req[q].at # "idle" /\ req[q].doc = d => req'[q].stale
               /\ req[q].doc # d => req'[q].stale = req[q].stale
               /\ req[q].at = "idle" => req'[q].stale = req[q].stale
    BY <1>1, <1>3, <1>6 DEF Request
  <1> QED
    BY <1>4, <1>5, <1>6

\* In the first state nothing is stored and nobody asks for anything.
LEMMA InitIInv == Init => IInv
  <1> SUFFICES ASSUME Init PROVE IInv
    OBVIOUS
  <1>1. TypeOK
    BY IdleFact, AbsentFact DEF Init, TypeOK
  <1>2. /\ \A r \in Requests : req[r].at = "idle" /\ ~req[r].moved
        /\ \A d \in Ids : ~Exists(d) /\ ~row[d].key /\ pages[d] = 0 /\ file[d] = "none"
        /\ deleted = {}
    BY IdleFact, AbsentFact DEF Init, Exists
  <1>3. NoDuplicateContent /\ RowsGone /\ UploadsAlone
    BY <1>2 DEF NoDuplicateContent, RowsGone, UploadsAlone, HasPages
  <1>4. StepsOrdered /\ LoadedIsStored /\ ProcessingIsTrue
    BY <1>2 DEF StepsOrdered, LoadedIsStored, ProcessingIsTrue
  <1>5. FilesFollow /\ StoresAgree
    BY <1>2 DEF FilesFollow, StoresAgree
  <1> QED
    BY <1>1, <1>3, <1>4, <1>5 DEF IInv

-----------------------------------------------------------------------------
(* Steps of one request.                                                   *)

\* A request goes on without changing a row, a page or a file: what it then
\* claims to have loaded is stored, and it neither leaves a file behind nor a
\* document in "processing", unless something has gone wrong.
LEMMA QuietStep ==
    ASSUME IInv, NEW r \in Requests, NEW s \in Request, Alone(r, s),
           UNCHANGED <<row, pages, file, deleted, raced>>,
           raised' \subseteq Ids, raised \subseteq raised',
           faulted' \in BOOLEAN, faulted => faulted',
           s.at \in {"idle", "stored", "pages_deleted", "extracted"}, ~s.moved,
           s.at # "idle" => \/ Exists(s.doc)
                            \/ req[r].at # "idle" /\ s.doc = req[r].doc,
           s.at = "extracted" => s.status \in Results,
           s.at # "idle" /\ ~s.stale =>
              LET d == s.doc IN
              /\ s.at \in {"stored", "pages_deleted"} =>
                    /\ Exists(d)
                    /\ s.status = row[d].status
                    /\ s.page_count = row[d].page_count
              /\ s.at = "pages_deleted" => (s.doomed <=> HasPages(d))
              /\ s.at = "extracted" =>
                    /\ row[d].status = "processing"
                    /\ row[d].page_count = 0 /\ pages[d] = 0,
           ~faulted' =>
              /\ req[r].at # "finalized"
              /\ req[r].at # "idle" => ~req[r].moved
              /\ req[r].at \in {"extracting", "extracted"} =>
                    \/ s.at = "extracted" /\ s.doc = req[r].doc
                    \/ row[req[r].doc].status # "processing"
                    \/ req[r].doc \in raised'
                    \/ raced
    PROVE  IInv'
  <1>0. /\ TypeOK /\ NoDuplicateContent /\ RowsGone /\ UploadsAlone
        /\ StepsOrdered /\ LoadedIsStored /\ ProcessingIsTrue
        /\ FilesFollow /\ StoresAgree
    BY DEF IInv
  <1>1. /\ req' \in [Requests -> Request]
        /\ req'[r] = s
        /\ \A q \in Requests \ {r} : req'[q] = req[q]
    BY <1>0, AloneFact
  <1>2. /\ row' = row /\ pages' = pages /\ file' = file /\ deleted' = deleted
        /\ raced' = raced
    OBVIOUS
  <1>3. TypeOK'
    BY <1>0, <1>1 DEF TypeOK
  <1>4. NoDuplicateContent' /\ RowsGone'
    BY <1>0, <1>2 DEF NoDuplicateContent, RowsGone, Exists, HasPages
  <1>5. UploadsAlone'
    BY <1>0, <1>1, <1>2 DEF UploadsAlone, Exists
  <1>6. StepsOrdered'
    BY <1>0, <1>1, <1>2 DEF StepsOrdered, Exists
  <1>7. LoadedIsStored'
    BY <1>0, <1>1, <1>2 DEF LoadedIsStored, Exists, HasPages
  <1>8. ProcessingIsTrue'
    <2> SUFFICES ASSUME ~faulted', ~raced, NEW d \in Ids, Exists(d)
                 PROVE  /\ row[d].page_count = pages[d]
                        /\ Truthful(d)
                        /\ row[d].status = "processing" =>
                             /\ pages[d] = 0
                             /\ \/ d \in raised'
                                \/ \E q \in Requests :
                                     /\ req'[q].doc = d
                                     /\ req'[q].at \in {"extracting", "extracted"}
      BY <1>2 DEF ProcessingIsTrue, Exists, Truthful, HasPages
    <2>1. /\ row[d].page_count = pages[d]
          /\ Truthful(d)
          /\ row[d].status = "processing" =>
               /\ pages[d] = 0
               /\ \/ d \in raised
                  \/ \E q \in Requests : /\ req[q].doc = d
                                         /\ req[q].at \in {"extracting", "extracted"}
      BY <1>0 DEF ProcessingIsTrue
    <2> QED
      BY <2>1, <1>1
  <1>9. FilesFollow'
    BY <1>0, <1>1, <1>2 DEF FilesFollow
  <1>10. StoresAgree'
    <2> SUFFICES ASSUME ~faulted', Provider = "local", NEW d \in Ids
                 PROVE  /\ file[d] = "original" => row[d].key \/ Uploading(d)'
                        /\ file[d] = "quarantine" => Deleting(d)'
                        /\ row[d].key => file[d] = "original" \/ Deleting(d)'
      BY <1>2 DEF StoresAgree
    <2>1. Uploading(d) => Uploading(d)'
      BY <1>1 DEF Uploading
    <2>2. Deleting(d) => Deleting(d)'
      BY <1>1 DEF Deleting
    <2> QED
      BY <1>0, <2>1, <2>2 DEF StoresAgree
  <1> QED
    BY <1>3, <1>4, <1>5, <1>6, <1>7, <1>8, <1>9, <1>10 DEF IInv

LEMMA StutterKeeps == ASSUME IInv, UNCHANGED vars PROVE IInv'
  <1>1. /\ row' = row /\ pages' = pages /\ file' = file /\ req' = req
        /\ deleted' = deleted /\ raised' = raised /\ faulted' = faulted
        /\ raced' = raced
    BY DEF vars
  <1> QED
    BY <1>1 DEF IInv, TypeOK, NoDuplicateContent, RowsGone, UploadsAlone,
                StepsOrdered, LoadedIsStored, ProcessingIsTrue, FilesFollow,
                StoresAgree, Exists, HasPages, Truthful, Uploading, Deleting

\* The identifier of the upload is new: nobody is at work on it.
LEMMA StageUploadKeeps ==
    ASSUME IInv, NEW r \in Requests, NEW d \in Ids, NEW c \in Contents,
           StageUpload(r, d, c)
    PROVE  IInv'
  <1> DEFINE s == [Idle EXCEPT !.at = "staged", !.doc = d, !.content = c]
  <1>0. /\ TypeOK /\ NoDuplicateContent /\ RowsGone /\ UploadsAlone
        /\ StepsOrdered /\ LoadedIsStored /\ ProcessingIsTrue
        /\ FilesFollow /\ StoresAgree
    BY DEF IInv
  <1>1. /\ s \in Request
        /\ s.at = "staged" /\ s.doc = d /\ ~s.moved /\ ~s.stale /\ s.page_count = 0
    BY IdleFact DEF Request, Steps
  <1>2. /\ req[r].at = "idle" /\ Fresh(d) /\ deleted' = deleted \ {d}
        /\ Alone(r, s)
        /\ row' = row /\ pages' = pages /\ file' = file
        /\ raised' = raised /\ faulted' = faulted /\ raced' = raced
    BY DEF StageUpload
  <1> HIDE DEF s
  <1>3. /\ req' \in [Requests -> Request]
        /\ req'[r] = s
        /\ \A q \in Requests \ {r} : req'[q] = req[q]
    BY <1>0, <1>1, <1>2, AloneFact
  <1>4. TypeOK'
    BY <1>0, <1>2, <1>3 DEF TypeOK
  <1>5. NoDuplicateContent' /\ RowsGone'
    BY <1>0, <1>2 DEF NoDuplicateContent, RowsGone, Exists, HasPages
  <1>6. UploadsAlone'
    BY <1>0, <1>1, <1>2, <1>3 DEF UploadsAlone, Exists, Fresh
  <1>7. StepsOrdered' /\ LoadedIsStored'
    BY <1>0, <1>1, <1>2, <1>3
    DEF StepsOrdered, LoadedIsStored, Exists, HasPages
  <1>8. ProcessingIsTrue'
    BY <1>0, <1>1, <1>2, <1>3
    DEF ProcessingIsTrue, Exists, HasPages, Truthful
  <1>9. FilesFollow'
    BY <1>0, <1>1, <1>2, <1>3 DEF FilesFollow, Fresh
  <1>10. StoresAgree'
    BY <1>0, <1>1, <1>2, <1>3 DEF StoresAgree, Uploading, Deleting
  <1> QED
    BY <1>4, <1>5, <1>6, <1>7, <1>8, <1>9, <1>10 DEF IInv

LEMMA FinalizeKeeps ==
    ASSUME IInv, NEW r \in Requests, Finalize(r) PROVE IInv'
  <1> DEFINE s == [req[r] EXCEPT !.at = "finalized"]
             d == req[r].doc
  <1>0. /\ TypeOK /\ NoDuplicateContent /\ RowsGone /\ UploadsAlone
        /\ StepsOrdered /\ LoadedIsStored /\ ProcessingIsTrue
        /\ FilesFollow /\ StoresAgree
    BY DEF IInv
  <1>1. /\ s \in Request /\ d \in Ids
        /\ s.at = "finalized" /\ s.doc = d /\ s.moved = req[r].moved
        /\ s.stale = req[r].stale /\ s.page_count = req[r].page_count
    BY <1>0 DEF TypeOK, Request, Steps
  <1>2. /\ req[r].at = "staged" /\ Alone(r, s)
        /\ file' = [file EXCEPT ![d] = "original"]
        /\ row' = row /\ pages' = pages /\ deleted' = deleted
        /\ raised' = raised /\ faulted' = faulted /\ raced' = raced
    BY DEF Finalize
  <1> HIDE DEF s, d
  <1>3. /\ req' \in [Requests -> Request]
        /\ req'[r] = s
        /\ \A q \in Requests \ {r} : req'[q] = req[q]
    BY <1>0, <1>1, <1>2, AloneFact
  <1>4. /\ file'[d] = "original"
        /\ \A e \in Ids \ {d} : file'[e] = file[e]
        /\ TypeOK'
    BY <1>0, <1>1, <1>2, <1>3 DEF TypeOK
  <1>5. /\ \A q \in Requests \ {r} : req[q].at = "idle" \/ req[q].doc # d
        /\ ~Exists(d) /\ ~req[r].stale /\ d \notin deleted
        /\ req[r].page_count = 0 /\ ~req[r].moved
    BY <1>0, <1>2 DEF UploadsAlone, StepsOrdered, d
  <1>6. NoDuplicateContent' /\ RowsGone'
    BY <1>0, <1>2 DEF NoDuplicateContent, RowsGone, Exists, HasPages
  <1>7. UploadsAlone'
    BY <1>0, <1>1, <1>2, <1>3, <1>5 DEF UploadsAlone, Exists
  <1>8. StepsOrdered' /\ LoadedIsStored'
    BY <1>0, <1>1, <1>2, <1>3, <1>5
    DEF StepsOrdered, LoadedIsStored, Exists, HasPages
  <1>9. ProcessingIsTrue'
    BY <1>0, <1>1, <1>2, <1>3
    DEF ProcessingIsTrue, Exists, HasPages, Truthful
  <1>10. FilesFollow'
    BY <1>0, <1>1, <1>2, <1>3, <1>4, <1>5 DEF FilesFollow, TypeOK, Request
  <1>11. StoresAgree'
    BY <1>0, <1>1, <1>2, <1>3, <1>4, <1>5
    DEF StoresAgree, Uploading, Deleting, RowsGone
  <1> QED
    BY <1>4, <1>6, <1>7, <1>8, <1>9, <1>10, <1>11 DEF IInv

\* A row is inserted for content that no other row has.
LEMMA InsertFact ==
    ASSUME IInv, NEW d \in Ids, NEW c \in Contents, NEW key \in BOOLEAN,
           NEW status \in {"uploaded", "metadata_only"},
           ~Exists(d), ContentIsFree(c), Insert(d, c, key, status)
    PROVE  /\ row' \in [Ids -> Row]
           /\ row'[d].status = status /\ row'[d].key = key
           /\ row'[d].page_count = 0 /\ pages[d] = 0
           /\ \A e \in Ids \ {d} : row'[e] = row[e]
           /\ NoDuplicateContent'
  <1> DEFINE new == [content |-> c, key |-> key, status |-> status,
                     page_count |-> 0]
  <1>1. /\ new \in Row /\ new.content = c /\ new.key = key
        /\ new.status = status /\ new.page_count = 0
    BY DEF Row, Statuses
  <1>2. row' = [row EXCEPT ![d] = new] /\ row \in [Ids -> Row]
    BY DEF Insert, IInv, TypeOK
  <1> HIDE DEF new
  <1>3. /\ row' \in [Ids -> Row] /\ row'[d] = new
        /\ \A e \in Ids \ {d} : row'[e] = row[e]
    BY <1>1, <1>2
  <1>4. pages[d] = 0
    BY DEF IInv, RowsGone, HasPages
  <1>5. NoDuplicateContent'
    BY <1>1, <1>3 DEF NoDuplicateContent, Exists, ContentIsFree, IInv
  <1> QED
    BY <1>1, <1>3, <1>4, <1>5

LEMMA CommitUploadKeeps ==
    ASSUME IInv, NEW r \in Requests, CommitUpload(r) PROVE IInv'
  <1> DEFINE s == [req[r] EXCEPT !.at = "stored", !.status = "uploaded"]
             d == req[r].doc
  <1>0. /\ TypeOK /\ NoDuplicateContent /\ RowsGone /\ UploadsAlone
        /\ StepsOrdered /\ LoadedIsStored /\ ProcessingIsTrue
        /\ FilesFollow /\ StoresAgree
    BY DEF IInv
  <1>1. /\ s \in Request /\ d \in Ids /\ req[r].content \in Contents
        /\ s.at = "stored" /\ s.doc = d /\ s.moved = req[r].moved
        /\ s.stale = req[r].stale /\ s.page_count = req[r].page_count
        /\ s.status = "uploaded"
    BY <1>0 DEF TypeOK, Request, Steps, Statuses
  <1>2. /\ req[r].at = "finalized" /\ Alone(r, s)
        /\ ContentIsFree(req[r].content)
        /\ Insert(d, req[r].content, TRUE, "uploaded")
        /\ pages' = pages /\ file' = file /\ deleted' = deleted
        /\ raised' = raised /\ faulted' = faulted /\ raced' = raced
    BY DEF CommitUpload, ThenProcess
  <1>3. /\ \A q \in Requests \ {r} : req[q].at = "idle" \/ req[q].doc # d
        /\ ~Exists(d) /\ ~req[r].stale /\ d \notin deleted
        /\ req[r].page_count = 0 /\ ~req[r].moved
    BY <1>0, <1>2 DEF UploadsAlone, StepsOrdered
  <1> HIDE DEF s, d
  <1>4. /\ req' \in [Requests -> Request]
        /\ req'[r] = s
        /\ \A q \in Requests \ {r} : req'[q] = req[q]
    BY <1>0, <1>1, <1>2, AloneFact
  <1>5. /\ row' \in [Ids -> Row]
        /\ row'[d].status = "uploaded" /\ row'[d].key = TRUE
        /\ row'[d].page_count = 0 /\ pages[d] = 0
        /\ \A e \in Ids \ {d} : row'[e] = row[e]
        /\ NoDuplicateContent'
    BY <1>1, <1>2, <1>3, InsertFact
  <1>6. TypeOK'
    BY <1>0, <1>2, <1>4, <1>5 DEF TypeOK
  <1>7. RowsGone'
    BY <1>0, <1>2, <1>3, <1>5 DEF RowsGone, Exists, HasPages, TypeOK
  <1>8. UploadsAlone'
    BY <1>0, <1>1, <1>2, <1>3, <1>4, <1>5
    DEF UploadsAlone, Exists, TypeOK, Request
  <1>9. StepsOrdered'
    BY <1>0, <1>1, <1>2, <1>3, <1>4, <1>5
    DEF StepsOrdered, Exists, TypeOK, Request
  <1>10. LoadedIsStored'
    BY <1>0, <1>1, <1>2, <1>3, <1>4, <1>5
    DEF LoadedIsStored, Exists, HasPages, TypeOK, Request
  <1>11. ProcessingIsTrue'
    BY <1>0, <1>1, <1>2, <1>3, <1>4, <1>5
    DEF ProcessingIsTrue, Exists, HasPages, Truthful, Results, TypeOK, Request
  <1>12. FilesFollow'
    BY <1>0, <1>1, <1>2, <1>3, <1>4 DEF FilesFollow
  <1>13. StoresAgree'
    BY <1>0, <1>1, <1>2, <1>3, <1>4, <1>5
    DEF StoresAgree, FilesFollow, Uploading, Deleting, d
  <1> QED
    BY <1>5, <1>6, <1>7, <1>8, <1>9, <1>10, <1>11, <1>12, <1>13 DEF IInv

LEMMA CreateDocumentMetadataKeeps ==
    ASSUME IInv, NEW d \in Ids, NEW c \in Contents,
           CreateDocumentMetadata(d, c)
    PROVE  IInv'
  <1>0. /\ TypeOK /\ NoDuplicateContent /\ RowsGone /\ UploadsAlone
        /\ StepsOrdered /\ LoadedIsStored /\ ProcessingIsTrue
        /\ FilesFollow /\ StoresAgree
    BY DEF IInv
  <1>1. /\ Fresh(d) /\ ContentIsFree(c)
        /\ Insert(d, c, FALSE, "metadata_only")
        /\ deleted' = deleted \ {d}
        /\ req' = req /\ pages' = pages /\ file' = file
        /\ raised' = raised /\ faulted' = faulted /\ raced' = raced
    BY DEF CreateDocumentMetadata
  <1>2. /\ ~Exists(d) /\ file[d] = "none"
        /\ \A q \in Requests : req[q].at = "idle" \/ req[q].doc # d
    BY <1>1 DEF Fresh
  <1>3. /\ row' \in [Ids -> Row]
        /\ row'[d].status = "metadata_only" /\ row'[d].key = FALSE
        /\ row'[d].page_count = 0 /\ pages[d] = 0
        /\ \A e \in Ids \ {d} : row'[e] = row[e]
        /\ NoDuplicateContent'
    BY <1>1, <1>2, InsertFact
  <1>4. TypeOK'
    BY <1>0, <1>1, <1>3 DEF TypeOK
  <1>5. RowsGone'
    BY <1>0, <1>1, <1>3 DEF RowsGone, Exists, HasPages, TypeOK
  <1>6. UploadsAlone' /\ StepsOrdered'
    BY <1>0, <1>1, <1>2, <1>3
    DEF UploadsAlone, StepsOrdered, Exists, TypeOK, Request
  <1>7. LoadedIsStored'
    BY <1>0, <1>1, <1>2, <1>3
    DEF LoadedIsStored, Exists, HasPages, TypeOK, Request
  <1>8. ProcessingIsTrue'
    BY <1>0, <1>1, <1>2, <1>3
    DEF ProcessingIsTrue, Exists, HasPages, Truthful, Results, TypeOK, Request
  <1>9. FilesFollow' /\ StoresAgree'
    BY <1>0, <1>1, <1>2, <1>3
    DEF FilesFollow, StoresAgree, Uploading, Deleting
  <1> QED
    BY <1>3, <1>4, <1>5, <1>6, <1>7, <1>8, <1>9 DEF IInv

LEMMA UploadCollidesKeeps ==
    ASSUME IInv, NEW r \in Requests, UploadCollides(r) PROVE IInv'
  <1> DEFINE d == req[r].doc
  <1>0. /\ TypeOK /\ NoDuplicateContent /\ RowsGone /\ UploadsAlone
        /\ StepsOrdered /\ LoadedIsStored /\ ProcessingIsTrue
        /\ FilesFollow /\ StoresAgree
    BY DEF IInv
  <1>1. /\ req[r].at = "finalized" /\ Alone(r, Idle)
        /\ file' = [file EXCEPT ![d] = DeleteKey(d)]
        /\ Provider = "local" => DeleteKey(d) = "none"
        /\ Provider # "local" => DeleteKey(d) = file[d]
        /\ row' = row /\ pages' = pages /\ deleted' = deleted
        /\ raised' = raised /\ faulted' = faulted /\ raced' = raced
    BY Zenon DEF UploadCollides, DeleteKey
  <1>2. /\ \A q \in Requests \ {r} : req[q].at = "idle" \/ req[q].doc # d
        /\ ~Exists(d) /\ d \in Ids
    BY <1>0, <1>1 DEF UploadsAlone, TypeOK, Request
  <1>3. /\ req' \in [Requests -> Request]
        /\ req'[r] = Idle
        /\ \A q \in Requests \ {r} : req'[q] = req[q]
    BY <1>0, <1>1, IdleFact, AloneFact
  <1>4. /\ Provider = "local" => file'[d] = "none"
        /\ \A e \in Ids \ {d} : file'[e] = file[e]
        /\ TypeOK'
    BY <1>0, <1>1, <1>2, <1>3 DEF TypeOK
  <1>5. NoDuplicateContent' /\ RowsGone'
    BY <1>0, <1>1 DEF NoDuplicateContent, RowsGone, Exists, HasPages
  <1>6. UploadsAlone' /\ StepsOrdered' /\ LoadedIsStored'
    BY <1>0, <1>1, <1>3, IdleFact
    DEF UploadsAlone, StepsOrdered, LoadedIsStored, Exists, HasPages
  <1>7. ProcessingIsTrue'
    BY <1>0, <1>1, <1>3, IdleFact
    DEF ProcessingIsTrue, Exists, HasPages, Truthful
  <1> HIDE DEF d
  <1>8. FilesFollow'
    BY <1>0, <1>1, <1>2, <1>3, <1>4, IdleFact DEF FilesFollow, TypeOK, Request
  <1>9. StoresAgree'
    BY <1>0, <1>1, <1>2, <1>3, <1>4, IdleFact
    DEF StoresAgree, Uploading, Deleting, RowsGone, d
  <1> QED
    BY <1>4, <1>5, <1>6, <1>7, <1>8, <1>9 DEF IInv

\* A commit that fails, or seems to: the row may be there, the file is not.
LEMMA UploadFailsKeeps ==
    ASSUME IInv, NEW r \in Requests, UploadFails(r) PROVE IInv'
  <1> DEFINE d == req[r].doc
  <1>0. /\ TypeOK /\ NoDuplicateContent /\ RowsGone /\ UploadsAlone
        /\ StepsOrdered /\ LoadedIsStored /\ ProcessingIsTrue
        /\ FilesFollow /\ StoresAgree
    BY DEF IInv
  <1>1. /\ req[r].at = "finalized" /\ Alone(r, Idle)
        /\ file' = [file EXCEPT ![d] = DeleteKey(d)]
        /\ Provider = "local" => DeleteKey(d) = "none"
        /\ Provider # "local" => DeleteKey(d) = file[d]
        /\ pages' = pages /\ deleted' = deleted
        /\ raised' = raised /\ faulted' = TRUE /\ raced' = raced
    BY Zenon DEF UploadFails, DeleteKey
  <1>2. /\ \A q \in Requests \ {r} : req[q].at = "idle" \/ req[q].doc # d
        /\ ~Exists(d) /\ d \in Ids /\ req[r].content \in Contents
        /\ d \notin deleted
    BY <1>0, <1>1 DEF UploadsAlone, TypeOK, Request
  <1>3. /\ req' \in [Requests -> Request]
        /\ req'[r] = Idle
        /\ \A q \in Requests \ {r} : req'[q] = req[q]
    BY <1>0, <1>1, IdleFact, AloneFact
  <1>4. file' \in [Ids -> {"none", "original", "quarantine"}]
    BY <1>0, <1>1 DEF TypeOK
  <1>5. /\ row' \in [Ids -> Row]
        /\ row'[d] = row[d] \/ row'[d].status = "uploaded"
        /\ \A e \in Ids \ {d} : row'[e] = row[e]
        /\ NoDuplicateContent'
    <2>1. CASE row' = row
      BY <1>0, <2>1 DEF TypeOK, NoDuplicateContent, Exists
    <2>2. CASE /\ ContentIsFree(req[r].content)
               /\ Insert(d, req[r].content, TRUE, "uploaded")
      BY <1>2, <2>2, InsertFact
    <2> QED
      BY <2>1, <2>2 DEF UploadFails
  <1> HIDE DEF d
  <1>6. TypeOK'
    BY <1>0, <1>1, <1>3, <1>4, <1>5 DEF TypeOK
  <1>7. RowsGone'
    BY <1>0, <1>1, <1>2, <1>5 DEF RowsGone, Exists, HasPages, TypeOK
  <1>8. UploadsAlone' /\ StepsOrdered'
    BY <1>0, <1>1, <1>2, <1>3, <1>5, IdleFact
    DEF UploadsAlone, StepsOrdered, Exists, TypeOK, Request
  <1>9. LoadedIsStored'
    BY <1>0, <1>1, <1>2, <1>3, <1>5, IdleFact
    DEF LoadedIsStored, Exists, HasPages, TypeOK, Request
  <1>10. ProcessingIsTrue' /\ FilesFollow' /\ StoresAgree'
    BY <1>1 DEF ProcessingIsTrue, FilesFollow, StoresAgree
  <1> QED
    BY <1>5, <1>6, <1>7, <1>8, <1>9, <1>10 DEF IInv

-----------------------------------------------------------------------------
(* Processing.                                                             *)

\* A request that ends with nothing of its own left behind.
LEMMA EndKeeps ==
    ASSUME IInv, NEW r \in Requests, Alone(r, Idle),
           UNCHANGED <<row, pages, file, deleted, raised, raced>>,
           faulted' \in BOOLEAN, faulted => faulted',
           ~faulted' =>
              /\ req[r].at # "finalized"
              /\ req[r].at # "idle" => ~req[r].moved
              /\ req[r].at \in {"extracting", "extracted"} =>
                    row[req[r].doc].status # "processing" \/ raced
    PROVE  IInv'
  <1>1. raised \subseteq Ids
    BY DEF IInv, TypeOK
  <1> QED
    BY <1>1, IdleFact, QuietStep

LEMMA EndsKeep ==
    ASSUME IInv, NEW r \in Requests,
           \/ RefuseDuplicate(r) \/ SourceIsGone(r)
           \/ Crash(r) \/ ProcessingAborts(r)
    PROVE  IInv'
  <1>1. /\ Alone(r, Idle) /\ UNCHANGED <<row, pages, file, deleted, raised, raced>>
        /\ \/ req[r].at \in {"staged", "stored"} /\ faulted' = faulted
           \/ faulted' = TRUE
    BY DEF RefuseDuplicate, SourceIsGone, Crash, ProcessingAborts
  <1>2. /\ faulted' \in BOOLEAN /\ (faulted => faulted')
    <2>1. faulted \in BOOLEAN
      BY DEF IInv, TypeOK
    <2>2. faulted' = faulted \/ faulted' = TRUE
      BY <1>1
    <2> QED
      BY <2>1, <2>2
  <1>3. req[r].at \in {"staged", "stored"} => ~req[r].moved
    BY DEF IInv, StepsOrdered
  <1> QED
    BY <1>1, <1>2, <1>3, EndKeeps

LEMMA ProcessingFailsKeeps ==
    ASSUME IInv, NEW r \in Requests, ProcessingFails(r) PROVE IInv'
  <1> DEFINE d == req[r].doc
  <1>1. /\ Alone(r, Idle) /\ UNCHANGED <<row, pages, file, deleted, raised, raced>>
        /\ faulted' = faulted
        /\ \/ req[r].at = "pages_deleted"
           \/ req[r].at = "extracted" /\ (~Exists(d) \/ HasPages(d))
    BY DEF ProcessingFails
  <1>2. d \in Ids
    BY DEF IInv, TypeOK, Request
  <1>5. faulted \in BOOLEAN
    BY DEF IInv, TypeOK
  <1>3. req[r].at # "finalized" /\ (req[r].at # "idle" => ~req[r].moved)
    BY <1>1 DEF IInv, StepsOrdered
  <1>4. ASSUME ~faulted, ~raced, req[r].at = "extracted"
        PROVE  row[d].status # "processing"
    <2>1. ~Exists(d) \/ HasPages(d)
      BY <1>1, <1>4
    <2>2. Exists(d) /\ row[d].status = "processing" => pages[d] = 0
      BY <1>2, <1>4 DEF IInv, ProcessingIsTrue
    <2> QED
      BY <2>1, <2>2 DEF Exists, HasPages
  <1> QED
    BY <1>1, <1>5, <1>3, <1>4, EndKeeps

LEMMA ReprocessKeeps ==
    ASSUME IInv, NEW r \in Requests, NEW d \in Ids, Reprocess(r, d) PROVE IInv'
  <1> DEFINE s == [Idle EXCEPT !.at = "stored", !.doc = d,
                               !.status = row[d].status,
                               !.page_count = row[d].page_count]
  <1>1. row[d] \in Row /\ faulted \in BOOLEAN /\ raised \subseteq Ids
    BY DEF IInv, TypeOK
  <1>2. /\ s \in Request /\ s.at = "stored" /\ s.doc = d /\ ~s.moved
        /\ s.status = row[d].status /\ s.page_count = row[d].page_count
    BY <1>1, IdleFact DEF Request, Row, Steps
  <1>3. /\ req[r].at = "idle" /\ Exists(d) /\ Alone(r, s)
        /\ UNCHANGED <<row, pages, file, deleted, raised, faulted, raced>>
    BY DEF Reprocess
  <1> HIDE DEF s
  <1> QED
    BY <1>1, <1>2, <1>3, QuietStep

LEMMA DeletePagesKeeps ==
    ASSUME IInv, NEW r \in Requests, DeletePages(r) PROVE IInv'
  <1> DEFINE d == req[r].doc
             s == [req[r] EXCEPT !.at = "pages_deleted", !.doomed = HasPages(d)]
  <1>1. /\ req[r] \in Request /\ d \in Ids /\ pages[d] \in {0, 1}
        /\ faulted \in BOOLEAN /\ raised \subseteq Ids
    BY DEF IInv, TypeOK, Request
  <1>2. HasPages(d) \in BOOLEAN
    BY DEF HasPages
  <1>3. /\ s \in Request /\ s.at = "pages_deleted" /\ s.doc = d
        /\ s.moved = req[r].moved /\ s.stale = req[r].stale
        /\ s.status = req[r].status /\ s.page_count = req[r].page_count
        /\ s.doomed = HasPages(d)
    BY <1>1, <1>2 DEF Request, Steps
  <1>4. /\ req[r].at = "stored" /\ Alone(r, s)
        /\ UNCHANGED <<row, pages, file, deleted, raised, faulted, raced>>
    BY DEF DeletePages, OldPages
  <1>5. ~req[r].moved
    BY <1>4 DEF IInv, StepsOrdered
  <1>6. ~req[r].stale => /\ Exists(d)
                         /\ req[r].status = row[d].status
                         /\ req[r].page_count = row[d].page_count
    BY <1>4 DEF IInv, LoadedIsStored
  <1> HIDE DEF s
  <1> QED
    BY <1>1, <1>3, <1>4, <1>5, <1>6, QuietStep

LEMMA ExtractKeeps ==
    ASSUME IInv, NEW r \in Requests, Extract(r) PROVE IInv'
  <1> DEFINE d == req[r].doc
  <1>1. PICK result \in Results :
           Alone(r, [req[r] EXCEPT !.at = "extracted", !.status = result])
    BY DEF Extract
  <1> DEFINE s == [req[r] EXCEPT !.at = "extracted", !.status = result]
  <1>2. /\ req[r].at = "extracting"
        /\ UNCHANGED <<row, pages, file, deleted, raised, faulted, raced>>
    BY DEF Extract
  <1>3. req[r] \in Request /\ d \in Ids /\ faulted \in BOOLEAN /\ raised \subseteq Ids
    BY DEF IInv, TypeOK, Request
  <1>4. /\ s \in Request /\ s.at = "extracted" /\ s.doc = d
        /\ s.moved = req[r].moved /\ s.stale = req[r].stale
        /\ s.status = result
    BY <1>3 DEF Request, Steps, Statuses
  <1>5. ~req[r].moved
    BY <1>2 DEF IInv, StepsOrdered
  <1>6. ~req[r].stale => /\ row[d].status = "processing"
                         /\ row[d].page_count = 0 /\ pages[d] = 0
    BY <1>2 DEF IInv, LoadedIsStored
  <1>7. Alone(r, s)
    BY <1>1
  <1> HIDE DEF s
  <1> QED
    BY <1>2, <1>3, <1>4, <1>5, <1>6, <1>7, QuietStep

\* What the parser raises leaves its document in "processing", and says so.
LEMMA ExtractRaisesKeeps ==
    ASSUME IInv, NEW r \in Requests, ExtractRaises(r) PROVE IInv'
  <1> DEFINE d == req[r].doc
  <1>1. /\ req[r].at = "extracting" /\ Alone(r, Idle)
        /\ raised' = raised \cup {d}
        /\ UNCHANGED <<row, pages, file, deleted, faulted, raced>>
    BY DEF ExtractRaises
  <1>2. d \in Ids /\ raised \subseteq Ids /\ faulted \in BOOLEAN
    BY DEF IInv, TypeOK, Request
  <1>3. ~req[r].moved
    BY <1>1 DEF IInv, StepsOrdered
  <1> QED
    BY <1>1, <1>2, <1>3, IdleFact, QuietStep

-----------------------------------------------------------------------------
(* Steps that change one document, and mark the requests that have read it. *)

\* No upload is at work on the document of such a step.
LEMMA UploadsElsewhere ==
    ASSUME IInv, NEW r \in Requests, NEW d \in Ids, NEW s \in Request,
           Goes(r, s, d), s.at \notin InUpload, req[r].at \notin InUpload,
           s.at # "idle" => s.doc = d,
           Exists(d) \/ (req[r].at # "idle" /\ req[r].doc = d),
           \A e \in Ids : row'[e].status # "none" => Exists(e),
           deleted' \subseteq deleted \cup {d}
    PROVE  UploadsAlone'
  <1>0. TypeOK /\ UploadsAlone
    BY DEF IInv
  <1>1. /\ req' \in [Requests -> Request]
        /\ req'[r] = s
        /\ \A q \in Requests \ {r} :
             /\ req'[q].at = req[q].at /\ req'[q].doc = req[q].doc
             /\ req'[q].page_count = req[q].page_count
             /\ req[q].doc # d => req'[q].stale = req[q].stale
    BY <1>0, GoesFact
  <1> SUFFICES ASSUME NEW q \in Requests, req'[q].at \in InUpload
               PROVE  /\ row'[req'[q].doc].status = "none"
                      /\ req'[q].doc \notin deleted'
                      /\ ~req'[q].stale /\ req'[q].page_count = 0
                      /\ \A p \in Requests \ {q} :
                            req'[p].at = "idle" \/ req'[p].doc # req'[q].doc
    BY DEF UploadsAlone, InUpload, Exists
  <1>2. /\ q # r /\ req[q].at \in InUpload /\ req[q].doc \in Ids
        /\ req'[q].doc = req[q].doc /\ req'[q].page_count = req[q].page_count
    BY <1>0, <1>1 DEF TypeOK, Request
  <1>3. /\ ~Exists(req[q].doc) /\ req[q].doc \notin deleted
        /\ ~req[q].stale /\ req[q].page_count = 0
        /\ \A p \in Requests \ {q} :
              req[p].at = "idle" \/ req[p].doc # req[q].doc
    BY <1>0, <1>2 DEF UploadsAlone, InUpload
  <1>4. req[q].doc # d
    BY <1>2, <1>3
  <1>5. ASSUME NEW p \in Requests \ {q}
        PROVE  req'[p].at = "idle" \/ req'[p].doc # req'[q].doc
    BY <1>1, <1>2, <1>3, <1>4
  <1> QED
    BY <1>1, <1>2, <1>3, <1>4, <1>5

\* What the others have loaded is stored, or they are marked.
LEMMA LoadedElsewhere ==
    ASSUME IInv, NEW r \in Requests, NEW d \in Ids, NEW s \in Request,
           Goes(r, s, d),
           \A e \in Ids \ {d} : row'[e] = row[e] /\ pages'[e] = pages[e],
           s.at \in {"idle", "quarantined", "record_deleted", "extracting"},
           s.at = "extracting" /\ ~s.stale =>
              /\ s.doc = d
              /\ row'[d].status = "processing"
              /\ row'[d].page_count = 0 /\ pages'[d] = 0
    PROVE  LoadedIsStored'
  <1>0. TypeOK /\ LoadedIsStored
    BY DEF IInv
  <1>1. /\ req'[r] = s
        /\ \A q \in Requests \ {r} :
              /\ req'[q].at = req[q].at /\ req'[q].doc = req[q].doc
              /\ req'[q].status = req[q].status
              /\ req'[q].page_count = req[q].page_count
              /\ req'[q].doomed = req[q].doomed
              /\ req[q].at # "idle" /\ req[q].doc = d => req'[q].stale
              /\ req[q].doc # d => req'[q].stale = req[q].stale
              /\ req[q].at = "idle" => req'[q].stale = req[q].stale
    BY <1>0, GoesFact
  <1> SUFFICES ASSUME NEW q \in Requests, ~req'[q].stale
               PROVE  /\ req'[q].at \in {"stored", "pages_deleted"} =>
                           /\ row'[req'[q].doc].status # "none"
                           /\ req'[q].status = row'[req'[q].doc].status
                           /\ req'[q].page_count = row'[req'[q].doc].page_count
                      /\ req'[q].at = "pages_deleted" =>
                           (req'[q].doomed <=> pages'[req'[q].doc] # 0)
                      /\ req'[q].at \in {"extracting", "extracted"} =>
                           /\ row'[req'[q].doc].status = "processing"
                           /\ row'[req'[q].doc].page_count = 0
                           /\ pages'[req'[q].doc] = 0
    BY DEF LoadedIsStored, Exists, HasPages
  <1>2. CASE q = r
    BY <1>1, <1>2
  <1>3. CASE q # r /\ req[q].at # "idle"
    <2>1. /\ req[q].doc # d /\ req[q].doc \in Ids /\ ~req[q].stale
          /\ req'[q].at = req[q].at /\ req'[q].doc = req[q].doc
          /\ req'[q].status = req[q].status
          /\ req'[q].page_count = req[q].page_count
          /\ req'[q].doomed = req[q].doomed
      BY <1>0, <1>1, <1>3 DEF TypeOK, Request
    <2>2. /\ row'[req[q].doc] = row[req[q].doc]
          /\ pages'[req[q].doc] = pages[req[q].doc]
      BY <2>1
    <2> QED
      BY <1>0, <2>1, <2>2 DEF LoadedIsStored, Exists, HasPages
  <1>4. CASE q # r /\ req[q].at = "idle"
    BY <1>1, <1>4
  <1> QED
    BY <1>2, <1>3, <1>4

\* The other requests keep to the order of their steps.
LEMMA StepsElsewhere ==
    ASSUME IInv, NEW r \in Requests, NEW d \in Ids, NEW s \in Request,
           Goes(r, s, d),
           \A e \in Ids : row'[e].status # "none" => Exists(e),
           s.at \in {"idle", "quarantined", "record_deleted", "extracting"},
           s.at = "extracting" => ~s.moved,
           s.at = "record_deleted" => row'[s.doc].status = "none"
    PROVE  StepsOrdered'
  <1>0. TypeOK /\ StepsOrdered
    BY DEF IInv
  <1>1. /\ req'[r] = s
        /\ \A q \in Requests \ {r} :
              /\ req'[q].at = req[q].at /\ req'[q].doc = req[q].doc
              /\ req'[q].status = req[q].status
              /\ req'[q].moved = req[q].moved
    BY <1>0, GoesFact
  <1>2. \A q \in Requests : req[q].doc \in Ids
    BY <1>0 DEF TypeOK, Request
  <1> SUFFICES ASSUME NEW q \in Requests
               PROVE  /\ req'[q].at # "idle" /\ req'[q].moved
                           => req'[q].at \in {"quarantined", "record_deleted"}
                      /\ req'[q].at = "record_deleted" =>
                           row'[req'[q].doc].status = "none"
                      /\ req'[q].at = "extracted" => req'[q].status \in Results
    BY DEF StepsOrdered, Exists
  <1>3. CASE q = r
    BY <1>1, <1>3
  <1>4. CASE q # r
    BY <1>0, <1>1, <1>2, <1>4 DEF StepsOrdered
  <1> QED
    BY <1>3, <1>4

\* The first commit of processing: a request that is not stale leaves
\* "processing" and no page; a stale one makes a race.
LEMMA CommitProcessingKeeps ==
    ASSUME IInv, NEW r \in Requests, CommitProcessing(r) PROVE IInv'
  <1>d. PICK d \in Ids : d = req[r].doc
    BY DEF IInv, TypeOK, Request
  <1> DEFINE s == [req[r] EXCEPT !.at = "extracting", !.status = "processing",
                                 !.page_count = 0, !.doomed = FALSE]
             status == Written(req[r].status, "processing", row[d].status)
             count == Written(req[r].page_count, 0, row[d].page_count)
             new == [row[d] EXCEPT !.status = status, !.page_count = count]
  <1>0. /\ TypeOK /\ NoDuplicateContent /\ RowsGone /\ UploadsAlone
        /\ StepsOrdered /\ LoadedIsStored /\ ProcessingIsTrue
        /\ FilesFollow /\ StoresAgree
    BY DEF IInv
  <1>1. req[r] \in Request /\ row[d] \in Row
    BY <1>0 DEF TypeOK, Request
  <1>2. /\ s \in Request /\ s.at = "extracting" /\ s.doc = d
        /\ s.moved = req[r].moved /\ s.stale = req[r].stale
        /\ s.status = "processing" /\ s.page_count = 0
    BY <1>1, <1>d DEF Request, Steps, Statuses
  <1>3. /\ status \in Statuses /\ count \in {0, 1}
        /\ req[r].status = row[d].status => status = "processing"
        /\ req[r].page_count = row[d].page_count => count = 0
        /\ ~Dirty(r) => status = row[d].status /\ count = row[d].page_count
    BY <1>1 DEF Written, Dirty, Row, Statuses
  <1>4. Dirty(r) => status # "none" \/ ~Exists(d)
    BY <1>1 DEF Written, Dirty, Exists
  <1>5. /\ req[r].at = "pages_deleted" /\ (Dirty(r) => Exists(d))
        /\ row' = [row EXCEPT ![d] = new]
        /\ pages' = IF req[r].doomed THEN [pages EXCEPT ![d] = 0] ELSE pages
        /\ Goes(r, s, d)
        /\ raced' = (raced \/ req[r].stale)
        /\ file' = file /\ deleted' = deleted /\ faulted' = faulted
        /\ raised' = raised \ {d}
    <2>1. raced' = (raced \/ req[r].stale)
      BY DEF CommitProcessing
    <2>2. req[r].at = "pages_deleted" /\ (Dirty(r) => Exists(d))
      BY <1>d DEF CommitProcessing
    <2>3. row' = [row EXCEPT ![d] = new]
      BY <1>0, <1>1, <1>d DEF CommitProcessing, TypeOK, Row
    <2>4. pages' = IF req[r].doomed THEN [pages EXCEPT ![d] = 0] ELSE pages
      BY <1>d DEF CommitProcessing
    <2>5. Goes(r, s, d)
      BY <1>d, Zenon DEF CommitProcessing
    <2>6. /\ file' = file /\ deleted' = deleted /\ faulted' = faulted
          /\ raised' = raised \ {d}
      BY <1>d DEF CommitProcessing
    <2> QED
      BY <2>1, <2>2, <2>3, <2>4, <2>5, <2>6
  <1>6. /\ new \in Row /\ new.content = row[d].content /\ new.key = row[d].key
        /\ new.status = status /\ new.page_count = count
    BY <1>1, <1>3 DEF Row
  <1>7. ~req[r].moved
    BY <1>0, <1>5 DEF StepsOrdered
  <1>8. ~req[r].stale =>
           /\ Exists(d) /\ req[r].status = row[d].status
           /\ req[r].page_count = row[d].page_count
           /\ req[r].doomed <=> HasPages(d)
    BY <1>0, <1>5, <1>d DEF LoadedIsStored
  <1> HIDE DEF s, new, status, count
  <1>9. /\ row' \in [Ids -> Row]
        /\ row'[d].content = row[d].content /\ row'[d].key = row[d].key
        /\ row'[d].status = status /\ row'[d].page_count = count
        /\ \A e \in Ids \ {d} : row'[e] = row[e]
    BY <1>0, <1>1, <1>5, <1>6 DEF TypeOK
  <1>10. /\ pages' \in [Ids -> {0, 1}]
         /\ pages'[d] = 0 \/ pages'[d] = pages[d]
         /\ req[r].doomed => pages'[d] = 0
         /\ ~req[r].doomed => pages'[d] = pages[d]
         /\ \A e \in Ids \ {d} : pages'[e] = pages[e]
    BY <1>0, <1>1, <1>5 DEF TypeOK
  <1>11. /\ req' \in [Requests -> Request]
         /\ req'[r] = s
         /\ \A q \in Requests \ {r} :
              /\ req'[q].at = req[q].at /\ req'[q].doc = req[q].doc
              /\ req'[q].content = req[q].content
              /\ req'[q].status = req[q].status
              /\ req'[q].page_count = req[q].page_count
              /\ req'[q].doomed = req[q].doomed
              /\ req'[q].moved = req[q].moved
              /\ req[q].at # "idle" /\ req[q].doc = d => req'[q].stale
              /\ req[q].doc # d => req'[q].stale = req[q].stale
              /\ req[q].at = "idle" => req'[q].stale = req[q].stale
    BY <1>0, <1>1, <1>2, <1>5, GoesFact
  <1>12. Exists(d)' <=> Exists(d)
    <2>1. CASE Dirty(r)
      BY <2>1, <1>4, <1>5, <1>9 DEF Exists
    <2>2. CASE ~Dirty(r)
      BY <2>2, <1>3, <1>9 DEF Exists
    <2> QED
      BY <2>1, <2>2
  <1>13. ~req[r].stale =>
            row'[d].status = "processing" /\ row'[d].page_count = 0 /\ pages'[d] = 0
    BY <1>3, <1>8, <1>9, <1>10 DEF HasPages
  <1>14. TypeOK'
    BY <1>0, <1>5, <1>9, <1>10, <1>11 DEF TypeOK
  <1>15. \A e \in Ids : Exists(e)' <=> Exists(e)
    BY <1>9, <1>12 DEF Exists
  <1>16. NoDuplicateContent'
    BY <1>0, <1>9, <1>15 DEF NoDuplicateContent
  <1>17. RowsGone'
    BY <1>0, <1>5, <1>9, <1>10, <1>15 DEF RowsGone, HasPages, TypeOK
  <1>18. UploadsAlone'
    BY <1>1, <1>2, <1>5, <1>15, <1>d, UploadsElsewhere DEF Exists, InUpload
  <1>19. StepsOrdered'
    BY <1>2, <1>5, <1>7, <1>15, StepsElsewhere DEF Exists
  <1>20. LoadedIsStored'
    BY <1>2, <1>5, <1>9, <1>10, <1>13, LoadedElsewhere
  <1>21. ProcessingIsTrue'
    <2> SUFFICES ASSUME ~faulted, ~raced, ~req[r].stale, NEW e \in Ids,
                        Exists(e)'
                 PROVE  /\ row'[e].page_count = pages'[e]
                        /\ Truthful(e)'
                        /\ row'[e].status = "processing" =>
                             /\ pages'[e] = 0
                             /\ \/ e \in raised'
                                \/ \E q \in Requests :
                                     /\ req'[q].doc = e
                                     /\ req'[q].at \in {"extracting", "extracted"}
      BY <1>0, <1>5 DEF ProcessingIsTrue, TypeOK
    <2>1. CASE e = d
      BY <2>1, <1>2, <1>11, <1>13 DEF Truthful, Results
    <2>2. CASE e # d
      <3>1. /\ row'[e] = row[e] /\ pages'[e] = pages[e] /\ Exists(e)
        BY <2>2, <1>9, <1>10, <1>15
      <3>2. \A q \in Requests : req[q].doc = e =>
               req'[q].doc = req[q].doc /\ req'[q].at = req[q].at
        BY <2>2, <1>11, <1>d
      <3> QED
        BY <3>1, <3>2, <1>0, <1>5, <2>2 DEF ProcessingIsTrue, Truthful, HasPages
    <2> QED
      BY <2>1, <2>2
  <1>22. FilesFollow'
    BY <1>0, <1>2, <1>5, <1>7, <1>11 DEF FilesFollow
  <1>23. StoresAgree'
    <2>1. \A e \in Ids : row'[e].key = row[e].key /\ file'[e] = file[e]
      BY <1>5, <1>9
    <2>2. \A e \in Ids : (Uploading(e) => Uploading(e)') /\ (Deleting(e) => Deleting(e)')
      BY <1>5, <1>7, <1>11 DEF Uploading, Deleting
    <2> QED
      BY <2>1, <2>2, <1>0, <1>5 DEF StoresAgree
  <1> QED
    BY <1>14, <1>16, <1>17, <1>18, <1>19, <1>20, <1>21, <1>22, <1>23 DEF IInv

\* The second commit of processing: without a race the pages of the row are
\* those of this request.
LEMMA CommitPagesKeeps ==
    ASSUME IInv, NEW r \in Requests, CommitPages(r) PROVE IInv'
  <1>d. PICK d \in Ids : d = req[r].doc
    BY DEF IInv, TypeOK, Request
  <1> DEFINE n == NewPages(r)
  <1>0. /\ TypeOK /\ NoDuplicateContent /\ RowsGone /\ UploadsAlone
        /\ StepsOrdered /\ LoadedIsStored /\ ProcessingIsTrue
        /\ FilesFollow /\ StoresAgree
    BY DEF IInv
  <1>1. req[r] \in Request /\ row[d] \in Row /\ pages[d] \in {0, 1}
    BY <1>0 DEF TypeOK, Request
  <1>2. /\ req[r].at = "extracted" /\ Exists(d) /\ Goes(r, Idle, d)
        /\ n # 0 => ~HasPages(d)
        /\ pages' = [pages EXCEPT ![d] = pages[d] + n]
        /\ raced' = (raced \/ req[r].stale)
        /\ file' = file /\ deleted' = deleted /\ faulted' = faulted
        /\ raised' = raised
    BY <1>d DEF CommitPages
  <1>3. /\ ~req[r].moved /\ req[r].status \in Results
        /\ n \in {0, 1} /\ (n # 0 <=> req[r].status = "processed")
    BY <1>0, <1>2 DEF StepsOrdered, NewPages
  <1>4. /\ row' \in [Ids -> Row]
        /\ row'[d].content = row[d].content /\ row'[d].key = row[d].key
        /\ row'[d].status = req[r].status
        /\ row'[d].page_count = Written(0, n, row[d].page_count)
        /\ \A e \in Ids \ {d} : row'[e] = row[e]
    <2>1. row' = [row EXCEPT
                    ![d].status = req[r].status,
                    ![d].page_count = Written(0, n, row[d].page_count)]
      BY <1>0, <1>1, <1>d DEF CommitPages, TypeOK, Row
    <2>2. req[r].status \in Statuses
      BY <1>3 DEF Statuses
    <2>3. Written(0, n, row[d].page_count) \in {0, 1}
      BY <1>1, <1>3 DEF Written, Row
    <2> QED
      BY <1>0, <1>1, <2>1, <2>2, <2>3 DEF TypeOK, Row
  <1>5. /\ pages' \in [Ids -> {0, 1}]
        /\ pages'[d] = pages[d] + n
        /\ \A e \in Ids \ {d} : pages'[e] = pages[e]
    <2>1. pages[d] + n \in {0, 1}
      BY <1>1, <1>2, <1>3 DEF HasPages
    <2> QED
      BY <1>0, <1>2, <2>1 DEF TypeOK
  <1> HIDE DEF n
  <1>6. /\ req' \in [Requests -> Request]
        /\ req'[r] = Idle
        /\ \A q \in Requests \ {r} :
              /\ req'[q].at = req[q].at /\ req'[q].doc = req[q].doc
              /\ req'[q].moved = req[q].moved
    BY <1>0, <1>2, IdleFact, GoesFact
  <1>7. /\ row'[d].status # "none" /\ row'[d].status # "processing"
        /\ \A e \in Ids : row'[e].status # "none" <=> Exists(e)
    BY <1>2, <1>3, <1>4 DEF Exists, Results
  <1>8. TypeOK'
    <2>1. raced' \in BOOLEAN
      BY <1>0, <1>1, <1>2 DEF TypeOK, Request
    <2> QED
      BY <1>0, <1>2, <1>4, <1>5, <1>6, <2>1 DEF TypeOK
  <1>9. NoDuplicateContent'
    BY <1>0, <1>4, <1>7 DEF NoDuplicateContent, Exists
  <1>10. RowsGone'
    BY <1>0, <1>2, <1>4, <1>5, <1>7 DEF RowsGone, HasPages, Exists, TypeOK
  <1>11. UploadsAlone'
    BY <1>2, <1>7, IdleFact, UploadsElsewhere DEF InUpload
  <1>12. StepsOrdered'
    BY <1>2, <1>7, IdleFact, StepsElsewhere
  <1>13. LoadedIsStored'
    BY <1>2, <1>4, <1>5, IdleFact, LoadedElsewhere
  <1>14. ProcessingIsTrue'
    <2> SUFFICES ASSUME ~faulted, ~raced, ~req[r].stale, NEW e \in Ids,
                        row'[e].status # "none"
                 PROVE  /\ row'[e].page_count = pages'[e]
                        /\ Truthful(e)'
                        /\ row'[e].status = "processing" =>
                             /\ pages'[e] = 0
                             /\ \/ e \in raised'
                                \/ \E q \in Requests :
                                     /\ req'[q].doc = e
                                     /\ req'[q].at \in {"extracting", "extracted"}
      BY <1>0, <1>2 DEF ProcessingIsTrue, TypeOK, Exists
    <2>1. CASE e = d
      <3>1. row[d].page_count = 0 /\ pages[d] = 0
        BY <1>0, <1>2, <1>d DEF LoadedIsStored
      <3>2. row'[d].page_count = n /\ pages'[d] = n
        BY <1>3, <1>4, <1>5, <3>1 DEF Written
      <3> QED
        BY <2>1, <3>2, <1>3, <1>4, <1>7 DEF Truthful, HasPages
    <2>2. CASE e # d
      <3>1. /\ row'[e] = row[e] /\ pages'[e] = pages[e] /\ Exists(e)
        BY <2>2, <1>4, <1>5, <1>7
      <3>2. \A q \in Requests : req[q].doc = e =>
               req'[q].doc = req[q].doc /\ req'[q].at = req[q].at
        BY <2>2, <1>6, <1>d
      <3> QED
        BY <3>1, <3>2, <1>0, <1>2 DEF ProcessingIsTrue, Truthful, HasPages
    <2> QED
      BY <2>1, <2>2
  <1>15. FilesFollow'
    BY <1>0, <1>2, <1>6, IdleFact DEF FilesFollow
  <1>16. StoresAgree'
    <2>1. \A e \in Ids : row'[e].key = row[e].key /\ file'[e] = file[e]
      BY <1>2, <1>4
    <2>2. \A e \in Ids : (Uploading(e) => Uploading(e)') /\ (Deleting(e) => Deleting(e)')
      BY <1>2, <1>3, <1>6 DEF Uploading, Deleting
    <2> QED
      BY <2>1, <2>2, <1>0, <1>2 DEF StoresAgree
  <1> QED
    BY <1>8, <1>9, <1>10, <1>11, <1>12, <1>13, <1>14, <1>15, <1>16 DEF IInv

-----------------------------------------------------------------------------
(* Deleting.                                                               *)

\* Only the request that moves a file counts as deleting its document.
LEMMA QuarantineKeeps ==
    ASSUME IInv, NEW r \in Requests, NEW d \in Ids, Quarantine(r, d)
    PROVE  IInv'
  <1> DEFINE moves == InQuarantine(d) # file[d]
             s == [Idle EXCEPT !.at = "quarantined", !.doc = d,
                               !.moved = moves]
  <1>0. /\ TypeOK /\ NoDuplicateContent /\ RowsGone /\ UploadsAlone
        /\ StepsOrdered /\ LoadedIsStored /\ ProcessingIsTrue
        /\ FilesFollow /\ StoresAgree
    BY DEF IInv
  <1>1. /\ s \in Request /\ s.at = "quarantined" /\ s.doc = d
        /\ s.moved = moves
    BY IdleFact DEF Request, Steps
  <1>2. /\ req[r].at = "idle" /\ Exists(d) /\ Goes(r, s, d)
        /\ file' = [file EXCEPT ![d] = InQuarantine(d)]
        /\ row' = row /\ pages' = pages /\ deleted' = deleted
        /\ raised' = raised /\ faulted' = faulted /\ raced' = raced
    BY DEF Quarantine
  <1>3. /\ moves => /\ Provider = "local" /\ row[d].key /\ file[d] = "original"
                    /\ InQuarantine(d) = "quarantine"
        /\ ~moves => InQuarantine(d) = file[d]
        /\ Provider = "local" /\ row[d].key /\ file[d] = "original" => moves
    BY DEF InQuarantine, BinaryExists
  <1> HIDE DEF s, moves
  <1>4. /\ req' \in [Requests -> Request]
        /\ req'[r] = s
        /\ \A q \in Requests \ {r} :
              /\ req'[q].at = req[q].at /\ req'[q].doc = req[q].doc
              /\ req'[q].moved = req[q].moved
    BY <1>0, <1>1, <1>2, GoesFact
  <1>5. /\ file' \in [Ids -> {"none", "original", "quarantine"}]
        /\ moves => file'[d] = "quarantine"
        /\ ~moves => file' = file
        /\ \A e \in Ids \ {d} : file'[e] = file[e]
    <2>1. file[d] \in {"none", "original", "quarantine"}
      BY <1>0 DEF TypeOK
    <2>2. InQuarantine(d) \in {"none", "original", "quarantine"}
      BY <1>3, <2>1
    <2>3. ~moves => file' = file
      BY <1>0, <1>2, <1>3 DEF TypeOK
    <2> QED
      BY <1>0, <1>2, <1>3, <2>2, <2>3 DEF TypeOK
  <1>6. TypeOK'
    BY <1>0, <1>2, <1>4, <1>5 DEF TypeOK
  <1>7. NoDuplicateContent' /\ RowsGone'
    BY <1>0, <1>2 DEF NoDuplicateContent, RowsGone, Exists, HasPages
  <1>8. UploadsAlone'
    BY <1>1, <1>2, UploadsElsewhere DEF InUpload, Exists
  <1>9. StepsOrdered'
    BY <1>1, <1>2, StepsElsewhere DEF Exists
  <1>10. LoadedIsStored'
    BY <1>1, <1>2, LoadedElsewhere
  <1>11. ProcessingIsTrue'
    <2> SUFFICES ASSUME ~faulted, ~raced, NEW e \in Ids, Exists(e)
                 PROVE  /\ row[e].page_count = pages[e]
                        /\ Truthful(e)
                        /\ row[e].status = "processing" =>
                             /\ pages[e] = 0
                             /\ \/ e \in raised'
                                \/ \E q \in Requests :
                                     /\ req'[q].doc = e
                                     /\ req'[q].at \in {"extracting", "extracted"}
      BY <1>2 DEF ProcessingIsTrue, Exists, Truthful, HasPages
    <2>1. \A q \in Requests : req[q].at # "idle" =>
             req'[q].doc = req[q].doc /\ req'[q].at = req[q].at
      BY <1>2, <1>4
    <2> QED
      BY <2>1, <1>0, <1>2 DEF ProcessingIsTrue
  <1>12. ASSUME ~faulted, Provider = "local" PROVE file'[d] # "original"
    <2>1. ~Uploading(d)
      BY <1>0, <1>2 DEF Uploading, UploadsAlone
    <2>2. file[d] = "original" => row[d].key
      BY <1>0, <1>12, <2>1 DEF StoresAgree
    <2> QED
      BY <1>3, <1>5, <1>12, <2>2
  <1>13. FilesFollow'
    <2> SUFFICES ASSUME ~faulted, Provider = "local", NEW q \in Requests
                 PROVE  /\ req'[q].at = "staged" => file'[req'[q].doc] = "none"
                        /\ req'[q].at = "finalized" => file'[req'[q].doc] = "original"
                        /\ req'[q].at = "quarantined" => file'[req'[q].doc] # "original"
                        /\ req'[q].at # "idle" /\ req'[q].moved =>
                             /\ file'[req'[q].doc] = "quarantine"
                             /\ \A p \in Requests \ {q} :
                                   req'[p].at # "idle" /\ req'[p].moved =>
                                      req'[p].doc # req'[q].doc
      BY <1>2 DEF FilesFollow
    <2>1. \A p \in Requests : req[p].at # "idle" /\ req[p].moved /\ moves =>
                                 req[p].doc # d
      BY <1>0, <1>3 DEF FilesFollow
    <2>2. CASE q = r
      BY <2>1, <2>2, <1>1, <1>4, <1>5, <1>12
    <2>3. CASE q # r
      <3>1. /\ req'[q].at = req[q].at /\ req'[q].doc = req[q].doc
            /\ req'[q].moved = req[q].moved /\ req[q].doc \in Ids
        BY <2>3, <1>0, <1>4 DEF TypeOK, Request
      <3>2. req[q].at \in {"staged", "finalized"} => req[q].doc # d
        BY <1>0, <1>2 DEF UploadsAlone
      <3>3. /\ req[q].at = "staged" => file[req[q].doc] = "none"
            /\ req[q].at = "finalized" => file[req[q].doc] = "original"
            /\ req[q].at = "quarantined" => file[req[q].doc] # "original"
            /\ req[q].at # "idle" /\ req[q].moved =>
                  /\ file[req[q].doc] = "quarantine"
                  /\ \A p \in Requests \ {q} :
                        req[p].at # "idle" /\ req[p].moved =>
                           req[p].doc # req[q].doc
        BY <1>0 DEF FilesFollow
      <3>4. /\ req'[q].at = "staged" => file'[req'[q].doc] = "none"
            /\ req'[q].at = "finalized" => file'[req'[q].doc] = "original"
        BY <3>1, <3>2, <3>3, <1>5
      <3>5. req'[q].at = "quarantined" => file'[req'[q].doc] # "original"
        BY <3>1, <3>3, <1>5, <1>12
      <3>6. ASSUME req'[q].at # "idle", req'[q].moved
            PROVE  /\ file'[req'[q].doc] = "quarantine"
                   /\ \A p \in Requests \ {q} :
                         req'[p].at # "idle" /\ req'[p].moved =>
                            req'[p].doc # req'[q].doc
        <4>1. moves => req[q].doc # d
          BY <3>1, <3>6, <2>1
        <4>2. file'[req'[q].doc] = "quarantine"
          BY <4>1, <3>1, <3>3, <3>6, <1>5
        <4>3. ASSUME NEW p \in Requests \ {q},
                     req'[p].at # "idle", req'[p].moved
              PROVE  req'[p].doc # req'[q].doc
          BY <4>1, <4>3, <3>1, <3>3, <3>6, <1>1, <1>4
        <4> QED
          BY <4>2, <4>3
      <3> QED
        BY <3>4, <3>5, <3>6
    <2> QED
      BY <2>2, <2>3
  <1>14. StoresAgree'
    <2> SUFFICES ASSUME ~faulted, Provider = "local", NEW e \in Ids
                 PROVE  /\ file'[e] = "original" => row[e].key \/ Uploading(e)'
                        /\ file'[e] = "quarantine" => Deleting(e)'
                        /\ row[e].key => file'[e] = "original" \/ Deleting(e)'
      BY <1>2 DEF StoresAgree
    <2>1. (Uploading(e) => Uploading(e)') /\ (Deleting(e) => Deleting(e)')
      BY <1>2, <1>4 DEF Uploading, Deleting
    <2>2. moves => Deleting(d)'
      BY <1>1, <1>4 DEF Deleting
    <2>3. CASE e = d /\ moves
      BY <2>2, <2>3, <1>5
    <2>4. CASE file'[e] = file[e]
      BY <2>1, <2>4, <1>0 DEF StoresAgree
    <2> QED
      BY <2>3, <2>4, <1>5
  <1> QED
    BY <1>6, <1>7, <1>8, <1>9, <1>10, <1>11, <1>13, <1>14 DEF IInv

\* The row goes with its pages; its file is in quarantine by now.
LEMMA CommitDeleteKeeps ==
    ASSUME IInv, NEW r \in Requests, CommitDelete(r) PROVE IInv'
  <1>d. PICK d \in Ids : d = req[r].doc
    BY DEF IInv, TypeOK, Request
  <1> DEFINE s == [req[r] EXCEPT !.at = "record_deleted"]
  <1>0. /\ TypeOK /\ NoDuplicateContent /\ RowsGone /\ UploadsAlone
        /\ StepsOrdered /\ LoadedIsStored /\ ProcessingIsTrue
        /\ FilesFollow /\ StoresAgree
    BY DEF IInv
  <1>1. /\ s \in Request /\ s.at = "record_deleted" /\ s.doc = d
        /\ s.moved = req[r].moved
    BY <1>0, <1>d DEF TypeOK, Request, Steps
  <1>2. /\ req[r].at = "quarantined" /\ Goes(r, s, d)
        /\ row' = [row EXCEPT ![d] = Absent]
        /\ pages' = [pages EXCEPT ![d] = 0]
        /\ deleted' = deleted \cup {d}
        /\ raised' = raised \ {d}
        /\ file' = file /\ faulted' = faulted /\ raced' = raced
    BY <1>d DEF CommitDelete, RowDeleted, CascadeTo
  <1> HIDE DEF s
  <1>3. /\ req' \in [Requests -> Request]
        /\ req'[r] = s
        /\ \A q \in Requests \ {r} :
              /\ req'[q].at = req[q].at /\ req'[q].doc = req[q].doc
              /\ req'[q].moved = req[q].moved
    BY <1>0, <1>1, <1>2, GoesFact
  <1>4. /\ row' \in [Ids -> Row] /\ row'[d] = Absent
        /\ \A e \in Ids \ {d} : row'[e] = row[e]
        /\ pages' \in [Ids -> {0, 1}] /\ pages'[d] = 0
        /\ \A e \in Ids \ {d} : pages'[e] = pages[e]
    BY <1>0, <1>2, AbsentFact DEF TypeOK
  <1>5. /\ row'[d].status = "none" /\ ~row'[d].key
        /\ \A e \in Ids : row'[e].status # "none" => Exists(e) /\ e # d
    BY <1>4, AbsentFact DEF Exists
  <1>6. TypeOK'
    BY <1>0, <1>2, <1>3, <1>4 DEF TypeOK
  <1>7. NoDuplicateContent'
    BY <1>0, <1>4, <1>5 DEF NoDuplicateContent, Exists
  <1>8. RowsGone'
    BY <1>0, <1>2, <1>4, <1>5 DEF RowsGone, Exists, HasPages, TypeOK
  <1>9. UploadsAlone'
    BY <1>1, <1>2, <1>5, <1>d, UploadsElsewhere DEF InUpload
  <1>10. StepsOrdered'
    BY <1>1, <1>2, <1>5, StepsElsewhere
  <1>11. LoadedIsStored'
    BY <1>1, <1>2, <1>4, LoadedElsewhere
  <1>12. ProcessingIsTrue'
    <2> SUFFICES ASSUME ~faulted, ~raced, NEW e \in Ids,
                        row'[e].status # "none"
                 PROVE  /\ row'[e].page_count = pages'[e]
                        /\ Truthful(e)'
                        /\ row'[e].status = "processing" =>
                             /\ pages'[e] = 0
                             /\ \/ e \in raised'
                                \/ \E q \in Requests :
                                     /\ req'[q].doc = e
                                     /\ req'[q].at \in {"extracting", "extracted"}
      BY <1>2 DEF ProcessingIsTrue, Exists
    <2>1. /\ row'[e] = row[e] /\ pages'[e] = pages[e] /\ Exists(e)
      BY <1>4, <1>5
    <2>2. \A q \in Requests : req[q].at \in {"extracting", "extracted"} =>
             req'[q].doc = req[q].doc /\ req'[q].at = req[q].at
      BY <1>2, <1>3
    <2> QED
      BY <2>1, <2>2, <1>0, <1>2, <1>5 DEF ProcessingIsTrue, Truthful, HasPages
  <1>13. FilesFollow'
    BY <1>0, <1>1, <1>2, <1>3, <1>d DEF FilesFollow
  <1>14. StoresAgree'
    <2> SUFFICES ASSUME ~faulted, Provider = "local", NEW e \in Ids
                 PROVE  /\ file[e] = "original" => row'[e].key \/ Uploading(e)'
                        /\ file[e] = "quarantine" => Deleting(e)'
                        /\ row'[e].key => file[e] = "original" \/ Deleting(e)'
      BY <1>2 DEF StoresAgree
    <2>1. (Uploading(e) => Uploading(e)') /\ (Deleting(e) => Deleting(e)')
      BY <1>1, <1>2, <1>3, <1>d DEF Uploading, Deleting
    <2>2. file[d] # "original"
      BY <1>0, <1>2, <1>d DEF FilesFollow
    <2> QED
      BY <2>1, <2>2, <1>0, <1>4, <1>5 DEF StoresAgree
  <1> QED
    BY <1>6, <1>7, <1>8, <1>9, <1>10, <1>11, <1>12, <1>13, <1>14 DEF IInv

\* A deletion that fails, or seems to, is a fault: the file is back, or was
\* never moved, and the row is there or not.
LEMMA DeleteFailsKeeps ==
    ASSUME IInv, NEW r \in Requests, DeleteFails(r) PROVE IInv'
  <1>d. PICK d \in Ids : d = req[r].doc
    BY DEF IInv, TypeOK, Request
  <1>0. /\ TypeOK /\ NoDuplicateContent /\ RowsGone /\ UploadsAlone
        /\ StepsOrdered /\ LoadedIsStored /\ ProcessingIsTrue
        /\ FilesFollow /\ StoresAgree
    BY DEF IInv
  <1>1. /\ req[r].at = "quarantined" /\ Goes(r, Idle, d)
        /\ file' = IF req[r].moved THEN [file EXCEPT ![d] = "original"] ELSE file
        /\ faulted' = TRUE /\ raced' = raced
    BY <1>d DEF DeleteFails
  <1>2. /\ row' \in [Ids -> Row] /\ pages' \in [Ids -> {0, 1}]
        /\ deleted' \subseteq deleted \cup {d} /\ raised' \subseteq raised
        /\ \A e \in Ids \ {d} : row'[e] = row[e] /\ pages'[e] = pages[e]
        /\ \/ row'[d] = row[d] /\ pages'[d] = pages[d] /\ deleted' = deleted
           \/ row'[d] = Absent /\ pages'[d] = 0
    <2>1. CASE UNCHANGED <<row, pages, deleted, raised>>
      BY <1>0, <2>1 DEF TypeOK
    <2>2. CASE RowDeleted(d)
      BY <1>0, <2>2, AbsentFact DEF TypeOK, RowDeleted, CascadeTo
    <2> QED
      BY <2>1, <2>2, <1>d DEF DeleteFails
  <1>3. \A e \in Ids : row'[e].status # "none" => Exists(e) /\ row'[e] = row[e]
    BY <1>2, AbsentFact DEF Exists
  <1>4. TypeOK'
    <2>1. file' \in [Ids -> {"none", "original", "quarantine"}]
      BY <1>0, <1>1 DEF TypeOK
    <2>2. req' \in [Requests -> Request]
      BY <1>0, <1>1, IdleFact, GoesFact
    <2> QED
      BY <1>0, <1>1, <1>2, <2>1, <2>2 DEF TypeOK
  <1>5. NoDuplicateContent'
    BY <1>0, <1>3 DEF NoDuplicateContent, Exists
  <1>6. RowsGone'
    <2>1. ASSUME NEW e \in Ids, row'[e].status = "none"
          PROVE  ~row'[e].key /\ pages'[e] = 0
      BY <2>1, <1>0, <1>2, AbsentFact DEF RowsGone, Exists, HasPages
    <2>2. ASSUME NEW e \in deleted' PROVE row'[e].status = "none"
      BY <2>2, <1>0, <1>2, AbsentFact DEF RowsGone, Exists, TypeOK
    <2> QED
      BY <2>1, <2>2 DEF RowsGone, Exists, HasPages
  <1>7. UploadsAlone'
    BY <1>1, <1>2, <1>3, <1>d, IdleFact, UploadsElsewhere DEF InUpload
  <1>8. StepsOrdered'
    BY <1>1, <1>3, IdleFact, StepsElsewhere
  <1>9. LoadedIsStored'
    BY <1>1, <1>2, IdleFact, LoadedElsewhere
  <1>10. ProcessingIsTrue' /\ FilesFollow' /\ StoresAgree'
    BY <1>1 DEF ProcessingIsTrue, FilesFollow, StoresAgree
  <1> QED
    BY <1>4, <1>5, <1>6, <1>7, <1>8, <1>9, <1>10 DEF IInv

\* The file of a deleted document goes last.
LEMMA PurgeKeeps ==
    ASSUME IInv, NEW r \in Requests, Purge(r) PROVE IInv'
  <1>d. PICK d \in Ids : d = req[r].doc
    BY DEF IInv, TypeOK, Request
  <1>0. /\ TypeOK /\ NoDuplicateContent /\ RowsGone /\ UploadsAlone
        /\ StepsOrdered /\ LoadedIsStored /\ ProcessingIsTrue
        /\ FilesFollow /\ StoresAgree
    BY DEF IInv
  <1>1. /\ req[r].at = "record_deleted" /\ Alone(r, Idle)
        /\ file' = IF req[r].moved THEN [file EXCEPT ![d] = "none"] ELSE file
        /\ row' = row /\ pages' = pages /\ deleted' = deleted
        /\ raised' = raised /\ faulted' = faulted /\ raced' = raced
    BY <1>d DEF Purge, ToPurge
  <1>2. /\ req' \in [Requests -> Request]
        /\ req'[r] = Idle
        /\ \A q \in Requests \ {r} : req'[q] = req[q]
    BY <1>0, <1>1, IdleFact, AloneFact
  <1>3. /\ file' \in [Ids -> {"none", "original", "quarantine"}]
        /\ req[r].moved => file'[d] = "none"
        /\ ~req[r].moved => file' = file
        /\ \A e \in Ids \ {d} : file'[e] = file[e]
    BY <1>0, <1>1 DEF TypeOK
  <1>4. TypeOK'
    BY <1>0, <1>1, <1>2, <1>3 DEF TypeOK
  <1>5. NoDuplicateContent' /\ RowsGone'
    BY <1>0, <1>1 DEF NoDuplicateContent, RowsGone, Exists, HasPages
  <1>6. UploadsAlone'
    BY <1>0, <1>1, <1>2, IdleFact DEF UploadsAlone, Exists
  <1>7. StepsOrdered'
    BY <1>0, <1>1, <1>2, IdleFact DEF StepsOrdered, Exists
  <1>8. LoadedIsStored'
    BY <1>0, <1>1, <1>2, IdleFact DEF LoadedIsStored, Exists, HasPages
  <1>9. ProcessingIsTrue'
    <2> SUFFICES ASSUME ~faulted, ~raced, NEW e \in Ids, Exists(e)
                 PROVE  /\ row[e].page_count = pages[e]
                        /\ Truthful(e)
                        /\ row[e].status = "processing" =>
                             /\ pages[e] = 0
                             /\ \/ e \in raised'
                                \/ \E q \in Requests :
                                     /\ req'[q].doc = e
                                     /\ req'[q].at \in {"extracting", "extracted"}
      BY <1>1 DEF ProcessingIsTrue, Exists, Truthful, HasPages
    <2>1. \A q \in Requests : req[q].at \in {"extracting", "extracted"} =>
             req'[q] = req[q]
      BY <1>1, <1>2
    <2> QED
      BY <2>1, <1>0, <1>1 DEF ProcessingIsTrue
  <1>10. FilesFollow'
    <2> SUFFICES ASSUME ~faulted, Provider = "local", NEW q \in Requests
                 PROVE  /\ req'[q].at = "staged" => file'[req'[q].doc] = "none"
                        /\ req'[q].at = "finalized" => file'[req'[q].doc] = "original"
                        /\ req'[q].at = "quarantined" => file'[req'[q].doc] # "original"
                        /\ req'[q].at # "idle" /\ req'[q].moved =>
                             /\ file'[req'[q].doc] = "quarantine"
                             /\ \A p \in Requests \ {q} :
                                   req'[p].at # "idle" /\ req'[p].moved =>
                                      req'[p].doc # req'[q].doc
      BY <1>1 DEF FilesFollow
    <2>1. CASE q = r
      BY <2>1, <1>2, IdleFact
    <2>2. CASE q # r
      <3>1. req'[q] = req[q] /\ req[q].doc \in Ids
        BY <2>2, <1>0, <1>2 DEF TypeOK, Request
      <3>2. req[q].at \in {"staged", "finalized"} => req[q].doc # d
        BY <2>2, <1>0, <1>1, <1>d DEF UploadsAlone
      <3>3. req[q].at # "idle" /\ req[q].moved /\ req[r].moved => req[q].doc # d
        BY <2>2, <1>0, <1>1, <1>d DEF FilesFollow
      <3>4. /\ req[q].at = "staged" => file[req[q].doc] = "none"
            /\ req[q].at = "finalized" => file[req[q].doc] = "original"
            /\ req[q].at = "quarantined" => file[req[q].doc] # "original"
            /\ req[q].at # "idle" /\ req[q].moved =>
                  /\ file[req[q].doc] = "quarantine"
                  /\ \A p \in Requests \ {q} :
                        req[p].at # "idle" /\ req[p].moved =>
                           req[p].doc # req[q].doc
        BY <1>0 DEF FilesFollow
      <3>5. \A p \in Requests \ {q} :
               req'[p].at # "idle" /\ req'[p].moved =>
                  /\ req[p].at # "idle" /\ req[p].moved
                  /\ req'[p].doc = req[p].doc
        BY <1>2, IdleFact
      <3> QED
        BY <3>1, <3>2, <3>3, <3>4, <3>5, <1>3
    <2> QED
      BY <2>1, <2>2
  <1>11. StoresAgree'
    <2> SUFFICES ASSUME ~faulted, Provider = "local", NEW e \in Ids
                 PROVE  /\ file'[e] = "original" => row[e].key \/ Uploading(e)'
                        /\ file'[e] = "quarantine" => Deleting(e)'
                        /\ row[e].key => file'[e] = "original" \/ Deleting(e)'
      BY <1>1 DEF StoresAgree
    <2>1. Uploading(e) => Uploading(e)'
      BY <1>1, <1>2 DEF Uploading
    <2>2. Deleting(e) => Deleting(e)' \/ (e = d /\ req[r].moved)
      BY <1>2, <1>d DEF Deleting
    <2>3. ~row[d].key
      BY <1>0, <1>1, <1>d DEF StepsOrdered, RowsGone
    <2>4. CASE e = d /\ req[r].moved
      BY <2>3, <2>4, <1>3
    <2>5. CASE file'[e] = file[e] /\ ~(e = d /\ req[r].moved)
      BY <2>1, <2>2, <2>5, <1>0 DEF StoresAgree
    <2> QED
      BY <2>4, <2>5, <1>3
  <1> QED
    BY <1>4, <1>5, <1>6, <1>7, <1>8, <1>9, <1>10, <1>11 DEF IInv

-----------------------------------------------------------------------------
(* The theorems.                                                           *)

\* Every step keeps the invariant.
LEMMA NextKeeps == ASSUME IInv, Next PROVE IInv'
  <1>1. ASSUME NEW d \in Ids, NEW c \in Contents, CreateDocumentMetadata(d, c)
        PROVE  IInv'
    BY <1>1, CreateDocumentMetadataKeeps
  <1>2. ASSUME NEW r \in Requests, Begins(r) PROVE IInv'
    BY <1>2, StageUploadKeeps, ReprocessKeeps, QuarantineKeeps DEF Begins
  <1>3. ASSUME NEW r \in Requests, Continues(r) PROVE IInv'
    BY <1>3, EndsKeep, FinalizeKeeps, CommitUploadKeeps, UploadCollidesKeeps,
       DeletePagesKeeps, CommitProcessingKeeps, ExtractKeeps, ExtractRaisesKeeps, CommitPagesKeeps,
       ProcessingFailsKeeps, CommitDeleteKeeps, PurgeKeeps DEF Continues
  <1>4. ASSUME NEW r \in Requests, GoesWrong(r) PROVE IInv'
    BY <1>4, UploadFailsKeeps, DeleteFailsKeeps, EndsKeep DEF GoesWrong
  <1> QED
    BY <1>1, <1>2, <1>3, <1>4 DEF Next

\* The invariant holds in every execution, whatever goes wrong in it.
THEOREM Invariance == Spec => []IInv
  <1>1. IInv /\ [Next]_vars => IInv'
    BY NextKeeps, StutterKeeps
  <1> QED
    BY <1>1, InitIInv, PTL DEF Spec

\* A case never holds a content twice, with whatever faults.
THEOREM ContentsUnique == Spec => []NoDuplicateContent
  <1>1. IInv => NoDuplicateContent
    BY DEF IInv
  <1> QED
    BY <1>1, Invariance, PTL

\* Without a fault no file is left without a row, and no row without its file.
THEOREM FilesAgree == Spec => []StoresAgree
  <1>1. IInv => StoresAgree
    BY DEF IInv
  <1> QED
    BY <1>1, Invariance, PTL

\* Without a fault nothing of a deleted document is left or comes back.
THEOREM DeletionIsFinal == Spec => []DeletedIsGone
  <1>1. ASSUME IInv, ~faulted, Provider = "local", NEW d \in deleted
        PROVE  Gone(d) \/ Deleting(d)
    <2>0. /\ TypeOK /\ RowsGone /\ UploadsAlone /\ StoresAgree
      BY <1>1 DEF IInv
    <2>1. d \in Ids /\ ~Exists(d) /\ ~HasPages(d) /\ ~row[d].key
      BY <2>0, <1>1 DEF TypeOK, RowsGone
    <2>2. ~Uploading(d)
      BY <2>0, <1>1 DEF UploadsAlone, Uploading
    <2>3. /\ file[d] # "original"
          /\ file[d] = "quarantine" => Deleting(d)
      BY <2>0, <2>1, <2>2, <1>1 DEF StoresAgree
    <2>4. file[d] \in {"none", "original", "quarantine"}
      BY <2>0, <2>1 DEF TypeOK
    <2> QED
      BY <2>1, <2>3, <2>4 DEF Gone
  <1>2. IInv => DeletedIsGone
    BY <1>1 DEF DeletedIsGone
  <1> QED
    BY <1>2, Invariance, PTL

\* Without a fault and without two requests processing one document, a
\* document that nobody is processing is described as it is stored, and is
\* left in "processing" only by an extraction that raised.
THEOREM SerialIsTruthful == Spec => []TruthfulWhenSerial
  <1>1. ASSUME IInv, ~faulted, ~raced, NEW d \in Ids, ~Processing(d)
        PROVE  Truthful(d) /\ (row[d].status = "processing" => d \in raised)
    <2>1. CASE Exists(d)
      BY <1>1, <2>1 DEF IInv, ProcessingIsTrue, Processing
    <2>2. CASE ~Exists(d)
      BY <2>2 DEF Exists, Truthful, Results
    <2> QED
      BY <2>1, <2>2
  <1>2. IInv => TruthfulWhenSerial
    BY <1>1 DEF TruthfulWhenSerial
  <1> QED
    BY <1>2, Invariance, PTL

-----------------------------------------------------------------------------
(* A reprocess repairs.                                                    *)

\* A step of one request leaves every other where it is.
LEMMA OneMoves ==
    ASSUME TypeOK, NEW q \in Requests, NEW r \in Requests \ {q},
           Begins(q) \/ Continues(q) \/ GoesWrong(q)
    PROVE  req'[r].at = req[r].at
  <1>1. ASSUME NEW s, Alone(q, s) PROVE req'[r].at = req[r].at
    BY <1>1 DEF Alone, TypeOK
  <1>2. ASSUME NEW s, NEW d, Goes(q, s, d) PROVE req'[r].at = req[r].at
    <2>1. req[r] \in Request
      BY DEF TypeOK
    <2>2. req'[r] = IF req[r].at # "idle" /\ req[r].doc = d
                    THEN [req[r] EXCEPT !.stale = TRUE] ELSE req[r]
      BY <1>2 DEF Goes
    <2> QED
      BY <2>1, <2>2 DEF Request
  <1>3. CASE Begins(q)
    BY <1>3, <1>1, <1>2 DEF Begins, StageUpload, Reprocess, Quarantine
  <1>4. CASE Continues(q)
    <2>1. CASE RefuseDuplicate(q) \/ Finalize(q) \/ CommitUpload(q) \/ UploadCollides(q)
      BY <2>1, <1>1
      DEF RefuseDuplicate, Finalize, CommitUpload, UploadCollides
    <2>2. CASE \/ DeletePages(q) \/ SourceIsGone(q) \/ Extract(q)
               \/ ExtractRaises(q) \/ ProcessingFails(q)
      BY <2>2, <1>1
      DEF DeletePages, SourceIsGone, Extract, ExtractRaises, ProcessingFails
    <2>3. CASE CommitProcessing(q) \/ CommitPages(q) \/ CommitDelete(q)
      BY <2>3, <1>2 DEF CommitProcessing, CommitPages, CommitDelete
    <2>4. CASE Purge(q)
      BY <2>4, <1>1 DEF Purge
    <2> QED
      BY <1>4, <2>1, <2>2, <2>3, <2>4 DEF Continues
  <1>5. CASE GoesWrong(q)
    <2>1. CASE UploadFails(q) \/ ProcessingAborts(q) \/ Crash(q)
      BY <2>1, <1>1 DEF UploadFails, ProcessingAborts, Crash
    <2>2. CASE DeleteFails(q)
      BY <2>2, <1>2 DEF DeleteFails
    <2> QED
      BY <1>5, <2>1, <2>2 DEF GoesWrong
  <1> QED
    BY <1>3, <1>4, <1>5

\* A request that is not stale, has extracted and ends with a result in its
\* row has committed it.
LEMMA OnlyItsCommit ==
    ASSUME IInv, [Next]_vars, NEW r \in Requests, NEW d \in Ids,
           req[r].at = "extracted", req[r].doc = d, ~req[r].stale,
           req'[r].at = "idle", row'[d].status \in Results
    PROVE  CommitPages(r)
  <1>0. TypeOK /\ row' # row
    <2>1. row[d].status = "processing"
      BY DEF IInv, LoadedIsStored
    <2> QED
      BY <2>1 DEF Results, IInv
  <1>1. CASE UNCHANGED vars
    BY <1>0, <1>1 DEF vars
  <1>2. ASSUME NEW e \in Ids, NEW c \in Contents, CreateDocumentMetadata(e, c)
        PROVE  FALSE
    <2>1. req' = req
      BY <1>2 DEF CreateDocumentMetadata
    <2> QED
      BY <2>1
  <1>3. ASSUME NEW q \in Requests, Begins(q) \/ Continues(q) \/ GoesWrong(q)
        PROVE  CommitPages(r)
    <2>1. q = r
      BY <1>0, <1>3, OneMoves
    <2>2. ~Begins(r)
      BY DEF Begins, StageUpload, Reprocess, Quarantine
    <2>3. CASE Continues(r)
      <3>1. ~(\/ RefuseDuplicate(r) \/ Finalize(r) \/ CommitUpload(r)
              \/ UploadCollides(r) \/ DeletePages(r) \/ SourceIsGone(r))
        BY DEF RefuseDuplicate, Finalize, CommitUpload, UploadCollides,
               DeletePages, SourceIsGone
      <3>2. ~(\/ CommitProcessing(r) \/ Extract(r) \/ ExtractRaises(r)
              \/ CommitDelete(r) \/ Purge(r))
        BY DEF CommitProcessing, Extract, ExtractRaises, CommitDelete, Purge
      <3>3. ~ProcessingFails(r)
        BY <1>0 DEF ProcessingFails
      <3> QED
        BY <2>3, <3>1, <3>2, <3>3 DEF Continues
    <2>4. ~GoesWrong(r)
      BY <1>0 DEF GoesWrong, UploadFails, DeleteFails, ProcessingAborts, Crash
    <2> QED
      BY <1>3, <2>1, <2>2, <2>3, <2>4
  <1> QED
    BY <1>1, <1>2, <1>3 DEF Next

\* After any crash and any race, a reprocess that nobody disturbs leaves a
\* row that says what is stored.
THEOREM ReprocessIsARepair == Spec => ReprocessRepairs
  <1>1. ASSUME IInv, [Next]_vars, NEW r \in Requests, NEW d \in Ids
        PROVE  Repaired(r, d)
    <2> SUFFICES ASSUME req[r].at = "extracted", req[r].doc = d,
                        ~req[r].stale, req'[r].at = "idle",
                        row'[d].status \in Results
                 PROVE  Truthful(d)'
      BY DEF Repaired
    <2>1. CommitPages(r)
      BY <1>1, OnlyItsCommit
    <2>2. /\ row[d] \in Row /\ row[d].page_count = 0 /\ pages[d] = 0
          /\ row \in [Ids -> Row] /\ pages \in [Ids -> {0, 1}]
      BY <1>1 DEF IInv, TypeOK, LoadedIsStored
    <2>3. /\ row'[d].status = req[r].status
          /\ row'[d].page_count = Written(0, NewPages(r), 0)
      BY <2>1, <2>2 DEF CommitPages, Row
    <2>4. pages'[d] = 0 + NewPages(r)
      BY <2>1, <2>2 DEF CommitPages
    <2> QED
      BY <2>3, <2>4 DEF Truthful, HasPages, Written, NewPages
  <1>2. IInv /\ [Next]_vars => [\A r \in Requests, d \in Ids : Repaired(r, d)]_vars
    BY <1>1
  <1> QED
    BY <1>2, Invariance, PTL DEF Spec, ReprocessRepairs

-----------------------------------------------------------------------------
(* Binaries are kept.                                                      *)

\* Only four kinds of step can take a binary away, or move it, and each has a
\* document without a row before it, or leaves the binary somewhere.
THEOREM NoBinaryIsLost == Spec => BinariesKept
  <1>1. ASSUME IInv, [Next]_vars, NEW d \in Ids, row[d].key, file[d] # "none"
        PROVE  file'[d] # "none"
    <2>0. /\ file \in [Ids -> {"none", "original", "quarantine"}]
          /\ \A r \in Requests : req[r].doc \in Ids
          /\ Exists(d)
      BY <1>1 DEF IInv, TypeOK, Request, RowsGone
    <2>1. CASE file' = file
      BY <2>1, <1>1
    <2>2. ASSUME NEW r \in Requests,
                 Finalize(r) \/ UploadCollides(r) \/ UploadFails(r) \/ Purge(r)
          PROVE  file'[d] # "none"
      <3>1. ~Exists(req[r].doc) \/ file' = [file EXCEPT ![req[r].doc] = "original"]
        BY <1>1, <2>2 DEF Finalize, UploadCollides, UploadFails, Purge, IInv,
                          UploadsAlone, StepsOrdered
      <3>2. \A e \in Ids \ {req[r].doc} : file'[e] = file[e]
        BY <2>0, <2>2 DEF Finalize, UploadCollides, UploadFails, Purge
      <3> QED
        BY <3>1, <3>2, <2>0, <1>1
    <2>3. ASSUME NEW r \in Requests, NEW e \in Ids, Quarantine(r, e)
          PROVE  file'[d] # "none"
      BY <2>3, <2>0, <1>1 DEF Quarantine, InQuarantine
    <2>4. ASSUME NEW r \in Requests, DeleteFails(r) PROVE file'[d] # "none"
      BY <2>4, <2>0, <1>1 DEF DeleteFails
    <2>5. ASSUME NEW r \in Requests, Begins(r) \/ Continues(r) \/ GoesWrong(r)
          PROVE  file'[d] # "none"
      <3>1. CASE Begins(r)
        BY <3>1, <2>1, <2>3 DEF Begins, StageUpload, Reprocess
      <3>2. CASE Continues(r)
        BY <3>2, <2>1, <2>2
        DEF Continues, RefuseDuplicate, CommitUpload, DeletePages, SourceIsGone,
            CommitProcessing, Extract, ExtractRaises, CommitPages,
            ProcessingFails, CommitDelete
      <3>3. CASE GoesWrong(r)
        BY <3>3, <2>1, <2>2, <2>4 DEF GoesWrong, ProcessingAborts, Crash
      <3> QED
        BY <2>5, <3>1, <3>2, <3>3
    <2> QED
      BY <1>1, <2>1, <2>5 DEF Next, CreateDocumentMetadata, vars
  <1>2. IInv /\ [Next]_vars => [\A d \in Ids : Kept(d)]_vars
    BY <1>1 DEF Kept
  <1> QED
    BY <1>2, Invariance, PTL DEF Spec, BinariesKept
=============================================================================
