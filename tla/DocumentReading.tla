--------------------------- MODULE DocumentReading ---------------------------
(***************************************************************************)
(* A file in the RAG service, from its manifest to the report to the       *)
(* backend: ingest_file and process_file_processing_request                *)
(* (api/ingest.py, api/v1/endpoints/file_processing.py), the download      *)
(* (infrastructure/file), the parsers with OCR (document/media_aware.py),  *)
(* the embedding of the chunks (embedding/tei.py).  What is made of a body *)
(* is in DocumentText; the documents share the workers of OcrPool and the  *)
(* lock of OfficeRendering.  The index is a call that may fail here:       *)
(* FileIndexing says what it does.                                         *)
(***************************************************************************)
EXTENDS DocumentText, OcrPool, OfficeRendering

CONSTANTS
  Cases,             \* what the documents may be: for each its [type, url, response]
  MaxFile,           \* file_download_max_size_bytes
  Unlucky,           \* bound: the documents with which the parser and the services may fail
  ParserMayFail, EmbeddingMayFail, IndexMayFail,  \* bound: and how
  BackendMayAnswer,  \* bound: what the backend may answer instead of what is expected of it
  MaxTries           \* app_server_max_attempts

\* What the object store answers.  length is NoLength without the header, negative also
\* when it is no number.  A body of type "zip" is a package of none of the formats, one of type
\* "binary" nothing known.
NoLength == -2
Response == [fault : {"none", "timeout", "unreachable"}, status : 100..599, length : Int,
             encoding : {"identity", "gzip"}, media : {"none", "generic", "image"} \cup Office \cup {"pdf", "txt"},
             size : Nat, body : [type : Office \cup {"pdf", "txt", "zip", "binary"}, places : Nat, parts : Seq(
               [at : Nat, file : Nat, kind : TextKinds \cup {"picture", "visual", "page", "drawing"},
                size : Nat, image : Calls \cup {NoImage}, cover : Nat, ends : BOOLEAN])]]

\* A part stands at a place, only of a PDF are pages rendered, and a paragraph of a DOCX is a
\* heading or it is not.
InPlace(body) ==
  \A i \in DOMAIN body.parts :
    /\ body.parts[i].at \in 1..body.places
    /\ body.parts[i].kind = "page" => body.type = "pdf"
    /\ body.type = "docx" /\ body.parts[i].kind = "heading" => Among(body, body.parts[i].at, TextKinds) = {i}

\* _convert_document_parser_error
ParserErrors == {"INVALID_DOCUMENT", "ENCRYPTED_DOCUMENT", "DOCUMENT_TEXT_EXTRACTION_FAILED", "DOCUMENT_READ_FAILED"}

\* _request of the client for the backend: no answer, a 408, a 429 or 5xx, a 404, another status, no JSON.
Answers == {"timeout", "unreachable", "late", "busy", "missing", "rejected", "garbled"}
Retryable == {"timeout", "unreachable", "late", "busy"}

ASSUME ReadingConstants ==
  /\ ParserMayFail \subseteq ParserErrors /\ Unlucky \subseteq Documents
  /\ BackendMayAnswer \subseteq Answers /\ MaxTries \in Nat \ {0}
  /\ NoImage \notin Calls /\ NoDocument \notin Documents
  /\ \A files \in Cases : \A d \in Documents :
       files[d].response \in Response /\ InPlace(files[d].response.body)

VARIABLES
  file,   \* per document what it is
  doc,    \* per document where its request is, what it has found and what it has reported
  temp    \* the documents whose downloaded file is on the disk

ownVars == <<file, doc, temp>>
vars == <<ownVars, poolVars, officeVars>>

Body(d) == file[d].response.body

\* What is made of each body, computed once.
Bodies == {files[d].response.body : files \in Cases, d \in Documents}
EmbeddedIn == [body \in Bodies |-> Embedded(body)]
UnitsIn == [body \in Bodies |-> TextUnits(body)]

Init ==
  /\ PoolInit /\ OfficeInit
  /\ file \in Cases
  /\ doc = [d \in Documents |-> [pc |-> "manifest", tries |-> 1, images |-> <<>>, units |-> <<>>,
                                 late |-> {}, code |-> "none", sent |-> <<>>]]
  /\ temp = {}

Over == {"ended", "unknown"}

Moves(d, x) == doc' = [doc EXCEPT ![d] = x]
To(d, pc) == Moves(d, [doc[d] EXCEPT !.pc = pc])

Ends(d, code, sent) ==
  Moves(d, [doc[d] EXCEPT !.pc = "ended", !.images = <<>>, !.units = <<>>, !.late = {},
                          !.code = code, !.sent = sent])

\* An error of the processing is reported to the backend, whether the report gets there or not.
Fails(d, code) == Ends(d, code, Append(doc[d].sent, "failure"))

-----------------------------------------------------------------------------
(* Manifest and download                                                   *)

Again(d, answer) == answer \in Retryable /\ doc[d].tries < MaxTries

RequestCode(answer) ==
  CASE answer \in {"timeout", "late"}     -> "APPLICATION_SERVER_TIMEOUT"
    [] answer \in {"unreachable", "busy"} -> "APPLICATION_SERVER_UNAVAILABLE"
    [] answer = "missing"                 -> "RESOURCE_NOT_FOUND"
    [] answer = "rejected"                -> "APPLICATION_SERVER_REQUEST_REJECTED"
    [] OTHER                              -> "INVALID_APPLICATION_SERVER_RESPONSE"

\* Without its manifest a file is "unknown", and nobody is told.
FetchManifest(d) ==
  /\ doc[d].pc = "manifest"
  /\ \/ Moves(d, [doc[d] EXCEPT !.pc = "download", !.tries = 1])
     \/ d \in Unlucky /\ \E answer \in BackendMayAnswer :
          IF Again(d, answer) THEN Moves(d, [doc[d] EXCEPT !.tries = @ + 1])
          ELSE Moves(d, [doc[d] EXCEPT !.pc = "unknown", !.code = RequestCode(answer)])
  /\ UNCHANGED <<file, temp, poolVars, officeVars>>

HeaderProblem(r) ==
  CASE r.status \notin 200..299                    -> "FILE_DOWNLOAD_FAILED"
    [] r.length # NoLength /\ r.length < 0         -> "FILE_DOWNLOAD_FAILED"
    [] r.length # NoLength /\ r.length > MaxFile   -> "FILE_TOO_LARGE"
    [] r.encoding # "identity"                     -> "INVALID_FILE"
    [] r.media = "image"                           -> "UNSUPPORTED_FILE_MEDIA_TYPE"
    [] OTHER -> "none"

MagicFamily(body) ==
  CASE body.type = "pdf" -> "PDF"
    [] body.type \in Office \cup {"zip"} -> "OOXML"
    [] body.type = "txt" -> "TEXT"
    [] OTHER -> "BINARY"

MagicProblem(r) ==
  LET family == MagicFamily(r.body)
  IN CASE family = "BINARY"                            -> "INVALID_FILE"
       [] r.media = "pdf" /\ family # "PDF"            -> "INVALID_FILE"
       [] r.media \in Office /\ family # "OOXML"       -> "INVALID_FILE"
       [] r.media = "txt" /\ family # "TEXT"           -> "UNSUPPORTED_FILE_MEDIA_TYPE"
       [] OTHER -> "none"

PackageProblem(r) ==
  IF /\ MagicFamily(r.body) = "OOXML"
     /\ r.body.type = "zip" \/ (r.media \in Office /\ r.media # r.body.type)
  THEN "INVALID_FILE" ELSE "none"

BodyProblem(r) ==
  CASE r.fault = "timeout"     -> "FILE_DOWNLOAD_TIMEOUT"
    [] r.fault = "unreachable" -> "FILE_DOWNLOAD_FAILED"
    [] HeaderProblem(r) # "none" -> HeaderProblem(r)
    [] r.size > MaxFile        -> "FILE_TOO_LARGE"
    [] r.size = 0              -> "INVALID_FILE"
    [] MagicProblem(r) # "none" -> MagicProblem(r)
    [] OTHER -> PackageProblem(r)

\* _validate_download_url: HTTPS on the standard port of an allowed host, and no more.
DownloadProblem(f) == IF f.url # "allowed" THEN "INVALID_FILE_URL" ELSE BodyProblem(f.response)

\* The temporary file is removed with any problem.
Download(d) ==
  /\ doc[d].pc = "download"
  /\ IF DownloadProblem(file[d]) = "none"
     THEN To(d, "images") /\ temp' = temp \cup {d}
     ELSE Fails(d, DownloadProblem(file[d])) /\ UNCHANGED temp
  /\ UNCHANGED <<file, poolVars, officeVars>>

-----------------------------------------------------------------------------
(* Images and text                                                         *)

\* download_safe_office_source_path: Office wants its suffix, the temporary file has another.
ExtractImages(d) ==
  /\ doc[d].pc = "images"
  /\ \/ /\ file[d].type = "txt" \/ file[d].type # Body(d).type
        /\ To(d, "text")
        /\ UNCHANGED <<officeVars>>
     \/ /\ file[d].type = Body(d).type /\ file[d].type # "txt"
        /\ IF Visuals(Body(d)) = {}
           THEN /\ Moves(d, [doc[d] EXCEPT !.pc = "text",
                                            !.images = WithSheetNumber(Body(d), EmbeddedIn[Body(d)])])
                /\ UNCHANGED <<officeVars>>
           ELSE /\ Moves(d, [doc[d] EXCEPT !.pc = "render", !.images = EmbeddedIn[Body(d)]])
                /\ source' = source \cup {d}
                /\ UNCHANGED <<officeLock, render, office, saved, outcome>>
  /\ UNCHANGED <<file, temp, poolVars>>

\* An extraction that fails leaves the document without images.
ImagesFail(d) ==
  /\ doc[d].pc = "images"
  /\ To(d, "text")
  /\ UNCHANGED <<file, temp, poolVars, officeVars>>

AskOffice(d) ==
  /\ doc[d].pc = "render" /\ RenderAsk(d)
  /\ UNCHANGED <<ownVars, poolVars>>

\* The copy goes with its directory.  An Office process that still has it open keeps it
\* there, and the error costs the document all its images.
Rendered(d) ==
  /\ doc[d].pc = "render" /\ outcome[d] \in {"rendered", "unavailable"}
  /\ LET images == IF outcome[d] = "rendered" THEN WithVisuals(Body(d), doc[d].images) ELSE doc[d].images
     IN IF office[d] = "none"
        THEN /\ source' = source \ {d}
             /\ Moves(d, [doc[d] EXCEPT !.pc = "text", !.images = WithSheetNumber(Body(d), images)])
        ELSE /\ Moves(d, [doc[d] EXCEPT !.pc = "text", !.images = <<>>])
             /\ UNCHANGED source
  /\ UNCHANGED <<file, temp, poolVars, officeLock, render, office, saved, outcome>>

\* A document without text waits for what OCR will find; a text file has no images.
ReadText(d) ==
  /\ doc[d].pc = "text"
  /\ LET units == UnitsIn[Body(d)]
     IN IF file[d].type # Body(d).type
        THEN Fails(d, "INVALID_DOCUMENT") /\ temp' = temp \ {d}
        ELSE IF file[d].type = "txt" /\ NoText(units)
        THEN Fails(d, "DOCUMENT_TEXT_NOT_FOUND") /\ temp' = temp \ {d}
        ELSE /\ Moves(d, [doc[d] EXCEPT !.pc = "ocr",
                            !.units = IF NoText(units) THEN AnchorUnits(Body(d), doc[d].images) ELSE units])
             /\ UNCHANGED temp
  /\ UNCHANGED <<file, poolVars, officeVars>>

\* Encrypted, corrupt or unreadable after all.
TextFails(d) ==
  /\ doc[d].pc = "text" /\ d \in Unlucky
  /\ \E code \in ParserMayFail : Fails(d, code)
  /\ temp' = temp \ {d}
  /\ UNCHANGED <<file, poolVars, officeVars>>

-----------------------------------------------------------------------------
(* OCR: one task per different image, all of them awaited                  *)

Tasks(d) == {doc[d].images[k].image : k \in Candidates(doc[d].images)}

Recognise(d, c) ==
  /\ doc[d].pc = "ocr" /\ c \in Tasks(d) \ doc[d].late
  /\ EnterPool(c)
  /\ UNCHANGED <<ownVars, officeVars>>

\* asyncio.wait gives up: what is not done is cancelled, and counts for nothing however it ends.
OcrTimeout(d) ==
  /\ doc[d].pc = "ocr" /\ doc[d].late = {}
  /\ LET late == {c \in Tasks(d) : call[c].pc \notin Ended}
     IN late # {} /\ Moves(d, [doc[d] EXCEPT !.late = late])
  /\ UNCHANGED <<file, temp, poolVars, officeVars>>

CancelTask(d, c) ==
  /\ c \in doc[d].late /\ CancelIdle(c)
  /\ UNCHANGED <<ownVars, officeVars>>

\* The document goes on when every task has ended.  An error that is no OcrError is not caught.
OcrEnds(d) ==
  /\ doc[d].pc = "ocr" /\ \A c \in Tasks(d) : call[c].pc \in Ended
  /\ LET done == Tasks(d) \ doc[d].late
     IN \E read \in SUBSET {c \in done : call[c].pc = "answered"} :
          LET units == Merged(doc[d].units, Recognized(Body(d), doc[d].images, read))
          IN IF \E c \in done : call[c].pc = "crashed" THEN Fails(d, "INTERNAL_SERVER_ERROR")
             ELSE IF NoText(units) THEN Fails(d, "DOCUMENT_TEXT_NOT_FOUND")
             ELSE Moves(d, [doc[d] EXCEPT !.pc = "embed", !.images = <<>>, !.late = {},
                                          !.units = Prepared(file[d].type, units)])
  /\ temp' = temp \ {d}
  /\ UNCHANGED <<file, poolVars, officeVars>>

-----------------------------------------------------------------------------
(* Embeddings of the chunks, index and report                              *)

\* One request per batch; the first that fails ends it.
EmbeddingCode(fault) ==
  CASE fault = "timeout"                 -> "EMBEDDING_SERVICE_TIMEOUT"
    [] fault \in {"unreachable", "busy"} -> "EMBEDDING_SERVICE_UNAVAILABLE"
    [] fault = "refused"                 -> "EMBEDDING_REQUEST_REJECTED"
    [] OTHER                             -> "INVALID_EMBEDDING_RESPONSE"

Embed(d) ==
  /\ doc[d].pc = "embed"
  /\ \/ To(d, "index")
     \/ d \in Unlucky /\ \E fault \in EmbeddingMayFail : Fails(d, EmbeddingCode(fault))
  /\ UNCHANGED <<file, temp, poolVars, officeVars>>

IndexCode(error) ==
  CASE error = "LocalRagStorageError"           -> "LOCAL_RAG_STORAGE_FAILED"
    [] error = "VectorDatabaseUnavailableError" -> "VECTOR_DATABASE_UNAVAILABLE"
    [] OTHER                                    -> "VECTOR_STORAGE_FAILED"

Index(d) ==
  /\ doc[d].pc = "index"
  /\ \/ To(d, "publish")
     \/ d \in Unlucky /\ \E error \in IndexMayFail : Fails(d, IndexCode(error))
  /\ UNCHANGED <<file, temp, poolVars, officeVars>>

Told(d) == Append(doc[d].sent, "success")

PublishThenFails(d) ==  \* a broken Publish
  /\ doc[d].pc = "publish"
  /\ \/ Ends(d, "FILE_INDEXING_COMPLETED", Told(d))
     \/ d \in Unlucky /\ Ends(d, "APPLICATION_SERVER_TIMEOUT", Append(Told(d), "failure"))
  /\ UNCHANGED <<file, temp, poolVars, officeVars>>

\* hold_latest_active_snapshot and the success callback.  An attempt may arrive whatever is
\* answered: once the first has begun there is no other report.  The lock of the snapshot may
\* fail before it and after it.
Publish(d) ==
  /\ doc[d].pc = "publish"
  /\ \/ Ends(d, "FILE_INDEXING_COMPLETED", Told(d))
     \/ d \in Unlucky /\ \E answer \in BackendMayAnswer \ {"garbled"} :
          IF Again(d, answer) THEN Moves(d, [doc[d] EXCEPT !.tries = @ + 1, !.sent = Told(d)])
          ELSE Ends(d, RequestCode(answer), Told(d))
     \/ d \in Unlucky /\ doc[d].sent = <<>> /\ Fails(d, "LOCAL_RAG_STORAGE_FAILED")
     \/ d \in Unlucky /\ Ends(d, "LOCAL_RAG_STORAGE_FAILED", Told(d))
  /\ UNCHANGED <<file, temp, poolVars, officeVars>>

-----------------------------------------------------------------------------
DocumentStep(d) ==
  \/ FetchManifest(d) \/ Download(d) \/ ExtractImages(d) \/ ImagesFail(d) \/ AskOffice(d) \/ Rendered(d)
  \/ ReadText(d) \/ TextFails(d) \/ (\E c \in Calls : Recognise(d, c) \/ CancelTask(d, c)) \/ OcrEnds(d)
  \/ Embed(d) \/ Index(d) \/ Publish(d)

\* The lifespan closes the pool when no request is left.
Shutdown == (\A d \in Documents : doc[d].pc \in Over) /\ (CloseBegins \/ CloseWorkers)

Next ==
  \/ \E d \in Documents : DocumentStep(d) \/ OcrTimeout(d)
  \/ /\ \/ \E c \in Calls : CallStep(c) \/ CancelRepair(c)
        \/ \E s \in Slots : WorkerAnswers(s) \/ WorkerDies(s)
        \/ Shutdown
     /\ UNCHANGED <<ownVars, officeVars>>
  \/ OfficeNext /\ UNCHANGED <<ownVars, poolVars>>

Spec == Init /\ [][Next]_vars

\* The event loop runs what is ready, every wait of a call has a timeout, and so has every thread.
FairSpec ==
  /\ Spec
  /\ \A d \in Documents : WF_vars(DocumentStep(d)) /\ WF_vars(RenderStep(d) /\ UNCHANGED <<ownVars, poolVars>>)
  /\ \A c \in Calls : WF_vars(CallStep(c) /\ UNCHANGED <<ownVars, officeVars>>)

-----------------------------------------------------------------------------
(* A chunk is cited as the page, slide, sheet, block or line its content stands on, as a user   *)
(* counts them (RAG/docs/glossary.md:111), and under the heading a reader finds there.          *)
CitesItsPlace ==
  \A d \in Documents : doc[d].pc = "embed" =>
    \A chunk \in Range(Chunks(doc[d].units)) : CitesItsPlaceIn(Body(d), doc[d].units, chunk)

(* So it is, also when OCR found it or Office drew it, unless it was read in a picture on a     *)
(* slide that was moved; and SourceLocator refuses a chunk, and with it the search, only for a  *)
(* heading that is too long (_merge_units, _DocxStructureStrategy, build_source_locator).       *)
CitesUnlessMoved ==
  \A d \in Documents : doc[d].pc = "embed" =>
    \A chunk \in Range(Chunks(doc[d].units)) :
      /\ \/ CitesItsPlaceIn(Body(d), doc[d].units, chunk)
         \/ \E i \in doc[d].units[chunk.unit].of : OnMovedSlide(Body(d), i)
      /\ Citable(chunk) \/ RefusedForHeading(Body(d), chunk)

(* Whatever becomes of its images, of OCR and of Office, all the text of a document is in its   *)
(* chunks, and a document is refused as one without text only if it has none                    *)
(* (media_aware.py, character.py).                                                              *)
TextSurvives ==
  \A d \in Documents :
    /\ doc[d].pc = "embed" => Covered(Body(d), doc[d].units, Chunks(doc[d].units))
    /\ doc[d].code = "DOCUMENT_TEXT_NOT_FOUND" =>
         \A p \in Range(Body(d).parts) : p.kind \in TextKinds => p.size = 0

(* A document is reported as a success or as a failure, never as both, however often the report  *)
(* is sent again; a request that succeeds has reported a success, one that ends without a report *)
(* could not have its manifest; and none leaves its download behind (ingest_file,                *)
(* download_and_validate).                                                                       *)
ReportsAgree ==
  \A d \in Documents : doc[d].pc \in Over =>
    /\ d \notin temp
    /\ doc[d].sent = <<>> <=> doc[d].pc = "unknown"
    /\ Cardinality(Range(doc[d].sent)) <= 1 /\ Len(doc[d].sent) <= MaxTries
    /\ doc[d].code = "FILE_INDEXING_COMPLETED" => "success" \in Range(doc[d].sent)

(* Every request ends, whatever the store, the workers, Office and the services do.             *)
DocumentsEnd == \A d \in Documents : doc[d].pc = "manifest" ~> doc[d].pc \in Over

=============================================================================
