------------------------------ MODULE RagAnswers ------------------------------
(***************************************************************************)
(* A question to the RAG service, from the request to the cited answer     *)
(* (POST /rag/answers): RoutedRagAnswerService, ChunkSearchService with    *)
(* its embedder and repository, RagPromptBuilder, the Claude client and    *)
(* the error codes of the endpoint.                                        *)
(*                                                                         *)
(* A lookup is one search, one prompt and one call.  A synthesis searches  *)
(* every file, has one partial answer written for each, renumbers what     *)
(* they cite and has the final answer written from them.  Searches, calls  *)
(* and single partial answers may fail; the index may return points that   *)
(* are none of the user's business, or the points of two versions of a     *)
(* file while FileIndexing replaces one by the other.                      *)
(*                                                                         *)
(* A text is the sequence of SOURCE numbers it cites, a chunk its point    *)
(* and the length of its content.                                          *)
(***************************************************************************)
EXTENDS GenerationLimiter

CONSTANTS
  Points, Files,
  FileOf, DocOf,   \* the file of a point, and the rag document (the version of it)
  Score, Length,   \* its score for the question, the length of its content
  Solid,           \* the positions of its content that are not blank
  Foreign,         \* points of another user, inactive, or of another embedding model
  Questions,       \* what each request may ask: [token, files, compares, topK]
  MaxFiles,        \* reference_file_idxs: max_length (20)
  MinScore,        \* score_threshold
  MaxHits,         \* bound: points the index returns
  MaxPerDocument,  \* max_chunks_per_document
  MaxContext,      \* max_total_context_chars
  MaxChunk,        \* max_chunk_chars
  Replies,         \* bound: what Claude may write: [status, text, declared]
  Estimates,       \* bound: what _estimate_input_tokens may make of a prompt
  EmbeddingMayFail, IndexMayFail, ClaudeMayFail  \* bound: how calls may fail

\* What Claude writes, if it follows the schema; "malformed" stands for the values
\* _StructuredRagAnswer refuses on their own.
Reply == [status : {"answered", "insufficient_evidence", "malformed"}, text : Seq(Nat), declared : Seq(Nat)]

-----------------------------------------------------------------------------
(* Failures, the errors they are taken for and the codes they end as.      *)

\* TeiQueryEmbedder: what becomes of the answer of the embedding service.
EmbeddingFaults == {"timeout", "unreachable", "busy", "refused", "nonsense"}
EmbeddingError(fault) ==
  CASE fault = "timeout"                -> "EmbeddingServiceTimeoutError"
    [] fault \in {"unreachable", "busy"} -> "EmbeddingServiceUnavailableError"
    [] fault = "refused"                -> "EmbeddingServiceRejectedError"
    [] OTHER                            -> "InvalidEmbeddingResponseError"

\* _convert_embedding_error
EmbeddingCode(error) ==
  CASE error = "EmbeddingServiceTimeoutError"     -> "EMBEDDING_SERVICE_TIMEOUT"
    [] error = "EmbeddingServiceUnavailableError" -> "EMBEDDING_SERVICE_UNAVAILABLE"
    [] error = "EmbeddingServiceRejectedError"    -> "EMBEDDING_REQUEST_REJECTED"
    [] OTHER                                      -> "INVALID_EMBEDDING_RESPONSE"

\* QdrantChunkSearchRepository.search: 408, 429 and 5xx are "busy".
IndexFaults == {"unreachable", "busy", "refused"}
IndexError(fault) ==
  IF fault = "refused" THEN "VectorDatabaseRejectedError" ELSE "VectorDatabaseUnavailableError"

\* _convert_index_error
IndexCode(error) ==
  CASE error = "VectorDatabaseUnavailableError" -> "VECTOR_DATABASE_UNAVAILABLE"
    [] error = "InvalidVectorSearchResultError" -> "INVALID_VECTOR_SEARCH_RESULT"
    [] OTHER                                    -> "VECTOR_SEARCH_FAILED"

\* _map_anthropic_error
ClaudeFaults == {"unauthorized", "rateLimited", "timeout", "overloaded", "misread", "refused", "unreachable"}
ClaudeError(fault) ==
  CASE fault = "unauthorized" -> "GenerationAuthenticationError"
    [] fault = "rateLimited"  -> "GenerationRateLimitError"
    [] fault = "timeout"      -> "GenerationTimeoutError"
    [] fault = "overloaded"   -> "GenerationServerError"
    [] fault = "misread"      -> "InvalidGenerationResponseError"
    [] OTHER                  -> "GenerationProviderError"

\* _convert_generation_error
GenerationCode(error) ==
  CASE error = "GenerationBudgetExceededError" -> "GENERATION_BUDGET_EXCEEDED"
    [] error = "GenerationTimeoutError"        -> "GENERATION_SERVICE_TIMEOUT"
    [] error \in {"GenerationAuthenticationError", "GenerationRateLimitError", "GenerationServerError"}
                                               -> "GENERATION_SERVICE_UNAVAILABLE"
    [] error = "InvalidGenerationResponseError" -> "INVALID_GENERATION_RESPONSE"
    [] OTHER                                   -> "GENERATION_REQUEST_FAILED"

\* _convert_rag_answer_service_error: by the operation that failed.
ServiceCode(operation) ==
  IF operation = "answer_citation_validation_failed" THEN "INVALID_GENERATION_RESPONSE"
  ELSE "INTERNAL_SERVER_ERROR"

\* RagAnswerRequest; files and topK are checked by BodyError and by the schema.
Question == [token : {"right", "wrong", "unset"}, files : Seq(Files), compares : BOOLEAN, topK : Nat \ {0}]

ASSUME AnswerConstants ==
  /\ DOMAIN Questions = Requests /\ \A r \in Requests : Questions[r] \subseteq Question
  /\ FileOf \in [Points -> Files] /\ Foreign \subseteq Points
  /\ Score \in [Points -> Int] /\ Length \in [Points -> Nat \ {0}]
  /\ \A p \in Points : Solid[p] \subseteq 1..Length[p] /\ {1, Length[p]} \subseteq Solid[p]   \* strip()
  /\ Replies \subseteq Reply /\ Estimates \subseteq Nat
  /\ EmbeddingMayFail \subseteq EmbeddingFaults /\ IndexMayFail \subseteq IndexFaults
  /\ ClaudeMayFail \subseteq ClaudeFaults
  /\ MaxPerDocument \in Nat \ {0} /\ MaxContext \in Nat \ {0} /\ MaxChunk \in Nat \ {0}

VARIABLES ask, run

vars == <<ask, run, limiter>>

Nothing == [code |-> "none", text |-> <<>>, cites |-> <<>>]

Ended(code) == [code |-> code, text |-> <<>>, cites |-> <<>>]

Init ==
  /\ LimiterInit
  /\ ask \in {a \in [Requests -> UNION Range(Questions)] : \A r \in Requests : a[r] \in Questions[r]}
  /\ run = [r \in Requests |->
       [pc |-> "receive", stage |-> "lookup", todo |-> ask[r].files, chunks |-> <<>>,
        groups |-> <<>>, sources |-> <<>>, partials |-> <<>>, outcome |-> Nothing]]

Done(x, outcome) ==
  [x EXCEPT !.pc = "done", !.outcome = outcome, !.todo = <<>>, !.chunks = <<>>,
            !.groups = <<>>, !.sources = <<>>, !.partials = <<>>]
Insufficient(x) == Done(x, Ended("insufficient_evidence"))

\* verify_rag_ingest_token goes before the body is looked at.
TokenError(q) ==
  CASE q.token = "unset" -> "SERVICE_UNAVAILABLE"   \* the service has none to compare with
    [] q.token = "wrong" -> "UNAUTHORIZED"
    [] OTHER -> "none"

\* RagAnswerRequest and request_validation_exception_handler: from one to MaxFiles
\* different files.
BodyError(q) ==
  CASE q.files = <<>> -> "REFERENCE_DOCUMENT_REQUIRED"
    [] Len(q.files) > MaxFiles \/ ~IsInjective(q.files) -> "REQUEST_VALIDATION_FAILED"
    [] OTHER -> "none"

Receive(r) ==
  /\ run[r].pc = "receive"
  /\ run' = [run EXCEPT ![r] =
       IF TokenError(ask[r]) # "none" THEN Done(run[r], Ended(TokenError(ask[r])))
       ELSE IF BodyError(ask[r]) # "none" THEN Done(run[r], Ended(BodyError(ask[r])))
       ELSE [run[r] EXCEPT !.pc = "embed"]]
  /\ UNCHANGED <<ask, limiter>>

-----------------------------------------------------------------------------
(* Search                                                                  *)

\* RuleBasedRagQueryClassifier.classify: compares stands for the patterns.
Synthesis(q) == Len(q.files) >= 2 /\ q.compares

\* The files and the limit of the next search: all of them for a lookup, the next one of
\* a synthesis.
SearchedFiles(r) == IF Synthesis(ask[r]) THEN {Head(run[r].todo)} ELSE ToSet(ask[r].files)
Limit(r) == IF Synthesis(ask[r]) THEN Min({ask[r].topK, MaxPerDocument}) ELSE ask[r].topK

\* What one point must satisfy: user, state, model, file and score.
ValidHit(p, files) == p \notin Foreign /\ FileOf[p] \in files /\ Score[p] >= MinScore

ValidHits(hits, files, limit) ==
  /\ Len(hits) <= limit
  /\ \A k \in DOMAIN hits : ValidHit(hits[k], files)
  /\ \A k \in 1..(Len(hits) - 1) : Score[hits[k + 1]] <= Score[hits[k]]
  /\ IsInjective(hits)

-----------------------------------------------------------------------------
(* Context and prompts                                                     *)

\* _truncate_context, the length of what it leaves of a chunk: of a longer text the
\* blanks before the cut go too, and the marker, one character, comes behind.
Truncated(c, limit) ==
  IF c.length <= limit THEN c.length
  ELSE IF limit <= 1 THEN limit
  ELSE 1 + Max({i \in Solid[c.point] : i < limit})

\* Only the marker of a longer text would be left.
MarkerOnly(length, limit) == length > limit /\ limit <= 1

\* The elements of a sequence at the positions I, in their order.
Kth(I, k) == CHOOSE i \in I : Cardinality({j \in I : j <= i}) = k
Chosen(s, I) == [k \in 1..Cardinality(I) |-> s[Kth(I, k)]]

\* RagPromptBuilder.build: the chunks before the first that does not fit, numbered from 1.
\* A chunk that has passed the search is unique and not blank.  What _truncate_text leaves
\* of a chunk may be shorter than the limit; the limit is what the context loses.
ContextLeft(chunks, k) == MaxContext - MapThenSumSet(LAMBDA j : Min({chunks[j].length, MaxChunk}), 1..(k - 1))
FitsPrompt(chunks, k) ==
  LET left == ContextLeft(chunks, k)
  IN  left > 0 /\ (k > 1 => ~MarkerOnly(chunks[k].length, Min({MaxChunk, left})))

Prompt(chunks) ==
  LET fit == {k \in DOMAIN chunks : \A j \in 1..k : FitsPrompt(chunks, j)}
  IN  [k \in 1..Cardinality(fit) |-> [no |-> k, point |-> chunks[k].point]]

\* Bug: OneVersion does not look at the documents.
OneVersionAnyhow(chunks) == TRUE

\* group_chunks_by_document: one group per file, in the order of their first chunks.
OneVersion(chunks) ==
  \A j, k \in DOMAIN chunks :
    FileOf[chunks[j].point] = FileOf[chunks[k].point] => DocOf[chunks[j].point] = DocOf[chunks[k].point]

Unique(s) == Chosen(s, {k \in DOMAIN s : \A j \in 1..(k - 1) : s[j] # s[k]})

GroupedByFile(chunks) ==
  LET files == Unique([k \in DOMAIN chunks |-> FileOf[chunks[k].point]])
  IN  [g \in DOMAIN files |-> Chosen(chunks, {k \in DOMAIN chunks : FileOf[chunks[k].point] = files[g]})]

\* SynthesisContextPolicy.apply: the i-th chunks of all groups before the (i+1)-th of any,
\* as far as the context goes; a place is the number of a group and that of its chunk.
Places(groups) == {p \in (DOMAIN groups) \X (1..MaxPerDocument) : p[2] <= Len(groups[p[1]])}
Ahead(groups, p) == {q \in Places(groups) : q[2] < p[2] \/ (q[2] = p[2] /\ q[1] < p[1])}

\* Here the context loses what is left of each chunk; left[n] remains after n places.
ChunkLimit(groups, p) ==
  LET place(n) == CHOOSE q \in Places(groups) : Cardinality(Ahead(groups, q)) = n - 1
      left[n \in 0..Cardinality(Ahead(groups, p))] ==
        IF n = 0 THEN MaxContext
        ELSE left[n - 1] - Truncated(groups[place(n)[1]][place(n)[2]], Min({MaxChunk, left[n - 1]}))
  IN  Min({MaxChunk, left[Cardinality(Ahead(groups, p))]})
FitsContext(groups, p) ==
  LET limit == ChunkLimit(groups, p) IN limit > 0 /\ ~MarkerOnly(groups[p[1]][p[2]].length, limit)

LimitedGroups(groups) ==
  LET fit == {p \in Places(groups) : \A q \in Ahead(groups, p) \cup {p} : FitsContext(groups, q)}
      taken == [g \in DOMAIN groups |->
        [i \in 1..Cardinality({p \in fit : p[1] = g}) |->
          LET c == groups[g][i]
          IN  [point |-> c.point, length |-> Truncated(c, ChunkLimit(groups, <<g, i>>))]]]
  IN  Chosen(taken, {g \in DOMAIN taken : taken[g] # <<>>})

-----------------------------------------------------------------------------
(* Steps of a synthesis                                                    *)

\* _build_synthesis_prompt: the sources of the partial answers; no number, no chunk twice.
FinalSources(partials) == FlattenSeq([k \in DOMAIN partials |-> partials[k].sources])
FinalPromptFails(sources) ==
  ~ /\ IsInjective([k \in DOMAIN sources |-> sources[k].no])
    /\ IsInjective([k \in DOMAIN sources |-> sources[k].point])

\* The loop of _generate_partial_answers goes on.
NextPartial(x) == [x EXCEPT !.pc = "prompt", !.stage = "partial", !.sources = <<>>]

\* _search_synthesis_groups after the last file, and the context policy.
Grouped(x) ==
  IF x.chunks = <<>> THEN Insufficient(x)
  ELSE IF ~OneVersion(x.chunks) THEN Done(x, Ended(ServiceCode("synthesis_routing_failed")))
  ELSE NextPartial([x EXCEPT !.groups = LimitedGroups(GroupedByFile(x.chunks))])

\* One more file has been searched, with or without success.
Collected(x, chunks) ==
  LET y == [x EXCEPT !.pc = "embed", !.todo = Tail(@), !.chunks = @ \o chunks]
  IN  IF y.todo = <<>> THEN Grouped(y) ELSE y

Chunks(hits) == [k \in DOMAIN hits |-> [point |-> hits[k], length |-> Length[hits[k]]]]

\* The question is embedded, once for every search.
Embedded(r) ==
  /\ run[r].pc = "embed"
  /\ run' = [run EXCEPT ![r].pc = "search"]
  /\ UNCHANGED <<ask, limiter>>

\* A search fails: a lookup fails with it, a synthesis goes on without that file.
SearchFailed(r, code) == IF Synthesis(ask[r]) THEN Collected(run[r], <<>>) ELSE Done(run[r], Ended(code))

EmbeddingFails(r, fault) ==
  /\ run[r].pc = "embed"
  /\ run' = [run EXCEPT ![r] = SearchFailed(r, EmbeddingCode(EmbeddingError(fault)))]
  /\ UNCHANGED <<ask, limiter>>

IndexFails(r, fault) ==
  /\ run[r].pc = "search"
  /\ run' = [run EXCEPT ![r] = SearchFailed(r, IndexCode(IndexError(fault)))]
  /\ UNCHANGED <<ask, limiter>>

\* Any other exception of either: _search_chunks.
SearchBreaks(r) ==
  /\ run[r].pc \in {"embed", "search"}
  /\ run' = [run EXCEPT ![r] = SearchFailed(r, ServiceCode("chunk_search_failed"))]
  /\ UNCHANGED <<ask, limiter>>

\* The search answers: ChunkSearchService.search, then answer or _search_synthesis_groups.
Searched(r, hits) ==
  /\ run[r].pc = "search" /\ ValidHits(hits, SearchedFiles(r), Limit(r))
  /\ run' = [run EXCEPT ![r] =
       IF Synthesis(ask[r]) THEN Collected(run[r], Chunks(hits))
       ELSE IF hits = <<>> THEN Insufficient(run[r])
       ELSE [@ EXCEPT !.pc = "prompt", !.todo = <<>>, !.chunks = Chunks(hits)]]
  /\ UNCHANGED <<ask, limiter>>

\* The index answers with something the search refuses.
SearchRefused(r, hits) ==
  /\ run[r].pc = "search" /\ ~ValidHits(hits, SearchedFiles(r), Limit(r))
  /\ run' = [run EXCEPT ![r] = SearchFailed(r, IndexCode("InvalidVectorSearchResultError"))]
  /\ UNCHANGED <<ask, limiter>>

-----------------------------------------------------------------------------
(* Answers                                                                 *)

Asks(r, stage, sources) == [run[r] EXCEPT !.pc = "reserve", !.stage = stage, !.sources = sources]

\* The prompt of a lookup.
LookupPrompt(r) ==
  /\ run[r].pc = "prompt" /\ run[r].stage = "lookup"
  /\ run' = [run EXCEPT ![r] = Asks(r, "lookup", Prompt(run[r].chunks))]
  /\ UNCHANGED <<ask, limiter>>

\* The prompt of the next group of a synthesis.
PartialPrompt(r) ==
  /\ run[r].pc = "prompt" /\ run[r].stage = "partial" /\ run[r].groups # <<>>
  /\ run' = [run EXCEPT ![r] = [Asks(r, "partial", Prompt(Head(run[r].groups))) EXCEPT !.groups = Tail(@)]]
  /\ UNCHANGED <<ask, limiter>>

\* After the last group: the prompt of the final answer, unless there is no partial answer.
FinalPrompt(r) ==
  LET sources == FinalSources(run[r].partials) IN
  /\ run[r].pc = "prompt" /\ run[r].stage = "partial" /\ run[r].groups = <<>>
  /\ run' = [run EXCEPT ![r] =
       IF sources = <<>> THEN Insufficient(run[r])
       ELSE IF FinalPromptFails(sources) THEN Done(run[r], Ended(ServiceCode("synthesis_final_prompt_build_failed")))
       ELSE Asks(r, "final", sources)]
  /\ UNCHANGED <<ask, limiter>>

\* A GenerationError: a lookup and a final answer fail with it, a partial answer is left out.
GenerationFailed(x, error) == IF x.stage = "partial" THEN NextPartial(x) ELSE Done(x, Ended(GenerationCode(error)))

Ask(r, est) ==
  /\ run[r].pc = "reserve"
  /\ Reserve(r, est)
  /\ run' = [run EXCEPT ![r].pc = "wait"]
  /\ UNCHANGED ask

\* GenerationBudgetExceededError before the call.
OutOfBudget(r, est) ==
  /\ run[r].pc = "reserve" /\ ~MayReserve(r, est)
  /\ run' = [run EXCEPT ![r] = GenerationFailed(run[r], "GenerationBudgetExceededError")]
  /\ UNCHANGED <<ask, limiter>>

CallStarts(r) ==
  /\ run[r].pc = "wait" /\ Enter(r)
  /\ run' = [run EXCEPT ![r].pc = "call"]
  /\ UNCHANGED ask

\* _StructuredRagAnswer and _resolve_cited_sources: the declared sources are those of the
\* text, in the order of their first appearance, and sources of the prompt.
ValidReply(reply, sources) ==
  CASE reply.status = "answered" ->
         /\ reply.text # <<>>
         /\ reply.declared = Unique(reply.text)
         /\ ToSet(reply.text) \subseteq {sources[k].no : k \in DOMAIN sources}
    [] reply.status = "insufficient_evidence" -> reply.declared = <<>> /\ reply.text = <<>>
    [] OTHER -> FALSE

\* The source a number stands for in a prompt.
SourceNo(sources, n) == CHOOSE s \in ToSet(sources) : s.no = n
CitedSources(reply, sources) == [k \in DOMAIN reply.declared |-> SourceNo(sources, reply.declared[k])]
PointsOf(numbers, sources) == [k \in DOMAIN numbers |-> SourceNo(sources, numbers[k]).point]

\* next_global_source_number
FirstNumber(partials) == 1 + Len(FinalSources(partials))

\* Bug: Remapped renumbers the list, not the text.
RemappedListOnly(reply, sources, first) ==
  LET cited == CitedSources(reply, sources)
  IN  [said    |-> PointsOf(reply.text, sources),
       text    |-> reply.text,
       sources |-> [k \in DOMAIN cited |-> [no |-> first - 1 + k, point |-> cited[k].point]]]

\* _remap_partial_answer_sources: the cited sources get the numbers from first on, in the
\* text and in the list.  said is history: the points the model's text named.
Remapped(reply, sources, first) ==
  LET cited == CitedSources(reply, sources)
      new(n) == first - 1 + (CHOOSE k \in DOMAIN cited : cited[k].no = n)
  IN  [said    |-> PointsOf(reply.text, sources),
       text    |-> [k \in DOMAIN reply.text |-> new(reply.text[k])],
       sources |-> [k \in DOMAIN cited |-> [no |-> first - 1 + k, point |-> cited[k].point]]]

\* _build_answer_response, and what follows it in each stage.
Replied(x, reply) ==
  IF ~ValidReply(reply, x.sources) THEN Done(x, Ended(ServiceCode("answer_citation_validation_failed")))
  ELSE IF reply.status = "insufficient_evidence"
  THEN IF x.stage = "partial" THEN NextPartial(x) ELSE Insufficient(x)
  ELSE IF x.stage = "partial"
  THEN NextPartial([x EXCEPT !.partials = Append(@, Remapped(reply, x.sources, FirstNumber(@)))])
  ELSE Done(x, [code |-> "answered", text |-> reply.text, cites |-> CitedSources(reply, x.sources)])

\* Claude answers within the limits: the usage is committed.
CallReturns(r, reply, in, out) ==
  /\ run[r].pc = "call" /\ Commit(r, in, out)
  /\ run' = [run EXCEPT ![r] = IF Exceeded(r, in, out)
                               THEN GenerationFailed(run[r], "GenerationBudgetExceededError")
                               ELSE Replied(run[r], reply)]
  /\ UNCHANGED ask

\* The call fails unanswered.
CallFails(r, fault) ==
  /\ run[r].pc = "call" /\ Release(r)
  /\ run' = [run EXCEPT ![r] = GenerationFailed(run[r], ClaudeError(fault))]
  /\ UNCHANGED ask

\* Any other exception of the client: _generate_answer.
CallBreaks(r) ==
  /\ run[r].pc = "call" /\ Release(r)
  /\ run' = [run EXCEPT ![r] = IF run[r].stage = "partial" THEN NextPartial(run[r])
                               ELSE Done(run[r], Ended(ServiceCode("generation_failed")))]
  /\ UNCHANGED ask

\* _parse_structured_output: the answer was cut off at max_tokens, refused, or is no JSON
\* object.  What of it was billed is not counted.
CallUnusable(r) ==
  /\ run[r].pc = "call" /\ Release(r)
  /\ run' = [run EXCEPT ![r] = GenerationFailed(run[r], "InvalidGenerationResponseError")]
  /\ UNCHANGED ask

\* The task of the request is cancelled while it waits or calls (BaseException).
Cancelled(r) ==
  /\ \/ run[r].pc = "wait" /\ Leave(r)
     \/ run[r].pc = "call" /\ Release(r)
  /\ run' = [run EXCEPT ![r] = Done(run[r], Ended("cancelled"))]
  /\ UNCHANGED ask

-----------------------------------------------------------------------------

HitLists == UNION {[1..n -> Points] : n \in 0..MaxHits}

Step(r) ==
  \/ Receive(r)
  \/ run[r].pc = "search" /\ \E hits \in HitLists : Searched(r, hits) \/ SearchRefused(r, hits)
  \/ Embedded(r) \/ SearchBreaks(r)
  \/ \E fault \in EmbeddingMayFail : EmbeddingFails(r, fault)
  \/ \E fault \in IndexMayFail : IndexFails(r, fault)
  \/ LookupPrompt(r) \/ PartialPrompt(r) \/ FinalPrompt(r)
  \/ \E est \in Estimates : Ask(r, est) \/ OutOfBudget(r, est)
  \/ CallStarts(r)
  \/ run[r].pc = "call" /\ \E over \in {0, MaxOverrun} : \E reply \in Replies, out \in {1, outHeld[r] + over} :
       CallReturns(r, reply, inHeld[r] + over, out)
  \/ \E fault \in ClaudeMayFail : CallFails(r, fault)
  \/ CallUnusable(r) \/ CallBreaks(r)

Next == \E r \in Requests : Step(r) \/ Cancelled(r)

Spec == Init /\ [][Next]_vars

\* The event loop runs every task that can go on, and every call outside has a timeout.
FairSpec == Spec /\ \A r \in Requests : WF_vars(Step(r))

(***************************************************************************)
(* Properties                                                              *)
(***************************************************************************)

TypeOK ==
  /\ LimiterTypeOK
  /\ \A r \in Requests :
       /\ ask[r] \in Questions[r]
       /\ run[r].pc \in {"receive", "embed", "search", "prompt", "reserve", "wait", "call", "done"}
       /\ run[r].pc = "wait" <=> r \in Waiting
       /\ run[r].pc = "call" <=> r \in inCall

\* What a text says about a number, the number still means after renumbering: in the final
\* prompt every number of a partial answer stands for the point the model meant, and a
\* final answer cites points of the files of the question only.
CitationsKeepMeaning ==
  \A r \in Requests :
    /\ run[r].stage = "final" =>
         \A k \in DOMAIN run[r].partials :
           LET p == run[r].partials[k]
           IN  /\ ToSet(p.text) \subseteq {run[r].sources[j].no : j \in DOMAIN run[r].sources}
               /\ PointsOf(p.text, run[r].sources) = p.said
    /\ \A k \in DOMAIN run[r].outcome.cites :
         LET p == run[r].outcome.cites[k].point
         IN  p \notin Foreign /\ FileOf[p] \in ToSet(ask[r].files)

\* While a file is being replaced in the index, a synthesis never rests on two versions of it.
SynthesisOneVersion ==
  \A r \in Requests : Synthesis(ask[r]) =>
    \A j, k \in DOMAIN run[r].outcome.cites :
      LET p == run[r].outcome.cites[j].point
          q == run[r].outcome.cites[k].point
      IN  FileOf[p] = FileOf[q] => DocOf[p] = DocOf[q]

\* Every question is answered or refused, whatever fails.
QuestionsEnd == \A r \in Requests : <>(run[r].pc = "done")

=============================================================================
