--------------------------- MODULE KnowledgeQuery ---------------------------
(***************************************************************************)
(* Questions to the HR documents, over HTTP or MCP, while the index is     *)
(* maintained: from the controller through the stages of                   *)
(* KnowledgeQueryService.query to the answer and its trace.                *)
(*                                                                         *)
(* The services a stage calls may fail, and so may the writing of security *)
(* events and traces.  The search may find any of the active chunks, and   *)
(* the model may answer anything.                                          *)
(***************************************************************************)
EXTENDS KnowledgeIndex

CONSTANTS
    Questions,          \* what is asked
    EvidenceLimit,      \* how many chunks a search returns at most
    MaxQuestions,       \* bound
    Tracing,            \* configuration: traces are kept
    Invented            \* a chunk id the model makes up

VARIABLES
    query,              \* the question in work
    questions           \* how many there have been

queryVars == <<query, questions>>
vars == <<indexVars, queryVars>>

(* A question: whether it is 1 to 2000 characters long and safe, whether   *)
(* its employee is known, and the document it is about, or 0.              *)
Question == [valid: BOOLEAN, safe: BOOLEAN, known: BOOLEAN, document: Nat]

ASSUME QueryAssumption ==
    /\ Questions \subseteq Question
    /\ NoRow \notin [document: Nat, version: Nat, text: Contents]
    /\ EvidenceLimit \in Nat /\ MaxQuestions \in Nat
    /\ Tracing \in BOOLEAN

-----------------------------------------------------------------------------
(* Types and helpers                                                       *)

(* A chunk as a search returns it.                                         *)
Pieces(row) ==
    UNION {{[document |-> row.id, version |-> c.version, span |-> s, content |-> c.content] :
                s \in chunkPages(c.content.pages)} : c \in ActiveChunks(row)}

(* The chunks joined by id and active version, of one document or of all.  *)
ActiveChunksOf(document) ==
    UNION {Pieces(row) : row \in {d \in {documents[f] : f \in Files} \ {NoRow} :
                                    document \in {0, d.id}}}

UnsafePiece(p) == Unsafe(p.span, p.content)

HasLink(p) == p.content.link # NoSpan /\ Holds(p.span, p.content.link)

(* What the model may answer: something unsafe, any citations, a link.  A  *)
(* blank answer fares like one without citations.                          *)
NoAnswer == [safe |-> TRUE, cited |-> {}, link |-> "none"]

Answers(evidence) ==
    {[NoAnswer EXCEPT !.safe = FALSE]}
    \cup [safe: {TRUE}, cited: SUBSET (evidence \cup {Invented}),
          link: {"none", "policy", "elsewhere"}]

Results ==
    {"NONE", "ANSWERED", "INSUFFICIENT_EVIDENCE",
     "AUTHENTICATION_REQUIRED", "KNOWLEDGE_QUERY_INVALID", "UNSAFE_KNOWLEDGE_QUERY",
     "KNOWLEDGE_DOCUMENT_NOT_FOUND", "KNOWLEDGE_QUERY_FAILED", "INTERNAL_ERROR"}

(* `detected` and `recorded` count the findings of the safety patterns and *)
(* the security events, `traces` are those submitted, and `force` what was *)
(* in force at the search.                                                 *)
NoQuery ==
    [pc |-> "idle", question |-> [valid |-> FALSE, safe |-> TRUE, known |-> FALSE,
                                  document |-> 0],
     evidence |-> {}, answer |-> NoAnswer, sources |-> {}, result |-> "NONE",
     detected |-> 0, recorded |-> 0, traces |-> <<>>, force |-> {}]

Go(place) == query' = [query EXCEPT !.pc = place]

(* The question ends with `result`: by `finish`, or in the catch block.    *)
Ended(place, result) ==
    [query EXCEPT !.pc = place, !.result = result, !.evidence = {}, !.answer = NoAnswer]

Insufficient == Ended("finish", "INSUFFICIENT_EVIDENCE")
Failed == Ended("catch", "KNOWLEDGE_QUERY_FAILED")
Throw(code) == query' = Ended("catch", code)

(* MUTANT of Rejected: a finding that cannot be recorded is a finding.     *)
Rejected_unrecorded(end) ==
    \/ query' = [end EXCEPT !.detected = @ + 1, !.recorded = @ + 1]
    \/ query' = [end EXCEPT !.detected = @ + 1]

(* A finding is recorded before it counts, or the stage fails.             *)
Rejected(end) ==
    \/ query' = [end EXCEPT !.detected = @ + 1, !.recorded = @ + 1]
    \/ query' = [Failed EXCEPT !.detected = @ + 1]

-----------------------------------------------------------------------------
(* The controllers, where documents may be processed at all.  An employee  *)
(* whose row cannot be read is an internal error.                          *)
Receive(question) ==
    LET q == [NoQuery EXCEPT !.question = question]
        Refuse(code) == query' = [q EXCEPT !.pc = "done", !.result = code]
    IN  /\ query.pc = "idle"
        /\ questions < MaxQuestions
        /\ questions' = questions + 1
        /\ \/ Refuse("INTERNAL_ERROR")
           \/ ~question.known /\ Refuse("AUTHENTICATION_REQUIRED")
           \/ question.known /\ ~question.valid /\ Refuse("KNOWLEDGE_QUERY_INVALID")
           \/ question.known /\ question.valid /\ query' = [q EXCEPT !.pc = "query_guard"]
        /\ UNCHANGED indexVars

QueryGuard ==
    /\ query.pc = "query_guard"
    /\ \/ query.question.safe /\ Go("document")
       \/ /\ ~query.question.safe
          /\ Rejected(Ended("catch", "UNSAFE_KNOWLEDGE_QUERY"))
    /\ UNCHANGED <<indexVars, questions>>

hasActiveDocument(id) == \E f \in Files :
    documents[f] # NoRow /\ documents[f].id = id /\ documents[f].active > 0

FindDocument ==
    LET id == query.question.document
    IN  /\ query.pc = "document"
        /\ \/ (id = 0 \/ hasActiveDocument(id)) /\ Go("query_embedding")
           \/ id # 0 /\ ~hasActiveDocument(id) /\ Throw("KNOWLEDGE_DOCUMENT_NOT_FOUND")
           \/ id # 0 /\ query' = Failed
        /\ UNCHANGED <<indexVars, questions>>

EmbedQuery ==
    /\ query.pc = "query_embedding"
    /\ Go("vector_retrieval") \/ query' = Failed
    /\ UNCHANGED <<indexVars, questions>>

(* One statement.  How alike the chunks are to the question is arbitrary.  *)
Retrieve ==
    /\ query.pc = "vector_retrieval"
    /\ \/ query' = Failed
       \/ query' = Insufficient
       \/ \E found \in SUBSET ActiveChunksOf(query.question.document) \ {{}} :
            /\ Cardinality(found) <= EvidenceLimit
            /\ query' = [query EXCEPT !.pc = "evidence_guard", !.evidence = found,
                                      !.force = InForce]
    /\ UNCHANGED <<indexVars, questions>>

EvidenceGuard ==
    /\ query.pc = "evidence_guard"
    /\ \/ (\A p \in query.evidence : ~UnsafePiece(p)) /\ Go("grounded_answer")
       \/ (\E p \in query.evidence : UnsafePiece(p)) /\ Rejected(Insufficient)
    /\ UNCHANGED <<indexVars, questions>>

Generate ==
    /\ query.pc = "grounded_answer"
    /\ \/ query' = Failed
       \/ \E answer \in Answers(query.evidence) :
            query' = [query EXCEPT !.pc = "output_validation", !.answer = answer]
    /\ UNCHANGED <<indexVars, questions>>

(* MUTANT of Sources: the evidence is the source of the answer.            *)
Sources_evidence(evidence, answer) ==
    IF answer.cited = {} THEN {} ELSE evidence

(* Citations that are not of the evidence count for nothing.               *)
Sources(evidence, answer) == evidence \cap answer.cited

OutputValidation ==
    LET answer == query.answer
        sources == Sources(query.evidence, answer)
        grounded == \/ answer.link = "none"
                    \/ answer.link = "policy" /\ \E p \in sources : HasLink(p)
    IN  /\ query.pc = "output_validation"
        /\ \/ ~answer.safe /\ Rejected(Insufficient)
           \/ answer.safe /\ sources = {} /\ query' = Insufficient
           \/ answer.safe /\ sources # {} /\ ~grounded
                /\ Rejected(Insufficient)
           \/ /\ answer.safe /\ sources # {} /\ grounded
              /\ query' = [Ended("finish", "ANSWERED") EXCEPT !.sources = sources,
                                                             !.answer = answer]
        /\ UNCHANGED <<indexVars, questions>>

(* The status of a trace.                                                  *)
Status(result) ==
    CASE result \in {"ANSWERED", "INSUFFICIENT_EVIDENCE"} -> result
      [] result = "UNSAFE_KNOWLEDGE_QUERY" -> "REJECTED"
      [] OTHER -> "FAILED"

Traced == IF Tracing THEN Append(query.traces, Status(query.result)) ELSE <<>>

(* MUTANT of SubmitTrace: a trace that is not taken is an exception.       *)
SubmitTrace_strict ==
    \/ query' = [query EXCEPT !.pc = "done", !.traces = Traced]
    \/ /\ query.pc = "finish"
       /\ query' = [query EXCEPT !.pc = "catch", !.result = "KNOWLEDGE_QUERY_FAILED",
                                 !.traces = Traced]

(* The recorder may take the trace or not: the result remains.             *)
SubmitTrace == query' = [query EXCEPT !.pc = "done", !.traces = Traced]

Trace ==
    /\ query.pc \in {"finish", "catch"}
    /\ SubmitTrace
    /\ UNCHANGED <<indexVars, questions>>

Reply ==
    /\ query.pc = "done"
    /\ query' = NoQuery
    /\ UNCHANGED <<indexVars, questions>>

QueryNext ==
    \/ \E question \in Questions : Receive(question)
    \/ QueryGuard
    \/ FindDocument
    \/ EmbedQuery
    \/ Retrieve
    \/ EvidenceGuard
    \/ Generate
    \/ OutputValidation
    \/ Trace
    \/ Reply

QueryInit == query = NoQuery /\ questions = 0

KnowledgeInit == Init /\ QueryInit

IndexStep == IndexNext /\ UNCHANGED queryVars

KnowledgeNext == IndexStep \/ QueryNext

Spec == KnowledgeInit /\ [][KnowledgeNext]_vars

-----------------------------------------------------------------------------
(* Properties                                                              *)

Runs ==
    [pc: {"idle", "open", "lookup", "inspect", "embed", "prepare", "activate"},
     todo: Seq(Files), size: [Files -> Nat], buffer: Contents, document: Nat,
     expected: Nat, version: Nat,
     results: SUBSET [path: Files, status: Statuses, content: Contents, model: Models],
     force: SUBSET [path: Files, content: Contents, model: Models]]

Evidence == [document: Nat, version: Nat, span: Span, content: Contents]

Queries ==
    [pc: {"idle", "query_guard", "document", "query_embedding", "vector_retrieval",
          "evidence_guard", "grounded_answer", "output_validation", "finish", "catch", "done"},
     question: Question, evidence: SUBSET Evidence,
     answer: [safe: BOOLEAN, cited: SUBSET (Evidence \cup {Invented}),
              link: {"none", "policy", "elsewhere"}],
     sources: SUBSET Evidence, result: Results, detected: Nat, recorded: Nat,
     traces: Seq({"ANSWERED", "INSUFFICIENT_EVIDENCE", "REJECTED", "FAILED"}),
     force: SUBSET [path: Files, content: Contents, model: Models]]

(* The variables have their types; the versions of a document never meet   *)
(* the unique key of the chunks, and an active version has its chunks.     *)
TypeOK ==
    /\ disk \in [Files -> Contents]
    /\ documents \in [Files -> Row \cup {NoRow}]
    /\ chunks \subseteq Chunks
    /\ lastId \in Nat /\ runs \in Nat /\ events \in Nat /\ questions \in Nat
    /\ sent \subseteq Contents
    /\ run \in [Indexers -> Runs]
    /\ query \in Queries
    /\ \A c, d \in chunks : c.document = d.document /\ c.version = d.version => c = d
    /\ \A f \in Files : documents[f] # NoRow /\ documents[f].active # 0 =>
            ActiveChunks(documents[f]) # {}

(* Whatever runs of the command, changes of files, deaths and seeds come   *)
(* together, a search finds whole versions that are in force at one        *)
(* moment, and a document is never set back to an earlier version.         *)
Shelf == INSTANCE KnowledgeShelf WITH
    Paths <- Files,
    Texts <- Contents,
    Nothing <- NoRow,
    shelf <- [f \in Files |->
        IF ~HasActiveIndex(documents[f]) THEN NoRow
        ELSE [document |-> documents[f].id, version |-> documents[f].active,
              text |-> (CHOOSE c \in ActiveChunks(documents[f]) : TRUE).content]],
    evidence <- {[document |-> p.document, version |-> p.version, text |-> p.content] :
                 p \in query.evidence}

ImplementsShelf == Shelf!Spec

(* An answer cites at least one chunk of the evidence, only chunks of what *)
(* was in force at the search and that the safety patterns let pass, and   *)
(* its links stand in the chunks it cites: whatever the model says.        *)
AnswersAreGrounded ==
    query.result = "ANSWERED" =>
        /\ query.question.safe /\ query.answer.safe
        /\ query.sources # {}
        /\ query.sources \subseteq query.answer.cited
        /\ \A p \in query.sources :
            /\ \E e \in query.force : e.content = p.content
            /\ p.content.instruction # NoSpan => ~Holds(p.span, p.content.instruction)
        /\ query.answer.link # "elsewhere"
        /\ query.answer.link = "policy" =>
            \E p \in query.sources : Holds(p.span, p.content.link)

(* No text leaves for the embedding service in which the safety patterns   *)
(* find an instruction as long as the overlap of two chunks or shorter,    *)
(* plus one character: cutting a page does not hide it.                    *)
NothingUnsafeIsSent ==
    \A c \in sent : c.instruction # NoSpan =>
        c.instruction.last - c.instruction.first > Overlap

(* What a run of the command reports is true: SKIPPED, INDEXED and UPDATED *)
(* name a content that was in force for the file while the run was at      *)
(* work, and a run that gets to its end has a result for every file.       *)
ResultsAreTrue ==
    \A i \in Indexers :
        /\ \A r \in run[i].results :
            r.status \in {"SKIPPED", "INDEXED", "UPDATED"} =>
                [path |-> r.path, content |-> r.content, model |-> r.model] \in run[i].force
        /\ run[i].pc = "open" /\ run[i].todo = <<>> =>
            {r.path : r \in run[i].results} = Files

(* A question that gets to the service leaves exactly one trace, which     *)
(* says what became of it, whether the recorder takes it or not.           *)
TracedOnce ==
    query.pc = "done" =>
        query.traces =
            IF ~Tracing \/ query.result \in {"INTERNAL_ERROR", "AUTHENTICATION_REQUIRED",
                                            "KNOWLEDGE_QUERY_INVALID"}
            THEN <<>> ELSE <<Status(query.result)>>

(* A question is not answered as unsafe, or for want of evidence, on the   *)
(* ground of a finding that is missing among the security events.          *)
RejectionsAreRecorded ==
    /\ query.recorded < query.detected => query.result = "KNOWLEDGE_QUERY_FAILED"
    /\ query.result = "UNSAFE_KNOWLEDGE_QUERY" => query.recorded = 1
=============================================================================
