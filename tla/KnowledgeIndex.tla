--------------------------- MODULE KnowledgeIndex ---------------------------
(***************************************************************************)
(* The index of the HR documents and the command that maintains it.        *)
(*                                                                         *)
(* Runs of the command may overlap, die, and meet a database that is       *)
(* seeded, files that change, and services that fail.  A version of a      *)
(* document is published in two calls: a transaction stores its chunks     *)
(* and an UPDATE makes it the active one.                                  *)
(***************************************************************************)
EXTENDS Chunking, FiniteSets, SequencesExt

CONSTANTS
    Paths,                          \* of the PDF files, in the order of a run
    Contents,                       \* what these may contain
    Indexers, Models, Model,        \* runs at a time, each with its embedding model
    MaxBytes, MaxPages, MaxCharacters, MaxChunks,
    MaxRuns, MaxEvents,             \* bounds: runs; deaths, changes of files, seeds
    NoSpan, NoRow

(* A file: its size, the lengths of its pages, where an instruction stands *)
(* that the safety patterns find, and where a link stands.                 *)
Content == [bytes: Nat, pages: Seq(Nat), instruction: Span \cup {NoSpan},
            link: Span \cup {NoSpan}]

Row == [id: Nat, active: Nat, content: Contents]

ASSUME IndexAssumption ==
    /\ IsFiniteSet(Contents) /\ Contents # {} /\ Contents \subseteq Content
    /\ \A c \in Contents : \A s \in {c.instruction, c.link} \ {NoSpan} : LiesIn(s, c.pages)
    /\ NoRow \notin Row
    /\ Model \in [Indexers -> Models]
    /\ {MaxBytes, MaxPages, MaxCharacters, MaxChunks, MaxRuns, MaxEvents} \subseteq Nat
    /\ Paths \in Seq(STRING)

Files == {Paths[k] : k \in DOMAIN Paths}

VARIABLES
    disk,           \* content of every file
    documents,      \* rows of knowledge_documents, by source path
    chunks,         \* rows of knowledge_chunks, those of a version as one
    lastId,         \* the last document id that was made
    sent,           \* contents sent to the embedding service
    run,            \* the runs in work
    runs, events

indexVars == <<disk, documents, chunks, lastId, sent, run, runs, events>>

-----------------------------------------------------------------------------
(* Types and helpers                                                       *)

Chunks == [document: Nat, version: Nat \ {0}, content: Contents, model: Models]

Statuses == {"SKIPPED", "INDEXED", "UPDATED", "FAILED"}

(* A run: the files still to do, their sizes when they were discovered,    *)
(* the file that was read, and the version in the making.  `results` has   *)
(* the content a result is about; `force` remembers what was in force      *)
(* since the run began.                                                    *)
Resting ==
    [pc |-> "idle", todo |-> <<>>, size |-> [f \in Files |-> 0],
     buffer |-> CHOOSE c \in Contents : TRUE, document |-> 0, expected |-> 0, version |-> 0,
     results |-> {}, force |-> {}]

IsRow(row, id) == row # NoRow /\ row.id = id

(* The chunks a search may find.                                           *)
ActiveChunks(row) == {c \in chunks : c.document = row.id /\ c.version = row.active}

InForce ==
    UNION {{[path |-> f, content |-> c.content, model |-> c.model] :
                c \in IF documents[f] = NoRow THEN {} ELSE ActiveChunks(documents[f])} :
           f \in Files}

Unsafe(span, content) == content.instruction # NoSpan /\ Holds(span, content.instruction)

Characters(content) == FoldSeq(+, 0, content.pages)

(* The limits of ingest.                                                   *)
WithinLimits(content) ==
    /\ content.bytes \in 1 .. MaxBytes
    /\ Len(content.pages) <= MaxPages
    /\ Characters(content) \in 1 .. MaxCharacters
    /\ Cardinality(chunkPages(content.pages)) <= MaxChunks

(* The run `i` is done with its file and goes on with the next.            *)
Report(i, status) ==
    run' = [run EXCEPT ![i] = [run[i] EXCEPT
        !.pc = "open", !.todo = Tail(@), !.document = 0, !.expected = 0, !.version = 0,
        !.results = @ \cup {[path |-> Head(run[i].todo), status |-> status,
                             content |-> run[i].buffer, model |-> Model[i]]}]]

Proceed(i, place) == run' = [run EXCEPT ![i].pc = place]

-----------------------------------------------------------------------------
(* An index that earlier releases may have built, with other patterns.     *)
Init ==
    /\ disk \in [Files -> Contents]
    /\ \E old \in [Files -> {c \in Contents : WithinLimits(c)} \cup {NoRow}],
          model \in Models :
        LET Id(f) == CHOOSE k \in DOMAIN Paths : Paths[k] = f
        IN  /\ documents = [f \in Files |-> IF old[f] = NoRow THEN NoRow
                                ELSE [id |-> Id(f), active |-> 1, content |-> old[f]]]
            /\ chunks = {[document |-> Id(f), version |-> 1, content |-> old[f],
                          model |-> model] : f \in {g \in Files : old[g] # NoRow}}
    /\ lastId = Len(Paths)
    /\ sent = {}
    /\ run = [i \in Indexers |-> Resting]
    /\ runs = 0 /\ events = 0

(***************************************************************************)
(* indexDirectory                                                          *)
(***************************************************************************)

(* discoverFiles, with the size of every file.                             *)
Discover(i) ==
    /\ run[i].pc = "idle"
    /\ runs < MaxRuns
    /\ runs' = runs + 1
    /\ run' = [run EXCEPT ![i] = [Resting EXCEPT
            !.pc = "open", !.todo = Paths, !.size = [f \in Files |-> disk[f].bytes],
            !.force = InForce]]
    /\ UNCHANGED <<disk, documents, chunks, lastId, sent, events>>

Open(i) ==
    LET r == run[i]
        file == Head(r.todo)
    IN  /\ r.pc = "open"
        /\ r.todo # <<>>
        /\ \/ /\ r.size[file] \notin 1 .. MaxBytes
              /\ Report(i, "FAILED")
           \/ /\ r.size[file] \in 1 .. MaxBytes
              /\ \/ run' = [run EXCEPT ![i].pc = "lookup", ![i].buffer = disk[file]]
                 \/ Report(i, "FAILED")
        /\ UNCHANGED <<disk, documents, chunks, lastId, sent, runs, events>>

(* findActiveIndexBySourcePath.                                            *)
HasActiveIndex(row) == row # NoRow /\ row.active # 0 /\ ActiveChunks(row) # {}

Unchanged(i, row) ==
    /\ row.content = run[i].buffer
    /\ \A c \in ActiveChunks(row) : c.model = Model[i]

Lookup(i) ==
    LET r == run[i]
        row == documents[Head(r.todo)]
    IN  /\ r.pc = "lookup"
        /\ \/ Report(i, "FAILED")
           \/ /\ HasActiveIndex(row)
              /\ IF Unchanged(i, row) THEN Report(i, "SKIPPED")
                 ELSE run' = [run EXCEPT ![i].pc = "inspect", ![i].document = row.id]
           \/ /\ ~HasActiveIndex(row)
              /\ Proceed(i, "inspect")
        /\ UNCHANGED <<disk, documents, chunks, lastId, sent, runs, events>>

(* Every chunk is inspected before any is embedded.  Also, the text may    *)
(* not be extracted, or a finding not be recorded.                         *)
Inspect(i) ==
    LET content == run[i].buffer
    IN  /\ run[i].pc = "inspect"
        /\ \/ /\ WithinLimits(content)
              /\ \A c \in chunkPages(content.pages) : ~Unsafe(c, content)
              /\ Proceed(i, "embed")
           \/ Report(i, "FAILED")
        /\ UNCHANGED <<disk, documents, chunks, lastId, sent, runs, events>>

Embed(i) ==
    /\ run[i].pc = "embed"
    /\ sent' = sent \cup {run[i].buffer}
    /\ Proceed(i, "prepare") \/ Report(i, "FAILED")
    /\ UNCHANGED <<disk, documents, chunks, lastId, runs, events>>

(***************************************************************************)
(* publishVersion                                                          *)
(***************************************************************************)

(* MUTANT of NextVersion: only the active version is looked at.            *)
NextVersion_active(id, active) == active + 1

NextVersion(id, active) ==
    Max({active} \cup {c.version : c \in {d \in chunks : d.document = id}}) + 1

Store(i, id, active) ==
    LET version == NextVersion(id, active)
    IN  /\ chunks' = chunks \cup {[document |-> id, version |-> version,
                                   content |-> run[i].buffer, model |-> Model[i]]}
        /\ run' = [run EXCEPT ![i].pc = "activate", ![i].document = id,
                              ![i].expected = active, ![i].version = version]

(* The transaction.  A new row meets the unique source path; the row of a  *)
(* known document is locked, and read again; failing is always possible.   *)
Prepare(i) ==
    LET r == run[i]
        file == Head(r.todo)
        row == documents[file]
        content == r.buffer
    IN  /\ r.pc = "prepare"
        /\ \/ /\ r.document = 0 /\ row = NoRow
              /\ lastId' = lastId + 1
              /\ documents' = [documents EXCEPT ![file] =
                    [id |-> lastId + 1, active |-> 0, content |-> content]]
              /\ Store(i, lastId + 1, 0)
           \/ /\ r.document # 0 /\ IsRow(row, r.document)
              /\ Store(i, row.id, row.active)
              /\ UNCHANGED <<documents, lastId>>
           \/ Report(i, "FAILED") /\ UNCHANGED <<documents, lastId, chunks>>
        /\ UNCHANGED <<disk, sent, runs, events>>

(* What the UPDATE requires of the row.                                    *)
(* MUTANT of Activates: whatever version is active is replaced.            *)
Activates_always(r, row) == IsRow(row, r.document)

Activates(r, row) == IsRow(row, r.document) /\ row.active = r.expected

(* MUTANT of Conflict: the number of rows updated is not looked at.        *)
Conflict_ignored(i) == Report(i, "UPDATED")

Conflict(i) == Report(i, "FAILED")

(* What is in force from now on, for the runs in work.                     *)
Published(i, force, status) ==
    run' = [j \in Indexers |->
        IF j = i
        THEN [run[i] EXCEPT !.pc = "open", !.todo = Tail(@), !.document = 0, !.expected = 0,
                !.version = 0, !.force = @ \cup {force},
                !.results = @ \cup {[path |-> force.path, status |-> status,
                                     content |-> force.content, model |-> force.model]}]
        ELSE IF run[j].pc = "idle" THEN run[j]
        ELSE [run[j] EXCEPT !.force = @ \cup {force}]]

Activate(i) ==
    LET r == run[i]
        file == Head(r.todo)
        row == documents[file]
        force == [path |-> file, content |-> r.buffer, model |-> Model[i]]
    IN  /\ r.pc = "activate"
        /\ \/ /\ Activates(r, row)
              /\ documents' = [documents EXCEPT ![file] =
                    [@ EXCEPT !.active = r.version, !.content = r.buffer]]
              /\ \/ Published(i, force, IF r.expected = 0 THEN "INDEXED" ELSE "UPDATED")
                 \/ Published(i, force, "FAILED")
           \/ ~Activates(r, row) /\ Conflict(i) /\ UNCHANGED documents
           \/ Report(i, "FAILED") /\ UNCHANGED documents
        /\ UNCHANGED <<disk, chunks, lastId, sent, runs, events>>

End(i) ==
    /\ run[i].pc = "open"
    /\ run[i].todo = <<>>
    /\ run' = [run EXCEPT ![i] = Resting]
    /\ UNCHANGED <<disk, documents, chunks, lastId, sent, runs, events>>

(***************************************************************************)
(* What happens to a run                                                   *)
(***************************************************************************)

Event == events < MaxEvents /\ events' = events + 1

Die(i) ==
    /\ Event
    /\ run[i].pc # "idle"
    /\ run' = [run EXCEPT ![i] = Resting]
    /\ UNCHANGED <<disk, documents, chunks, lastId, sent, runs>>

Edit(f) ==
    /\ Event
    /\ disk' \in {[disk EXCEPT ![f] = c] : c \in Contents \ {disk[f]}}
    /\ UNCHANGED <<documents, chunks, lastId, sent, run, runs>>

(* The database is seeded: documents and, by cascade, chunks are gone.     *)
Seed ==
    /\ Event
    /\ \E f \in Files : documents[f] # NoRow
    /\ documents' = [f \in Files |-> NoRow]
    /\ chunks' = {}
    /\ UNCHANGED <<disk, lastId, sent, run, runs>>

Index(i) ==
    \/ Discover(i)
    \/ Open(i)
    \/ Lookup(i)
    \/ Inspect(i)
    \/ Embed(i)
    \/ Prepare(i)
    \/ Activate(i)
    \/ End(i)

IndexNext ==
    \/ \E i \in Indexers : Index(i) \/ Die(i)
    \/ \E f \in Files : Edit(f)
    \/ Seed
=============================================================================
