------------------------ MODULE KnowledgeQuery_proofs ------------------------
(* Proofs about KnowledgeIndex and KnowledgeQuery, for every number of      *)
(* files, runs, contents and questions.                                     *)
EXTENDS KnowledgeQuery, Chunking_proofs, WellFoundedInduction, SequenceTheorems

(* The largest member of a bounded set of numbers.                          *)
LEMMA MaxOfBounded ==
  ASSUME NEW S, S \subseteq Nat, S # {}, NEW b \in Nat, \A x \in S : x <= b
  PROVE  Max(S) \in S /\ \A x \in S : x <= Max(S)
<1> DEFINE Bounds == {n \in Nat : \A x \in S : x <= n}
<1> DEFINE R == OpToRel(<, Nat)
<1>1. PICK n \in Bounds : \A m \in Bounds : <<m, n>> \notin R
  <2>1. IsWellFoundedOn(R, Nat)
    BY NatLessThanWellFounded
  <2>2. Bounds \subseteq Nat /\ Bounds # {}
    OBVIOUS
  <2> HIDE DEF R, Bounds
  <2> QED
    BY <2>1, <2>2, WFMin
<1>2. ASSUME NEW m \in Bounds PROVE ~(m < n)
  <2>1. m \in Nat /\ n \in Nat /\ <<m, n>> \notin R
    BY <1>1
  <2> QED
    BY <2>1 DEF OpToRel
<1>3. n \in S
  <2>1. SUFFICES ASSUME n \notin S PROVE FALSE
    OBVIOUS
  <2>2. n \in Nat /\ \A x \in S : x \in Nat /\ x < n
    BY <2>1
  <2>3. n - 1 \in Nat /\ \A x \in S : x <= n - 1
    <3>1. PICK x \in S : TRUE
      OBVIOUS
    <3> QED
      BY <2>2, <3>1
  <2>4. n - 1 \in Bounds
    BY <2>3
  <2> HIDE DEF Bounds, R
  <2> QED
    BY <1>2, <2>2, <2>4
<1>4. \E x \in S : \A y \in S : x >= y
  BY <1>1, <1>3
<1> QED
  BY <1>4 DEF Max

-----------------------------------------------------------------------------
(* The version that run `i` has stored and wants to make the active one.    *)
Made(i) ==
    [document |-> run[i].document, version |-> run[i].version,
     content |-> run[i].buffer, model |-> Model[i]]

(* Ids and versions are given once, an active version has its chunks, and   *)
(* they hold the content of the row.                                        *)
DataInv ==
    /\ disk \in [Files -> Contents]
    /\ documents \in [Files -> Row \cup {NoRow}]
    /\ chunks \subseteq Chunks
    /\ lastId \in Nat
    /\ \E b \in Nat : \A c \in chunks : c.version <= b
    /\ \A c \in chunks : c.document <= lastId
    /\ \A c, d \in chunks : c.document = d.document /\ c.version = d.version => c = d
    /\ \A f \in Files : documents[f] # NoRow => documents[f].id <= lastId
    /\ \A f, g \in Files :
        documents[f] # NoRow /\ documents[g] # NoRow /\ documents[f].id = documents[g].id => f = g
    /\ \A f \in Files : documents[f] # NoRow /\ documents[f].active # 0 =>
        /\ ActiveChunks(documents[f]) # {}
        /\ \A c \in ActiveChunks(documents[f]) : c.content = documents[f].content

(* A run works on a file of its list; a stored version is later than the    *)
(* one it is to replace, and stays as long as its document does.            *)
RunInv ==
    /\ run \in [Indexers -> Runs]
    /\ \A i \in Indexers : run[i].pc \notin {"idle", "open"} => run[i].todo # <<>>
    /\ \A i \in Indexers : run[i].pc = "activate" =>
        /\ run[i].document <= lastId
        /\ run[i].expected < run[i].version
        /\ \A f \in Files : IsRow(documents[f], run[i].document) => Made(i) \in chunks

(* A step that leaves what is in force as it is.                            *)
SameShelf ==
    \A f \in Files :
        \/ documents[f] # NoRow /\ documents[f].active # 0
        \/ documents'[f] # NoRow /\ documents'[f].active # 0
        => documents'[f] = documents[f] /\ ActiveChunks(documents[f])' = ActiveChunks(documents[f])

(* What follows for the file a run has in work.                             *)
LEMMA InWork ==
  ASSUME RunInv, NEW i \in Indexers
  PROVE  /\ run[i] \in Runs
         /\ run[i].todo # <<>> => Head(run[i].todo) \in Files /\ Tail(run[i].todo) \in Seq(Files)
         /\ run[i].pc \notin {"idle", "open"} => run[i].todo # <<>>
         /\ Model[i] \in Models
<1>1. run[i].todo \in Seq(Files)
  BY DEF RunInv, Runs
<1>2. run[i].todo # <<>> => Head(run[i].todo) \in Files /\ Tail(run[i].todo) \in Seq(Files)
  BY <1>1, HeadTailProperties
<1> QED
  BY <1>2, IndexAssumption DEF RunInv

LEMMA RestingIsARun == Resting \in Runs /\ Resting.pc = "idle"
<1>1. (CHOOSE c \in Contents : TRUE) \in Contents
  BY IndexAssumption
<1>2. <<>> \in Seq(Files)
  BY EmptySeq
<1> QED
  BY <1>1, <1>2 DEF Resting, Runs

(* A run that reports goes on with its next file.                           *)
LEMMA ReportStep ==
  ASSUME RunInv, NEW i \in Indexers, run[i].todo # <<>>,
         NEW status \in Statuses, Report(i, status)
  PROVE  \E r \in Runs :
            /\ run' = [run EXCEPT ![i] = r]
            /\ r.pc = "open" /\ r.todo = Tail(run[i].todo) /\ r.force = run[i].force
            /\ r.results = run[i].results \cup
                  {[path |-> Head(run[i].todo), status |-> status,
                    content |-> run[i].buffer, model |-> Model[i]]}
<1> DEFINE result == [path |-> Head(run[i].todo), status |-> status,
                      content |-> run[i].buffer, model |-> Model[i]]
           r == [run[i] EXCEPT !.pc = "open", !.todo = Tail(@), !.document = 0, !.expected = 0,
                               !.version = 0, !.results = @ \cup {result}]
<1>1. run' = [run EXCEPT ![i] = r]
  BY DEF Report
<1>2. /\ run[i] \in Runs /\ Tail(run[i].todo) \in Seq(Files)
      /\ result \in [path: Files, status: Statuses, content: Contents, model: Models]
  BY InWork DEF Runs
<1> HIDE DEF result
<1>3. r \in Runs /\ r.pc = "open" /\ r.todo = Tail(run[i].todo) /\ r.force = run[i].force
      /\ r.results = run[i].results \cup {result}
  BY <1>2 DEF Runs
<1> HIDE DEF r
<1> QED
  BY <1>1, <1>3 DEF result

(* One run changes, and the data do not.                                    *)
LEMMA ChangeOfOne ==
  ASSUME DataInv, RunInv, NEW i \in Indexers, NEW r \in Runs, run' = [run EXCEPT ![i] = r],
         r.pc # "activate", r.pc \notin {"idle", "open"} => r.todo # <<>>,
         UNCHANGED <<disk, documents, chunks, lastId>>
  PROVE  DataInv' /\ RunInv'
<1>1. DataInv'
  BY DEF DataInv, ActiveChunks
<1>2. RunInv'
  <2>1. ASSUME NEW j \in Indexers, j # i PROVE run'[j] = run[j] /\ Made(j)' = Made(j)
    BY <2>1 DEF RunInv, Made
  <2>2. run'[i] = r /\ run' \in [Indexers -> Runs]
    BY DEF RunInv
  <2> QED
    BY <2>1, <2>2 DEF RunInv
<1> QED
  BY <1>1, <1>2

(* A version that is stored is later than every other of its document.      *)
LEMMA VersionIsLater ==
  ASSUME DataInv, NEW id \in Nat, NEW active \in Nat
  PROVE  /\ NextVersion(id, active) \in Nat /\ NextVersion(id, active) > active
         /\ \A c \in chunks : c.document = id => c.version < NextVersion(id, active)
<1> DEFINE S == {active} \cup {c.version : c \in {d \in chunks : d.document = id}}
<1>1. PICK b \in Nat : \A c \in chunks : c.version <= b
  BY DEF DataInv
<1>2. S \subseteq Nat /\ S # {} /\ active \in S
  BY DEF DataInv, Chunks
<1>3. \E n \in Nat : \A x \in S : x <= n
  <2> DEFINE n == IF active <= b THEN b ELSE active
  <2>1. n \in Nat /\ \A x \in S : x <= n
    BY <1>1 DEF DataInv, Chunks
  <2> QED
    BY <2>1
<1>4. \A c \in chunks : c.document = id => c.version \in S
  OBVIOUS
<1>5. NextVersion(id, active) = Max(S) + 1
  BY DEF NextVersion
<1> HIDE DEF S
<1>6. Max(S) \in S /\ \A x \in S : x <= Max(S)
  BY <1>2, <1>3, MaxOfBounded
<1> DEFINE m == Max(S)
<1>7. m \in Nat /\ active <= m /\ NextVersion(id, active) = m + 1
  BY <1>2, <1>5, <1>6
<1>8. \A c \in chunks : c.document = id => c.version \in Nat /\ c.version <= m
  BY <1>2, <1>4, <1>6
<1> HIDE DEF m
<1> QED
  BY <1>7, <1>8

(* What a stored version changes: the chunks, and its run.                  *)
LEMMA StoreStep ==
  ASSUME DataInv, RunInv, NEW i \in Indexers, run[i].todo # <<>>,
         NEW id \in Nat, NEW active \in Nat, Store(i, id, active)
  PROVE  \E r \in Runs :
            /\ run' = [run EXCEPT ![i] = r]
            /\ r.pc = "activate" /\ r.todo = run[i].todo /\ r.results = run[i].results
            /\ r.force = run[i].force /\ r.buffer = run[i].buffer
            /\ r.document = id /\ r.expected = active
            /\ r.version = NextVersion(id, active)
<1> DEFINE version == NextVersion(id, active)
           r == [run[i] EXCEPT !.pc = "activate", !.document = id,
                               !.expected = active, !.version = version]
<1>1. run' = [run EXCEPT ![i] = r]
  BY DEF Store, RunInv
<1>2. run[i] \in Runs /\ version \in Nat
  BY InWork, VersionIsLater
<1> HIDE DEF version
<1>3. /\ r \in Runs
      /\ r.pc = "activate" /\ r.todo = run[i].todo /\ r.results = run[i].results
      /\ r.force = run[i].force /\ r.buffer = run[i].buffer
      /\ r.document = id /\ r.expected = active /\ r.version = version
  BY <1>2 DEF Runs
<1> HIDE DEF r
<1> QED
  BY <1>1, <1>3 DEF version

(* A stored version comes to lie among the others and in force for nobody.  *)
LEMMA PrepareKeeps ==
  ASSUME DataInv, RunInv, NEW i \in Indexers, run[i].pc = "prepare",
         NEW id \in Nat, NEW active \in Nat, Store(i, id, active),
         id <= lastId', lastId' \in Nat, lastId <= lastId', UNCHANGED disk,
         documents' \in [Files -> Row \cup {NoRow}],
         \A f \in Files : documents'[f] # documents[f] =>
            /\ documents[f] = NoRow /\ documents'[f] # NoRow
            /\ documents'[f].id = id /\ documents'[f].active = 0 /\ lastId < id
            /\ \A g \in Files : documents'[g] # NoRow /\ documents'[g].id = id => g = f,
         \A f \in Files : documents[f] # NoRow /\ documents[f].id = id =>
            documents[f].active = active
  PROVE  DataInv' /\ RunInv' /\ SameShelf
<1> DEFINE version == NextVersion(id, active)
           new == [document |-> id, version |-> version,
                   content |-> run[i].buffer, model |-> Model[i]]
<1>1. /\ version \in Nat /\ version > active
      /\ \A c \in chunks : c.document = id => c.version < version
  BY VersionIsLater
<1>2. PICK r \in Runs :
            /\ run' = [run EXCEPT ![i] = r]
            /\ r.pc = "activate" /\ r.todo = run[i].todo /\ r.results = run[i].results
            /\ r.force = run[i].force /\ r.buffer = run[i].buffer
            /\ r.document = id /\ r.expected = active /\ r.version = version
  BY StoreStep, InWork
<1>3. chunks' = chunks \cup {new}
  BY DEF Store
<1>4. new \in Chunks /\ new.document = id /\ new.version = version
  BY <1>1, InWork DEF Chunks, Runs
<1>5. new \notin chunks
  BY <1>1, <1>4
<1> HIDE DEF version, new
<1>6. ASSUME NEW f \in Files, documents'[f] # NoRow, documents'[f].active # 0
      PROVE  /\ documents[f] = documents'[f]
             /\ ActiveChunks(documents[f])' = ActiveChunks(documents[f])
  <2>1. documents[f] = documents'[f]
    BY <1>6
  <2>2. ~(new.document = documents[f].id /\ new.version = documents[f].active)
    BY <1>1, <1>4, <1>6, <2>1
  <2> QED
    BY <1>3, <2>1, <2>2 DEF ActiveChunks
<1>7. DataInv'
  <2>1. chunks' \subseteq Chunks
    BY <1>3, <1>4 DEF DataInv
  <2>2. \E b \in Nat : \A c \in chunks' : c.version <= b
    <3>1. PICK b \in Nat : \A c \in chunks : c.version <= b
      BY DEF DataInv
    <3> DEFINE n == IF version <= b THEN b ELSE version
    <3>2. n \in Nat /\ \A c \in chunks' : c.version <= n
      BY <1>1, <1>3, <1>4, <3>1 DEF DataInv, Chunks
    <3> QED
      BY <3>2
  <2>3. \A c \in chunks' : c.document <= lastId'
    BY <1>3, <1>4 DEF DataInv, Chunks
  <2>4. \A c, d \in chunks' : c.document = d.document /\ c.version = d.version => c = d
    BY <1>1, <1>3, <1>4 DEF DataInv, Chunks
  <2>5. \A f \in Files : documents'[f] # NoRow => documents'[f].id <= lastId'
    BY DEF DataInv, Row
  <2>6. \A f, g \in Files :
          documents'[f] # NoRow /\ documents'[g] # NoRow /\ documents'[f].id = documents'[g].id
            => f = g
    BY DEF DataInv
  <2>7. \A f \in Files : documents'[f] # NoRow /\ documents'[f].active # 0 =>
          /\ ActiveChunks(documents[f])' # {}
          /\ \A c \in ActiveChunks(documents[f])' : c.content = documents'[f].content
    BY <1>6 DEF DataInv
  <2> QED
    BY <2>1, <2>2, <2>3, <2>4, <2>5, <2>6, <2>7 DEF DataInv
<1>8. RunInv'
  <2>1. run' \in [Indexers -> Runs] /\ run'[i] = r /\ \A j \in Indexers \ {i} : run'[j] = run[j]
    BY <1>2 DEF RunInv
  <2>2. Made(i)' = new
    BY <1>2, <2>1 DEF Made, new
  <2>3. ASSUME NEW j \in Indexers \ {i}, run[j].pc = "activate"
        PROVE  /\ run[j].document <= lastId'
               /\ \A f \in Files : IsRow(documents'[f], run[j].document) => Made(j)' \in chunks'
    <3>1. run[j].document \in Nat /\ run[j].document <= lastId
      BY <2>3 DEF RunInv, Runs
    <3>2. \A f \in Files : IsRow(documents'[f], run[j].document) => IsRow(documents[f], run[j].document)
      BY <3>1 DEF IsRow, DataInv
    <3>3. Made(j)' = Made(j)
      BY <2>1, <2>3 DEF Made
    <3> QED
      BY <1>3, <2>3, <3>1, <3>2, <3>3 DEF RunInv, DataInv
  <2> QED
    BY <1>1, <1>2, <1>3, <2>1, <2>2, <2>3, InWork DEF RunInv
<1>9. SameShelf
  BY <1>6 DEF SameShelf
<1> QED
  BY <1>7, <1>8, <1>9

(* What is in force has the type of what a run remembers.                   *)
LEMMA InForceType ==
  ASSUME DataInv
  PROVE  InForce \subseteq [path: Files, content: Contents, model: Models]
  BY DEF DataInv, InForce, ActiveChunks, Chunks

(* What an activation or a failure behind it does to the runs.              *)
LEMMA PublishedStep ==
  ASSUME RunInv, NEW i \in Indexers, run[i].todo # <<>>, NEW status \in Statuses,
         NEW force \in [path: Files, content: Contents, model: Models],
         Published(i, force, status)
  PROVE  /\ run' \in [Indexers -> Runs]
         /\ run'[i].pc = "open" /\ run'[i].todo = Tail(run[i].todo)
         /\ run'[i].force = run[i].force \cup {force}
         /\ run'[i].results = run[i].results \cup
                {[path |-> force.path, status |-> status,
                  content |-> force.content, model |-> force.model]}
         /\ \A j \in Indexers \ {i} :
              /\ run[j].pc = "idle" => run'[j] = run[j]
              /\ run[j].pc # "idle" => run'[j] = [run[j] EXCEPT !.force = @ \cup {force}]
<1> DEFINE result == [path |-> force.path, status |-> status,
                      content |-> force.content, model |-> force.model]
           r == [run[i] EXCEPT !.pc = "open", !.todo = Tail(@), !.document = 0, !.expected = 0,
                               !.version = 0, !.force = @ \cup {force}, !.results = @ \cup {result}]
           later(j) == [run[j] EXCEPT !.force = @ \cup {force}]
<1>1. /\ run[i] \in Runs /\ Tail(run[i].todo) \in Seq(Files)
      /\ result \in [path: Files, status: Statuses, content: Contents, model: Models]
  BY InWork
<1>2. /\ run' = [j \in Indexers |-> run'[j]]
      /\ run'[i] = r
      /\ \A j \in Indexers \ {i} : run'[j] = IF run[j].pc = "idle" THEN run[j] ELSE later(j)
  BY DEF Published
<1> HIDE DEF result
<1>3. /\ r \in Runs /\ r.pc = "open" /\ r.todo = Tail(run[i].todo)
      /\ r.force = run[i].force \cup {force}
      /\ r.results = run[i].results \cup {result}
  BY <1>1 DEF Runs
<1>4. \A j \in Indexers : later(j) \in Runs
  <2>1. TAKE j \in Indexers
  <2>2. run[j] \in Runs
    BY DEF RunInv
  <2> QED
    BY <2>2 DEF Runs
<1> HIDE DEF r
<1>5. run' \in [Indexers -> Runs]
  <2>1. \A j \in Indexers : run'[j] \in Runs
    BY <1>2, <1>3, <1>4 DEF RunInv
  <2> HIDE DEF later
  <2> QED
    BY <1>2, <2>1
<1> QED
  BY <1>2, <1>3, <1>5 DEF result

(* The version that becomes the active one has its chunks.                  *)
LEMMA ActivationKeeps ==
  ASSUME DataInv, RunInv, NEW i \in Indexers, run[i].pc = "activate",
         NEW file \in Files, IsRow(documents[file], run[i].document),
         documents' = [documents EXCEPT ![file] =
            [documents[file] EXCEPT !.active = run[i].version, !.content = run[i].buffer]],
         NEW force \in [path: Files, content: Contents, model: Models], NEW status \in Statuses,
         Published(i, force, status),
         UNCHANGED <<disk, chunks, lastId>>
  PROVE  DataInv' /\ RunInv'
<1> DEFINE row == [documents[file] EXCEPT !.active = run[i].version, !.content = run[i].buffer]
<1>1. /\ documents[file] \in Row /\ run[i] \in Runs
      /\ documents[file].id = run[i].document
  BY InWork DEF DataInv, IsRow
<1>2. /\ row \in Row /\ row.id = documents[file].id
      /\ row.active = run[i].version /\ row.content = run[i].buffer
  BY <1>1 DEF Row, Runs
<1>3. Made(i) \in chunks
  BY DEF RunInv
<1> HIDE DEF row
<1>4. documents' = [documents EXCEPT ![file] = row] /\ documents[file] # NoRow /\ row # NoRow
  BY <1>2, IndexAssumption DEF row, IsRow
<1>5. DataInv'
  <2>1. documents' \in [Files -> Row \cup {NoRow}]
    BY <1>2, <1>4 DEF DataInv
  <2>2. \A f \in Files :
          /\ documents'[f] # NoRow <=> documents[f] # NoRow
          /\ documents[f] # NoRow => documents'[f].id = documents[f].id
    BY <1>2, <1>4 DEF DataInv
  <2>3. Made(i).document = row.id /\ Made(i).version = row.active /\ Made(i).content = row.content
    BY <1>1, <1>2 DEF Made
  <2>4. /\ Made(i) \in ActiveChunks(row)
        /\ \A c \in ActiveChunks(row) : c = Made(i)
    BY <1>3, <2>3 DEF ActiveChunks, DataInv
  <2>5. ASSUME NEW f \in Files, documents'[f] # NoRow, documents'[f].active # 0
        PROVE  /\ ActiveChunks(documents'[f]) # {}
               /\ \A c \in ActiveChunks(documents'[f]) : c.content = documents'[f].content
    <3>1. CASE f = file
      <4>1. documents'[f] = row
        BY <1>4, <3>1 DEF DataInv
      <4> QED
        BY <2>3, <2>4, <4>1
    <3>2. CASE f # file
      <4>1. documents'[f] = documents[f]
        BY <1>4, <3>2 DEF DataInv
      <4>2. documents[f] # NoRow /\ documents[f].active # 0
        BY <2>5, <4>1
      <4>3. /\ ActiveChunks(documents[f]) # {}
            /\ \A c \in ActiveChunks(documents[f]) : c.content = documents[f].content
        BY <4>2 DEF DataInv
      <4> QED
        BY <4>1, <4>3
    <3> QED
      BY <3>1, <3>2
  <2>6. \A f \in Files : ActiveChunks(documents[f])' = ActiveChunks(documents'[f])
    BY DEF ActiveChunks
  <2> QED
    BY <2>1, <2>2, <2>5, <2>6 DEF DataInv
<1>6. RunInv'
  <2>1. /\ run' \in [Indexers -> Runs] /\ run'[i].pc = "open"
        /\ \A j \in Indexers \ {i} :
             /\ run[j].pc = "idle" => run'[j] = run[j]
             /\ run[j].pc # "idle" => run'[j] = [run[j] EXCEPT !.force = @ \cup {force}]
    BY PublishedStep, InWork
  <2>2. ASSUME NEW j \in Indexers \ {i}
        PROVE  /\ run'[j].pc = run[j].pc /\ run'[j].todo = run[j].todo
               /\ run'[j].document = run[j].document /\ run'[j].expected = run[j].expected
               /\ run'[j].version = run[j].version /\ run'[j].buffer = run[j].buffer
    <3>1. run[j] \in Runs
      BY DEF RunInv
    <3> QED
      BY <2>1, <3>1 DEF Runs
  <2>3. \A j \in Indexers \ {i} : Made(j)' = Made(j)
    BY <2>2 DEF Made
  <2>4. \A f \in Files : \A id : IsRow(documents'[f], id) => IsRow(documents[f], id)
    BY <1>2, <1>4 DEF IsRow, DataInv
  <2>5. ASSUME NEW j \in Indexers, run'[j].pc \notin {"idle", "open"} PROVE run'[j].todo # <<>>
    BY <2>1, <2>2, <2>5 DEF RunInv
  <2>6. ASSUME NEW j \in Indexers, run'[j].pc = "activate"
        PROVE  /\ run'[j].document <= lastId'
               /\ run'[j].expected < run'[j].version
               /\ \A f \in Files : IsRow(documents'[f], run'[j].document) => Made(j)' \in chunks'
    <3>1. j \in Indexers \ {i} /\ run[j].pc = "activate"
      BY <2>1, <2>2, <2>6
    <3> QED
      BY <2>2, <2>3, <2>4, <3>1 DEF RunInv
  <2> QED
    BY <2>1, <2>5, <2>6 DEF RunInv, IsRow
<1> QED
  BY <1>5, <1>6

(* A run goes to another of its places, or reports.                         *)
LEMMA MoveKeeps ==
  ASSUME DataInv, RunInv, NEW i \in Indexers, run[i].todo # <<>>,
         UNCHANGED <<disk, documents, chunks, lastId>>,
         \/ \E place \in {"lookup", "inspect", "embed", "prepare"} : Proceed(i, place)
         \/ \E status \in Statuses : Report(i, status)
  PROVE  DataInv' /\ RunInv'
<1>1. ASSUME NEW place \in {"lookup", "inspect", "embed", "prepare"}, Proceed(i, place)
      PROVE  DataInv' /\ RunInv'
  <2> DEFINE r == [run[i] EXCEPT !.pc = place]
  <2>1. run' = [run EXCEPT ![i] = r]
    BY <1>1 DEF Proceed
  <2>2. r \in Runs /\ r.pc = place /\ r.todo = run[i].todo
    BY InWork DEF Runs
  <2> HIDE DEF r
  <2> QED
    BY <2>1, <2>2, ChangeOfOne
<1>2. ASSUME NEW status \in Statuses, Report(i, status)
      PROVE  DataInv' /\ RunInv'
  <2>1. PICK r \in Runs : run' = [run EXCEPT ![i] = r] /\ r.pc = "open"
    BY <1>2, ReportStep
  <2> QED
    BY <2>1, ChangeOfOne
<1> QED
  BY <1>1, <1>2

(* Every step of a run that leaves the data alone.                          *)
LEMMA QuietStepKeeps ==
  ASSUME DataInv, RunInv, NEW i \in Indexers,
         Discover(i) \/ Open(i) \/ Lookup(i) \/ Inspect(i) \/ Embed(i) \/ End(i) \/ Die(i)
  PROVE  DataInv' /\ RunInv'
<1>1. CASE Discover(i)
  <2> DEFINE r == [Resting EXCEPT !.pc = "open", !.todo = Paths,
                                  !.size = [f \in Files |-> disk[f].bytes], !.force = InForce]
  <2>1. Paths \in Seq(Files)
    BY IndexAssumption, LenProperties DEF Files
  <2>2. [f \in Files |-> disk[f].bytes] \in [Files -> Nat]
    BY IndexAssumption DEF DataInv, Content
  <2>3. r \in Runs /\ r.pc = "open"
    BY <2>1, <2>2, RestingIsARun, InForceType DEF Runs
  <2>4. run' = [run EXCEPT ![i] = r] /\ UNCHANGED <<disk, documents, chunks, lastId>>
    BY <1>1 DEF Discover
  <2> HIDE DEF r
  <2> QED
    BY <2>3, <2>4, ChangeOfOne
<1>2. CASE Open(i)
  <2>1. CASE run' = [run EXCEPT ![i].pc = "lookup", ![i].buffer = disk[Head(run[i].todo)]]
    <3> DEFINE r == [run[i] EXCEPT !.pc = "lookup", !.buffer = disk[Head(run[i].todo)]]
    <3>1. run[i].todo # <<>> /\ disk[Head(run[i].todo)] \in Contents
      BY <1>2, InWork DEF Open, DataInv
    <3>2. r \in Runs /\ r.pc = "lookup" /\ r.todo = run[i].todo
      BY <3>1, InWork DEF Runs
    <3>3. run' = [run EXCEPT ![i] = r] /\ UNCHANGED <<disk, documents, chunks, lastId>>
      BY <1>2, <2>1 DEF Open, RunInv
    <3> HIDE DEF r
    <3> QED
      BY <3>1, <3>2, <3>3, ChangeOfOne
  <2> QED
    BY <1>2, <2>1, MoveKeeps DEF Open, Statuses
<1>3. CASE Lookup(i)
  <2> DEFINE row == documents[Head(run[i].todo)]
  <2>1. CASE HasActiveIndex(row) /\ run' = [run EXCEPT ![i].pc = "inspect", ![i].document = row.id]
    <3> DEFINE r == [run[i] EXCEPT !.pc = "inspect", !.document = row.id]
    <3>1. run[i].todo # <<>> /\ row.id \in Nat
      BY <1>3, <2>1, InWork DEF Lookup, DataInv, HasActiveIndex, Row
    <3>2. r \in Runs /\ r.pc = "inspect" /\ r.todo = run[i].todo
      BY <3>1, InWork DEF Runs
    <3>3. run' = [run EXCEPT ![i] = r] /\ UNCHANGED <<disk, documents, chunks, lastId>>
      BY <1>3, <2>1 DEF Lookup, RunInv
    <3> HIDE DEF r
    <3> QED
      BY <3>1, <3>2, <3>3, ChangeOfOne
  <2> QED
    BY <1>3, <2>1, MoveKeeps, InWork DEF Lookup, Statuses
<1>4. CASE Inspect(i)
  BY <1>4, MoveKeeps, InWork DEF Inspect, Statuses
<1>5. CASE Embed(i)
  BY <1>5, MoveKeeps, InWork DEF Embed, Statuses
<1>6. CASE End(i) \/ Die(i)
  BY <1>6, RestingIsARun, ChangeOfOne DEF End, Die
<1> QED
  BY <1>1, <1>2, <1>3, <1>4, <1>5, <1>6

LEMMA PrepareStepKeeps ==
  ASSUME DataInv, RunInv, NEW i \in Indexers, Prepare(i)
  PROVE  DataInv' /\ RunInv' /\ SameShelf
<1> DEFINE file == Head(run[i].todo)
           row == documents[file]
<1>1. /\ run[i].pc = "prepare" /\ run[i].todo # <<>> /\ file \in Files /\ UNCHANGED disk
      /\ run[i].buffer \in Contents /\ lastId \in Nat
  BY InWork DEF Prepare, Runs, DataInv
<1>2. CASE /\ row = NoRow /\ lastId' = lastId + 1
           /\ documents' = [documents EXCEPT ![file] =
                [id |-> lastId + 1, active |-> 0, content |-> run[i].buffer]]
           /\ Store(i, lastId + 1, 0)
  <2> DEFINE new == [id |-> lastId + 1, active |-> 0, content |-> run[i].buffer]
  <2>1. new \in Row /\ new # NoRow /\ new.id = lastId + 1 /\ new.active = 0
    BY <1>1, IndexAssumption DEF Row
  <2>2. documents' = [documents EXCEPT ![file] = new]
    BY <1>2
  <2> HIDE DEF new
  <2>3. \A f \in Files : documents[f] # NoRow => documents[f].id \in Nat /\ documents[f].id <= lastId
    BY DEF DataInv, Row
  <2>4. /\ documents' \in [Files -> Row \cup {NoRow}]
        /\ documents'[file] = new /\ \A f \in Files \ {file} : documents'[f] = documents[f]
    BY <1>1, <2>1, <2>2 DEF DataInv
  <2>5. lastId + 1 \in Nat /\ lastId < lastId + 1 /\ lastId <= lastId'
        /\ lastId' \in Nat /\ lastId + 1 <= lastId' /\ 0 \in Nat
    BY <1>1, <1>2
  <2>6. \A f \in Files : documents[f] # NoRow => documents[f].id # lastId + 1
    BY <1>1, <2>3
  <2>7. \A g \in Files : documents'[g] # NoRow /\ documents'[g].id = lastId + 1 => g = file
    BY <2>4, <2>6
  <2>8. \A f \in Files : documents'[f] # documents[f] => f = file
    BY <2>4
  <2> DEFINE id == lastId + 1
  <2>9. \A f \in Files : documents'[f] # documents[f] =>
          /\ documents[f] = NoRow /\ documents'[f] # NoRow
          /\ documents'[f].id = id /\ documents'[f].active = 0 /\ lastId < id
          /\ \A g \in Files : documents'[g] # NoRow /\ documents'[g].id = id => g = f
    BY <1>2, <2>1, <2>4, <2>5, <2>7, <2>8
  <2>10. \A f \in Files : documents[f] # NoRow /\ documents[f].id = id => documents[f].active = 0
    BY <2>6
  <2>11. Store(i, id, 0)
    BY <1>2
  <2> HIDE DEF id, file
  <2> QED
    BY <1>1, <2>4, <2>5, <2>9, <2>10, <2>11, PrepareKeeps DEF id
<1>3. CASE /\ IsRow(row, run[i].document) /\ Store(i, row.id, row.active)
           /\ UNCHANGED <<documents, lastId>>
  <2>1. row \in Row /\ row # NoRow /\ row.id <= lastId /\ row.id \in Nat /\ row.active \in Nat
    BY <1>1, <1>3 DEF IsRow, DataInv, Row
  <2>2. \A f \in Files : documents[f] # NoRow /\ documents[f].id = row.id =>
            documents[f].active = row.active
    BY <1>1, <2>1 DEF DataInv
  <2>3. documents \in [Files -> Row \cup {NoRow}]
    BY DEF DataInv
  <2> HIDE DEF row
  <2> QED
    BY <1>1, <1>3, <2>1, <2>2, <2>3, PrepareKeeps
<1>4. CASE Report(i, "FAILED") /\ UNCHANGED <<documents, lastId, chunks>>
  BY <1>1, <1>4, MoveKeeps DEF Statuses, SameShelf, ActiveChunks
<1> QED
  BY <1>2, <1>3, <1>4 DEF Prepare

LEMMA ActivateStepKeeps ==
  ASSUME DataInv, RunInv, NEW i \in Indexers, Activate(i)
  PROVE  DataInv' /\ RunInv'
<1> DEFINE file == Head(run[i].todo)
           force == [path |-> file, content |-> run[i].buffer, model |-> Model[i]]
<1>1. /\ run[i].pc = "activate" /\ run[i].todo # <<>> /\ file \in Files
      /\ UNCHANGED <<disk, chunks, lastId>>
      /\ force \in [path: Files, content: Contents, model: Models]
  BY InWork DEF Activate, Runs
<1>2. CASE /\ Activates(run[i], documents[file])
           /\ documents' = [documents EXCEPT ![file] =
                [documents[file] EXCEPT !.active = run[i].version, !.content = run[i].buffer]]
           /\ \E status \in Statuses : Published(i, force, status)
  <2>1. IsRow(documents[file], run[i].document)
    BY <1>2 DEF Activates
  <2> HIDE DEF file, force
  <2> QED
    BY <1>1, <1>2, <2>1, ActivationKeeps
<1>3. CASE Report(i, "FAILED") /\ UNCHANGED documents
  BY <1>1, <1>3, MoveKeeps DEF Statuses
<1> QED
  BY <1>2, <1>3 DEF Activate, Conflict, Statuses

(* The database is seeded, or a file changes.                               *)
LEMMA OutsideKeeps ==
  ASSUME DataInv, RunInv, Seed \/ \E f \in Files : Edit(f)
  PROVE  DataInv' /\ RunInv'
<1>1. CASE Seed
  <2>1. DataInv'
    BY <1>1 DEF Seed, DataInv
  <2>2. RunInv'
    BY <1>1 DEF Seed, RunInv, IsRow
  <2> QED
    BY <2>1, <2>2
<1>2. ASSUME NEW f \in Files, Edit(f) PROVE DataInv' /\ RunInv'
  <2>1. disk' \in [Files -> Contents]
    BY <1>2 DEF Edit, DataInv
  <2>2. UNCHANGED <<documents, chunks, lastId, run>>
    BY <1>2 DEF Edit
  <2>3. DataInv'
    BY <2>1, <2>2 DEF DataInv, ActiveChunks
  <2>4. RunInv'
    BY <2>2 DEF RunInv, Made
  <2> QED
    BY <2>3, <2>4
<1> QED
  BY <1>1, <1>2

(* A question reads the index and leaves it as it is.                       *)
LEMMA QuestionsOnlyRead ==
  ASSUME [KnowledgeNext]_vars
  PROVE  IndexStep \/ UNCHANGED indexVars
  BY DEF KnowledgeNext, QueryNext, Receive, QueryGuard, FindDocument, EmbedQuery, Retrieve,
         EvidenceGuard, Generate, OutputValidation, Trace, Reply, vars

LEMMA IndexKeeps ==
  ASSUME DataInv, RunInv, [KnowledgeNext]_vars
  PROVE  DataInv' /\ RunInv'
<1>1. CASE IndexStep
  BY <1>1, QuietStepKeeps, PrepareStepKeeps, ActivateStepKeeps, OutsideKeeps
  DEF IndexStep, IndexNext, Index
<1>2. CASE UNCHANGED indexVars
  BY <1>2 DEF indexVars, DataInv, RunInv, ActiveChunks, Made
<1> QED
  BY <1>1, <1>2, QuestionsOnlyRead

LEMMA IndexStarts ==
  ASSUME Init
  PROVE  DataInv /\ RunInv
<1>1. PICK old \in [Files -> {c \in Contents : WithinLimits(c)} \cup {NoRow}], model \in Models :
        LET Id(f) == CHOOSE k \in DOMAIN Paths : Paths[k] = f
        IN  /\ documents = [f \in Files |-> IF old[f] = NoRow THEN NoRow
                                ELSE [id |-> Id(f), active |-> 1, content |-> old[f]]]
            /\ chunks = {[document |-> Id(f), version |-> 1, content |-> old[f],
                          model |-> model] : f \in {g \in Files : old[g] # NoRow}}
  BY DEF Init
<1> DEFINE Id(f) == CHOOSE k \in DOMAIN Paths : Paths[k] = f
           row(f) == [id |-> Id(f), active |-> 1, content |-> old[f]]
           chunk(f) == [document |-> Id(f), version |-> 1, content |-> old[f], model |-> model]
           Listed == {g \in Files : old[g] # NoRow}
<1>2. Len(Paths) \in Nat /\ DOMAIN Paths = 1 .. Len(Paths)
  BY IndexAssumption, LenProperties
<1>3. \A f \in Files : Id(f) \in DOMAIN Paths /\ Paths[Id(f)] = f
  BY DEF Files
<1> HIDE DEF Id
<1>4. \A f \in Files : Id(f) \in Nat /\ Id(f) <= Len(Paths) /\ \A g \in Files : Id(f) = Id(g) => f = g
  BY <1>2, <1>3
<1>5. /\ documents = [f \in Files |-> IF old[f] = NoRow THEN NoRow ELSE row(f)]
      /\ chunks = {chunk(f) : f \in Listed}
  BY <1>1 DEF Id
<1>6. \A f \in Listed :
        /\ row(f) \in Row /\ row(f) # NoRow
        /\ row(f).id = Id(f) /\ row(f).active = 1 /\ row(f).content = old[f]
        /\ chunk(f) \in Chunks /\ chunk(f).document = Id(f) /\ chunk(f).version = 1
        /\ chunk(f).content = old[f]
  BY <1>4, IndexAssumption DEF Row, Chunks
<1> HIDE DEF row, chunk
<1>7. \A f \in Files : documents[f] # NoRow => f \in Listed /\ documents[f] = row(f)
  BY <1>5
<1>8. DataInv
  <2>1. disk \in [Files -> Contents] /\ lastId = Len(Paths)
    BY DEF Init
  <2>2. documents \in [Files -> Row \cup {NoRow}] /\ chunks \subseteq Chunks
    BY <1>5, <1>6
  <2>3. \A c \in chunks : c.version <= 1 /\ c.document <= Len(Paths)
    BY <1>4, <1>5, <1>6
  <2>4. \A c, d \in chunks : c.document = d.document /\ c.version = d.version => c = d
    BY <1>4, <1>5, <1>6
  <2>5. /\ \A f \in Files : documents[f] # NoRow => documents[f].id <= Len(Paths)
        /\ \A f, g \in Files : documents[f] # NoRow /\ documents[g] # NoRow
                            /\ documents[f].id = documents[g].id => f = g
    BY <1>4, <1>6, <1>7
  <2>6. ASSUME NEW f \in Files, documents[f] # NoRow
        PROVE  /\ ActiveChunks(documents[f]) # {}
               /\ \A c \in ActiveChunks(documents[f]) : c.content = documents[f].content
    <3>1. f \in Listed /\ documents[f] = row(f)
      BY <1>7, <2>6
    <3>2. chunk(f) \in ActiveChunks(documents[f])
      BY <1>5, <1>6, <3>1 DEF ActiveChunks
    <3>3. \A c \in ActiveChunks(documents[f]) : c.content = old[f]
      BY <1>4, <1>5, <1>6, <3>1 DEF ActiveChunks
    <3> QED
      BY <1>6, <3>1, <3>2, <3>3
  <2>7. 1 \in Nat
    OBVIOUS
  <2> QED
    BY <1>2, <2>1, <2>2, <2>3, <2>4, <2>5, <2>6, <2>7 DEF DataInv
<1>9. RunInv
  BY RestingIsARun DEF Init, RunInv
<1> QED
  BY <1>8, <1>9

(* Every reachable index is consistent.                                     *)
LEMMA IndexInvariant == Spec => [](DataInv /\ RunInv)
<1>1. KnowledgeInit => DataInv /\ RunInv
  BY IndexStarts DEF KnowledgeInit
<1> QED
  BY <1>1, IndexKeeps, PTL DEF Spec

-----------------------------------------------------------------------------
(* What lies on the shelf for a file, and what a question has taken.        *)
OnShelf(f) ==
    IF ~HasActiveIndex(documents[f]) THEN NoRow
    ELSE [document |-> documents[f].id, version |-> documents[f].active,
          text |-> (CHOOSE c \in ActiveChunks(documents[f]) : TRUE).content]

Taken(evidence) ==
    {[document |-> p.document, version |-> p.version, text |-> p.content] : p \in evidence}

LEMMA ShelfStays ==
  ASSUME SameShelf
  PROVE  \A f \in Files : OnShelf(f)' = OnShelf(f)
<1> TAKE f \in Files
<1>1. CASE HasActiveIndex(documents[f]) \/ HasActiveIndex(documents[f])'
  <2>1. documents'[f] = documents[f] /\ ActiveChunks(documents[f])' = ActiveChunks(documents[f])
    BY <1>1 DEF SameShelf, HasActiveIndex
  <2> QED
    BY <2>1 DEF OnShelf, HasActiveIndex
<1> QED
  BY <1>1 DEF OnShelf

LEMMA EditionsLie ==
  ASSUME DataInv, NEW f \in Files, HasActiveIndex(documents[f])
  PROVE  /\ OnShelf(f) \in Shelf!Edition
         /\ OnShelf(f).document = documents[f].id /\ OnShelf(f).version = documents[f].active
         /\ \A c \in ActiveChunks(documents[f]) : OnShelf(f).text = c.content
<1> DEFINE chosen == CHOOSE c \in ActiveChunks(documents[f]) : TRUE
<1>1. documents[f] \in Row /\ documents[f].active # 0
  BY DEF HasActiveIndex, DataInv
<1>2. chosen \in ActiveChunks(documents[f])
  BY DEF HasActiveIndex
<1>3. chosen.content \in Contents /\ \A c \in ActiveChunks(documents[f]) : c = chosen
  BY <1>2 DEF ActiveChunks, DataInv, Chunks
<1>4. OnShelf(f) = [document |-> documents[f].id, version |-> documents[f].active,
                    text |-> chosen.content]
  BY DEF OnShelf
<1> HIDE DEF chosen
<1> QED
  BY <1>1, <1>3, <1>4 DEF Shelf!Edition, Row

(* The activation of a stored version puts a later edition on the shelf.    *)
LEMMA ActivationPublishes ==
  ASSUME DataInv, RunInv, DataInv', NEW i \in Indexers, run[i].pc = "activate",
         NEW file \in Files, Activates(run[i], documents[file]),
         documents' = [documents EXCEPT ![file] =
            [documents[file] EXCEPT !.active = run[i].version, !.content = run[i].buffer]],
         UNCHANGED <<chunks, query>>
  PROVE  Shelf!Publish(file)
<1>1. /\ documents[file] \in Row /\ documents[file] # NoRow
      /\ documents[file].active = run[i].expected /\ run[i] \in Runs
      /\ run[i].expected < run[i].version
  BY InWork DEF DataInv, Activates, IsRow, RunInv
<1>2. /\ documents'[file].id = documents[file].id /\ documents'[file].active = run[i].version
      /\ documents'[file] # NoRow
  <2> DEFINE row == [documents[file] EXCEPT !.active = run[i].version, !.content = run[i].buffer]
  <2>1. /\ row \in Row /\ row.id = documents[file].id /\ row.active = run[i].version
    BY <1>1 DEF Row, Runs
  <2>2. documents'[file] = row
    BY DEF DataInv
  <2> QED
    BY <2>1, <2>2, IndexAssumption
<1>3. HasActiveIndex(documents[file])'
  BY <1>1, <1>2 DEF HasActiveIndex, DataInv, Runs
<1>4. /\ OnShelf(file)' \in Shelf!Edition
      /\ OnShelf(file)'.document = documents[file].id /\ OnShelf(file)'.version = run[i].version
  <2> DEFINE chosen == CHOOSE c \in ActiveChunks(documents[file])' : TRUE
  <2>1. chosen \in ActiveChunks(documents[file])'
    BY <1>3 DEF HasActiveIndex
  <2>2. chosen.content \in Contents
    BY <2>1 DEF ActiveChunks, DataInv, Chunks
  <2>3. OnShelf(file)' = [document |-> documents'[file].id, version |-> documents'[file].active,
                          text |-> chosen.content]
    BY <1>3 DEF OnShelf
  <2> HIDE DEF chosen
  <2> QED
    BY <1>1, <1>2, <2>2, <2>3 DEF Shelf!Edition, Row, Runs
<1>5. Shelf!Later(OnShelf(file)', OnShelf(file))
  <2>1. CASE HasActiveIndex(documents[file])
    BY <1>1, <1>4, <2>1, EditionsLie DEF Shelf!Later, Runs, Row
  <2>2. CASE ~HasActiveIndex(documents[file])
    BY <2>2 DEF Shelf!Later, OnShelf
  <2> QED
    BY <2>1, <2>2
<1>6. \A f \in Files \ {file} : OnShelf(f)' = OnShelf(f)
  BY DEF OnShelf, HasActiveIndex, ActiveChunks, DataInv
<1> QED
  BY <1>4, <1>5, <1>6 DEF Shelf!Publish, OnShelf

(* A search takes what lies on the shelf.                                   *)
LEMMA SearchTakes ==
  ASSUME DataInv, NEW document, NEW found, found \subseteq ActiveChunksOf(document)
  PROVE  Taken(found) \subseteq {OnShelf(f) : f \in Files} \ {NoRow}
<1> SUFFICES ASSUME NEW p \in found
             PROVE  /\ [document |-> p.document, version |-> p.version, text |-> p.content]
                            \in {OnShelf(f) : f \in Files}
                    /\ [document |-> p.document, version |-> p.version, text |-> p.content] # NoRow
  BY DEF Taken
<1>1. PICK f \in Files : documents[f] # NoRow /\ p \in Pieces(documents[f])
  BY DEF ActiveChunksOf
<1>2. PICK c \in ActiveChunks(documents[f]) :
        p.document = documents[f].id /\ p.version = c.version /\ p.content = c.content
  BY <1>1 DEF Pieces
<1>3. HasActiveIndex(documents[f]) /\ c.version = documents[f].active
  BY <1>1, <1>2 DEF HasActiveIndex, ActiveChunks, DataInv, Chunks
<1>4. /\ OnShelf(f) \in Shelf!Edition
      /\ OnShelf(f).document = p.document /\ OnShelf(f).version = p.version
      /\ OnShelf(f).text = p.content
  BY <1>2, <1>3, EditionsLie
<1>5. OnShelf(f) = [document |-> p.document, version |-> p.version, text |-> p.content]
  BY <1>4 DEF Shelf!Edition
<1>6. OnShelf(f) # NoRow
  BY <1>4, QueryAssumption DEF Shelf!Edition
<1> QED
  BY <1>5, <1>6

-----------------------------------------------------------------------------
(* What holds of a question in work: beyond the properties, the evidence was *)
(* in force at the search, only safe evidence of a safe question gets to the *)
(* model, and up to its end a question has neither findings nor a trace.     *)
Stages == {"idle", "query_guard", "document", "query_embedding", "vector_retrieval",
           "evidence_guard", "grounded_answer", "output_validation"}

Untraced == {"INTERNAL_ERROR", "AUTHENTICATION_REQUIRED", "KNOWLEDGE_QUERY_INVALID"}

Grounded(q) ==
    /\ q.question.safe /\ q.answer.safe
    /\ q.sources # {} /\ q.sources \subseteq q.answer.cited
    /\ \A p \in q.sources : (\E e \in q.force : e.content = p.content) /\ ~UnsafePiece(p)
    /\ q.answer.link # "elsewhere"
    /\ q.answer.link = "policy" => \E p \in q.sources : HasLink(p)

Sound(q) ==
    /\ q \in Queries
    /\ \A p \in q.evidence : \E e \in q.force : e.content = p.content
    /\ q.pc \in Stages =>
        q.result = "NONE" /\ q.traces = <<>> /\ q.detected = 0 /\ q.recorded = 0
    /\ q.pc \in Stages \ {"idle", "query_guard"} => q.question.safe
    /\ q.pc \in {"grounded_answer", "output_validation"} => \A p \in q.evidence : ~UnsafePiece(p)
    /\ q.pc \in {"finish", "catch"} => q.traces = <<>> /\ q.result \notin Untraced
    /\ q.pc = "done" =>
        q.traces = IF ~Tracing \/ q.result \in Untraced THEN <<>> ELSE <<Status(q.result)>>
    /\ q.result = "ANSWERED" => Grounded(q)
    /\ q.recorded < q.detected => q.result = "KNOWLEDGE_QUERY_FAILED"
    /\ q.result = "UNSAFE_KNOWLEDGE_QUERY" => q.recorded = 1

LEMMA NoQueryIsSound == Sound(NoQuery)
<1>1. <<>> \in Seq({"ANSWERED", "INSUFFICIENT_EVIDENCE", "REJECTED", "FAILED"})
  BY EmptySeq
<1> QED
  BY <1>1 DEF Sound, NoQuery, NoAnswer, Queries, Question, Results, Stages, Untraced

(* A question that goes on to its next stage.                               *)
LEMMA GoIsSound ==
  ASSUME Sound(query), query.pc \in Stages, NEW place \in Stages \ {"idle", "query_guard"},
         query.question.safe,
         place \in {"grounded_answer", "output_validation"} =>
            \A p \in query.evidence : ~UnsafePiece(p),
         Go(place)
  PROVE  Sound(query') /\ query'.evidence = query.evidence
<1>1. /\ query' \in Queries /\ query'.pc = place
      /\ query'.evidence = query.evidence /\ query'.force = query.force
      /\ query'.question = query.question /\ query'.result = query.result
      /\ query'.traces = query.traces /\ query'.sources = query.sources
      /\ query'.answer = query.answer
      /\ query'.detected = query.detected /\ query'.recorded = query.recorded
  BY DEF Go, Sound, Queries, Stages
<1> QED
  BY <1>1 DEF Sound, Stages

(* The parts of a question that has come to its end.                        *)
LEMMA EndedIs ==
  ASSUME query \in Queries, NEW place \in {"finish", "catch"}, NEW result \in Results
  PROVE  LET q == Ended(place, result) IN
         /\ q \in Queries /\ q.pc = place /\ q.result = result
         /\ q.evidence = {} /\ q.answer = NoAnswer
         /\ q.force = query.force /\ q.question = query.question
         /\ q.traces = query.traces /\ q.sources = query.sources
         /\ q.detected = query.detected /\ q.recorded = query.recorded
  BY DEF Ended, Queries, NoAnswer

(* A question that ends without a finding.                                  *)
LEMMA EndedIsSound ==
  ASSUME Sound(query), query.pc \in Stages, NEW place \in {"finish", "catch"},
         NEW result \in {"INSUFFICIENT_EVIDENCE", "KNOWLEDGE_DOCUMENT_NOT_FOUND",
                         "KNOWLEDGE_QUERY_FAILED"},
         query' = Ended(place, result)
  PROVE  Sound(query') /\ query'.evidence = {}
<1>1. query \in Queries /\ result \in Results
  BY DEF Sound, Results
<1> QED
  BY <1>1, EndedIs DEF Sound, Stages, Untraced

(* A question that ends on a finding, recorded or not.                      *)
LEMMA RejectedIsSound ==
  ASSUME Sound(query), query.pc \in Stages, NEW place \in {"finish", "catch"},
         NEW result \in {"INSUFFICIENT_EVIDENCE", "UNSAFE_KNOWLEDGE_QUERY"},
         Rejected(Ended(place, result))
  PROVE  Sound(query') /\ query'.evidence = {}
<1>1. /\ query \in Queries /\ result \in Results /\ "KNOWLEDGE_QUERY_FAILED" \in Results
      /\ query.detected = 0 /\ query.recorded = 0 /\ query.traces = <<>>
  BY DEF Sound, Results
<1>2. CASE query' = [Ended(place, result) EXCEPT !.detected = @ + 1, !.recorded = @ + 1]
  <2> DEFINE q == Ended(place, result)
  <2>1. /\ q \in Queries /\ q.pc = place /\ q.result = result /\ q.evidence = {}
        /\ q.traces = <<>> /\ q.detected = 0 /\ q.recorded = 0
    BY <1>1, EndedIs
  <2> DEFINE d == [q EXCEPT !.detected = q.detected + 1]
  <2>2. query' = [d EXCEPT !.recorded = d.recorded + 1]
    <3>1. d.recorded = q.recorded
      BY <2>1 DEF Queries
    <3> QED
      BY <1>2, <3>1
  <2> HIDE DEF q
  <2>3. /\ d \in Queries /\ d.pc = place /\ d.result = result /\ d.evidence = {}
        /\ d.traces = <<>> /\ d.detected = 1 /\ d.recorded = 0
    BY <2>1 DEF Queries
  <2> HIDE DEF d
  <2>4. /\ query' \in Queries /\ query'.pc = place /\ query'.result = result
        /\ query'.evidence = {} /\ query'.traces = <<>>
        /\ query'.detected = 1 /\ query'.recorded = 1
    BY <2>2, <2>3 DEF Queries
  <2> QED
    BY <2>4 DEF Sound, Stages, Untraced
<1>3. CASE query' = [Failed EXCEPT !.detected = @ + 1]
  <2> DEFINE q == Ended("catch", "KNOWLEDGE_QUERY_FAILED")
  <2>1. /\ q \in Queries /\ q.pc = "catch" /\ q.result = "KNOWLEDGE_QUERY_FAILED"
        /\ q.evidence = {} /\ q.traces = <<>> /\ q.detected = 0 /\ q.recorded = 0
    BY <1>1, EndedIs
  <2> HIDE DEF q
  <2>2. /\ query' \in Queries /\ query'.pc = "catch"
        /\ query'.result = "KNOWLEDGE_QUERY_FAILED"
        /\ query'.evidence = {} /\ query'.traces = <<>>
        /\ query'.detected = 1 /\ query'.recorded = 0
    BY <1>3, <2>1 DEF q, Failed, Queries
  <2> QED
    BY <2>2 DEF Sound, Stages, Untraced
<1> QED
  BY <1>2, <1>3 DEF Rejected

(* What a search finds are pieces of documents in force.                    *)
LEMMA PiecesAreInForce ==
  ASSUME DataInv, NEW document, NEW p \in ActiveChunksOf(document)
  PROVE  p \in Evidence /\ \E e \in InForce : e.content = p.content
<1>1. PICK f \in Files : documents[f] # NoRow /\ p \in Pieces(documents[f])
  BY DEF ActiveChunksOf
<1>2. PICK c \in ActiveChunks(documents[f]) : \E s \in chunkPages(c.content.pages) :
        p = [document |-> documents[f].id, version |-> c.version, span |-> s,
             content |-> c.content]
  BY <1>1 DEF Pieces
<1>3. PICK s \in chunkPages(c.content.pages) :
        p = [document |-> documents[f].id, version |-> c.version, span |-> s,
             content |-> c.content]
  BY <1>2
<1>4. c \in Chunks /\ documents[f] \in Row
  BY <1>1 DEF ActiveChunks, DataInv
<1>5. c.content.pages \in Seq(Nat)
  BY <1>4, IndexAssumption DEF Chunks, Content
<1>6. s \in Span
  BY <1>5, ChunksAreBounded
<1>7. p \in Evidence
  BY <1>3, <1>4, <1>6 DEF Evidence, Chunks, Row
<1>8. [path |-> f, content |-> c.content, model |-> c.model] \in InForce
  BY <1>1 DEF InForce
<1> QED
  BY <1>3, <1>7, <1>8

(* The question has taken nothing, or what it had, or what is on the shelf. *)
TakesFromShelf ==
    \/ query'.evidence \in {query.evidence, {}}
    \/ Taken(query'.evidence) \subseteq {OnShelf(f) : f \in Files} \ {NoRow}

LEMMA ReceiveKeeps ==
  ASSUME NEW question \in Questions, Receive(question)
  PROVE  Sound(query') /\ TakesFromShelf
<1> DEFINE q == [NoQuery EXCEPT !.question = question]
<1>1. q \in Queries /\ q.evidence = {} /\ q.traces = <<>> /\ q.detected = 0
      /\ q.recorded = 0 /\ q.result = "NONE" /\ q.pc = "idle"
  <2>1. NoQuery \in Queries /\ NoQuery.evidence = {} /\ NoQuery.traces = <<>>
        /\ NoQuery.detected = 0 /\ NoQuery.recorded = 0 /\ NoQuery.result = "NONE"
        /\ NoQuery.pc = "idle"
    BY NoQueryIsSound DEF Sound, NoQuery
  <2>2. question \in Question
    BY QueryAssumption
  <2> QED
    BY <2>1, <2>2 DEF Queries
<1>2. CASE \E code \in Untraced : query' = [q EXCEPT !.pc = "done", !.result = code]
  <2>1. PICK code \in Untraced : query' = [q EXCEPT !.pc = "done", !.result = code]
    BY <1>2
  <2> HIDE DEF q
  <2>2. /\ query' \in Queries /\ query'.pc = "done" /\ query'.result = code
        /\ query'.evidence = {} /\ query'.traces = <<>> /\ query'.detected = 0
        /\ query'.recorded = 0
    BY <1>1, <2>1 DEF Queries, Untraced, Results
  <2> QED
    BY <2>2 DEF Sound, Stages, Untraced, TakesFromShelf
<1>3. CASE query' = [q EXCEPT !.pc = "query_guard"]
  <2> HIDE DEF q
  <2>1. /\ query' \in Queries /\ query'.pc = "query_guard" /\ query'.result = "NONE"
        /\ query'.evidence = {} /\ query'.traces = <<>> /\ query'.detected = 0
        /\ query'.recorded = 0
    BY <1>1, <1>3 DEF Queries
  <2> QED
    BY <2>1 DEF Sound, Stages, TakesFromShelf
<1> QED
  BY <1>2, <1>3 DEF Receive, Untraced

LEMMA FailureIsSound ==
  ASSUME Sound(query), query.pc \in Stages, query' \in {Failed, Insufficient}
  PROVE  Sound(query') /\ query'.evidence = {}
  BY EndedIsSound DEF Failed, Insufficient

LEMMA RetrieveKeeps ==
  ASSUME DataInv, Sound(query), Retrieve
  PROVE  Sound(query') /\ TakesFromShelf
<1>1. query.pc \in Stages /\ query.question.safe
  BY DEF Retrieve, Sound, Stages
<1>2. CASE query' \in {Failed, Insufficient}
  BY <1>1, <1>2, FailureIsSound DEF TakesFromShelf
<1>3. ASSUME NEW found \in SUBSET ActiveChunksOf(query.question.document),
             query' = [query EXCEPT !.pc = "evidence_guard", !.evidence = found,
                                    !.force = InForce]
      PROVE  Sound(query') /\ TakesFromShelf
  <2>1. found \subseteq Evidence /\ \A p \in found : \E e \in InForce : e.content = p.content
    BY PiecesAreInForce
  <2>2. InForce \subseteq [path: Files, content: Contents, model: Models]
    BY InForceType
  <2>3. /\ query' \in Queries /\ query'.pc = "evidence_guard" /\ query'.evidence = found
        /\ query'.force = InForce /\ query'.question = query.question
        /\ query'.result = query.result /\ query'.traces = query.traces
        /\ query'.detected = query.detected /\ query'.recorded = query.recorded
    BY <1>3, <2>1, <2>2 DEF Sound, Queries
  <2>4. Sound(query')
    BY <1>1, <2>1, <2>3 DEF Sound, Stages
  <2> QED
    BY <2>3, <2>4, SearchTakes DEF TakesFromShelf
<1> QED
  BY <1>2, <1>3 DEF Retrieve

LEMMA GenerateKeeps ==
  ASSUME Sound(query), Generate
  PROVE  Sound(query') /\ TakesFromShelf
<1>1. query.pc \in Stages /\ query.pc = "grounded_answer"
  BY DEF Generate, Stages
<1>2. CASE query' = Failed
  BY <1>1, <1>2, FailureIsSound DEF TakesFromShelf
<1>3. ASSUME NEW answer \in Answers(query.evidence),
             query' = [query EXCEPT !.pc = "output_validation", !.answer = answer]
      PROVE  Sound(query') /\ TakesFromShelf
  <2>1. answer \in [safe: BOOLEAN, cited: SUBSET (Evidence \cup {Invented}),
                    link: {"none", "policy", "elsewhere"}]
    BY DEF Answers, NoAnswer, Sound, Queries
  <2>2. /\ query' \in Queries /\ query'.pc = "output_validation"
        /\ query'.evidence = query.evidence /\ query'.force = query.force
        /\ query'.question = query.question
        /\ query'.result = query.result /\ query'.traces = query.traces
        /\ query'.detected = query.detected /\ query'.recorded = query.recorded
    BY <1>3, <2>1 DEF Sound, Queries
  <2> QED
    BY <1>1, <2>2 DEF Sound, Stages, TakesFromShelf
<1> QED
  BY <1>2, <1>3 DEF Generate

(* What the checks of the output let pass is grounded.                      *)
LEMMA OutputKeeps ==
  ASSUME Sound(query), OutputValidation
  PROVE  Sound(query') /\ TakesFromShelf
<1> DEFINE answer == query.answer
           sources == Sources(query.evidence, answer)
<1>1. query.pc = "output_validation" /\ query.pc \in Stages
  BY DEF OutputValidation, Stages
<1>2. CASE query' = Insufficient
  BY <1>1, <1>2, FailureIsSound DEF TakesFromShelf
<1>3. CASE Rejected(Insufficient)
  BY <1>1, <1>3, RejectedIsSound DEF Insufficient, TakesFromShelf
<1>4. ASSUME answer.safe, sources # {},
             \/ answer.link = "none"
             \/ answer.link = "policy" /\ \E p \in sources : HasLink(p),
             query' = [Ended("finish", "ANSWERED") EXCEPT !.sources = sources,
                                                        !.answer = answer]
      PROVE  Sound(query') /\ TakesFromShelf
  <2> DEFINE q == Ended("finish", "ANSWERED")
  <2>1. /\ q \in Queries /\ q.pc = "finish" /\ q.result = "ANSWERED" /\ q.evidence = {}
        /\ q.force = query.force /\ q.question = query.question
        /\ q.traces = query.traces /\ q.detected = query.detected
        /\ q.recorded = query.recorded
    BY EndedIs DEF Sound, Results
  <2>2. sources \subseteq query.evidence /\ sources \subseteq answer.cited
    BY DEF Sources
  <2>3. query.evidence \subseteq Evidence /\ query.question.safe
        /\ answer \in [safe: BOOLEAN, cited: SUBSET (Evidence \cup {Invented}),
                       link: {"none", "policy", "elsewhere"}]
    BY <1>1 DEF Sound, Queries, Stages
  <2>4. \A p \in query.evidence : (\E e \in query.force : e.content = p.content)
                                  /\ ~UnsafePiece(p)
    BY <1>1 DEF Sound
  <2> HIDE DEF q, answer, sources
  <2>5. query' = [q EXCEPT !.sources = sources, !.answer = answer]
    BY <1>4 DEF q, answer, sources
  <2>6. sources \in SUBSET Evidence
    BY <2>2, <2>3
  <2>7. /\ query' \in Queries /\ query'.pc = "finish" /\ query'.result = "ANSWERED"
        /\ query'.evidence = {} /\ query'.force = query.force
        /\ query'.question = query.question /\ query'.sources = sources
        /\ query'.answer = answer /\ query'.traces = query.traces
        /\ query'.detected = query.detected /\ query'.recorded = query.recorded
    BY <2>1, <2>3, <2>5, <2>6 DEF Queries
  <2>8. Grounded(query')
    BY <1>4, <2>2, <2>3, <2>4, <2>7 DEF Grounded
  <2>9. query.traces = <<>> /\ query.detected = 0 /\ query.recorded = 0
    BY <1>1 DEF Sound
  <2> QED
    BY <2>7, <2>8, <2>9 DEF Sound, Stages, Untraced, TakesFromShelf
<1> QED
  BY <1>2, <1>3, <1>4 DEF OutputValidation

(* The trace says what became of the question.                              *)
LEMMA TraceKeeps ==
  ASSUME Sound(query), Trace
  PROVE  Sound(query') /\ TakesFromShelf
<1>1. query.pc \in {"finish", "catch"} /\ query.traces = <<>> /\ query.result \notin Untraced
  BY DEF Trace, Sound
<1>2. Status(query.result) \in {"ANSWERED", "INSUFFICIENT_EVIDENCE", "REJECTED", "FAILED"}
  BY DEF Status
<1> DEFINE status == Status(query.result)
<1>3. Traced = IF Tracing THEN <<status>> ELSE <<>>
  <2>1. Append(<<>>, status) = <<status>>
    OBVIOUS
  <2> QED
    BY <1>1, <2>1 DEF Traced
<1> DEFINE Kinds == {"ANSWERED", "INSUFFICIENT_EVIDENCE", "REJECTED", "FAILED"}
<1>4. Traced \in Seq({"ANSWERED", "INSUFFICIENT_EVIDENCE", "REJECTED", "FAILED"})
  <2>1. status \in Kinds
    BY <1>2
  <2> HIDE DEF status, Kinds
  <2>2. <<status>> \in Seq(Kinds) /\ <<>> \in Seq(Kinds)
    BY <2>1
  <2> QED
    BY <1>3, <2>2 DEF Kinds
<1> HIDE DEF status
<1> HIDE DEF Traced
<1>5. /\ query' \in Queries /\ query'.pc = "done" /\ query'.traces = Traced
      /\ query'.evidence = query.evidence /\ query'.force = query.force
      /\ query'.question = query.question /\ query'.sources = query.sources
      /\ query'.answer = query.answer /\ query'.result = query.result
      /\ query'.detected = query.detected /\ query'.recorded = query.recorded
  BY <1>4 DEF Trace, SubmitTrace, Sound, Queries
<1>6. query'.traces = IF ~Tracing \/ query'.result \in Untraced THEN <<>>
                      ELSE <<Status(query'.result)>>
  BY <1>1, <1>3, <1>5 DEF status
<1>7. Grounded(query) => Grounded(query')
  BY <1>5 DEF Grounded
<1> QED
  BY <1>5, <1>6, <1>7 DEF Sound, Stages, TakesFromShelf

(* Every step of a question.                                                *)
LEMMA QuestionKeeps ==
  ASSUME DataInv, Sound(query), QueryNext
  PROVE  Sound(query') /\ TakesFromShelf
<1>1. CASE QueryGuard
  <2>1. query.pc = "query_guard" /\ query.pc \in Stages
    BY <1>1 DEF QueryGuard, Stages
  <2>2. CASE query.question.safe /\ Go("document")
    BY <2>1, <2>2, GoIsSound DEF Stages, TakesFromShelf
  <2>3. CASE Rejected(Ended("catch", "UNSAFE_KNOWLEDGE_QUERY"))
    BY <2>1, <2>3, RejectedIsSound DEF TakesFromShelf
  <2> QED
    BY <1>1, <2>2, <2>3 DEF QueryGuard
<1>2. CASE FindDocument
  <2>1. query.pc = "document" /\ query.pc \in Stages /\ query.question.safe
    BY <1>2 DEF FindDocument, Stages, Sound
  <2>2. CASE Go("query_embedding")
    BY <2>1, <2>2, GoIsSound DEF Stages, TakesFromShelf
  <2>3. CASE Throw("KNOWLEDGE_DOCUMENT_NOT_FOUND")
    BY <2>1, <2>3, EndedIsSound DEF Throw, TakesFromShelf
  <2>4. CASE query' = Failed
    BY <2>1, <2>4, FailureIsSound DEF TakesFromShelf
  <2> QED
    BY <1>2, <2>2, <2>3, <2>4 DEF FindDocument
<1>3. CASE EmbedQuery
  <2>1. query.pc = "query_embedding" /\ query.pc \in Stages /\ query.question.safe
    BY <1>3 DEF EmbedQuery, Stages, Sound
  <2>2. CASE Go("vector_retrieval")
    BY <2>1, <2>2, GoIsSound DEF Stages, TakesFromShelf
  <2>3. CASE query' = Failed
    BY <2>1, <2>3, FailureIsSound DEF TakesFromShelf
  <2> QED
    BY <1>3, <2>2, <2>3 DEF EmbedQuery
<1>4. CASE EvidenceGuard
  <2>1. query.pc = "evidence_guard" /\ query.pc \in Stages /\ query.question.safe
    BY <1>4 DEF EvidenceGuard, Stages, Sound
  <2>2. CASE (\A p \in query.evidence : ~UnsafePiece(p)) /\ Go("grounded_answer")
    BY <2>1, <2>2, GoIsSound DEF Stages, TakesFromShelf
  <2>3. CASE Rejected(Insufficient)
    BY <2>1, <2>3, RejectedIsSound DEF Insufficient, TakesFromShelf
  <2> QED
    BY <1>4, <2>2, <2>3 DEF EvidenceGuard
<1>5. CASE Reply
  BY <1>5, NoQueryIsSound DEF Reply, NoQuery, TakesFromShelf
<1> QED
  BY <1>1, <1>2, <1>3, <1>4, <1>5, ReceiveKeeps, RetrieveKeeps, GenerateKeeps, OutputKeeps,
     TraceKeeps DEF QueryNext

LEMMA QuestionInvariant == Spec => []Sound(query)
<1>1. KnowledgeInit => Sound(query)
  BY NoQueryIsSound DEF KnowledgeInit, QueryInit
<1>2. DataInv /\ Sound(query) /\ [KnowledgeNext]_vars => Sound(query)'
  <2>1. CASE QueryNext
    BY <2>1, QuestionKeeps
  <2>2. CASE IndexStep \/ UNCHANGED vars
    BY <2>2 DEF IndexStep, vars, queryVars
  <2> QED
    BY <2>1, <2>2 DEF KnowledgeNext
<1> QED
  BY <1>1, <1>2, IndexInvariant, PTL DEF Spec

-----------------------------------------------------------------------------
(* An answer is safe, cites evidence that was in force at the search and    *)
(* passed the patterns, and links only to what it cites.                    *)
THEOREM AnswersGrounded == Spec => []AnswersAreGrounded
<1>1. Sound(query) => AnswersAreGrounded
  BY DEF Sound, Grounded, AnswersAreGrounded, UnsafePiece, Unsafe, HasLink
<1> QED
  BY <1>1, QuestionInvariant, PTL

(* Exactly one trace per question that gets to the service.                 *)
THEOREM OneTrace == Spec => []TracedOnce
<1>1. Sound(query) => TracedOnce
  BY DEF Sound, TracedOnce, Untraced
<1> QED
  BY <1>1, QuestionInvariant, PTL

(* A finding counts only if it is among the security events.                *)
THEOREM FindingsRecorded == Spec => []RejectionsAreRecorded
<1>1. Sound(query) => RejectionsAreRecorded
  BY DEF Sound, RejectionsAreRecorded
<1> QED
  BY <1>1, QuestionInvariant, PTL

-----------------------------------------------------------------------------
(* A text in which no chunk holds an instruction that the patterns find.    *)
Passed(content) == \A c \in chunkPages(content.pages) : ~Unsafe(c, content)

SendInv ==
    /\ sent \subseteq {c \in Contents : Passed(c)}
    /\ \A i \in Indexers : run[i].pc = "embed" => Passed(run[i].buffer)

(* A step changes one run, which does not go to the embedding service.      *)
LEMMA NotSent ==
  ASSUME RunInv, SendInv, NEW i \in Indexers, NEW r, run' = [run EXCEPT ![i] = r],
         r.pc # "embed", UNCHANGED sent
  PROVE  SendInv'
  BY DEF RunInv, SendInv

LEMMA SendKeeps ==
  ASSUME RunInv, SendInv, [KnowledgeNext]_vars
  PROVE  SendInv'
<1>1. ASSUME NEW i \in Indexers, NEW status \in Statuses, Report(i, status),
             run[i].todo # <<>>, UNCHANGED sent
      PROVE  SendInv'
  <2>1. PICK r \in Runs : run' = [run EXCEPT ![i] = r] /\ r.pc = "open"
    BY <1>1, ReportStep
  <2> QED
    BY <1>1, <2>1, NotSent
<1>2. ASSUME NEW i \in Indexers, NEW place, place # "embed", Proceed(i, place), UNCHANGED sent
      PROVE  SendInv'
  <2> DEFINE r == [run[i] EXCEPT !.pc = place]
  <2>1. run' = [run EXCEPT ![i] = r] /\ r.pc = place
    BY <1>2, InWork DEF Proceed, Runs
  <2> HIDE DEF r
  <2> QED
    BY <1>2, <2>1, NotSent
<1>3. ASSUME NEW i \in Indexers, Index(i) \/ Die(i)
      PROVE  SendInv'
  <2>1. CASE Discover(i)
    <3> DEFINE r == [Resting EXCEPT !.pc = "open", !.todo = Paths,
                        !.size = [f \in Files |-> disk[f].bytes], !.force = InForce]
    <3>1. run' = [run EXCEPT ![i] = r] /\ UNCHANGED sent
      BY <2>1 DEF Discover
    <3>2. r.pc = "open"
      BY DEF Resting
    <3> HIDE DEF r
    <3> QED
      BY <3>1, <3>2, NotSent
  <2>2. CASE Open(i)
    <3>1. run[i].todo # <<>> /\ UNCHANGED sent
      BY <2>2 DEF Open
    <3>2. CASE Report(i, "FAILED")
      BY <1>1, <3>1, <3>2 DEF Statuses
    <3>3. CASE run' = [run EXCEPT ![i].pc = "lookup", ![i].buffer = disk[Head(run[i].todo)]]
      <4> DEFINE r == [run[i] EXCEPT !.pc = "lookup", !.buffer = disk[Head(run[i].todo)]]
      <4>1. run' = [run EXCEPT ![i] = r] /\ r.pc = "lookup"
        BY <3>3, InWork DEF RunInv, Runs
      <4> HIDE DEF r
      <4> QED
        BY <3>1, <4>1, NotSent
    <3> QED
      BY <2>2, <3>2, <3>3 DEF Open
  <2>3. CASE Lookup(i)
    <3> DEFINE row == documents[Head(run[i].todo)]
    <3>1. run[i].todo # <<>> /\ UNCHANGED sent
      BY <2>3, InWork DEF Lookup
    <3>2. CASE Report(i, "FAILED") \/ Report(i, "SKIPPED")
      BY <1>1, <3>1, <3>2 DEF Statuses
    <3>3. CASE run' = [run EXCEPT ![i].pc = "inspect", ![i].document = row.id]
      <4> DEFINE r == [run[i] EXCEPT !.pc = "inspect", !.document = row.id]
      <4>1. run' = [run EXCEPT ![i] = r] /\ r.pc = "inspect"
        BY <3>3, InWork DEF RunInv, Runs
      <4> HIDE DEF r
      <4> QED
        BY <3>1, <4>1, NotSent
    <3>4. CASE Proceed(i, "inspect")
      BY <1>2, <3>1, <3>4
    <3> QED
      BY <2>3, <3>2, <3>3, <3>4 DEF Lookup
  <2>4. CASE Inspect(i)
    <3>1. run[i].todo # <<>> /\ UNCHANGED sent
      BY <2>4, InWork DEF Inspect
    <3>2. CASE Report(i, "FAILED")
      BY <1>1, <3>1, <3>2 DEF Statuses
    <3>3. CASE Passed(run[i].buffer) /\ Proceed(i, "embed")
      <4>1. /\ \A j \in Indexers \ {i} : run'[j] = run[j]
            /\ run'[i].buffer = run[i].buffer
        BY <3>3 DEF Proceed, RunInv, Runs
      <4> QED
        BY <3>1, <3>3, <4>1 DEF SendInv
    <3> QED
      BY <2>4, <3>2, <3>3 DEF Inspect, Passed
  <2>5. CASE Embed(i)
    <3>1. run[i].pc = "embed" /\ run[i].todo # <<>> /\ run[i].buffer \in Contents
          /\ sent' = sent \cup {run[i].buffer}
      BY <2>5, InWork DEF Embed, Runs
    <3>2. sent' \subseteq {c \in Contents : Passed(c)}
      BY <3>1 DEF SendInv
    <3>3. \A j \in Indexers : run'[j].pc = "embed" => run'[j] = run[j]
      <4>1. CASE Proceed(i, "prepare")
        BY <4>1 DEF Proceed, RunInv, Runs
      <4>2. CASE Report(i, "FAILED")
        <5>1. PICK r \in Runs : run' = [run EXCEPT ![i] = r] /\ r.pc = "open"
          BY <3>1, <4>2, ReportStep DEF Statuses
        <5> QED
          BY <5>1 DEF RunInv
      <4> QED
        BY <2>5, <4>1, <4>2 DEF Embed
    <3> QED
      BY <3>2, <3>3 DEF SendInv
  <2>6. CASE Prepare(i)
    <3>1. run[i].todo # <<>> /\ UNCHANGED sent
      BY <2>6, InWork DEF Prepare
    <3>2. CASE Report(i, "FAILED")
      BY <1>1, <3>1, <3>2 DEF Statuses
    <3>3. ASSUME NEW id, NEW active, Store(i, id, active)
          PROVE  SendInv'
      <4> DEFINE r == [run[i] EXCEPT !.pc = "activate", !.document = id, !.expected = active,
                                     !.version = NextVersion(id, active)]
      <4>1. run' = [run EXCEPT ![i] = r] /\ r.pc = "activate"
        BY <3>3, InWork DEF Store, RunInv, Runs
      <4> HIDE DEF r
      <4> QED
        BY <3>1, <4>1, NotSent
    <3> QED
      BY <2>6, <3>2, <3>3 DEF Prepare
  <2>7. CASE Activate(i)
    <3> DEFINE force == [path |-> Head(run[i].todo), content |-> run[i].buffer,
                         model |-> Model[i]]
    <3>1. run[i].todo # <<>> /\ UNCHANGED sent
      BY <2>7, InWork DEF Activate
    <3>2. CASE Report(i, "FAILED")
      BY <1>1, <3>1, <3>2 DEF Statuses
    <3>3. ASSUME NEW status, Published(i, force, status)
          PROVE  SendInv'
      <4> HIDE DEF force
      <4>1. ASSUME NEW j \in Indexers
            PROVE  run'[j].pc = "embed" => run[j].pc = "embed" /\ run'[j].buffer = run[j].buffer
        <5>1. CASE j = i
          BY <3>3, <5>1, InWork DEF Published, Runs
        <5>2. CASE j # i
          BY <3>3, <5>2, InWork DEF Published, Runs
        <5> QED
          BY <5>1, <5>2
      <4> QED
        BY <3>1, <4>1 DEF SendInv
    <3> QED
      BY <2>7, <3>2, <3>3 DEF Activate, Conflict
  <2>8. CASE End(i) \/ Die(i)
    BY <2>8, RestingIsARun, NotSent DEF End, Die
  <2> QED
    BY <1>3, <2>1, <2>2, <2>3, <2>4, <2>5, <2>6, <2>7, <2>8 DEF Index
<1>4. CASE Seed \/ \E f \in Files : Edit(f)
  BY <1>4 DEF Seed, Edit, SendInv
<1>5. CASE UNCHANGED indexVars
  BY <1>5 DEF indexVars, SendInv
<1> QED
  BY <1>3, <1>4, <1>5, QuestionsOnlyRead DEF IndexStep, IndexNext

(* Whatever is cut and sent, an instruction no longer than the overlap and  *)
(* one character stays whole in a chunk, so the patterns find it first.     *)
THEOREM UnsafeStays == Spec => []NothingUnsafeIsSent
<1>1. KnowledgeInit => SendInv
  BY DEF KnowledgeInit, Init, SendInv, Resting
<1>2. SendInv => NothingUnsafeIsSent
  <2> SUFFICES ASSUME SendInv, NEW c \in sent, c.instruction # NoSpan,
                      ~(c.instruction.last - c.instruction.first > Overlap)
               PROVE  FALSE
    BY DEF NothingUnsafeIsSent
  <2>1. c \in Contents /\ Passed(c)
    BY DEF SendInv
  <2>2. c.pages \in Seq(Nat) /\ c.instruction \in Span /\ LiesIn(c.instruction, c.pages)
    BY <2>1, IndexAssumption DEF Content
  <2>3. c.instruction.last - c.instruction.first <= Overlap
    BY <2>2, ChunkingAssumption DEF Span
  <2>4. PICK x \in chunkPages(c.pages) : Holds(x, c.instruction)
    BY <2>2, <2>3, ShortSpansStayWhole
  <2> QED
    BY <2>1, <2>4 DEF Passed, Unsafe
<1> QED
  BY <1>1, <1>2, SendKeeps, IndexInvariant, PTL DEF Spec

-----------------------------------------------------------------------------
(* The steps of the index, seen on the shelf.                               *)
Lain == [f \in Files |-> OnShelf(f)]

LEMMA StayingStutters ==
  ASSUME SameShelf, UNCHANGED query
  PROVE  Lain' = Lain /\ Taken(query.evidence)' = Taken(query.evidence)
<1>1. \A f \in Files : OnShelf(f)' = OnShelf(f)
  BY ShelfStays
<1>2. Lain' = Lain
  BY <1>1 DEF Lain
<1> QED
  BY <1>2 DEF Taken

LEMMA IndexRefines ==
  ASSUME DataInv, RunInv, DataInv', IndexStep
  PROVE  \/ Shelf!Next
         \/ Lain' = Lain /\ Taken(query.evidence)' = Taken(query.evidence)
<1>1. UNCHANGED query
  BY DEF IndexStep, queryVars
<1>2. ASSUME NEW i \in Indexers,
             \/ Discover(i) \/ Open(i) \/ Lookup(i) \/ Inspect(i) \/ Embed(i) \/ End(i)
             \/ Die(i)
      PROVE  SameShelf
  BY <1>2 DEF Discover, Open, Lookup, Inspect, Embed, End, Die, SameShelf, ActiveChunks
<1>3. ASSUME NEW f \in Files, Edit(f) PROVE SameShelf
  BY <1>3 DEF Edit, SameShelf, ActiveChunks
<1>4. ASSUME NEW i \in Indexers, Activate(i)
      PROVE  SameShelf \/ Shelf!Next
  <2> DEFINE file == Head(run[i].todo)
  <2>1. run[i].pc = "activate" /\ file \in Files /\ UNCHANGED chunks
    BY <1>4, InWork DEF Activate
  <2>2. CASE UNCHANGED documents
    BY <2>1, <2>2 DEF SameShelf, ActiveChunks
  <2>3. CASE /\ Activates(run[i], documents[file])
             /\ documents' = [documents EXCEPT ![file] =
                  [documents[file] EXCEPT !.active = run[i].version, !.content = run[i].buffer]]
    <3>1. PICK f \in Files : f = file
      BY <2>1
    <3> HIDE DEF file
    <3>2. /\ Activates(run[i], documents[f])
          /\ documents' = [documents EXCEPT ![f] =
                [documents[f] EXCEPT !.active = run[i].version, !.content = run[i].buffer]]
      BY <2>3, <3>1
    <3>3. Shelf!Publish(f)
      BY <1>1, <2>1, <3>2, ActivationPublishes
    <3> QED
      BY <3>3 DEF Shelf!Next
  <2> QED
    BY <1>4, <2>2, <2>3 DEF Activate
<1>5. CASE Seed
  <2>1. \A f \in Files : documents'[f] = NoRow
    BY <1>5 DEF Seed
  <2>2. Lain' = [f \in Files |-> NoRow]
    BY <2>1 DEF Lain, OnShelf, HasActiveIndex
  <2> QED
    BY <1>1, <2>2 DEF Shelf!Next, Shelf!Clear, Lain, OnShelf
<1> QED
  BY <1>1, <1>2, <1>3, <1>4, <1>5, PrepareStepKeeps, StayingStutters
  DEF IndexStep, IndexNext, Index

LEMMA QuestionRefines ==
  ASSUME DataInv, Sound(query), QueryNext
  PROVE  \/ Shelf!Next
         \/ Lain' = Lain /\ Taken(query.evidence)' = Taken(query.evidence)
<1>1. UNCHANGED indexVars
  BY DEF QueryNext, Receive, QueryGuard, FindDocument, EmbedQuery, Retrieve,
         EvidenceGuard, Generate, OutputValidation, Trace, Reply
<1>2. Lain' = Lain
  BY <1>1 DEF indexVars, Lain, OnShelf, HasActiveIndex, ActiveChunks
<1>3. CASE query'.evidence = query.evidence
  BY <1>2, <1>3 DEF Taken
<1>4. CASE \/ query'.evidence = {}
           \/ Taken(query'.evidence) \subseteq {OnShelf(f) : f \in Files} \ {NoRow}
  <2>1. Taken(query'.evidence) \subseteq {OnShelf(f) : f \in Files} \ {NoRow}
    BY <1>4 DEF Taken
  <2>2. {OnShelf(f) : f \in Files} = {Lain[f] : f \in Files}
    BY DEF Lain
  <2>3. Shelf!Take
    BY <1>2, <2>1, <2>2 DEF Shelf!Take, Lain, OnShelf, Taken
  <2> QED
    BY <2>3 DEF Shelf!Next
<1> QED
  BY <1>3, <1>4, QuestionKeeps DEF TakesFromShelf

LEMMA ShelfStarts ==
  ASSUME KnowledgeInit, DataInv
  PROVE  Shelf!Init
<1>1. query.evidence = {}
  BY DEF KnowledgeInit, QueryInit, NoQuery
<1>2. ASSUME NEW f \in Files PROVE OnShelf(f) \in Shelf!Edition \cup {NoRow}
  <2>1. CASE HasActiveIndex(documents[f])
    BY <2>1, EditionsLie
  <2>2. CASE ~HasActiveIndex(documents[f])
    BY <2>2 DEF OnShelf
  <2> QED
    BY <2>1, <2>2
<1> QED
  BY <1>1, <1>2 DEF Shelf!Init, OnShelf

(* The index implements the shelf: whole editions, never an earlier one     *)
(* after a later one, and every search sees those of one moment.            *)
THEOREM ShelfRefinement == Spec => ImplementsShelf
<1>1. KnowledgeInit => Shelf!Init
  BY IndexStarts, ShelfStarts DEF KnowledgeInit
<1>2. DataInv /\ RunInv /\ Sound(query) /\ DataInv' /\ [KnowledgeNext]_vars
        => [Shelf!Next]_(Shelf!vars)
  <2> SUFFICES ASSUME DataInv, RunInv, Sound(query), DataInv', [KnowledgeNext]_vars
               PROVE  [Shelf!Next]_(Shelf!vars)
    OBVIOUS
  <2>1. CASE UNCHANGED vars
    BY <2>1 DEF vars, indexVars, queryVars, Shelf!vars, HasActiveIndex, ActiveChunks
  <2>2. CASE KnowledgeNext
    BY <2>2, IndexRefines, QuestionRefines DEF KnowledgeNext, Shelf!vars, Lain, OnShelf, Taken
  <2> QED
    BY <2>1, <2>2
<1> QED
  BY <1>1, <1>2, IndexInvariant, QuestionInvariant, PTL DEF Spec, ImplementsShelf, Shelf!Spec

-----------------------------------------------------------------------------
(* The variables have their types, and an active version its chunks.        *)
THEOREM TypeCorrect == Spec => []TypeOK
<1> DEFINE CountInv == runs \in Nat /\ events \in Nat /\ questions \in Nat
<1>1. KnowledgeInit => CountInv /\ SendInv
  BY DEF KnowledgeInit, Init, QueryInit, SendInv, Resting
<1>2. CountInv /\ [KnowledgeNext]_vars => CountInv'
  <2> SUFFICES ASSUME CountInv, [KnowledgeNext]_vars PROVE CountInv'
    OBVIOUS
  <2>1. ASSUME NEW i \in Indexers, Index(i) \/ Die(i)
        PROVE  runs' \in {runs, runs + 1} /\ events' \in {events, events + 1}
    BY <2>1 DEF Index, Discover, Open, Lookup, Inspect, Embed, Prepare, Activate, End, Die, Event
  <2>2. ASSUME Seed \/ \E f \in Files : Edit(f)
        PROVE  runs' = runs /\ events' = events + 1
    BY <2>2 DEF Seed, Edit, Event
  <2>3. CASE IndexStep
    BY <2>1, <2>2, <2>3 DEF IndexStep, IndexNext, queryVars
  <2>4. CASE QueryNext
    <3>1. questions' \in {questions, questions + 1} /\ UNCHANGED indexVars
      BY <2>4 DEF QueryNext, Receive, QueryGuard, FindDocument, EmbedQuery, Retrieve,
                  EvidenceGuard, Generate, OutputValidation, Trace, Reply
    <3> QED
      BY <3>1 DEF indexVars
  <2> QED
    BY <2>3, <2>4 DEF KnowledgeNext, vars, indexVars, queryVars
<1>3. DataInv /\ RunInv /\ Sound(query) /\ SendInv /\ CountInv => TypeOK
  BY DEF DataInv, RunInv, Sound, SendInv, TypeOK
<1> QED
  BY <1>1, <1>2, <1>3, SendKeeps, IndexInvariant, QuestionInvariant, PTL DEF Spec

-----------------------------------------------------------------------------
(* What a run has reported, and what it still has to do.                    *)
Named(results) == {r.path : r \in results}

Listed(todo) == {todo[k] : k \in 1 .. Len(todo)}

Truthful(i) ==
    \A r \in run[i].results : r.status \in {"SKIPPED", "INDEXED", "UPDATED"} =>
        [path |-> r.path, content |-> r.content, model |-> r.model] \in run[i].force

ReportInv ==
    \A i \in Indexers :
        /\ run[i].pc # "idle" =>
            /\ InForce \subseteq run[i].force
            /\ Named(run[i].results) \cup Listed(run[i].todo) = Files
        /\ Truthful(i)

LEMMA ListedIs ==
  ASSUME NEW S, NEW s \in Seq(S), s # <<>>
  PROVE  Listed(s) = {Head(s)} \cup Listed(Tail(s))
<1>1. /\ Tail(s) \in Seq(S) /\ Len(s) \in Nat /\ Len(s) >= 1 /\ Len(Tail(s)) = Len(s) - 1
      /\ Head(s) = s[1] /\ \A k \in 1 .. Len(s) - 1 : Tail(s)[k] = s[k + 1]
  BY HeadTailProperties
<1>2. ASSUME NEW k \in 1 .. Len(s) PROVE s[k] \in {Head(s)} \cup Listed(Tail(s))
  <2>1. CASE k = 1
    BY <1>1, <2>1
  <2>2. CASE k # 1
    <3>1. k - 1 \in 1 .. Len(s) - 1 /\ Tail(s)[k - 1] = s[k]
      BY <1>1, <2>2
    <3> QED
      BY <1>1, <3>1 DEF Listed
  <2> QED
    BY <2>1, <2>2
<1>3. Head(s) \in Listed(s)
  BY <1>1 DEF Listed
<1>4. ASSUME NEW k \in 1 .. Len(Tail(s)) PROVE Tail(s)[k] \in Listed(s)
  <2>1. k + 1 \in 1 .. Len(s) /\ Tail(s)[k] = s[k + 1]
    BY <1>1
  <2> QED
    BY <2>1 DEF Listed
<1> QED
  BY <1>2, <1>3, <1>4 DEF Listed

LEMMA NamedIs ==
  ASSUME NEW R, NEW r
  PROVE  Named(R \cup {r}) = Named(R) \cup {r.path}
  BY DEF Named

(* A step of one run that reports nothing and leaves what is in force.      *)
LEMMA ReportsStay ==
  ASSUME RunInv, ReportInv, NEW i \in Indexers, NEW r, run' = [run EXCEPT ![i] = r],
         run[i].pc # "idle", InForce' \subseteq InForce,
         r.force = run[i].force, r.results = run[i].results, r.todo = run[i].todo
  PROVE  ReportInv'
<1> SUFFICES ASSUME NEW j \in Indexers
             PROVE  /\ run'[j].pc # "idle" =>
                        /\ InForce' \subseteq run'[j].force
                        /\ Named(run'[j].results) \cup Listed(run'[j].todo) = Files
                    /\ Truthful(j)'
  BY DEF ReportInv
<1>1. CASE j = i
  BY <1>1 DEF RunInv, ReportInv, Truthful
<1>2. CASE j # i
  <2>1. run'[j] = run[j]
    BY <1>2 DEF RunInv
  <2> QED
    BY <2>1 DEF ReportInv, Truthful
<1> QED
  BY <1>1, <1>2

(* A run reports on the file at the head of its list.                       *)
LEMMA ReportKeeps ==
  ASSUME RunInv, ReportInv, NEW i \in Indexers, run[i].todo # <<>>, run[i].pc # "idle",
         NEW status \in Statuses, Report(i, status), InForce' \subseteq InForce,
         status # "FAILED" => [path |-> Head(run[i].todo), content |-> run[i].buffer,
                               model |-> Model[i]] \in run[i].force
  PROVE  ReportInv'
<1> DEFINE result == [path |-> Head(run[i].todo), status |-> status,
                      content |-> run[i].buffer, model |-> Model[i]]
<1>1. PICK r \in Runs :
        /\ run' = [run EXCEPT ![i] = r]
        /\ r.pc = "open" /\ r.todo = Tail(run[i].todo) /\ r.force = run[i].force
        /\ r.results = run[i].results \cup {result}
  BY ReportStep
<1>2. run[i].todo \in Seq(Files)
  BY DEF RunInv, Runs
<1>3. Listed(run[i].todo) = {Head(run[i].todo)} \cup Listed(r.todo)
  BY <1>1, <1>2, ListedIs
<1>4. Named(r.results) = Named(run[i].results) \cup {Head(run[i].todo)}
  <2>1. result.path = Head(run[i].todo)
    OBVIOUS
  <2> HIDE DEF result
  <2> QED
    BY <1>1, <2>1, NamedIs
<1>5. run'[i] = r /\ \A j \in Indexers \ {i} : run'[j] = run[j]
  BY <1>1 DEF RunInv
<1>6. InForce' \subseteq run'[i].force
  BY <1>1, <1>5 DEF ReportInv
<1>7. Named(run'[i].results) \cup Listed(run'[i].todo) = Files
  BY <1>3, <1>4, <1>5 DEF ReportInv
<1>8. Truthful(i)'
  <2>1. ASSUME NEW x \in r.results, x.status \in {"SKIPPED", "INDEXED", "UPDATED"}
        PROVE  [path |-> x.path, content |-> x.content, model |-> x.model] \in r.force
    <3>1. CASE x = result
      BY <1>1, <2>1, <3>1
    <3>2. CASE x \in run[i].results
      BY <1>1, <2>1, <3>2 DEF ReportInv, Truthful
    <3> QED
      BY <1>1, <3>1, <3>2
  <2> QED
    BY <1>5, <2>1 DEF Truthful
<1>9. ASSUME NEW j \in Indexers \ {i}
      PROVE  /\ run'[j].pc # "idle" =>
                 /\ InForce' \subseteq run'[j].force
                 /\ Named(run'[j].results) \cup Listed(run'[j].todo) = Files
             /\ Truthful(j)'
  BY <1>5 DEF ReportInv, Truthful
<1> QED
  BY <1>6, <1>7, <1>8, <1>9 DEF ReportInv

(* What comes in force is remembered by every run in work.                  *)
LEMMA PublishedKeeps ==
  ASSUME RunInv, ReportInv, NEW i \in Indexers, run[i].todo # <<>>, run[i].pc # "idle",
         NEW status \in Statuses,
         NEW force \in [path: Files, content: Contents, model: Models],
         force.path = Head(run[i].todo), Published(i, force, status),
         InForce' \subseteq InForce \cup {force}
  PROVE  ReportInv'
<1> DEFINE result == [path |-> force.path, status |-> status,
                      content |-> force.content, model |-> force.model]
<1>1. /\ run'[i].pc = "open" /\ run'[i].todo = Tail(run[i].todo)
      /\ run'[i].force = run[i].force \cup {force}
      /\ run'[i].results = run[i].results \cup {result}
      /\ \A j \in Indexers \ {i} :
           /\ run[j].pc = "idle" => run'[j] = run[j]
           /\ run[j].pc # "idle" => run'[j] = [run[j] EXCEPT !.force = @ \cup {force}]
  BY PublishedStep
<1>2. run[i].todo \in Seq(Files)
  BY DEF RunInv, Runs
<1>3. Listed(run[i].todo) = {Head(run[i].todo)} \cup Listed(run'[i].todo)
  BY <1>1, <1>2, ListedIs
<1>4. Named(run'[i].results) = Named(run[i].results) \cup {Head(run[i].todo)}
  <2>1. result.path = Head(run[i].todo)
    OBVIOUS
  <2> HIDE DEF result
  <2> QED
    BY <1>1, <2>1, NamedIs
<1>5. InForce' \subseteq run'[i].force
  BY <1>1 DEF ReportInv
<1>6. Named(run'[i].results) \cup Listed(run'[i].todo) = Files
  BY <1>3, <1>4 DEF ReportInv
<1>7. Truthful(i)'
  <2>1. ASSUME NEW x \in run'[i].results, x.status \in {"SKIPPED", "INDEXED", "UPDATED"}
        PROVE  [path |-> x.path, content |-> x.content, model |-> x.model] \in run'[i].force
    <3>1. CASE x = result
      <4>1. [path |-> x.path, content |-> x.content, model |-> x.model] = force
        BY <3>1
      <4> QED
        BY <1>1, <4>1
    <3>2. CASE x \in run[i].results
      BY <1>1, <2>1, <3>2 DEF ReportInv, Truthful
    <3> QED
      BY <1>1, <2>1, <3>1, <3>2
  <2> QED
    BY <2>1 DEF Truthful
<1>8. ASSUME NEW j \in Indexers \ {i}
      PROVE  /\ run'[j].pc # "idle" =>
                 /\ InForce' \subseteq run'[j].force
                 /\ Named(run'[j].results) \cup Listed(run'[j].todo) = Files
             /\ Truthful(j)'
  <2>1. CASE run[j].pc = "idle"
    <3>1. run'[j] = run[j]
      BY <1>1, <2>1
    <3> QED
      BY <2>1, <3>1 DEF ReportInv, Truthful
  <2>2. CASE run[j].pc # "idle"
    <3>1. run[j] \in Runs /\ run'[j] = [run[j] EXCEPT !.force = @ \cup {force}]
      BY <1>1, <2>2 DEF RunInv
    <3>2. /\ run'[j].force = run[j].force \cup {force}
          /\ run'[j].results = run[j].results /\ run'[j].todo = run[j].todo
      BY <3>1 DEF Runs
    <3> QED
      BY <2>2, <3>2 DEF ReportInv, Truthful
  <2> QED
    BY <2>1, <2>2
<1> QED
  BY <1>5, <1>6, <1>7, <1>8 DEF ReportInv

(* What is in force after a step.                                           *)
LEMMA ForceAfter ==
  ASSUME NEW x \in InForce'
  PROVE  \E f \in Files : documents'[f] # NoRow /\ \E c \in chunks' :
            /\ c.document = documents'[f].id /\ c.version = documents'[f].active
            /\ x = [path |-> f, content |-> c.content, model |-> c.model]
<1>1. PICK f \in Files : x \in {[path |-> f, content |-> c.content, model |-> c.model] :
        c \in IF documents'[f] = NoRow THEN {}
              ELSE {d \in chunks' : d.document = documents'[f].id
                                    /\ d.version = documents'[f].active}}
  BY DEF InForce, ActiveChunks
<1> QED
  BY <1>1

(* The two steps that change what is stored.                                *)
LEMMA ShelfBoundsForce ==
  ASSUME DataInv, DataInv', SameShelf
  PROVE  InForce' \subseteq InForce
<1> SUFFICES ASSUME NEW f \in Files, documents'[f] # NoRow, NEW c \in chunks',
                    c.document = documents'[f].id, c.version = documents'[f].active
             PROVE  [path |-> f, content |-> c.content, model |-> c.model] \in InForce
  BY ForceAfter
<1>1. c \in Chunks
  BY DEF DataInv
<1>2. documents'[f].active # 0
  BY <1>1 DEF Chunks
<1>3. documents'[f] = documents[f] /\ ActiveChunks(documents[f])' = ActiveChunks(documents[f])
  BY <1>2 DEF SameShelf
<1>4. c \in ActiveChunks(documents[f])'
  BY DEF ActiveChunks
<1>5. c \in ActiveChunks(documents[f]) /\ documents[f] # NoRow
  BY <1>3, <1>4
<1> QED
  BY <1>5 DEF InForce

LEMMA ActivationForces ==
  ASSUME DataInv, RunInv, NEW i \in Indexers, run[i].pc = "activate",
         NEW file \in Files, Activates(run[i], documents[file]),
         documents' = [documents EXCEPT ![file] =
            [documents[file] EXCEPT !.active = run[i].version, !.content = run[i].buffer]],
         UNCHANGED chunks
  PROVE  InForce' \subseteq InForce \cup
            {[path |-> file, content |-> run[i].buffer, model |-> Model[i]]}
<1> SUFFICES ASSUME NEW f \in Files, documents'[f] # NoRow, NEW c \in chunks',
                    c.document = documents'[f].id, c.version = documents'[f].active
             PROVE  [path |-> f, content |-> c.content, model |-> c.model] \in InForce \cup
                        {[path |-> file, content |-> run[i].buffer, model |-> Model[i]]}
  BY ForceAfter
<1>1. c \in chunks /\ c.document = documents'[f].id /\ c.version = documents'[f].active
  OBVIOUS
<1>2. CASE f = file
  <2>1. /\ documents[file] \in Row /\ documents[file].id = run[i].document
        /\ Made(i) \in chunks
    BY DEF DataInv, RunInv, Activates, IsRow
  <2>2. documents'[f].id = run[i].document /\ documents'[f].active = run[i].version
    BY <1>2, <2>1 DEF DataInv, Row
  <2>3. Made(i).document = c.document /\ Made(i).version = c.version
    BY <1>1, <2>2 DEF Made
  <2>4. c = Made(i)
    BY <1>1, <2>1, <2>3 DEF DataInv
  <2> QED
    BY <1>2, <2>4 DEF Made
<1>3. CASE f # file
  <2>1. documents'[f] = documents[f]
    BY <1>3 DEF DataInv
  <2>2. c \in ActiveChunks(documents[f]) /\ documents[f] # NoRow
    BY <1>1, <2>1 DEF ActiveChunks
  <2>3. [path |-> f, content |-> c.content, model |-> c.model] \in InForce
    BY <2>2 DEF InForce
  <2> QED
    BY <2>3
<1> QED
  BY <1>2, <1>3

(* A finding that nothing changed names what is in force.                   *)
LEMMA SkippedIsInForce ==
  ASSUME DataInv, NEW i \in Indexers, NEW file \in Files, HasActiveIndex(documents[file]),
         Unchanged(i, documents[file])
  PROVE  [path |-> file, content |-> run[i].buffer, model |-> Model[i]] \in InForce
<1>1. PICK c \in ActiveChunks(documents[file]) :
        c.content = run[i].buffer /\ c.model = Model[i]
  BY DEF DataInv, HasActiveIndex, Unchanged
<1> QED
  BY <1>1 DEF InForce, HasActiveIndex

LEMMA RunReports ==
  ASSUME DataInv, RunInv, DataInv', ReportInv, NEW i \in Indexers, Index(i) \/ Die(i)
  PROVE  ReportInv'
<1>1. CASE Discover(i) \/ End(i) \/ Die(i)
  <2> DEFINE r == [Resting EXCEPT !.pc = "open", !.todo = Paths,
                      !.size = [f \in Files |-> disk[f].bytes], !.force = InForce]
  <2>1. PICK x : /\ run' = [run EXCEPT ![i] = x]
                 /\ x.results = {}
                 /\ x.pc # "idle" => x.todo = Paths /\ x.force = InForce
    <3>1. r.results = {} /\ r.todo = Paths /\ r.force = InForce
      BY DEF Resting
    <3>2. Resting.results = {} /\ Resting.pc = "idle"
      BY DEF Resting
    <3>3. CASE Discover(i)
      <4>1. run' = [run EXCEPT ![i] = r]
        BY <3>3 DEF Discover
      <4> HIDE DEF r
      <4> QED
        BY <3>1, <4>1
    <3>4. CASE End(i) \/ Die(i)
      BY <3>2, <3>4 DEF End, Die
    <3> QED
      BY <1>1, <3>3, <3>4
  <2>2. Listed(Paths) = Files /\ Named({}) = {}
    BY IndexAssumption, LenProperties DEF Listed, Named, Files
  <2>3. UNCHANGED <<documents, chunks>>
    BY <1>1 DEF Discover, End, Die
  <2>4. InForce' = InForce
    BY <2>3 DEF InForce, ActiveChunks
  <2>5. run'[i] = x /\ \A j \in Indexers \ {i} : run'[j] = run[j]
    BY <2>1 DEF RunInv
  <2>6. /\ run'[i].pc # "idle" =>
            /\ InForce' \subseteq run'[i].force
            /\ Named(run'[i].results) \cup Listed(run'[i].todo) = Files
        /\ Truthful(i)'
    BY <2>1, <2>2, <2>4, <2>5 DEF Truthful
  <2>7. ASSUME NEW j \in Indexers \ {i}
        PROVE  /\ run'[j].pc # "idle" =>
                   /\ InForce' \subseteq run'[j].force
                   /\ Named(run'[j].results) \cup Listed(run'[j].todo) = Files
               /\ Truthful(j)'
    BY <2>4, <2>5 DEF ReportInv, Truthful
  <2> QED
    BY <2>6, <2>7 DEF ReportInv
<1>2. ASSUME run[i].todo # <<>>, run[i].pc # "idle", Report(i, "FAILED"),
             InForce' \subseteq InForce
      PROVE  ReportInv'
  BY <1>2, ReportKeeps DEF Statuses
<1>3. ASSUME NEW place, run[i].pc # "idle", Proceed(i, place), InForce' \subseteq InForce
      PROVE  ReportInv'
  <2> DEFINE r == [run[i] EXCEPT !.pc = place]
  <2>1. /\ run' = [run EXCEPT ![i] = r]
        /\ r.force = run[i].force /\ r.results = run[i].results /\ r.todo = run[i].todo
    BY <1>3, InWork DEF Proceed, Runs
  <2> HIDE DEF r
  <2> QED
    BY <1>3, <2>1, ReportsStay
<1>4. CASE Open(i)
  <2>1. run[i].todo # <<>> /\ run[i].pc # "idle" /\ UNCHANGED <<documents, chunks>>
    BY <1>4 DEF Open
  <2>2. InForce' = InForce
    BY <2>1 DEF InForce, ActiveChunks
  <2>3. CASE run' = [run EXCEPT ![i].pc = "lookup", ![i].buffer = disk[Head(run[i].todo)]]
    <3> DEFINE r == [run[i] EXCEPT !.pc = "lookup", !.buffer = disk[Head(run[i].todo)]]
    <3>1. /\ run' = [run EXCEPT ![i] = r]
          /\ r.force = run[i].force /\ r.results = run[i].results /\ r.todo = run[i].todo
      BY <2>3, InWork DEF RunInv, Runs
    <3> HIDE DEF r
    <3> QED
      BY <2>1, <2>2, <3>1, ReportsStay
  <2> QED
    BY <1>2, <1>4, <2>1, <2>2, <2>3 DEF Open
<1>5. CASE Lookup(i)
  <2> DEFINE row == documents[Head(run[i].todo)]
  <2>1. /\ run[i].todo # <<>> /\ run[i].pc # "idle" /\ Head(run[i].todo) \in Files
        /\ UNCHANGED <<documents, chunks>>
    BY <1>5, InWork DEF Lookup
  <2>2. InForce' = InForce
    BY <2>1 DEF InForce, ActiveChunks
  <2>3. CASE run' = [run EXCEPT ![i].pc = "inspect", ![i].document = row.id]
    <3> DEFINE r == [run[i] EXCEPT !.pc = "inspect", !.document = row.id]
    <3>1. /\ run' = [run EXCEPT ![i] = r]
          /\ r.force = run[i].force /\ r.results = run[i].results /\ r.todo = run[i].todo
      BY <2>3, InWork DEF RunInv, Runs
    <3> HIDE DEF r
    <3> QED
      BY <2>1, <2>2, <3>1, ReportsStay
  <2>4. CASE HasActiveIndex(row) /\ Unchanged(i, row) /\ Report(i, "SKIPPED")
    <3>1. [path |-> Head(run[i].todo), content |-> run[i].buffer, model |-> Model[i]]
            \in run[i].force
      BY <2>1, <2>4, SkippedIsInForce DEF ReportInv
    <3> QED
      BY <2>1, <2>2, <2>4, <3>1, ReportKeeps DEF Statuses
  <2> QED
    BY <1>2, <1>3, <1>5, <2>1, <2>2, <2>3, <2>4 DEF Lookup
<1>6. CASE Inspect(i) \/ Embed(i)
  <2>1. run[i].todo # <<>> /\ run[i].pc # "idle" /\ UNCHANGED <<documents, chunks>>
    BY <1>6, InWork DEF Inspect, Embed
  <2>2. InForce' = InForce
    BY <2>1 DEF InForce, ActiveChunks
  <2> QED
    BY <1>2, <1>3, <1>6, <2>1, <2>2 DEF Inspect, Embed
<1>7. CASE Prepare(i)
  <2>1. run[i].todo # <<>> /\ run[i].pc # "idle"
    BY <1>7, InWork DEF Prepare
  <2>2. InForce' \subseteq InForce
    BY <1>7, PrepareStepKeeps, ShelfBoundsForce
  <2>3. ASSUME NEW id, NEW active, Store(i, id, active)
        PROVE  ReportInv'
    <3> DEFINE r == [run[i] EXCEPT !.pc = "activate", !.document = id, !.expected = active,
                                   !.version = NextVersion(id, active)]
    <3>1. /\ run' = [run EXCEPT ![i] = r]
          /\ r.force = run[i].force /\ r.results = run[i].results /\ r.todo = run[i].todo
      BY <2>3, InWork DEF Store, RunInv, Runs
    <3> HIDE DEF r
    <3> QED
      BY <2>1, <2>2, <3>1, ReportsStay
  <2> QED
    BY <1>2, <1>7, <2>1, <2>2, <2>3 DEF Prepare
<1>8. CASE Activate(i)
  <2> DEFINE file == Head(run[i].todo)
             force == [path |-> file, content |-> run[i].buffer, model |-> Model[i]]
  <2>1. /\ run[i].todo # <<>> /\ run[i].pc = "activate" /\ file \in Files /\ UNCHANGED chunks
        /\ run[i] \in Runs /\ Model[i] \in Models
    BY <1>8, InWork DEF Activate
  <2>2. force \in [path: Files, content: Contents, model: Models]
    BY <2>1 DEF Runs
  <2>3. CASE UNCHANGED documents /\ Report(i, "FAILED")
    <3>1. InForce' = InForce
      BY <2>1, <2>3 DEF InForce, ActiveChunks
    <3> QED
      BY <1>2, <2>1, <2>3, <3>1
  <2>4. CASE /\ Activates(run[i], documents[file])
             /\ documents' = [documents EXCEPT ![file] =
                  [documents[file] EXCEPT !.active = run[i].version, !.content = run[i].buffer]]
             /\ \E status \in Statuses : Published(i, force, status)
    <3>1. PICK f \in Files : f = file
      BY <2>1
    <3>2. PICK status \in Statuses : Published(i, force, status)
      BY <2>4
    <3> HIDE DEF file
    <3>3. InForce' \subseteq InForce \cup {force}
      BY <2>1, <2>4, <3>1, ActivationForces
    <3>4. force.path = Head(run[i].todo)
      BY DEF file
    <3> HIDE DEF force
    <3> QED
      BY <2>1, <2>2, <3>2, <3>3, <3>4, PublishedKeeps
  <2> QED
    BY <1>8, <2>3, <2>4 DEF Activate, Conflict, Statuses
<1> QED
  BY <1>1, <1>4, <1>5, <1>6, <1>7, <1>8 DEF Index

LEMMA ReportsKeep ==
  ASSUME DataInv, RunInv, DataInv', ReportInv, [KnowledgeNext]_vars
  PROVE  ReportInv'
<1>1. CASE Seed
  <2>1. InForce' = {} /\ UNCHANGED run
    BY <1>1 DEF Seed, InForce
  <2> QED
    BY <2>1 DEF ReportInv, Truthful
<1>2. CASE UNCHANGED <<documents, chunks, run>>
  <2>1. InForce' = InForce
    BY <1>2 DEF InForce, ActiveChunks
  <2> QED
    BY <1>2, <2>1 DEF ReportInv, Truthful
<1>3. ASSUME NEW f \in Files, Edit(f) PROVE UNCHANGED <<documents, chunks, run>>
  BY <1>3 DEF Edit
<1>4. CASE UNCHANGED indexVars
  BY <1>2, <1>4 DEF indexVars
<1> QED
  BY <1>1, <1>2, <1>3, <1>4, RunReports, QuestionsOnlyRead DEF IndexStep, IndexNext

(* What a run of the command reports is true, and it leaves no file out.    *)
THEOREM ReportsAreTrue == Spec => []ResultsAreTrue
<1>1. KnowledgeInit => ReportInv
  BY DEF KnowledgeInit, Init, Resting, ReportInv, Truthful
<1>2. ReportInv => ResultsAreTrue
  <2> SUFFICES ASSUME ReportInv, NEW i \in Indexers
               PROVE  /\ Truthful(i)
                      /\ run[i].pc = "open" /\ run[i].todo = <<>> =>
                            Named(run[i].results) = Files
    BY DEF ResultsAreTrue, Truthful, Named
  <2>1. Listed(<<>>) = {}
    BY DEF Listed
  <2> QED
    BY <2>1 DEF ReportInv
<1> QED
  BY <1>1, <1>2, ReportsKeep, IndexInvariant, PTL DEF Spec

=============================================================================
