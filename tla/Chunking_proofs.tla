--------------------------- MODULE Chunking_proofs ---------------------------
(* Proofs about the cutting of pages, for every chunk size and overlap.      *)
EXTENDS Chunking, TLAPS

(* Every chunk advances by at least one character. *)
LEMMA StepIsPositive == Step \in Nat /\ Step >= 1 /\ Step + Overlap = ChunkSize
  BY ChunkingAssumption DEF Step

(* Every character lies in the advance of one chunk. *)
LEMMA AdvanceOf ==
  ASSUME NEW a \in Nat
  PROVE  \E k \in 0 .. a : k * Step <= a /\ a < k * Step + Step
<1> DEFINE k == a \div Step
<1>1. k \in Nat /\ k * Step <= a /\ a < k * Step + Step
  BY StepIsPositive, SMTT(30)
<1>2. k <= k * Step
  BY <1>1, StepIsPositive, SMTT(30)
<1> HIDE DEF k
<1> QED
  BY <1>1, <1>2, StepIsPositive

(* A span of a page that is no longer than the overlap of two chunks, plus
   one character, lies as a whole in one of the chunks chunkPages makes of
   the document: cutting a page hides nothing that short. *)
THEOREM ShortSpansStayWhole ==
  ASSUME NEW pages \in Seq(Nat), NEW s \in Span, LiesIn(s, pages),
         s.last - s.first <= Overlap
  PROVE  \E c \in chunkPages(pages) : Holds(c, s)
<1> DEFINE length == pages[s.page]
<1>1. /\ s.first \in Nat /\ s.last \in Nat /\ s.first < length /\ length \in Nat
      /\ ChunkSize \in Nat /\ Overlap \in Nat
  BY ChunkingAssumption DEF Span, LiesIn
<1>2. PICK k \in 0 .. s.first : k * Step <= s.first /\ s.first < k * Step + Step
  BY <1>1, AdvanceOf
<1> DEFINE from == k * Step
           c    == [page |-> s.page, first |-> from, last |-> ChunkEnd(from, length)]
<1>3. from \in Nat /\ from < length /\ k \in 0 .. length
  BY <1>1, <1>2, StepIsPositive, SMTT(30)
<1>4. c \in chunkPages(pages)
  <2>1. c \in chunkPage(s.page, length)
    BY <1>3 DEF chunkPage
  <2> QED
    BY <2>1 DEF chunkPages, LiesIn
<1>5. from <= s.first /\ s.first < from + Step
  BY <1>2
<1> HIDE DEF from
<1>6. s.last <= ChunkEnd(from, length)
  BY <1>1, <1>3, <1>5, StepIsPositive DEF ChunkEnd, LiesIn
<1> QED
  BY <1>4, <1>5, <1>6 DEF Holds

(* Every chunk is a span of its page, not longer than ChunkSize. *)
THEOREM ChunksAreBounded ==
  ASSUME NEW pages \in Seq(Nat), NEW c \in chunkPages(pages)
  PROVE  c \in Span /\ LiesIn(c, pages) /\ c.last - c.first < ChunkSize
<1>1. PICK p \in DOMAIN pages : c \in chunkPage(p, pages[p])
  BY DEF chunkPages
<1>2. PICK k \in 0 .. pages[p] :
        /\ k * Step < pages[p]
        /\ c = [page |-> p, first |-> k * Step, last |-> ChunkEnd(k * Step, pages[p])]
  BY <1>1 DEF chunkPage
<1>3. k * Step \in Nat
  BY <1>2, StepIsPositive, SMTT(30)
<1> DEFINE from == k * Step
<1> HIDE DEF from
<1>4. from \in Nat /\ from < pages[p] /\ c = [page |-> p, first |-> from, last |-> ChunkEnd(from, pages[p])]
  BY <1>2, <1>3 DEF from
<1> QED
  BY <1>1, <1>4, ChunkingAssumption DEF ChunkEnd, Span, LiesIn
=============================================================================
