------------------------------ MODULE Chunking ------------------------------
(***************************************************************************)
(* How the text of a document is cut: chunkPages of the ingestion service. *)
(* Every page is cut by itself, into pieces of ChunkSize characters, each  *)
(* of which repeats the last Overlap characters of the one before.         *)
(*                                                                         *)
(* Only positions matter: a page is its length, a chunk or any other span  *)
(* of a page the interval of its characters.                               *)
(***************************************************************************)
EXTENDS Integers, Sequences

CONSTANTS ChunkSize, Overlap        \* 1600 and 200 characters

ASSUME ChunkingAssumption ==
    /\ ChunkSize \in Nat /\ Overlap \in Nat
    /\ Overlap < ChunkSize

Span == [page: Nat, first: Nat, last: Nat]

(* MUTANT of Step: the chunks of a page do not overlap.                    *)
Step_disjoint == ChunkSize

Step == ChunkSize - Overlap

(* The last character of the chunk that begins with character `first`.     *)
ChunkEnd(first, length) ==
    IF first + ChunkSize <= length THEN first + ChunkSize - 1 ELSE length - 1

chunkPage(p, length) ==
    {[page |-> p, first |-> k * Step, last |-> ChunkEnd(k * Step, length)] :
        k \in {n \in 0 .. length : n * Step < length}}

chunkPages(pages) == UNION {chunkPage(p, pages[p]) : p \in DOMAIN pages}

(* Something that stands in a text of these pages.                         *)
LiesIn(s, pages) ==
    s.page \in DOMAIN pages /\ s.first <= s.last /\ s.last < pages[s.page]

(* The span `s` lies in the span `c` as a whole.                           *)
Holds(c, s) == c.page = s.page /\ c.first <= s.first /\ s.last <= c.last
=============================================================================
