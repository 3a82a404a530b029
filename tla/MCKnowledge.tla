---------------------------- MODULE MCKnowledge ----------------------------
(* Chunks of three characters that share one, and one file that holds the  *)
(* policy, an edition of it, a text with an instruction, or too much.      *)
EXTENDS KnowledgeQuery, TLC

CONSTANTS i1, i2, m1, m2

At(first, last) == [page |-> 1, first |-> first, last |-> last]

Policy == [bytes |-> 1, pages |-> <<3>>, instruction |-> NoSpan, link |-> At(0, 1)]
Edition == [bytes |-> 1, pages |-> <<2>>, instruction |-> NoSpan, link |-> NoSpan]
Instructing == [bytes |-> 1, pages |-> <<4>>, instruction |-> At(2, 3), link |-> NoSpan]
Huge == [bytes |-> 2, pages |-> <<9>>, instruction |-> NoSpan, link |-> NoSpan]

MCPaths == <<"policy.pdf">>
MCContents == {Policy, Edition, Instructing, Huge}
MCIndexers == {i1, i2}
MCModel == (i1 :> m1) @@ (i2 :> m1)
Symmetry == Permutations(MCIndexers)

Plain == [valid |-> TRUE, safe |-> TRUE, known |-> TRUE, document |-> 0]
MCQuestions ==
    {Plain, [Plain EXCEPT !.document = 1], [Plain EXCEPT !.safe = FALSE],
     [Plain EXCEPT !.valid = FALSE], [Plain EXCEPT !.known = FALSE]}
=============================================================================
