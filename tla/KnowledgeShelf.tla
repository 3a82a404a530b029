--------------------------- MODULE KnowledgeShelf ---------------------------
(***************************************************************************)
(* What the knowledge index promises: on a shelf, per source path, lies    *)
(* nothing or one whole edition of one document; an edition is replaced    *)
(* only by a later one of its document; and a reader takes his evidence    *)
(* from what lies on the shelf at one moment.                              *)
(***************************************************************************)
EXTENDS Integers

CONSTANTS Paths, Texts, Nothing

VARIABLES
    shelf,      \* the edition in force of every path
    evidence    \* what the reader has taken: editions

vars == <<shelf, evidence>>

Edition == [document: Nat, version: Nat \ {0}, text: Texts]

Init ==
    /\ shelf \in [Paths -> Edition \cup {Nothing}]
    /\ evidence = {}

Later(new, old) ==
    old # Nothing =>
        /\ new.document = old.document
        /\ new.version > old.version

Publish(path) ==
    /\ shelf'[path] \in Edition
    /\ Later(shelf'[path], shelf[path])
    /\ shelf' = [shelf EXCEPT ![path] = shelf'[path]]
    /\ UNCHANGED evidence

(* The database is seeded anew.                                            *)
Clear ==
    /\ shelf' = [path \in Paths |-> Nothing]
    /\ UNCHANGED evidence

Take ==
    /\ evidence' \subseteq {shelf[path] : path \in Paths} \ {Nothing}
    /\ UNCHANGED shelf

Next == (\E path \in Paths : Publish(path)) \/ Clear \/ Take

Spec == Init /\ [][Next]_vars
=============================================================================
