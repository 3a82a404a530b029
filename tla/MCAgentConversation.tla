------------------------ MODULE MCAgentConversation ------------------------
(* Ann and her manager Mia; Monday to Friday of one week are the days      *)
(* 0 to 4, the second year begins on day 7.                                *)
EXTENDS AgentConversation, TLC

CONSTANTS ann, mia

Texts ==
    [codes |-> {}, dates |-> <<>>, thresholds |-> {}, asksLeave |-> FALSE,
     asksNotice |-> FALSE, negatesNotice |-> FALSE, self |-> FALSE,
     bareCode |-> FALSE, safe |-> TRUE]

(* "Request annual leave from 4 to 7", and for a day of a weekend.         *)
FourToSeven == [Texts EXCEPT !.dates = <<4, 7>>, !.asksLeave = TRUE]
WeekendOfAnn == [Texts EXCEPT !.dates = <<5>>, !.codes = {ann}]
(* "Review onboarding and notify the manager", then "EMP-1".               *)
NotifySomebody == [Texts EXCEPT !.asksNotice = TRUE, !.thresholds = {1, 400}]
OnlyAnn == [Texts EXCEPT !.codes = {ann}, !.bareCode = TRUE]
(* "Do not notify the manager about my review", "Leave of EMP-9 on the 30th *)
(* of February", and an attack.                                            *)
MyReview == [Texts EXCEPT !.asksNotice = TRUE, !.negatesNotice = TRUE, !.self = TRUE]
Nobody == [Texts EXCEPT !.codes = {Unknown}, !.dates = <<BadDay>>]
Attack == [Texts EXCEPT !.safe = FALSE]

MCEmployees == {ann, mia}
MCQueries == {FourToSeven, WeekendOfAnn, NotifySomebody, OnlyAnn, MyReview, Nobody, Attack}

Person(role, active, manager) == [role |-> role, active |-> active, manager |-> manager]
Table(roleOfMia, annActive, balances, notice) ==
    [staff |-> (ann :> Person("EMPLOYEE", annActive, mia))
               @@ (mia :> Person(roleOfMia, TRUE, NoEmployee)),
     balance |-> [e \in MCEmployees |-> balances],
     policy |-> [notice |-> notice, maximum |-> 2]]
(* A request over four days passes by the first table on day 2, by neither *)
(* on day 3, but then still by the policy of the second one and the        *)
(* balance of the first.                                                   *)
MCTables ==
    {Table("MANAGER", TRUE, <<2, NoBalance>>, 1), Table("HR", FALSE, <<1, 2>>, 0)}
MCReviewEnd == (ann :> 4) @@ (mia :> NoDay)
MCDays == {4, 5, 7}
=============================================================================
