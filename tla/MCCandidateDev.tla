--------------------------- MODULE MCCandidateDev ---------------------------
(***************************************************************************)
(* An instance of CandidateDev for TLC: two components that are both       *)
(* replaced, in one repository or in two, or two in one repository of      *)
(* which one is replaced and the other kept.                               *)
(***************************************************************************)
EXTENDS CandidateDev

CONSTANTS c1, c2

Together == [c \in {c1, c2} |-> 1]
Apart == [c \in {c1, c2} |-> IF c = c2 THEN 2 ELSE 1]

TwoFiles ==
    {[selected |-> {c1, c2}, groups |-> Apart],
     [selected |-> {c1, c2}, groups |-> Together],
     [selected |-> {c1}, groups |-> Together]}
=============================================================================
