---------------------------- MODULE MCProcessor ----------------------------
(***************************************************************************)
(* Processor for TLC: two reports about one earthquake, the first of them  *)
(* in two versions, one report about another earthquake that came with the *)
(* sum of the first, and a body that cannot be decoded.                    *)
(***************************************************************************)
EXTENDS Processor

CONSTANTS q1, q2, all, limited

Report(e, n, s) == [eqID |-> e, num |-> n, news |-> FALSE, sum |-> s]

MCTelegram ==
    {Report(q1, 1, 1), Report(q1, 1, 2), Report(q1, 2, 3), Report(q2, 1, 1),
     Report(NoQuake, 0, 5)}

MCAll     == {all}
MCLimited == {limited}
=============================================================================
