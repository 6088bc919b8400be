----------------------------- MODULE MCIrcQueue -----------------------------
(***************************************************************************)
(* The send queue on a small instance: one earthquake more than it has     *)
(* slots, so that eviction happens, and three slots, so that a notice can  *)
(* leave from the front, the middle and the end.  A new report differs     *)
(* from an old one in its priority, so one text is enough.                 *)
(***************************************************************************)
EXTENDS IrcQueue

CONSTANTS q1, q2, q3, q4, b1

MCEqID == {q1, q2, q3, q4}
MCBody == {b1}
=============================================================================
