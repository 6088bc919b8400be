---------------------------- MODULE MCSlackSend ----------------------------
(***************************************************************************)
(* SlackSend for TLC.  A unit stands for a third of the client's timeout,  *)
(* so that timeout, longest wait and deadline are as in the code, 1:1:3.   *)
(***************************************************************************)
EXTENDS SlackSend

Of(f, n) == [form |-> f, n |-> n]

\* No header, a negative number, a short wait, a date that has passed, one
\* ahead, and a wait longer than MaxWait
MCHeader ==
    {NoHeader, Of("seconds", -1), Of("seconds", 1), Of("date", -2),
     Of("date", 2), Of("seconds", 7)}
=============================================================================
