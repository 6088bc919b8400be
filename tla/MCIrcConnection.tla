-------------------------- MODULE MCIrcConnection --------------------------
(***************************************************************************)
(* One IRC connection on a small instance: one channel under all-notice,   *)
(* one under limited-notice, and one earthquake.                           *)
(***************************************************************************)
EXTENDS IrcConnection

CONSTANTS q1, all, limited

MCOneQuake == {q1}
MCAll      == {all}
MCLimited  == {limited}
=============================================================================
