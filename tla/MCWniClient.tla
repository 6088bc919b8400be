---------------------------- MODULE MCWniClient ----------------------------
(***************************************************************************)
(* WniClient for TLC: telegrams that are empty, that look like a ping      *)
(* between two newlines, and that are one byte.                            *)
(***************************************************************************)
EXTENDS WniClient

MCBodies == {<<>>, <<NL, Ping, NL>>, <<Cell("byte", 0)>>}
=============================================================================
