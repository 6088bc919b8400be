----------------------------- MODULE MCWniLoop -----------------------------
(***************************************************************************)
(* WniLoop for TLC: two servers, and so three lists, and an override or    *)
(* none; two IRC connections.                                              *)
(***************************************************************************)
EXTENDS WniLoop

MCConns == {"irc1", "irc2"}
MCServers == {"s1", "s2"}
=============================================================================
