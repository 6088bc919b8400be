--------------------------- MODULE IrcDispatcher ---------------------------
(***************************************************************************)
(* internal/irc/dispatcher.go: which channels of one IRC connection hear   *)
(* of a telegram, and with which queue priority.  The only state, the      *)
(* earthquake the limited channels last heard of, belongs to the caller.   *)
(*                                                                         *)
(* Channel lists are sets: dedup keeps one copy of each name, and the      *)
(* order in which channels are served makes no difference here.            *)
(***************************************************************************)
EXTENDS Integers

CONSTANTS
    EqID,       \* earthquakes
    All,        \* the channels under all-notice
    Limited,    \* the channels under limited-notice
    MaxReport   \* bound on the reports about one earthquake

Channel == All \cup Limited

\* What the daemon asks of a decoder.Telegram.  num tells the reports about
\* one earthquake apart, in the order they arrive.
Telegram ==
    [eqID : EqID, num : 1 .. MaxReport, final : BOOLEAN, cancellation : BOOLEAN]

JoinChannels == All \cup Limited

LimitedFires(t, lastEqID) ==
    \/ t.eqID # lastEqID
    \/ t.cancellation
    \/ t.final

ChannelsFor(t, lastEqID) ==
    IF LimitedFires(t, lastEqID) THEN All \cup Limited ELSE All

\* d.lastEqID after ChannelsFor.
LastEqIDAfter(t, lastEqID) ==
    IF LimitedFires(t, lastEqID) THEN t.eqID ELSE lastEqID

\* PriorityNormal = 0, PriorityFinal = 1, PriorityCancellation = 2.
PriorityFor(t) ==
    CASE t.cancellation                -> 2
      [] t.final /\ ~t.cancellation    -> 1
      [] ~t.final /\ ~t.cancellation   -> 0
=============================================================================
