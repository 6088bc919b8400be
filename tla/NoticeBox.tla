----------------------------- MODULE NoticeBox -----------------------------
(***************************************************************************)
(* What the send queue of an IRC connection promises to the two goroutines *)
(* that share it, without saying how: a box that holds at most Capacity    *)
(* unsent notices, one per earthquake.                                     *)
(*                                                                         *)
(*  - A later notice about an earthquake replaces the unsent earlier one.  *)
(*  - A notice is lost only when one about another earthquake needs its    *)
(*    place in a full box, only one at a time, and only if nothing of a    *)
(*    lower priority is in the box.                                        *)
(*  - What is taken out is what was last put in, and is taken once.        *)
(*  - After Shut nothing goes in; what is inside can still be taken, and   *)
(*    only then is the taker told that there is nothing more.              *)
(*                                                                         *)
(* IrcQueue, the translation of internal/irc/queue.go, implements this.    *)
(***************************************************************************)
EXTENDS Integers, FiniteSets

CONSTANTS
    EqID,       \* earthquakes
    Notice,     \* records with fields eqID and priority, and a body
    Capacity,   \* how many notices the box holds
    NoNotice    \* not a notice

VARIABLES
    pending,    \* the unsent notice about each earthquake, or NoNotice
    closed,     \* whether the box is shut
    taken       \* what the last take returned, NoNotice for "no more"

boxVars == <<pending, closed, taken>>

Held == {e \in EqID : pending[e] # NoNotice}

\* Nothing in the box has a lower priority than the notice about e.
Expendable(e) ==
    \A f \in Held : pending[e].priority <= pending[f].priority

BoxInit ==
    /\ pending = [e \in EqID |-> NoNotice]
    /\ closed = FALSE
    /\ taken = NoNotice

\* The box has room for n, or already holds a notice about n's earthquake.
Put(n) ==
    /\ ~closed
    /\ n.eqID \in Held \/ Cardinality(Held) < Capacity
    /\ pending' = [pending EXCEPT ![n.eqID] = n]
    /\ UNCHANGED <<closed, taken>>

\* The box is full: some notice gives way to n.
Displace(n) ==
    /\ ~closed
    /\ n.eqID \notin Held
    /\ Cardinality(Held) = Capacity
    /\ \E e \in Held :
          /\ Expendable(e)
          /\ pending' = [pending EXCEPT ![e] = NoNotice, ![n.eqID] = n]
    /\ UNCHANGED <<closed, taken>>

TakeOut(e) ==
    /\ e \in Held
    /\ taken' = pending[e]
    /\ pending' = [pending EXCEPT ![e] = NoNotice]
    /\ UNCHANGED closed

NoMore ==
    /\ closed
    /\ Held = {}
    /\ taken' = NoNotice
    /\ UNCHANGED <<pending, closed>>

Shut ==
    /\ closed' = TRUE
    /\ UNCHANGED <<pending, taken>>

BoxNext ==
    \/ \E n \in Notice : Put(n) \/ Displace(n)
    \/ \E e \in EqID : TakeOut(e)
    \/ NoMore
    \/ Shut

BoxSpec == BoxInit /\ [][BoxNext]_boxVars
=============================================================================
