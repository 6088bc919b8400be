----------------------------- MODULE MCIrcDocs -----------------------------
(***************************************************************************)
(* What the repository's comments and documents say of an IRC connection   *)
(* and the code does not do.  Each property here is violated; the README   *)
(* of this directory tells the stories behind the counterexamples.         *)
(***************************************************************************)
EXTENDS MCIrcConnection

VARIABLE queuedDown  \* the notices queued since the connection was last ready

\* What the step does to queuedDown: a notice that enters the queue while the
\* connection is not ready joins it, and readiness forgets them all.
Watch ==
    queuedDown' =
        IF ready' \in opened' THEN {}
        ELSE {e \in EqID : Q!Exists(e)' /\ (e \in queuedDown \/ ~Q!Exists(e))}

WatchedSpec ==
    /\ Init /\ queuedDown = {}
    /\ [][Next /\ Watch]_<<vars, queuedDown>>

\* connection.go:213-215: "It waits for readiness before dequeuing (not after),
\* so a Notice stays eligible for coalescing (see Queue) for as long as
\* possible while disconnected."  A notice that is queued during an outage is
\* not taken out of the queue before the outage is over.
NotDequeuedWhileDown ==
    [][\A e \in queuedDown :
          writer = "dequeuing" /\ writer' # "dequeuing" => Q!Exists(e)'
      ]_<<vars, queuedDown>>

\* README.ja.md:11, config.yaml-dist:24: limited-notice channels get the first
\* and the final reports.  What they are about to be told is not replaced by
\* something they will not be told.
LimitedNotForgotten ==
    [][\A e \in EqID :
          Q!Exists(e) /\ Q!Exists(e)' =>
              entries[e].body.channels \subseteq entries'[e].body.channels]_vars
=============================================================================
