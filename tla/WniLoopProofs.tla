--------------------------- MODULE WniLoopProofs ---------------------------
(***************************************************************************)
(* Theorems about the daemon and its connection loop, for every set of IRC *)
(* connections and of servers, and whether or not the list endpoint hangs. *)
(***************************************************************************)
EXTENDS WniLoop, TLAPS

\* Nothing runs before Start, and what has ended was told to.
ProcessInv ==
    /\ process = "starting" => ~canceled
    /\ process \in {"starting", "opening", "failed"} =>
          loop = "off" /\ \A c \in Conns : conns[c] = "off"
    /\ process \in {"running", "exited"} =>
          loop # "off" /\ \A c \in Conns : conns[c] # "off"
    /\ loop = "ended" => canceled
    /\ \A c \in Conns : conns[c] = "ended" => canceled

\* The process ends by itself only when it was told to, and after the loop
\* and every IRC connection, however their ends are ordered (app.go:89-94).
ExitsLast ==
    process = "exited" =>
        canceled /\ loop = "ended" /\ \A c \in Conns : conns[c] = "ended"

\* There is a failure to wait for, only the list endpoint can hang, and the
\* resolver's cache is the newest list, whatever failed since.
WaitInv ==
    /\ loop = "sleeping" => failures > 0
    /\ loop = "hanging" => override = ""
    /\ cached = newest

IInv ==
    /\ TypeOK
    /\ ProcessInv
    /\ ExitsLast
    /\ WaitInv
    /\ BackoffCountsFailures
    /\ DialsNewestList

USE DEF listVars

-----------------------------------------------------------------------------
(* The backoff.                                                            *)

\* The wait before the attempt after n failures, and NextBackoff's step to it.
LEMMA BackoffTable ==
    ASSUME NEW n \in 0 .. 7
    PROVE  /\ Backoffs[n + 1] \in InitialBackoff .. MaxBackoff
           /\ n > 0 => NextBackoff(Backoffs[n]) = Backoffs[n + 1]
<1>1. /\ Backoffs[1] = 1 /\ Backoffs[2] = 2 /\ Backoffs[3] = 4 /\ Backoffs[4] = 8
      /\ Backoffs[5] = 16 /\ Backoffs[6] = 32 /\ Backoffs[7] = 60 /\ Backoffs[8] = 60
  BY DEF Backoffs
<1>2. n \in {0, 1, 2, 3, 4, 5, 6, 7}
  OBVIOUS
<1> QED BY <1>1, <1>2 DEF NextBackoff, InitialBackoff, MaxBackoff

\* The counter stops at 7, where the wait has stopped growing.
LEMMA FailureCounted ==
    ASSUME NEW n \in 0 .. 7
    PROVE  LET next == IF n < 7 THEN n + 1 ELSE 7
           IN  next \in 1 .. 7 /\ Backoffs[next] = Backoffs[n + 1]
BY DEF Backoffs

\* BackoffCountsFailures where the loop sleeps and where it does not.
LEMMA BackoffCases ==
    BackoffCountsFailures <=>
        /\ loop = "sleeping" => backoff = Backoffs[failures]
        /\ loop \notin {"sleeping", "ended"} => backoff = Backoffs[failures + 1]
<1>1. CASE loop = "sleeping"
  BY <1>1 DEF BackoffCountsFailures
<1>2. CASE loop # "sleeping"
  BY <1>2 DEF BackoffCountsFailures
<1> QED BY <1>1, <1>2

LEMMA BackoffCasesNext ==
    BackoffCountsFailures' <=>
        /\ loop' = "sleeping" => backoff' = Backoffs[failures']
        /\ loop' \notin {"sleeping", "ended"} => backoff' = Backoffs[failures' + 1]
<1>1. CASE loop' = "sleeping"
  BY <1>1 DEF BackoffCountsFailures
<1>2. CASE loop' # "sleeping"
  BY <1>2 DEF BackoffCountsFailures
<1> QED BY <1>1, <1>2

-----------------------------------------------------------------------------
(* The steps that several actions share.                                   *)

\* A failed attempt keeps the invariant: what is waited is what one failure
\* more calls for.
LEMMA AttemptFailsKeeps ==
    ASSUME IInv, loop \in {"resolving", "hanging", "dialing"}, AttemptFails
    PROVE  IInv'
<1>1. failures' \in 1 .. 7 /\ Backoffs[failures'] = Backoffs[failures + 1]
  BY FailureCounted DEF IInv, TypeOK, AttemptFails
<1>2. TypeOK'
  <2>1. failures' \in 0 .. 7
    BY <1>1
  <2> QED BY <2>1 DEF IInv, TypeOK, AttemptFails, daemonVars
<1>3. ProcessInv' /\ ExitsLast'
  BY DEF IInv, ProcessInv, ExitsLast, AttemptFails, daemonVars
<1>4. WaitInv' /\ DialsNewestList'
  <2>1. loop' = "sleeping" /\ failures' > 0
    BY <1>1 DEF AttemptFails
  <2> QED BY <2>1 DEF IInv, WaitInv, DialsNewestList, AttemptFails
<1>5. BackoffCountsFailures'
  BY <1>1, BackoffCases, BackoffCasesNext DEF IInv, AttemptFails
<1> QED BY <1>2, <1>3, <1>4, <1>5 DEF IInv

\* So does the choice of a server, from the override or the newest list.
LEMMA ChooseKeeps ==
    ASSUME IInv, NEW servers \in SUBSET Servers, loop \in {"resolving", "hanging"},
           Choose(servers), cached' \in SUBSET Servers, cached' = newest',
           IF override # "" THEN servers = {override} ELSE servers = cached'
    PROVE  IInv'
<1>1. TypeOK'
  BY DEF IInv, TypeOK, Choose, daemonVars
<1>2. ProcessInv' /\ ExitsLast'
  BY DEF IInv, ProcessInv, ExitsLast, Choose, daemonVars
<1>3. WaitInv' /\ DialsNewestList'
  <2>1. loop' = "dialing" /\ override' = override /\ addr' \in servers
    BY DEF Choose
  <2>2. IF override' # "" THEN addr' = override' ELSE addr' \in cached'
    BY <2>1
  <2> QED BY <2>1, <2>2 DEF WaitInv, DialsNewestList
<1>4. BackoffCountsFailures'
  BY BackoffCases, BackoffCasesNext DEF IInv, Choose
<1> QED BY <1>1, <1>2, <1>3, <1>4 DEF IInv

\* So does a list that could not be fetched.
LEMMA FallBackKeeps ==
    ASSUME IInv, loop \in {"resolving", "hanging"}, override = "", FallBack
    PROVE  IInv'
<1>1. CASE cached = {}
  BY <1>1, AttemptFailsKeeps DEF FallBack
<1>2. CASE cached # {}
  <2>1. Choose(cached) /\ cached' = cached /\ newest' = newest
    BY <1>2 DEF FallBack
  <2> QED BY <2>1, ChooseKeeps DEF IInv, TypeOK, WaitInv
<1> QED BY <1>1, <1>2

-----------------------------------------------------------------------------
(* The invariant is inductive.                                             *)

LEMMA InitHolds == Init => IInv
<1> SUFFICES ASSUME Init PROVE IInv
  OBVIOUS
<1>1. backoff = 1 /\ failures = 0 /\ loop = "off"
  BY DEF Init, InitialBackoff
<1>2. Backoffs[1] = 1
  BY DEF Backoffs
<1>3. TypeOK
  <2>1. backoff \in InitialBackoff .. MaxBackoff /\ failures \in 0 .. 7
    BY <1>1 DEF InitialBackoff, MaxBackoff
  <2>2. conns \in [Conns -> {"off", "running", "ended"}] /\ canceled \in BOOLEAN
    BY DEF Init
  <2> QED BY <2>1, <2>2 DEF Init, TypeOK
<1>4. ProcessInv /\ ExitsLast /\ WaitInv /\ DialsNewestList
  BY DEF Init, ProcessInv, ExitsLast, WaitInv, DialsNewestList
<1>5. BackoffCountsFailures
  BY <1>1, <1>2, BackoffCases
<1> QED BY <1>3, <1>4, <1>5 DEF IInv

\* The daemon's steps leave the loop alone, or start it.
LEMMA DaemonKeeps ==
    ASSUME IInv,
           \/ DaemonStep \/ ConfigRefused \/ OpenFails \/ Cancel
           \/ \E c \in Conns : ConnEnds(c)
    PROVE  IInv'
<1> USE DEF daemonVars, loopVars
<1>1. CASE Start
  <2>1. TypeOK'
    BY <1>1 DEF IInv, TypeOK, Start
  <2>2. ProcessInv' /\ ExitsLast'
    BY <1>1 DEF IInv, ProcessInv, ExitsLast, Start
  <2>3. WaitInv' /\ BackoffCountsFailures' /\ DialsNewestList'
    BY <1>1 DEF IInv, ProcessInv, WaitInv, BackoffCountsFailures, DialsNewestList, Start
  <2> QED BY <2>1, <2>2, <2>3 DEF IInv
<1>2. CASE ~Start
  <2>1. UNCHANGED loopVars
    BY <1>2 DEF DaemonStep, Configured, Exit, ConfigRefused, OpenFails, Cancel, ConnEnds
  <2>2. conns' \in [Conns -> {"off", "running", "ended"}]
    BY <1>2 DEF IInv, TypeOK, DaemonStep, Configured, Exit, ConfigRefused, OpenFails,
                Cancel, ConnEnds
  <2>3. TypeOK'
    BY <1>2, <2>1, <2>2 DEF IInv, TypeOK, DaemonStep, Configured, Exit, ConfigRefused,
                            OpenFails, Cancel, ConnEnds
  <2>4. WaitInv' /\ BackoffCountsFailures' /\ DialsNewestList'
    BY <2>1 DEF IInv, WaitInv, BackoffCountsFailures, DialsNewestList
  <2>5. ProcessInv' /\ ExitsLast'
    <3>1. CASE Configured \/ ConfigRefused \/ OpenFails
      BY <3>1 DEF IInv, ProcessInv, ExitsLast, Configured, ConfigRefused, OpenFails
    <3>2. CASE Exit
      BY <3>2 DEF IInv, ProcessInv, ExitsLast, Exit
    <3>3. CASE Cancel
      BY <3>3 DEF IInv, ProcessInv, ExitsLast, Cancel
    <3>4. CASE \E c \in Conns : ConnEnds(c)
      <4>1. PICK c \in Conns : ConnEnds(c)
        BY <3>4
      <4>2. \A d \in Conns : conns'[d] = IF d = c THEN "ended" ELSE conns[d]
        BY <4>1 DEF IInv, TypeOK, ConnEnds
      <4>3. process = "running" /\ canceled /\ UNCHANGED <<process, loop, canceled>>
        BY <4>1 DEF ConnEnds
      <4> QED BY <4>2, <4>3 DEF IInv, ProcessInv, ExitsLast
    <3> QED BY <1>2, <3>1, <3>2, <3>3, <3>4 DEF DaemonStep
  <2> QED BY <2>3, <2>4, <2>5 DEF IInv
<1> QED BY <1>1, <1>2

\* The loop's steps leave the daemon alone.
LEMMA LoopKeeps ==
    ASSUME IInv, LoopStep \/ RunReturns
    PROVE  IInv'
<1> USE DEF daemonVars
<1>1. CASE CheckContext \/ FetchHangs \/ RunReturns \/ SleepCanceled
  <2>1. TypeOK'
    BY <1>1 DEF IInv, TypeOK, CheckContext, FetchHangs, RunReturns, SleepCanceled
  <2>2. ProcessInv' /\ ExitsLast'
    BY <1>1 DEF IInv, ProcessInv, ExitsLast, CheckContext, FetchHangs, RunReturns,
                SleepCanceled
  <2>3. WaitInv' /\ BackoffCountsFailures' /\ DialsNewestList'
    BY <1>1 DEF IInv, WaitInv, BackoffCountsFailures, DialsNewestList, CheckContext,
                FetchHangs, RunReturns, SleepCanceled
  <2> QED BY <2>1, <2>2, <2>3 DEF IInv
<1>2. CASE UseOverride
  <2>1. override \in Servers
    BY <1>2 DEF IInv, TypeOK, UseOverride
  <2> QED BY <1>2, <2>1, ChooseKeeps DEF IInv, TypeOK, WaitInv, UseOverride, Choose
<1>3. CASE FetchSucceeds
  <2>1. PICK servers \in Lists :
           Remember(servers) /\ newest' = servers /\ Choose(servers)
    BY <1>3 DEF FetchSucceeds
  <2> QED BY <1>3, <2>1, ChooseKeeps DEF FetchSucceeds, Remember, Lists
<1>4. CASE FetchFails \/ HangCanceled
  <2>1. loop = "hanging" => override = ""
    BY DEF IInv, WaitInv
  <2> QED BY <1>4, <2>1, FallBackKeeps DEF FetchFails, HangCanceled
<1>5. CASE ConnectFails
  BY <1>5, AttemptFailsKeeps DEF ConnectFails
<1>6. CASE ConnectSucceeds
  <2>1. Backoffs[1] = 1
    BY DEF Backoffs
  <2>2. TypeOK'
    <3>1. backoff' \in InitialBackoff .. MaxBackoff /\ failures' \in 0 .. 7
      BY <1>6 DEF ConnectSucceeds, AfterLogin, InitialBackoff, MaxBackoff
    <3> QED BY <1>6, <3>1 DEF IInv, TypeOK, ConnectSucceeds
  <2>3. ProcessInv' /\ ExitsLast'
    BY <1>6 DEF IInv, ProcessInv, ExitsLast, ConnectSucceeds
  <2>4. WaitInv' /\ DialsNewestList'
    BY <1>6 DEF IInv, WaitInv, DialsNewestList, ConnectSucceeds
  <2>5. BackoffCountsFailures'
    BY <1>6, <2>1, BackoffCasesNext DEF ConnectSucceeds, AfterLogin, InitialBackoff
  <2> QED BY <2>2, <2>3, <2>4, <2>5 DEF IInv
<1>7. CASE Slept
  <2>1. /\ backoff = Backoffs[failures] /\ failures \in 1 .. 7
    <3>1. backoff = Backoffs[failures]
      BY <1>7, BackoffCases DEF IInv, Slept
    <3>2. failures \in 0 .. 7 /\ failures > 0
      BY <1>7 DEF IInv, TypeOK, WaitInv, Slept
    <3> QED BY <3>1, <3>2
  <2>2. /\ backoff' = Backoffs[failures + 1]
        /\ backoff' \in InitialBackoff .. MaxBackoff
    BY <1>7, <2>1, BackoffTable DEF Slept
  <2>3. TypeOK'
    BY <1>7, <2>2 DEF IInv, TypeOK, Slept
  <2>4. ProcessInv' /\ ExitsLast'
    BY <1>7 DEF IInv, ProcessInv, ExitsLast, Slept
  <2>5. WaitInv' /\ BackoffCountsFailures' /\ DialsNewestList'
    BY <1>7, <2>2 DEF IInv, WaitInv, BackoffCountsFailures, DialsNewestList, Slept
  <2> QED BY <2>3, <2>4, <2>5 DEF IInv
<1> QED BY <1>1, <1>2, <1>3, <1>4, <1>5, <1>6, <1>7 DEF LoopStep

LEMMA StepKeeps == IInv /\ [Next]_vars => IInv'
<1> SUFFICES ASSUME IInv, [Next]_vars PROVE IInv'
  OBVIOUS
<1>1. CASE UNCHANGED vars
  BY <1>1 DEF IInv, TypeOK, ProcessInv, ExitsLast, WaitInv, BackoffCountsFailures,
              DialsNewestList, vars, daemonVars, loopVars
<1> QED BY <1>1, DaemonKeeps, LoopKeeps DEF Next, Terminated

LEMMA Invariance == Spec => []IInv
BY InitHolds, StepKeeps, PTL DEF Spec

-----------------------------------------------------------------------------
(* What the daemon and its loop promise                                    *)

\* Every variable keeps its type, and the backoff its bounds.
THEOREM TypeCorrect == Spec => []TypeOK
<1>1. IInv => TypeOK
  BY DEF IInv
<1> QED BY <1>1, Invariance, PTL

\* The wait is 1, 2, 4, ... 60 seconds after as many failures since the last
\* login, whatever failed: the list, Dial or Login (app.go:163-173).
THEOREM BackoffIsExponential == Spec => []BackoffCountsFailures
<1>1. IInv => BackoffCountsFailures
  BY DEF IInv
<1> QED BY <1>1, Invariance, PTL

\* Each attempt goes to the override, or to a server of the newest list that
\* could be fetched (app.go:226-249).
THEOREM NewestListIsDialed == Spec => []DialsNewestList
<1>1. IInv => DialsNewestList
  BY DEF IInv
<1> QED BY <1>1, Invariance, PTL

\* Run returns after the loop and every IRC connection, and only when it was
\* told to: no connection is cut off before its QUIT (app.go:89-94).
THEOREM DaemonExitsLast == Spec => []ExitsLast
<1>1. IInv => ExitsLast
  BY DEF IInv
<1> QED BY <1>1, Invariance, PTL

=============================================================================
