------------------------ MODULE IrcConnectionProofs ------------------------
(***************************************************************************)
(* Theorems about one IRC connection, for every set of earthquakes and     *)
(* channels, every queue capacity, every pair of backoffs and every bound  *)
(* on sessions and failures.                                               *)
(*                                                                         *)
(* First the connection's steps are shown to be steps of its send queue,   *)
(* so that what IrcQueueProofs proves of the queue holds inside the        *)
(* connection.  Then one invariant, SessionInv, says what Run, goirc's     *)
(* handlers, the ready channel and the reconnect token know of each other  *)
(* in every state; the properties that the runs check follow from it.      *)
(***************************************************************************)
EXTENDS IrcConnection, TLAPS

QP == INSTANCE IrcQueueProofs

-----------------------------------------------------------------------------
(* The queue inside the connection.                                        *)

LEMMA QueueAssumptions == QP!CapacityAssumption /\ QP!NoNoticeAssumption
BY QueueAssumption
   DEF QP!CapacityAssumption, QP!NoNoticeAssumption, Q!Notice, QP!Notice,
       Q!Priority, QP!Priority, Q!Normal, QP!Normal, Q!Final, QP!Final,
       Q!Cancellation, QP!Cancellation

\* The notice Notify makes of a telegram is one the queue takes
\* (connection.go:205-223).
LEMMA NoticeForTyped ==
    ASSUME NEW t \in Telegram
    PROVE  NoticeFor(t) \in QP!Notice
<1>1. t.eqID \in EqID /\ t.num \in 1 .. MaxReport
  BY DEF Telegram
<1>2. ChannelsFor(t, lastEqID) \in SUBSET Channel
  BY DEF ChannelsFor, Channel
<1>3. PriorityFor(t) \in {0, 1, 2}
  BY DEF PriorityFor, Telegram
<1> QED
  BY <1>1, <1>2, <1>3
     DEF NoticeFor, QP!Notice, Body, QP!Priority, QP!Normal, QP!Final, QP!Cancellation

LEMMA EnqueueIsQueueStep ==
    ASSUME NEW n \in QP!Notice, Q!Enqueue(n)
    PROVE  QP!QueueNext
<1>1. QP!Enqueue(n)
  BY DEF Q!Enqueue, QP!Enqueue, Q!Ignore, QP!Ignore, Q!Coalesce, QP!Coalesce,
         Q!AppendNew, QP!AppendNew, Q!EvictAndAppend, QP!EvictAndAppend,
         Q!queueVars, QP!queueVars, Q!Exists, QP!Exists, Q!Wake, QP!Wake,
         Q!AtCapacity, QP!AtCapacity, Q!IsVictim, QP!IsVictim,
         Q!PriorityAt, QP!PriorityAt, Q!RemoveAt, QP!RemoveAt
<1> QED BY <1>1 DEF QP!QueueNext

LEMMA DequeueIsQueueStep ==
    /\ Q!Park => QP!QueueNext
    /\ Q!Take => QP!Take /\ QP!QueueNext
    /\ Q!GiveUp => QP!QueueNext
    /\ Q!Close => QP!QueueNext
BY DEF QP!QueueNext, QP!Dequeue, Q!Park, QP!Park, Q!Take, QP!Take,
       Q!GiveUp, QP!GiveUp, Q!Close, QP!Close, Q!Wake, QP!Wake

LEMMA StepIsQueueStep == [Next]_vars => [QP!QueueNext]_QP!queueVars
<1> SUFFICES ASSUME [Next]_vars
             PROVE  QP!QueueNext \/ UNCHANGED queueVars
  BY DEF queueVars, QP!queueVars
<1>1. ASSUME NEW t \in Telegram, Receive(t)
      PROVE  QP!QueueNext \/ UNCHANGED queueVars
  BY <1>1, NoticeForTyped, EnqueueIsQueueStep DEF Receive, Notify
<1>2. ASSUME RunStep
      PROVE  QP!QueueNext \/ UNCHANGED queueVars
  BY <1>2, DequeueIsQueueStep
     DEF RunStep, Loop, ConnectSucceeds, ConnectCanceled, ConnectFails, RetrySlept,
         SessionEnds, ShortSlept, SleepCanceled, CheckConnected, CloseLink, CloseQueue
<1>3. ASSUME WriterStep
      PROVE  QP!QueueNext \/ UNCHANGED queueVars
  BY <1>3, DequeueIsQueueStep
     DEF WriterStep, ReadReady, PassGate, WaitCanceled, WriterParks, TakeNotice,
         WriterEnds, ServeChannel
<1>4. ASSUME JoinAll \/ OpenReady \/ HandleDisconnected
             \/ Welcome \/ Drop \/ Settle \/ Cancel \/ Terminated
      PROVE  UNCHANGED queueVars
  BY <1>4
     DEF JoinAll, OpenReady, HandleDisconnected, Welcome, Drop, Settle, Cancel,
         Terminated, vars
<1>5. ASSUME UNCHANGED vars
      PROVE  UNCHANGED queueVars
  BY <1>5 DEF vars
<1> QED BY <1>1, <1>2, <1>3, <1>4, <1>5 DEF Next

LEMMA ConnectionRunsQueue == Spec => QP!QueueSpec
<1>1. Init => QP!QueueInit
  BY DEF Init, Q!QueueInit, QP!QueueInit
<1> QED BY <1>1, StepIsQueueStep, PTL DEF Spec, QP!QueueSpec

LEMMA QueueInvariance == Spec => []QP!IInv
<1> QED BY ConnectionRunsQueue, QueueAssumptions, QP!Invariance, PTL

-----------------------------------------------------------------------------
(* Types.                                                                  *)

LEMMA BackoffTyped ==
    ASSUME backoff \in InitialBackoff .. MaxBackoff
    PROVE  /\ NextBackoff \in InitialBackoff .. MaxBackoff
           /\ backoff <= NextBackoff
           /\ InitialBackoff \in InitialBackoff .. MaxBackoff
BY BackoffAssumption DEF NextBackoff

\* The ready channels are numbered by the sessions: there is one for every
\* session that is over, and one more that the next or the present one uses.
ReadyCounted ==
    /\ ready \in Nat
    /\ sessions \in Nat
    /\ IF link # "down" \/ onDisconnected = "pending"
          THEN ready + 1 = sessions ELSE ready = sessions
    /\ opened \subseteq 0 .. ready

\* Where Run is before and after a session, unless it is about to return.
BetweenSessions == {"top", "connecting", "retrySleep", "shortSleep"}

\* What Run, the handlers, the link, the ready channel and the token know of
\* each other.  A session is in one of four stages, each with the facts that
\* hold in it: it is up, it is registered, it is over and its DISCONNECTED
\* handler is running, or it is over and Run has, or has had, the token.
SessionInv ==
    /\ link = "up" =>
          onConnected = "idle" /\ onDisconnected = "idle" /\ ~reconnect /\ ready \notin opened
    /\ link = "registered" =>
          /\ onDisconnected = "idle"
          /\ ~reconnect
          /\ onConnected = "idle" <=> ready \in opened
          /\ onConnected # "joining" => joined
    /\ link = "down" /\ onDisconnected = "pending" =>
          ~reconnect /\ (onConnected # "idle" => ready \notin opened)
    /\ link = "down" /\ onDisconnected = "signalling" =>
          ~reconnect /\ onConnected = "idle" /\ ready \notin opened
    /\ link = "down" /\ onDisconnected = "idle" =>
          onConnected = "idle" /\ ready \notin opened
    /\ run \in BetweenSessions =>
          link = "down" /\ onDisconnected = "idle" /\ ~reconnect

IInv == ConnectionTypeOK /\ ReadyCounted /\ SessionInv

-----------------------------------------------------------------------------
(* Preservation of the types, one step per action.                         *)

LEMMA InitTyped == Init => ConnectionTypeOK
<1> SUFFICES ASSUME Init PROVE ConnectionTypeOK
  OBVIOUS
<1>1. canceled \in BOOLEAN /\ joined \in BOOLEAN /\ settled \in BOOLEAN /\ reconnect \in BOOLEAN
  BY DEF Init
<1>2. /\ sessions \in 0 .. MaxSessions
      /\ failures \in 0 .. MaxFailures
      /\ ready \in 0 .. sessions
      /\ gate \in 0 .. ready
      /\ backoff \in InitialBackoff .. MaxBackoff
      /\ reports \in [EqID -> 0 .. MaxReport]
  BY BackoffAssumption, EnvironmentAssumption DEF Init
<1> QED BY <1>1, <1>2 DEF Init, ConnectionTypeOK

LEMMA ReceiveTyped ==
    ASSUME ConnectionTypeOK, NEW t \in Telegram, Receive(t)
    PROVE  ConnectionTypeOK'
<1>1. t.eqID \in EqID /\ t.num \in 1 .. MaxReport
  BY DEF Telegram
<1>2. lastEqID' \in EqID \cup {NoQuake}
  BY <1>1 DEF Receive, Notify, LastEqIDAfter, ConnectionTypeOK
<1>3. reports' \in [EqID -> 0 .. MaxReport]
  BY <1>1 DEF Receive, ConnectionTypeOK
<1> QED
  BY <1>2, <1>3
     DEF Receive, ConnectionTypeOK, linkVars, handlerVars, runVars, writerVars

LEMMA RunTyped ==
    ASSUME ConnectionTypeOK, ReadyCounted, RunStep
    PROVE  ConnectionTypeOK'
<1> USE DEF ConnectionTypeOK, linkVars, handlerVars, runVars, writerVars, feedVars
<1>1. ASSUME Loop PROVE ConnectionTypeOK'
  BY <1>1 DEF Loop
<1>2. ASSUME ConnectSucceeds PROVE ConnectionTypeOK'
  <2>1. sessions' \in 0 .. MaxSessions /\ ready' \in 0 .. sessions'
    BY <1>2, EnvironmentAssumption DEF ConnectSucceeds
  <2>2. joined' \in BOOLEAN /\ settled' \in BOOLEAN
    BY <1>2 DEF ConnectSucceeds
  <2> QED BY <1>2, <2>1, <2>2 DEF ConnectSucceeds
<1>3. ASSUME ConnectCanceled PROVE ConnectionTypeOK'
  BY <1>3 DEF ConnectCanceled
<1>4. ASSUME ConnectFails PROVE ConnectionTypeOK'
  <2>1. failures' \in 0 .. MaxFailures
    BY <1>4, EnvironmentAssumption DEF ConnectFails
  <2> QED BY <1>4, <2>1 DEF ConnectFails
<1>5. ASSUME RetrySlept PROVE ConnectionTypeOK'
  BY <1>5, BackoffTyped DEF RetrySlept
<1>6. ASSUME SessionEnds PROVE ConnectionTypeOK'
  <2>1. /\ run' \in {"quitting", "top", "shortSleep"}
        /\ backoff' \in InitialBackoff .. MaxBackoff
    BY <1>6, BackoffTyped DEF SessionEnds
  <2>2. reconnect' \in BOOLEAN
    BY <1>6 DEF SessionEnds, TakeToken
  <2> QED BY <1>6, <2>1, <2>2 DEF SessionEnds
<1>7. ASSUME ShortSlept PROVE ConnectionTypeOK'
  BY <1>7 DEF ShortSlept
<1>8. ASSUME SleepCanceled PROVE ConnectionTypeOK'
  BY <1>8 DEF SleepCanceled
<1>9. ASSUME CheckConnected PROVE ConnectionTypeOK'
  BY <1>9 DEF CheckConnected
<1>10. ASSUME CloseLink PROVE ConnectionTypeOK'
  BY <1>10 DEF CloseLink, LinkGoesDown
<1>11. ASSUME CloseQueue PROVE ConnectionTypeOK'
  BY <1>11 DEF CloseQueue
<1> QED
  BY <1>1, <1>2, <1>3, <1>4, <1>5, <1>6, <1>7, <1>8, <1>9, <1>10, <1>11 DEF RunStep

LEMMA HandlersTyped ==
    ASSUME ConnectionTypeOK, ReadyCounted,
           JoinAll \/ OpenReady \/ HandleDisconnected
    PROVE  ConnectionTypeOK'
<1> USE DEF ConnectionTypeOK, linkVars, handlerVars, runVars, writerVars, feedVars
<1>1. ASSUME JoinAll PROVE ConnectionTypeOK'
  BY <1>1 DEF JoinAll
<1>2. ASSUME OpenReady PROVE ConnectionTypeOK'
  <2>1. opened' \subseteq 0 .. ready'
    BY <1>2 DEF OpenReady
  <2> QED BY <1>2, <2>1 DEF OpenReady
<1>3. ASSUME HandleDisconnected PROVE ConnectionTypeOK'
  <2>1. /\ ready' \in 0 .. sessions
        /\ opened \subseteq 0 .. ready'
        /\ gate \in 0 .. ready'
    BY <1>3 DEF HandleDisconnected, FreshReady, ReadyCounted
  <2>2. reconnect' \in BOOLEAN /\ onDisconnected' \in {"signalling", "idle"}
    BY <1>3 DEF HandleDisconnected, Signal
  <2> QED BY <1>3, <2>1, <2>2 DEF HandleDisconnected
<1> QED BY <1>1, <1>2, <1>3

LEMMA WriterTyped ==
    ASSUME ConnectionTypeOK, QP!IInv, WriterStep
    PROVE  ConnectionTypeOK'
<1> USE DEF ConnectionTypeOK, linkVars, handlerVars, runVars, writerVars, feedVars
<1>1. ASSUME ReadReady PROVE ConnectionTypeOK'
  BY <1>1 DEF ReadReady
<1>2. ASSUME PassGate PROVE ConnectionTypeOK'
  BY <1>2 DEF PassGate
<1>3. ASSUME WaitCanceled PROVE ConnectionTypeOK'
  BY <1>3 DEF WaitCanceled
<1>4. ASSUME WriterParks PROVE ConnectionTypeOK'
  BY <1>4 DEF WriterParks
<1>5. ASSUME TakeNotice PROVE ConnectionTypeOK'
  <2>1. taken' \in QP!Notice
    BY <1>5, DequeueIsQueueStep, QueueAssumptions, QP!TakenIsNotice DEF TakeNotice
  <2>2. taken'.body.channels \subseteq Channel
    BY <2>1 DEF QP!Notice, Body
  <2> QED BY <1>5, <2>2 DEF TakeNotice
<1>6. ASSUME WriterEnds PROVE ConnectionTypeOK'
  BY <1>6 DEF WriterEnds
<1>7. ASSUME ServeChannel PROVE ConnectionTypeOK'
  BY <1>7 DEF ServeChannel
<1> QED
  BY <1>1, <1>2, <1>3, <1>4, <1>5, <1>6, <1>7 DEF WriterStep

LEMMA NextTyped ==
    ASSUME ConnectionTypeOK, ReadyCounted, QP!IInv, [Next]_vars
    PROVE  ConnectionTypeOK'
<1> USE DEF ConnectionTypeOK, linkVars, handlerVars, runVars, writerVars, feedVars
<1>1. ASSUME Welcome PROVE ConnectionTypeOK'
  BY <1>1 DEF Welcome
<1>2. ASSUME Drop PROVE ConnectionTypeOK'
  BY <1>2 DEF Drop, LinkGoesDown
<1>3. ASSUME Settle PROVE ConnectionTypeOK'
  BY <1>3 DEF Settle
<1>4. ASSUME Cancel PROVE ConnectionTypeOK'
  BY <1>4 DEF Cancel
<1>5. ASSUME UNCHANGED vars PROVE ConnectionTypeOK'
  BY <1>5 DEF vars
<1> QED
  BY <1>1, <1>2, <1>3, <1>4, <1>5, ReceiveTyped, RunTyped, HandlersTyped, WriterTyped
     DEF Next, Terminated

-----------------------------------------------------------------------------
(* Preservation of what a session's actors know of each other.             *)

sessionVars ==
    <<link, joined, sessions, onConnected, onDisconnected, ready, opened, reconnect>>

\* A step of Run alone, or of nobody in the session.
LEMMA OnlyRunMoves ==
    ASSUME ReadyCounted, SessionInv, UNCHANGED sessionVars,
           run' \in BetweenSessions => run \in BetweenSessions
    PROVE  ReadyCounted' /\ SessionInv'
BY DEF sessionVars, ReadyCounted, SessionInv

\* Run leaves its wait for good, or with the token, which only the end of the
\* DISCONNECTED handler puts there: then nothing is left of the session.
LEMMA SessionEndsKeeps ==
    ASSUME IInv, SessionEnds
    PROVE  ReadyCounted' /\ SessionInv'
<1> USE DEF IInv, ConnectionTypeOK, ReadyCounted, SessionInv,
            BetweenSessions, linkVars, handlerVars
<1>1. ReadyCounted'
  BY DEF SessionEnds
<1>2. CASE canceled
  BY <1>1, <1>2 DEF SessionEnds, TakeToken
<1>3. CASE ~canceled
  <2>1. link = "down" /\ onDisconnected = "idle"
    BY <1>3 DEF SessionEnds, TakeToken
  <2> QED BY <1>1, <1>3, <2>1 DEF SessionEnds, TakeToken
<1> QED BY <1>2, <1>3

LEMMA RunKeeps ==
    ASSUME IInv, RunStep
    PROVE  ReadyCounted' /\ SessionInv'
<1> USE DEF IInv, BetweenSessions
<1>1. ASSUME Loop \/ ConnectCanceled \/ ConnectFails \/ RetrySlept \/ ShortSlept
             \/ SleepCanceled \/ CheckConnected \/ CloseQueue
      PROVE  ReadyCounted' /\ SessionInv'
  <2>1. UNCHANGED sessionVars
    BY <1>1
       DEF Loop, ConnectCanceled, ConnectFails, RetrySlept, ShortSlept, SleepCanceled,
           CheckConnected, CloseQueue, sessionVars, linkVars, handlerVars
  <2>2. run' \in BetweenSessions => run \in BetweenSessions
    BY <1>1
       DEF Loop, ConnectCanceled, ConnectFails, RetrySlept, ShortSlept, SleepCanceled,
           CheckConnected, CloseQueue
  <2> QED BY <2>1, <2>2, OnlyRunMoves
<1>2. ASSUME ConnectSucceeds PROVE ReadyCounted' /\ SessionInv'
  BY <1>2
     DEF ConnectSucceeds, ConnectionTypeOK, ReadyCounted, SessionInv, handlerVars
<1>3. ASSUME CloseLink PROVE ReadyCounted' /\ SessionInv'
  BY <1>3
     DEF CloseLink, LinkGoesDown, ConnectionTypeOK, ReadyCounted, SessionInv
<1> QED
  BY <1>1, <1>2, <1>3, SessionEndsKeeps DEF RunStep

LEMMA HandlersKeep ==
    ASSUME IInv, JoinAll \/ OpenReady \/ HandleDisconnected
    PROVE  ReadyCounted' /\ SessionInv'
<1> USE DEF IInv, ConnectionTypeOK, ReadyCounted, SessionInv,
            BetweenSessions, linkVars, runVars
<1>1. ASSUME JoinAll PROVE ReadyCounted' /\ SessionInv'
  BY <1>1 DEF JoinAll
<1>2. ASSUME OpenReady PROVE ReadyCounted' /\ SessionInv'
  <2>1. opened' \subseteq 0 .. ready' /\ ready' \in opened'
    BY <1>2 DEF OpenReady
  <2> QED BY <1>2, <2>1 DEF OpenReady
<1>3. ASSUME HandleDisconnected, onDisconnected = "pending"
      PROVE  ReadyCounted' /\ SessionInv'
  <2>1. /\ ready' = ready + 1
        /\ onDisconnected' = "signalling"
        /\ link = "down" /\ onConnected = "idle" /\ ~reconnect
        /\ UNCHANGED <<link, joined, sessions, onConnected, opened, reconnect, run>>
    BY <1>3 DEF HandleDisconnected, FreshReady
  <2>2. ready' \notin opened' /\ opened' \subseteq 0 .. ready'
    BY <2>1
  <2>3. ReadyCounted'
    BY <1>3, <2>1, <2>2
  <2>4. SessionInv'
    BY <1>3, <2>1, <2>2
  <2> QED BY <2>3, <2>4
<1>4. ASSUME HandleDisconnected, onDisconnected = "signalling"
      PROVE  ReadyCounted' /\ SessionInv'
  <2>1. /\ onDisconnected' = "idle"
        /\ link = "down" /\ onConnected = "idle" /\ ready \notin opened
        /\ run \notin BetweenSessions
        /\ UNCHANGED <<link, joined, sessions, onConnected, ready, opened, run>>
    BY <1>4 DEF HandleDisconnected
  <2>2. ReadyCounted'
    BY <1>4, <2>1
  <2>3. SessionInv'
    BY <2>1
  <2> QED BY <2>2, <2>3
<1> QED BY <1>1, <1>2, <1>3, <1>4 DEF HandleDisconnected

LEMMA WorldKeeps ==
    ASSUME IInv, Welcome \/ Drop
    PROVE  ReadyCounted' /\ SessionInv'
<1> USE DEF IInv, ConnectionTypeOK, ReadyCounted, SessionInv, BetweenSessions, runVars
<1>1. ASSUME Welcome PROVE ReadyCounted' /\ SessionInv'
  BY <1>1 DEF Welcome
<1>2. ASSUME Drop PROVE ReadyCounted' /\ SessionInv'
  BY <1>2 DEF Drop, LinkGoesDown
<1> QED BY <1>1, <1>2

LEMMA NextInv == IInv /\ QP!IInv /\ [Next]_vars => IInv'
<1> SUFFICES ASSUME IInv, QP!IInv, [Next]_vars PROVE IInv'
  OBVIOUS
<1>1. ConnectionTypeOK'
  BY NextTyped DEF IInv
<1>2. ASSUME \/ \E t \in Telegram : Receive(t)
             \/ WriterStep \/ Settle \/ Cancel \/ Terminated
             \/ UNCHANGED vars
      PROVE  UNCHANGED sessionVars /\ UNCHANGED run
  <2> USE DEF sessionVars, linkVars, handlerVars, runVars
  <2>1. ASSUME NEW t \in Telegram, Receive(t) PROVE UNCHANGED sessionVars /\ UNCHANGED run
    BY <2>1 DEF Receive
  <2>2. ASSUME WriterStep PROVE UNCHANGED sessionVars /\ UNCHANGED run
    BY <2>2
       DEF WriterStep, ReadReady, PassGate, WaitCanceled, WriterParks, TakeNotice,
           WriterEnds, ServeChannel
  <2>3. ASSUME Settle \/ Cancel PROVE UNCHANGED sessionVars /\ UNCHANGED run
    BY <2>3 DEF Settle, Cancel
  <2>4. ASSUME Terminated \/ UNCHANGED vars PROVE UNCHANGED sessionVars /\ UNCHANGED run
    BY <2>4 DEF Terminated, vars
  <2> QED BY <1>2, <2>1, <2>2, <2>3, <2>4
<1>3. ReadyCounted' /\ SessionInv'
  BY <1>2, OnlyRunMoves, RunKeeps, HandlersKeep, WorldKeeps DEF IInv, Next
<1> QED BY <1>1, <1>3 DEF IInv

LEMMA InitInv == Init => IInv
<1> SUFFICES ASSUME Init PROVE ReadyCounted /\ SessionInv
  BY InitTyped DEF IInv
<1> QED BY DEF Init, ReadyCounted, SessionInv

LEMMA Invariance == Spec => []IInv
<1> QED BY InitInv, NextInv, QueueInvariance, PTL DEF Spec

-----------------------------------------------------------------------------
(* The theorems.                                                           *)

\* Inside a connection the queue is used as its specification allows: Notify,
\* writeLoop and Run only ever call Enqueue, Dequeue and Close, with notices
\* (connection.go:165, 205-240), so that whatever is proved of the queue holds
\* of c.queue, too.
THEOREM ConnectionImplementsQueue == Spec => Q!QueueSpec
<1>1. Init => Q!QueueInit
  BY DEF Init
<1>2. QP!QueueNext => Q!QueueNext
  BY DEF Q!QueueNext, QP!QueueNext, Q!Notice, QP!Notice, Q!Priority, QP!Priority,
         Q!Normal, QP!Normal, Q!Final, QP!Final, Q!Cancellation, QP!Cancellation,
         Q!Dequeue, QP!Dequeue, Q!Park, QP!Park, Q!Take, QP!Take, Q!GiveUp, QP!GiveUp,
         Q!Close, QP!Close, Q!Enqueue, QP!Enqueue, Q!Ignore, QP!Ignore,
         Q!Coalesce, QP!Coalesce, Q!AppendNew, QP!AppendNew,
         Q!EvictAndAppend, QP!EvictAndAppend, Q!queueVars, QP!queueVars,
         Q!Exists, QP!Exists, Q!Wake, QP!Wake, Q!AtCapacity, QP!AtCapacity,
         Q!IsVictim, QP!IsVictim, Q!PriorityAt, QP!PriorityAt,
         Q!RemoveAt, QP!RemoveAt
<1>3. [Next]_vars => [Q!QueueNext]_Q!queueVars
  BY <1>2, StepIsQueueStep DEF Q!queueVars, QP!queueVars
<1> QED BY <1>1, <1>3, PTL DEF Spec, Q!QueueSpec

\* Whatever sessions, failures and telegrams a connection goes through, its queue
\* keeps what queue.go promises: slice and map agree, writeLoop does not sleep over
\* a notice or a Close, no notice overtakes another, and none leaves out of turn
\* but the oldest of the least important ones (queue.go:34-41, 64-133).
THEOREM ConnectionKeepsQueue ==
    Spec => [](Q!OrderMatchesEntries /\ Q!NoLostWakeup) /\ Q!SlotsKept
<1>1. QP!IInv => Q!OrderMatchesEntries /\ Q!NoLostWakeup
  BY DEF QP!IInv, Q!OrderMatchesEntries, QP!OrderMatchesEntries, Q!NoLostWakeup,
         QP!NoLostWakeup, Q!Exists, QP!Exists, Q!IsInjective, QP!IsInjective,
         Q!Contains, QP!Contains
<1>2. QP!IInv /\ [Next]_vars => [Q!KeepsSlots /\ Q!LeavesInTurn]_Q!queueVars
  <2>1. QP!IInv /\ [QP!QueueNext]_QP!queueVars
           => [QP!KeepsSlots]_QP!queueVars /\ [QP!LeavesInTurn]_QP!queueVars
    BY QueueAssumptions, QP!NextKeepsSlots, QP!NextInTurn
  <2>2. /\ QP!KeepsSlots => Q!KeepsSlots
        /\ QP!LeavesInTurn => Q!LeavesInTurn
    BY DEF QP!KeepsSlots, Q!KeepsSlots, QP!LeavesInTurn, Q!LeavesInTurn,
           QP!Exists, Q!Exists, QP!Before, Q!Before
  <2> QED BY <2>1, <2>2, StepIsQueueStep DEF Q!queueVars, QP!queueVars
<1> QED BY <1>1, <1>2, QueueInvariance, PTL DEF Spec, Q!SlotsKept

\* And seen from outside, the queue of a connection is the box: what Notify puts in
\* is lost only at capacity, a least important notice first, or replaced by a later
\* report about its earthquake, and writeLoop is handed it once (queue.go:27-41).
THEOREM ConnectionImplementsBox == Spec => QP!ImplementsBox
<1> QED BY ConnectionRunsQueue, QueueAssumptions, QP!QueueImplementsBox, PTL

\* Every variable keeps its type, the queue's included: no run of sessions,
\* failures and telegrams takes the backoff out of its bounds or the queue
\* past its capacity (connection.go:47-61, queue.go:78-84).
THEOREM TypeCorrect == Spec => []TypeOK
<1>1. IInv /\ QP!IInv => TypeOK
  BY DEF IInv, TypeOK, QP!IInv, Q!TypeOK, QP!TypeOK, Q!Notice, QP!Notice,
         Q!Priority, QP!Priority, Q!Normal, QP!Normal, Q!Final, QP!Final,
         Q!Cancellation, QP!Cancellation
<1> QED BY <1>1, Invariance, QueueInvariance, PTL

\* handleConnected closes a channel that is still open, whenever sessions end
\* and whoever ends them: close(c.ready) cannot panic (connection.go:180-182).
THEOREM NeverClosesTwice == Spec => []NeverClosedTwice
<1>1. IInv => NeverClosedTwice
  BY DEF IInv, SessionInv, ConnectionTypeOK, NeverClosedTwice
<1> QED BY <1>1, Invariance, PTL

\* While writeLoop finds the ready channel closed, the JOINs of the present
\* session are sent, or DISCONNECTED is about to replace it (connection.go:72).
THEOREM ReadyImpliesJoined == Spec => []ReadyMeansJoined
<1>1. IInv => ReadyMeansJoined
  BY DEF IInv, SessionInv, ConnectionTypeOK, ReadyMeansJoined
<1> QED BY <1>1, Invariance, PTL

\* A new attempt finds neither a link, nor a handler, nor a token, nor a
\* closed ready channel of the session before (connection.go:128-160, 185-196).
THEOREM NothingIsLeftBehind == Spec => []NothingLeftBehind
<1>1. IInv => NothingLeftBehind
  BY DEF IInv, SessionInv, BetweenSessions, ConnectionTypeOK, NothingLeftBehind
<1> QED BY <1>1, Invariance, PTL

\* The pace of the attempts (connection.go:119-123, 47-54), for every pair of
\* backoffs: a sleep before each, but after a session that lasted; a delay that
\* doubles up to its maximum with every attempt that fails and every session that
\* does not last; and no other reset of it than by a session that does.
THEOREM ReconnectIsPaced == Spec => PacedReconnect
<1> DEFINE Paced ==
        /\ run' = "top" => run \in {"retrySleep", "shortSleep"} \/ LastedLong
        /\ IF ~AttemptOver THEN UNCHANGED backoff
           ELSE IF LastedLong THEN backoff' = InitialBackoff
           ELSE Grows
<1>1. IInv /\ [Next]_vars => [Paced]_<<run, backoff>>
  <2> SUFFICES ASSUME IInv, Next, <<run, backoff>>' # <<run, backoff>>
               PROVE  Paced
    BY DEF vars, runVars
  <2>1. backoff' = NextBackoff => Grows
    BY BackoffAssumption DEF IInv, ConnectionTypeOK, NextBackoff, Grows
  <2>2. ASSUME UNCHANGED backoff, run' # "top", run # "waiting" PROVE Paced
    BY <2>2 DEF AttemptOver
  <2>3. ASSUME SessionEnds PROVE Paced
    BY <2>1, <2>3 DEF SessionEnds, StableSession, AttemptOver, LastedLong
  <2>4. ASSUME RetrySlept PROVE Paced
    BY <2>1, <2>4 DEF RetrySlept, AttemptOver, LastedLong
  <2>5. ASSUME ShortSlept PROVE Paced
    BY <2>5 DEF ShortSlept, AttemptOver
  <2>6. ASSUME RunStep PROVE Paced
    BY <2>2, <2>3, <2>4, <2>5, <2>6
       DEF RunStep, Loop, ConnectSucceeds, ConnectCanceled, ConnectFails, SleepCanceled,
           CheckConnected, CloseLink, CloseQueue
  <2>7. ASSUME ~RunStep PROVE UNCHANGED <<run, backoff>>
    BY <2>7
       DEF Next, Receive, JoinAll, OpenReady, HandleDisconnected, WriterStep, ReadReady,
           PassGate, WaitCanceled, WriterParks, TakeNotice, WriterEnds, ServeChannel,
           Welcome, Drop, Settle, Cancel, Terminated, vars, runVars
  <2> QED BY <2>6, <2>7
<1> QED BY <1>1, Invariance, PTL DEF Spec, PacedReconnect
=============================================================================
