--------------------------- MODULE IrcConnection ---------------------------
(***************************************************************************)
(* internal/irc/connection.go: one IRC connection, its goroutines and the  *)
(* network they live with.                                                 *)
(*                                                                         *)
(*  - Notify, called on the WNI receive goroutine, picks the channels and  *)
(*    puts a notice into the send queue;                                   *)
(*  - Run connects, waits for the session to end, backs off, and shuts     *)
(*    everything down when its context is canceled;                        *)
(*  - writeLoop waits until the connection is ready, then takes notices    *)
(*    from the queue and sends them;                                       *)
(*  - the handlers of CONNECTED and DISCONNECTED, called by goirc.         *)
(*                                                                         *)
(* The ready channel is replaced after every session, and a goroutine that *)
(* waits keeps the channel it read: channels are numbered, ready is the    *)
(* one in c.ready and opened the set of those that have been closed.       *)
(*                                                                         *)
(* goirc is outside this repository.  What is assumed of it is what the    *)
(* code relies on: a session that ends calls the DISCONNECTED handler once *)
(* and after any CONNECTED handler of that session has returned; a session *)
(* is welcomed at most once; sending never blocks, and what is sent on a   *)
(* dead link is lost.                                                      *)
(***************************************************************************)
EXTENDS IrcDispatcher, Sequences

CONSTANTS
    Capacity,               \* defaultQueueCapacity
    NoNotice,               \* see IrcQueue
    NoQuake,                \* the empty lastEqID of a new Dispatcher
    InitialBackoff,         \* initialBackoff
    MaxBackoff,             \* maxBackoff
    DropsBeforeWelcome,     \* can a session end before it is welcomed?
    MaxSessions,            \* bound on the sessions, the last one lasts
    MaxFailures             \* bound on the failed connection attempts

ASSUME BackoffAssumption ==
    /\ InitialBackoff \in Nat \ {0}
    /\ MaxBackoff \in Nat
    /\ InitialBackoff <= MaxBackoff

ASSUME EnvironmentAssumption ==
    /\ DropsBeforeWelcome \in BOOLEAN
    /\ MaxSessions \in Nat
    /\ MaxFailures \in Nat
    /\ MaxReport \in Nat
    /\ NoQuake \notin EqID

VARIABLES
    order, entries, closed, consumer, taken,    \* c.queue, see IrcQueue
    canceled,       \* ctx is canceled
    link,           \* the session: "down", "up" or, once welcomed, "registered"
    joined,         \* the session's JOINs are sent
    settled,        \* stableConnectionThreshold has passed since the connect
    sessions,       \* sessions so far
    failures,       \* failed attempts so far
    onConnected,    \* where handleConnected is: "idle", "joining", "opening"
    onDisconnected, \* where handleDisconnected is: "idle", "pending", "signalling"
    ready,          \* c.ready
    opened,         \* the ready channels that have been closed
    reconnect,      \* a token is in c.reconnect
    run,            \* where Run is
    backoff,        \* Run's backoff, which is what it sleeps
    writer,         \* where writeLoop is
    gate,           \* the ready channel writeLoop waits for
    sending,        \* the channels the notice in hand still goes to
    lastEqID,       \* c.dispatcher.lastEqID
    reports         \* the reports WNI has sent about each earthquake

\* The text of a notice stands for the number of the report it was made from.
Body == [channels : SUBSET Channel, num : 1 .. MaxReport]

Q == INSTANCE IrcQueue

\* NewConnection makes the queue with defaultQueueCapacity, which is positive.
ASSUME QueueAssumption ==
    /\ Capacity \in Nat \ {0}
    /\ NoNotice \notin Q!Notice

queueVars   == <<order, entries, closed, consumer, taken>>
linkVars    == <<link, joined, settled, sessions, failures>>
handlerVars == <<onConnected, onDisconnected, ready, opened>>
runVars     == <<run, backoff>>
writerVars  == <<writer, gate, sending>>
feedVars    == <<lastEqID, reports>>
vars == <<queueVars, canceled, linkVars, handlerVars, reconnect, runVars,
          writerVars, feedVars>>

Init ==
    /\ Q!QueueInit
    /\ canceled = FALSE
    /\ link = "down"
    /\ joined = FALSE
    /\ settled = FALSE
    /\ sessions = 0
    /\ failures = 0
    /\ onConnected = "idle"
    /\ onDisconnected = "idle"
    /\ ready = 0
    /\ opened = {}
    /\ reconnect = FALSE
    /\ run = "top"
    /\ backoff = InitialBackoff
    /\ writer = "start"
    /\ gate = 0
    /\ sending = {}
    /\ lastEqID = NoQuake
    /\ reports = [e \in EqID |-> 0]

-----------------------------------------------------------------------------
(* Notify                                                                  *)

NoticeFor(t) ==
    [eqID     |-> t.eqID,
     body     |-> [channels |-> ChannelsFor(t, lastEqID), num |-> t.num],
     priority |-> PriorityFor(t)]

\* Notify, up to its early return when no channel is concerned.
Notify(t) ==
    /\ lastEqID' = LastEqIDAfter(t, lastEqID)
    /\ \/ ChannelsFor(t, lastEqID) = {} /\ UNCHANGED queueVars
       \/ ChannelsFor(t, lastEqID) # {} /\ Q!Enqueue(NoticeFor(t))

\* The WNI goroutine receives the next report about some earthquake.
Receive(t) ==
    /\ t.num = reports[t.eqID] + 1
    /\ reports' = [reports EXCEPT ![t.eqID] = t.num]
    /\ Notify(t)
    /\ UNCHANGED <<canceled, linkVars, handlerVars, reconnect, runVars, writerVars>>

-----------------------------------------------------------------------------
(* Run                                                                     *)

UncappedBackoff == 2 * backoff                  \* mutant
NextBackoff == IF 2 * backoff > MaxBackoff THEN MaxBackoff ELSE 2 * backoff

\* The loop condition: connect, or leave the loop.
Loop ==
    /\ run = "top"
    /\ run' = IF canceled THEN "quitting" ELSE "connecting"
    /\ UNCHANGED <<queueVars, canceled, linkVars, handlerVars, reconnect,
                   backoff, writerVars, feedVars>>

\* ConnectContext returns nil.
ConnectSucceeds ==
    /\ run = "connecting"
    /\ link = "down"
    /\ sessions < MaxSessions
    /\ link' = "up"
    /\ joined' = FALSE
    /\ settled' = FALSE
    /\ sessions' = sessions + 1
    /\ run' = "waiting"
    /\ UNCHANGED <<queueVars, canceled, failures, handlerVars, reconnect,
                   backoff, writerVars, feedVars>>

\* ConnectContext returns an error because the context is canceled.
ConnectCanceled ==
    /\ run = "connecting"
    /\ canceled
    /\ run' = "quitting"
    /\ UNCHANGED <<queueVars, canceled, linkVars, handlerVars, reconnect,
                   backoff, writerVars, feedVars>>

\* ConnectContext returns another error: sleep, and only then double backoff.
ConnectFails ==
    /\ run = "connecting"
    /\ ~canceled
    /\ failures < MaxFailures
    /\ failures' = failures + 1
    /\ run' = "retrySleep"
    /\ UNCHANGED <<queueVars, canceled, link, joined, settled, sessions,
                   handlerVars, reconnect, backoff, writerVars, feedVars>>

RetrySlept ==
    /\ run = "retrySleep"
    /\ backoff' = NextBackoff
    /\ run' = "top"
    /\ UNCHANGED <<queueVars, canceled, linkVars, handlerVars, reconnect,
                   writerVars, feedVars>>

PeekToken == reconnect /\ UNCHANGED reconnect    \* mutant
TakeToken == reconnect /\ reconnect' = FALSE

AnySession == TRUE                              \* mutant

\* connectedFor >= stableConnectionThreshold
StableSession == settled

\* Run hears of the end of the session, or of the cancellation.
SessionEnds ==
    /\ run = "waiting"
    /\ \/ TakeToken
       \/ canceled /\ UNCHANGED reconnect
    /\ \/ /\ canceled
          /\ run' = "quitting"
          /\ UNCHANGED backoff
       \/ /\ ~canceled /\ StableSession
          /\ run' = "top"
          /\ backoff' = InitialBackoff
       \/ /\ ~canceled /\ ~StableSession
          /\ run' = "shortSleep"
          /\ backoff' = NextBackoff
    /\ UNCHANGED <<queueVars, canceled, linkVars, handlerVars, writerVars, feedVars>>

ShortSlept ==
    /\ run = "shortSleep"
    /\ run' = "top"
    /\ UNCHANGED <<queueVars, canceled, linkVars, handlerVars, reconnect,
                   backoff, writerVars, feedVars>>

\* sleepCtx returns false.
SleepCanceled ==
    /\ run \in {"retrySleep", "shortSleep"}
    /\ canceled
    /\ run' = "quitting"
    /\ UNCHANGED <<queueVars, canceled, linkVars, handlerVars, reconnect,
                   backoff, writerVars, feedVars>>

\* c.conn.Connected()
CheckConnected ==
    /\ run = "quitting"
    /\ run' = IF link = "down" THEN "closingQueue" ELSE "closing"
    /\ UNCHANGED <<queueVars, canceled, linkVars, handlerVars, reconnect,
                   backoff, writerVars, feedVars>>

\* The session ends, and DISCONNECTED is on its way.
LinkGoesDown ==
    /\ link' = "down"
    /\ onDisconnected' = "pending"

\* c.conn.Quit and c.conn.Close, if the link has not dropped meanwhile.
CloseLink ==
    /\ run = "closing"
    /\ \/ link = "down" /\ UNCHANGED <<link, onDisconnected>>
       \/ link # "down" /\ LinkGoesDown
    /\ run' = "closingQueue"
    /\ UNCHANGED <<queueVars, canceled, joined, settled, sessions, failures,
                   onConnected, ready, opened, reconnect, backoff, writerVars,
                   feedVars>>

CloseQueue ==
    /\ run = "closingQueue"
    /\ Q!Close
    /\ run' = "stopped"
    /\ UNCHANGED <<canceled, linkVars, handlerVars, reconnect, backoff,
                   writerVars, feedVars>>

RunStep ==
    \/ Loop
    \/ ConnectSucceeds \/ ConnectCanceled \/ ConnectFails
    \/ RetrySlept \/ SessionEnds \/ ShortSlept \/ SleepCanceled
    \/ CheckConnected \/ CloseLink \/ CloseQueue

-----------------------------------------------------------------------------
(* goirc's handlers                                                        *)

\* handleConnected, its calls of conn.Join.
JoinAll ==
    /\ onConnected = "joining"
    /\ joined' = (link = "registered")
    /\ onConnected' = "opening"
    /\ UNCHANGED <<queueVars, canceled, link, settled, sessions, failures,
                   onDisconnected, ready, opened, reconnect, runVars,
                   writerVars, feedVars>>

\* handleConnected, close(c.ready).
OpenReady ==
    /\ onConnected = "opening"
    /\ opened' = opened \cup {ready}
    /\ onConnected' = "idle"
    /\ UNCHANGED <<queueVars, canceled, linkVars, onDisconnected, ready,
                   reconnect, runVars, writerVars, feedVars>>

SameReady == ready                              \* mutant
FreshReady == ready + 1

NoSignal == UNCHANGED reconnect                 \* mutant
Signal == reconnect' = TRUE

\* mutant: Run is told before the ready channel is replaced
HandleDisconnectedLate ==
    /\ \/ /\ onDisconnected = "pending"
          /\ onConnected = "idle"
          /\ Signal
          /\ onDisconnected' = "signalling"
          /\ UNCHANGED ready
       \/ /\ onDisconnected = "signalling"
          /\ ready' = FreshReady
          /\ onDisconnected' = "idle"
          /\ UNCHANGED reconnect
    /\ UNCHANGED <<queueVars, canceled, linkVars, onConnected, opened, runVars,
                   writerVars, feedVars>>

\* handleDisconnected: a new ready channel, then a token for Run, dropped if
\* there is one already.
HandleDisconnected ==
    /\ \/ /\ onDisconnected = "pending"
          /\ onConnected = "idle"
          /\ ready' = FreshReady
          /\ onDisconnected' = "signalling"
          /\ UNCHANGED reconnect
       \/ /\ onDisconnected = "signalling"
          /\ Signal
          /\ onDisconnected' = "idle"
          /\ UNCHANGED ready
    /\ UNCHANGED <<queueVars, canceled, linkVars, onConnected, opened, runVars,
                   writerVars, feedVars>>

-----------------------------------------------------------------------------
(* writeLoop                                                               *)

\* waitReady reads c.ready.
ReadReady ==
    /\ writer = "start"
    /\ gate' = ready
    /\ writer' = "waiting"
    /\ UNCHANGED <<queueVars, canceled, linkVars, handlerVars, reconnect,
                   runVars, sending, feedVars>>

\* waitReady returns true.
PassGate ==
    /\ writer = "waiting"
    /\ gate \in opened
    /\ writer' = "dequeuing"
    /\ UNCHANGED <<queueVars, canceled, linkVars, handlerVars, reconnect,
                   runVars, gate, sending, feedVars>>

\* waitReady returns false.
WaitCanceled ==
    /\ writer = "waiting"
    /\ canceled
    /\ writer' = "done"
    /\ UNCHANGED <<queueVars, canceled, linkVars, handlerVars, reconnect,
                   runVars, gate, sending, feedVars>>

WriterParks ==
    /\ writer = "dequeuing"
    /\ Q!Park
    /\ UNCHANGED <<canceled, linkVars, handlerVars, reconnect, runVars,
                   writerVars, feedVars>>

\* Dequeue returns a notice; its text may prove impossible to encode.
TakeNotice ==
    /\ writer = "dequeuing"
    /\ Q!Take
    /\ \/ writer' = "sending" /\ sending' = taken'.body.channels
       \/ writer' = "start" /\ UNCHANGED sending
    /\ UNCHANGED <<canceled, linkVars, handlerVars, reconnect, runVars, gate,
                   feedVars>>

WriterEnds ==
    /\ writer = "dequeuing"
    /\ Q!GiveUp
    /\ writer' = "done"
    /\ UNCHANGED <<canceled, linkVars, handlerVars, reconnect, runVars, gate,
                   sending, feedVars>>

\* One channel's turn: the notice is sent, or the channel's name cannot be
\* encoded and is skipped.
ServeChannel ==
    /\ writer = "sending"
    /\ \E ch \in sending : sending' = sending \ {ch}
    /\ writer' = IF sending' = {} THEN "start" ELSE "sending"
    /\ UNCHANGED <<queueVars, canceled, linkVars, handlerVars, reconnect,
                   runVars, gate, feedVars>>

WriterStep ==
    \/ ReadReady \/ PassGate \/ WaitCanceled
    \/ WriterParks \/ TakeNotice \/ WriterEnds
    \/ ServeChannel

-----------------------------------------------------------------------------
(* The world around the connection                                         *)

\* The server welcomes the client: goirc calls the CONNECTED handler.
Welcome ==
    /\ link = "up"
    /\ onConnected = "idle"
    /\ link' = "registered"
    /\ onConnected' = "joining"
    /\ UNCHANGED <<queueVars, canceled, joined, settled, sessions, failures,
                   onDisconnected, ready, opened, reconnect, runVars,
                   writerVars, feedVars>>

\* The session dies, unless it is the last one of the bounded environment.
Drop ==
    /\ \/ link = "registered"
       \/ link = "up" /\ DropsBeforeWelcome
    /\ sessions < MaxSessions
    /\ LinkGoesDown
    /\ UNCHANGED <<queueVars, canceled, joined, settled, sessions, failures,
                   onConnected, ready, opened, reconnect, runVars, writerVars,
                   feedVars>>

\* stableConnectionThreshold passes before Run looks at its watch.
Settle ==
    /\ run = "waiting"
    /\ ~settled
    /\ settled' = TRUE
    /\ UNCHANGED <<queueVars, canceled, link, joined, sessions, failures,
                   handlerVars, reconnect, runVars, writerVars, feedVars>>

Cancel ==
    /\ ~canceled
    /\ canceled' = TRUE
    /\ UNCHANGED <<queueVars, linkVars, handlerVars, reconnect, runVars,
                   writerVars, feedVars>>

\* Run and writeLoop have returned, and so have the handlers.
Terminated ==
    /\ run = "stopped"
    /\ writer = "done"
    /\ UNCHANGED vars

Next ==
    \/ \E t \in Telegram : Receive(t)
    \/ RunStep
    \/ JoinAll \/ OpenReady \/ HandleDisconnected
    \/ WriterStep
    \/ Welcome \/ Drop \/ Settle \/ Cancel
    \/ Terminated

Spec == Init /\ [][Next]_vars

\* Goroutines that can run do, sleeps end, a call of ConnectContext returns
\* and a server welcomes the client it accepted.  No fairness is asked of
\* telegrams, drops, failures or the cancellation.
FairSpec ==
    /\ Spec
    /\ WF_vars(RunStep)
    /\ WF_vars(JoinAll) /\ WF_vars(OpenReady) /\ WF_vars(HandleDisconnected)
    /\ WF_vars(WriterStep)
    /\ WF_vars(Welcome)

-----------------------------------------------------------------------------
(* Properties                                                              *)

ConnectionTypeOK ==
    /\ canceled \in BOOLEAN
    /\ link \in {"down", "up", "registered"}
    /\ joined \in BOOLEAN
    /\ settled \in BOOLEAN
    /\ sessions \in 0 .. MaxSessions
    /\ failures \in 0 .. MaxFailures
    /\ onConnected \in {"idle", "joining", "opening"}
    /\ onDisconnected \in {"idle", "pending", "signalling"}
    /\ ready \in 0 .. sessions
    /\ opened \subseteq 0 .. ready
    /\ reconnect \in BOOLEAN
    /\ run \in {"top", "connecting", "retrySleep", "waiting", "shortSleep",
                "quitting", "closing", "closingQueue", "stopped"}
    /\ backoff \in InitialBackoff .. MaxBackoff
    /\ writer \in {"start", "waiting", "dequeuing", "sending", "done"}
    /\ gate \in 0 .. ready
    /\ sending \subseteq Channel
    /\ lastEqID \in EqID \cup {NoQuake}
    /\ reports \in [EqID -> 0 .. MaxReport]

TypeOK == Q!TypeOK /\ ConnectionTypeOK

\* handleConnected (connection.go:180-182) never closes a channel that is
\* closed already, which would panic: between two sessions the ready channel
\* is always replaced.
NeverClosedTwice == onConnected = "opening" => ready \notin opened

\* "ready" means what its comment says (connection.go:72): while it is closed
\* the JOINs of the present session are sent, or the session is over and its
\* DISCONNECTED handler, still to come, is about to replace it.
ReadyMeansJoined ==
    ready \in opened =>
        \/ link = "registered" /\ joined
        \/ link = "down" /\ onDisconnected = "pending"

\* Run starts an attempt only when nothing is left of the session before: no
\* link, no handler that could touch the new session's ready channel, and no
\* token that would end the new session's wait at once (connection.go:128-160,
\* 185-196).
NothingLeftBehind ==
    run \in {"top", "connecting"} =>
        /\ link = "down"
        /\ onConnected = "idle"
        /\ onDisconnected = "idle"
        /\ ~reconnect
        /\ ready \notin opened

\* An attempt has failed and was slept over, or a session has ended, and Run
\* goes on.
AttemptOver ==
    \/ run = "retrySleep" /\ run' = "top"
    \/ run = "waiting" /\ run' \in {"top", "shortSleep"}

LastedLong == run = "waiting" /\ settled

Grows ==
    \/ backoff' = 2 * backoff /\ backoff' <= MaxBackoff
    \/ backoff' = MaxBackoff /\ 2 * backoff >= MaxBackoff

\* No server is hammered (connection.go:119-123, 47-54): after anything but a
\* session that settled Run tries again only after a sleep, and the delay, which
\* is what it sleeps, doubles up to its maximum with every such attempt.  A
\* session that settled alone makes it start anew, and nothing else changes it.
PacedReconnect ==
    [][/\ run' = "top" => run \in {"retrySleep", "shortSleep"} \/ LastedLong
       /\ IF ~AttemptOver THEN UNCHANGED backoff
          ELSE IF LastedLong THEN backoff' = InitialBackoff
          ELSE Grows]_<<run, backoff>>

\* A notice in the queue leaves it, sent or evicted, unless the daemon is
\* shut down: the write goroutine always gets another turn (connection.go:57-61).
QueueIsDrained ==
    \A e \in EqID : Q!Exists(e) ~> ~Q!Exists(e) \/ canceled

\* The ready channel writeLoop waits for was replaced without being closed,
\* because its session ended before it was welcomed.
Orphaned == writer = "waiting" /\ gate # ready /\ gate \notin opened

\* The same, but for the one way there is to lose the write goroutine.
DrainedUnlessOrphaned ==
    \A e \in EqID : Q!Exists(e) ~> ~Q!Exists(e) \/ canceled \/ Orphaned

\* A connection that is down comes back (connection.go:119-124).
ComesBack == link = "down" ~> link = "registered" \/ canceled

\* Cancellation ends both goroutines, wherever they are (connection.go:119-121,
\* queue.go:126-127).
ShutdownCompletes == canceled ~> run = "stopped" /\ writer = "done"
=============================================================================
