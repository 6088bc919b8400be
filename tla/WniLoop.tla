------------------------------ MODULE WniLoop ------------------------------
(***************************************************************************)
(* internal/app/app.go: Run, the daemon from its start to its exit (and    *)
(* cmd/eew-notifier's main around it); runConnectionLoop, which keeps a    *)
(* session with a WNI server alive; and serverResolver, which chooses the  *)
(* server from a list it fetches each time (internal/wni/serverlist.go).   *)
(*                                                                         *)
(* The loop is the goroutine of Run.  Its steps end where it waits: for    *)
(* the list, for Dial and Login, for Client.Run to return (WniClient       *)
(* models what it does until then), and in sleepCtx.  Each IRC connection  *)
(* has a goroutine of its own, and IrcConnection models what it does until *)
(* it ends.                                                                *)
(***************************************************************************)
EXTENDS Integers

CONSTANTS
    Conns,          \* the IRC connections of the configuration
    Servers,        \* addresses the list endpoint may name
    FetchMayHang    \* may the list endpoint accept a request and not answer?

ASSUME ServersAssumption ==
    /\ Servers # {}
    /\ "" \notin Servers
    /\ FetchMayHang \in BOOLEAN

Lists == SUBSET Servers \ {{}}

VARIABLES
    process,        \* "starting", "opening" the archive, "running", then
                    \* "exited" or, with an error, "failed"
    conns,          \* IRC connection -> "off", "running" or "ended"
    loop,           \* where runConnectionLoop is
    backoff,        \* seconds
    override,       \* resolver.override: an address, or "" for none
    cached,         \* resolver.cached, {} if nil
    newest,         \* the last list that was fetched, {} if none (history)
    addr,           \* the server of this attempt, "" before it is resolved
    canceled,       \* ctx is canceled
    failures        \* attempts failed since the last login (history, to 7)

daemonVars == <<process, conns>>
listVars == <<cached, newest>>
loopVars == <<loop, backoff, override, listVars, addr, failures>>
vars == <<daemonVars, loopVars, canceled>>

InitialBackoff == 1
MaxBackoff == 60

Init ==
    /\ process = "starting"
    /\ conns = [c \in Conns |-> "off"]
    /\ loop = "off"
    /\ backoff = InitialBackoff
    /\ override \in Servers \union {""}
    /\ cached = {}
    /\ newest = {}
    /\ addr = ""
    /\ canceled = FALSE
    /\ failures = 0

\* mutant: no cap
UncappedBackoff(b) == 2 * b

NextBackoff(b) == IF 2 * b > MaxBackoff THEN MaxBackoff ELSE 2 * b

-----------------------------------------------------------------------------
(* The daemon                                                              *)

\* config.Load, and signal.NotifyContext after it
Configured ==
    /\ process = "starting"
    /\ process' = "opening"
    /\ UNCHANGED <<conns, loopVars, canceled>>

\* A bad flag, or a configuration that cannot be read or parsed
ConfigRefused ==
    /\ process = "starting"
    /\ process' = "failed"
    /\ UNCHANGED <<conns, loopVars, canceled>>

\* eewlog.Open cannot write to the log directory.
OpenFails ==
    /\ process = "opening"
    /\ process' = "failed"
    /\ UNCHANGED <<conns, loopVars, canceled>>

\* The archive can be written to, or is not asked for.
Start ==
    /\ process = "opening"
    /\ process' = "running"
    /\ conns' = [c \in Conns |-> "running"]
    /\ loop' = "top"
    /\ UNCHANGED <<backoff, override, listVars, addr, failures, canceled>>

\* SIGINT or SIGTERM; before NotifyContext it would simply kill the process.
Cancel ==
    /\ process \in {"opening", "running"}
    /\ ~canceled
    /\ canceled' = TRUE
    /\ UNCHANGED <<daemonVars, loopVars>>

\* Connection.Run returns.
ConnEnds(c) ==
    /\ process = "running"
    /\ canceled
    /\ conns[c] = "running"
    /\ conns' = [conns EXCEPT ![c] = "ended"]
    /\ UNCHANGED <<process, loopVars, canceled>>

\* mutant: Run does not wait for the IRC connections
ExitAtOnce ==
    /\ process = "running"
    /\ loop = "ended"
    /\ process' = "exited"
    /\ UNCHANGED <<conns, loopVars, canceled>>

\* ircWG.Wait returns, and with the process ends what still runs in it.
Exit ==
    /\ process = "running"
    /\ loop = "ended"
    /\ \A c \in Conns : conns[c] = "ended"
    /\ process' = "exited"
    /\ UNCHANGED <<conns, loopVars, canceled>>

-----------------------------------------------------------------------------
(* The loop                                                                *)

CheckContext ==
    /\ loop = "top"
    /\ loop' = IF canceled THEN "ended" ELSE "resolving"
    /\ addr' = ""
    /\ UNCHANGED <<daemonVars, backoff, override, listVars, canceled, failures>>

Choose(servers) ==
    /\ addr' \in servers
    /\ loop' = "dialing"
    /\ UNCHANGED <<daemonVars, backoff, override, canceled, failures>>

\* The attempt failed, and sleepCtx begins.
AttemptFails ==
    /\ loop' = "sleeping"
    /\ failures' = IF failures < 7 THEN failures + 1 ELSE 7
    /\ UNCHANGED <<daemonVars, backoff, override, listVars, addr, canceled>>

UseOverride ==
    /\ loop = "resolving"
    /\ override # ""
    /\ Choose({override})
    /\ UNCHANGED listVars

\* mutant: the list is not kept when there is an older one
RememberFirst(servers) == cached' = IF cached = {} THEN servers ELSE cached

Remember(servers) == cached' = servers

FetchSucceeds ==
    /\ loop = "resolving"
    /\ override = ""
    /\ ~canceled
    /\ \E servers \in Lists :
          /\ Remember(servers)
          /\ newest' = servers
          /\ Choose(servers)

\* mutant: the last list is never used again
NoFallBack == AttemptFails

\* The endpoint refuses, answers with an HTTP error or an empty list, or the
\* context is canceled: the last list serves again, if there is one.
FallBack == IF cached = {} THEN AttemptFails ELSE Choose(cached) /\ UNCHANGED listVars

FetchFails ==
    /\ loop = "resolving"
    /\ override = ""
    /\ FallBack

\* http.DefaultClient has no timeout: a request that was taken and gets no
\* answer ends with the context only.
FetchHangs ==
    /\ FetchMayHang
    /\ loop = "resolving"
    /\ override = ""
    /\ loop' = "hanging"
    /\ UNCHANGED <<daemonVars, backoff, override, listVars, addr, canceled, failures>>

HangCanceled ==
    /\ loop = "hanging"
    /\ canceled
    /\ FallBack

\* Dial and Login, one unit; Dial gives up when the context is canceled, and
\* a context canceled after that leaves Login as it is.
ConnectFails == loop = "dialing" /\ AttemptFails

\* mutant: a login does not reset the backoff
NoReset == backoff

AfterLogin == InitialBackoff

ConnectSucceeds ==
    /\ loop = "dialing"
    /\ loop' = "running"
    /\ backoff' = AfterLogin
    /\ failures' = 0
    /\ UNCHANGED <<daemonVars, override, listVars, addr, canceled>>

\* Client.Run returns and the client is closed.
RunReturns ==
    /\ loop = "running"
    /\ loop' = IF canceled THEN "ended" ELSE "top"
    /\ UNCHANGED <<daemonVars, backoff, override, listVars, addr, canceled, failures>>

Slept ==
    /\ loop = "sleeping"
    /\ loop' = "top"
    /\ backoff' = NextBackoff(backoff)
    /\ UNCHANGED <<daemonVars, override, listVars, addr, canceled, failures>>

SleepCanceled ==
    /\ loop = "sleeping"
    /\ canceled
    /\ loop' = "ended"
    /\ UNCHANGED <<daemonVars, backoff, override, listVars, addr, canceled, failures>>

\* What the loop does by itself; a session lasts as long as it lasts.
LoopStep ==
    \/ CheckContext
    \/ UseOverride
    \/ FetchSucceeds
    \/ FetchFails
    \/ FetchHangs
    \/ HangCanceled
    \/ ConnectFails
    \/ ConnectSucceeds
    \/ Slept
    \/ SleepCanceled

DaemonStep == Configured \/ Start \/ Exit

Terminated == process \in {"exited", "failed"} /\ UNCHANGED vars

Next ==
    \/ DaemonStep \/ ConfigRefused \/ OpenFails \/ Cancel
    \/ \E c \in Conns : ConnEnds(c)
    \/ LoopStep \/ RunReturns
    \/ Terminated

Spec == Init /\ [][Next]_vars

\* The daemon's goroutines run when they can.  Dial ends with the kernel's
\* connect timeout and sleepCtx with its timer; once the context is canceled,
\* Client.Run returns within idleTimeout (WniClient!ShutdownNoticed), and
\* Connection.Run returns (IrcConnection!ShutdownCompletes).
FairSpec ==
    /\ Spec
    /\ WF_vars(DaemonStep)
    /\ WF_vars(LoopStep) /\ WF_vars(canceled /\ RunReturns)
    /\ \A c \in Conns : WF_vars(ConnEnds(c))

-----------------------------------------------------------------------------
(* Properties                                                              *)

\* Every variable keeps its type, and backoff its bound.
TypeOK ==
    /\ process \in {"starting", "opening", "running", "exited", "failed"}
    /\ conns \in [Conns -> {"off", "running", "ended"}]
    /\ loop \in {"off", "top", "resolving", "hanging", "dialing", "running",
                 "sleeping", "ended"}
    /\ backoff \in InitialBackoff .. MaxBackoff
    /\ override \in Servers \union {""}
    /\ cached \in SUBSET Servers
    /\ newest \in SUBSET Servers
    /\ addr \in Servers \union {""}
    /\ canceled \in BOOLEAN
    /\ failures \in 0 .. 7

\* 1, 2, 4, ... 60 seconds
Backoffs == <<1, 2, 4, 8, 16, 32, 60, 60>>

\* The wait doubles with every failure since the last login up to a minute,
\* and a login resets it (app.go:163-173).
BackoffCountsFailures ==
    loop # "ended" =>
        backoff = Backoffs[IF loop = "sleeping" THEN failures ELSE failures + 1]

\* Every attempt goes to the override, or to a server of the newest list that
\* could be fetched, also after any number of fetches that failed since, which
\* leave it to the resolver's cache (app.go:226-249).
DialsNewestList ==
    loop \in {"dialing", "running"} =>
        IF override # "" THEN addr = override ELSE addr \in newest

\* Once a list has been fetched, trouble with the list endpoint alone never
\* keeps the loop from trying a server: "a transient outage of the list
\* endpoint shouldn't by itself prevent reconnecting" (app.go:215-217).
ListOutageSurvived ==
    newest # {} ~> loop \in {"dialing", "running", "ended"}

\* The same for an endpoint that answers, however often with an error.
ListErrorsSurvived ==
    newest # {} ~> loop \in {"dialing", "running", "ended", "hanging"}

\* A canceled context ends the daemon, wherever it is, "so the process doesn't
\* exit out from under" an IRC connection that has yet to send its QUIT
\* (app.go:89-94, 157-183).
ShutdownCompletes ==
    canceled ~> \/ process = "failed"
                \/ process = "exited" /\ \A c \in Conns : conns[c] = "ended"
=============================================================================
