----------------------------- MODULE Processor -----------------------------
(***************************************************************************)
(* What becomes of a telegram: internal/app/app.go's onData and Processor, *)
(* the archive of internal/eewlog/store.go and the choice of Slack hooks   *)
(* in internal/notify/dispatcher.go.                                       *)
(*                                                                         *)
(* Everything here happens on the WNI goroutine, one telegram at a time.   *)
(* It is split into steps because the process may die between any two of   *)
(* them; it is then started again, and finds the files as it left them.    *)
(* A send that was started counts as such: what Slack makes of it is the   *)
(* business of its own goroutine.                                          *)
(***************************************************************************)
EXTENDS Integers, FiniteSets

CONSTANTS
    Telegram,       \* telegrams: [eqID, num, news, sum], sum being what
                    \* the frame's X-WNI-Data-MD5 says, which nobody checks
    NoQuake,        \* eqID of a body Decode finds no ND line in: ""
    NoTelegram,     \* nothing at hand
    NoPath,         \* tempPath = ""
    All, Limited,   \* Slack hooks
    MaxTelegrams,   \* bound on the telegrams received
    MaxTime,        \* bound on the clock, in seconds
    MaxCrashes      \* bound on the crashes

ASSUME BoundsAssumption ==
    MaxTelegrams \in Nat /\ MaxTime \in Nat /\ MaxCrashes \in Nat

ASSUME TelegramAssumption ==
    /\ NoTelegram \notin Telegram
    /\ \A i \in 0 .. MaxTime : \A t \in Telegram :
          NoPath # [kind |-> "temp", id |-> i, num |-> t.sum]

VARIABLES
    store,      \* is logdir set?
    files,      \* the archive: path -> [of |-> telegram, whole |-> BOOLEAN]
    now,        \* the second
    step,       \* what the WNI goroutine does next
    cur,        \* the telegram at hand
    tempPath,
    lastEqID,   \* the Slack dispatcher's
    hooks,      \* result.Hooks
    sends,      \* sends started, as [t, hook]
    received, crashes,
    failed      \* telegrams some archive operation failed for (history)

countVars == <<received, crashes>>
vars == <<store, files, now, step, cur, tempPath, lastEqID, hooks, sends,
          countVars, failed>>

\* WriteTemp's name, and FinalPath.
TempPath(t) == [kind |-> "temp", id |-> now, num |-> t.sum]
FinalPath(t) == [kind |-> "final", id |-> t.eqID, num |-> t.num]

File(t, whole) == [of |-> t, whole |-> whole]

Init ==
    /\ store \in BOOLEAN
    /\ files = <<>>
    /\ now = 0
    /\ step = "idle"
    /\ cur = NoTelegram
    /\ tempPath = NoPath
    /\ lastEqID = NoQuake
    /\ hooks = {}
    /\ sends = {}
    /\ received = 0
    /\ crashes = 0
    /\ failed = {}

-----------------------------------------------------------------------------
(* onData, on the WNI goroutine                                            *)

Receive(t) ==
    /\ step = "idle"
    /\ received < MaxTelegrams
    /\ received' = received + 1
    /\ cur' = t
    /\ tempPath' = NoPath
    /\ step' = IF store THEN "creating" ELSE "decoding"
    /\ UNCHANGED <<store, files, now, lastEqID, hooks, sends, crashes, failed>>

\* A file is there afterwards, in place of what had its name.
Write(path, file) ==
    files' = [p \in DOMAIN files \union {path} |->
                 IF p = path THEN file ELSE files[p]]

\* os.WriteFile creates or truncates the file, then writes it.
CreateTemp ==
    /\ step = "creating"
    /\ Write(TempPath(cur), File(cur, FALSE))
    /\ tempPath' = TempPath(cur)
    /\ step' = "writing"
    /\ UNCHANGED <<store, now, cur, lastEqID, hooks, sends, countVars, failed>>

WriteTemp ==
    /\ step = "writing"
    /\ Write(tempPath, File(cur, TRUE))
    /\ step' = "decoding"
    /\ UNCHANGED <<store, now, cur, tempPath, lastEqID, hooks, sends,
                   countVars, failed>>

\* mutant: the temp file is used although it could not be written
KeepTemp == UNCHANGED tempPath

\* tempPath stays "" when the file could not be written.
ForgetTemp == tempPath' = NoPath

\* WriteTemp returns an error; what was written stays.
WriteTempFails ==
    /\ step \in {"creating", "writing"}
    /\ ForgetTemp
    /\ failed' = failed \union {cur}
    /\ step' = "decoding"
    /\ UNCHANGED <<store, files, now, cur, lastEqID, hooks, sends, countVars>>

LimitedFires(t) == t.eqID # lastEqID \/ t.news

\* mutant: limited hooks instead of all hooks
EitherTier(t) == IF LimitedFires(t) THEN Limited ELSE All

HooksOf(t) == IF LimitedFires(t) THEN All \union Limited ELSE All

\* mutant: the hooks are told first
TellFirst == "notifying"

\* The archive comes before the hooks are told.
AfterHooks == IF tempPath = NoPath THEN "notifying" ELSE "finalizing"

\* Decode and Format, which change nothing, and HooksFor.
HooksFor ==
    /\ step = "decoding"
    /\ hooks' = HooksOf(cur)
    /\ lastEqID' = IF LimitedFires(cur) THEN cur.eqID ELSE lastEqID
    /\ step' = AfterHooks
    /\ UNCHANGED <<store, files, now, cur, tempPath, sends, countVars, failed>>

\* os.Rename replaces what has the final name.
Rename(from, to) ==
    files' = [p \in (DOMAIN files \ {from}) \union {to} |->
                 IF p = to THEN files[from] ELSE files[p]]

Finalize ==
    /\ step = "finalizing"
    /\ Rename(tempPath, FinalPath(cur))
    /\ step' = "notifying"
    /\ UNCHANGED <<store, now, cur, tempPath, lastEqID, hooks, sends,
                   countVars, failed>>

\* mutant: Finalize removes a temp file it cannot move
FinalizeCleansUp ==
    /\ step = "finalizing"
    /\ files' = [p \in DOMAIN files \ {tempPath} |-> files[p]]
    /\ failed' = failed \union {cur}
    /\ step' = "notifying"
    /\ UNCHANGED <<store, now, cur, tempPath, lastEqID, hooks, sends, countVars>>

\* mutant: a telegram that could not be archived is dropped
FinalizeGivesUp ==
    /\ step = "finalizing"
    /\ failed' = failed \union {cur}
    /\ step' = "idle"
    /\ cur' = NoTelegram
    /\ UNCHANGED <<store, files, now, tempPath, lastEqID, hooks, sends, countVars>>

\* MkdirAll or Rename returns an error: the temp file stays, and the hooks are
\* told nonetheless.
FinalizeFails ==
    /\ step = "finalizing"
    /\ failed' = failed \union {cur}
    /\ step' = "notifying"
    /\ UNCHANGED <<store, files, now, cur, tempPath, lastEqID, hooks, sends,
                   countVars>>

\* dispatchToSlack starts one goroutine per hook.
Notify ==
    /\ step = "notifying"
    /\ sends' = sends \union {[t |-> cur, hook |-> h] : h \in hooks}
    /\ step' = "idle"
    /\ cur' = NoTelegram
    /\ UNCHANGED <<store, files, now, tempPath, lastEqID, hooks, countVars,
                   failed>>

-----------------------------------------------------------------------------
Tick ==
    /\ now < MaxTime
    /\ now' = now + 1
    /\ UNCHANGED <<store, files, step, cur, tempPath, lastEqID, hooks, sends,
                   countVars, failed>>

\* The process dies and is started again.  A new Dispatcher remembers no
\* earthquake.
Crash ==
    /\ crashes < MaxCrashes
    /\ crashes' = crashes + 1
    /\ lastEqID' = NoQuake
    /\ step' = "idle"
    /\ cur' = NoTelegram
    /\ UNCHANGED <<store, files, now, tempPath, hooks, sends, received, failed>>

\* Between telegrams the goroutine waits, perhaps for good.
Quiet == step = "idle" /\ UNCHANGED vars

Process ==
    \/ CreateTemp
    \/ WriteTemp
    \/ WriteTempFails
    \/ HooksFor
    \/ Finalize
    \/ FinalizeFails
    \/ Notify

Next ==
    \/ \E t \in Telegram : Receive(t)
    \/ Process
    \/ Tick
    \/ Crash
    \/ Quiet

Spec == Init /\ [][Next]_vars

-----------------------------------------------------------------------------
(* Properties                                                              *)

TypeOK ==
    /\ store \in BOOLEAN
    /\ \A p \in DOMAIN files :
          /\ \/ p.kind = "temp" /\ p.id \in 0 .. MaxTime
             \/ p.kind = "final"
          /\ files[p].of \in Telegram
          /\ files[p].whole \in BOOLEAN
    /\ now \in 0 .. MaxTime
    /\ step \in {"idle", "creating", "writing", "decoding", "finalizing", "notifying"}
    /\ cur \in Telegram \union {NoTelegram}
    /\ (step = "idle") = (cur = NoTelegram)
    /\ step = "finalizing" => tempPath \in DOMAIN files
    /\ lastEqID \in {t.eqID : t \in Telegram} \union {NoQuake}
    /\ hooks \subseteq All \union Limited
    /\ step \in {"finalizing", "notifying"} => All \subseteq hooks
    /\ \A s \in sends : s.t \in Telegram /\ s.hook \in All \union Limited
    /\ received \in 0 .. MaxTelegrams
    /\ crashes \in 0 .. MaxCrashes
    /\ failed \subseteq Telegram

\* The viewer never finds half a telegram, or another one, under a telegram's
\* name, whatever fails and whenever the process dies (app.go:294-316,
\* store.go:37-74).
FinalsAreWhole ==
    \A p \in DOMAIN files :
        p.kind = "final" => files[p].whole /\ p = FinalPath(files[p].of)

OnDisk(t) == \E p \in DOMAIN files : files[p] = File(t, TRUE)

\* The one whole file of t had this name, and another file takes it.
WrittenOver(t, path, file) ==
    /\ \A p \in DOMAIN files : files[p] = File(t, TRUE) => p = path
    /\ path \in DOMAIN files' /\ files'[path] = file

\* A telegram that is on disk stays there, under its temporary or its final
\* name, whatever fails (MkdirAll, Rename, WriteFile) and whenever the process
\* dies.  It goes only as the telegram at hand takes the final name of both, or
\* is begun under the temporary name of both: X-WNI-Data-MD5 and the second are
\* the same, as when WNI sends it twice (store.go:40-47, 65-74).
StaysOnDisk ==
    [][\A t \in Telegram : OnDisk(t) =>
          \/ OnDisk(t)'
          \/ /\ step = "finalizing" /\ FinalPath(t) = FinalPath(cur)
             /\ WrittenOver(t, FinalPath(cur), File(cur, TRUE))
          \/ /\ step = "creating" /\ t.sum = cur.sum
             /\ WrittenOver(t, TempPath(cur), File(cur, FALSE))]_vars

\* Who was told of a telegram can look it up: unless the archive failed for it
\* or a later one has its name, its file is in place when the first send
\* starts (app.go:309-316, 82-87).
ToldMeansArchived ==
    store => \A s \in sends :
        s.t \in failed \/ FinalPath(s.t) \in DOMAIN files

\* Every earthquake some hook was told of, all limited hooks were told of,
\* although HooksFor remembers one eqID alone and takes note of it before
\* anything is sent: whatever other earthquakes and bodies without one come in
\* between, and whatever becomes of the archive meanwhile
\* (notify/dispatcher.go:32-35, app.go:307-319).
LimitedHearOfEveryQuake ==
    \A s \in sends : s.t.eqID # NoQuake =>
        \A h \in Limited : \E r \in sends : r.t.eqID = s.t.eqID /\ r.hook = h
=============================================================================
