-------------------------- MODULE ProcessorProofs --------------------------
(***************************************************************************)
(* Theorems about what becomes of a telegram, for every set of telegrams,  *)
(* all sets of hooks, and any number of telegrams, seconds and crashes.    *)
(*                                                                         *)
(* The invariant has three parts, each about what one step may rely on     *)
(* when the steps before it were done, failed, or done by a process that   *)
(* has died since: what a file in the archive is, what is known of the     *)
(* telegram at hand, and what the dispatcher's memory stands for.          *)
(***************************************************************************)
EXTENDS Processor, TLAPS

\* A file is a telegram, or part of one, under a name that tells which: its
\* sum while it is temporary; and only whole telegrams have a final name.
FilesInv ==
    \A p \in DOMAIN files :
        /\ files[p].of \in Telegram
        /\ files[p].whole \in BOOLEAN
        /\ files[p] = File(files[p].of, files[p].whole)
        /\ \/ p.kind = "temp" /\ p.id \in 0 .. MaxTime /\ p.num = files[p].of.sum
           \/ p.kind = "final" /\ files[p].whole /\ p = FinalPath(files[p].of)

\* tempPath names the telegram at hand, the whole of it or its beginning.
AtTempPath(whole) ==
    /\ tempPath # NoPath
    /\ tempPath \in DOMAIN files
    /\ tempPath.kind = "temp"
    /\ files[tempPath] = File(cur, whole)

HandInv ==
    /\ (step = "idle") = (cur = NoTelegram)
    /\ step = "writing" => AtTempPath(FALSE)
    /\ step = "decoding" => IF tempPath = NoPath THEN store => cur \in failed
                                               ELSE AtTempPath(TRUE)
    /\ step = "finalizing" => AtTempPath(TRUE)
    /\ step = "notifying" /\ store =>
          cur \in failed \/ FinalPath(cur) \in DOMAIN files
    /\ step \in {"finalizing", "notifying"} => All \subseteq hooks

\* All limited hooks were told of q.
LimitedTold(q) == \A h \in Limited : \E r \in sends : r.t.eqID = q /\ r.hook = h

\* The dispatcher remembers an earthquake once all limited hooks were told of
\* it, or while they are about to be; and a telegram that is about to be sent
\* goes to them unless they were.
MemoryInv ==
    /\ lastEqID # NoQuake =>
          \/ LimitedTold(lastEqID)
          \/ /\ step \in {"finalizing", "notifying"}
             /\ cur.eqID = lastEqID
             /\ Limited \subseteq hooks
    /\ step \in {"finalizing", "notifying"} /\ cur.eqID # NoQuake =>
          Limited \subseteq hooks \/ LimitedTold(cur.eqID)

ScalarsTyped ==
    /\ store \in BOOLEAN
    /\ now \in 0 .. MaxTime
    /\ step \in {"idle", "creating", "writing", "decoding", "finalizing", "notifying"}
    /\ cur \in Telegram \union {NoTelegram}
    /\ lastEqID \in {t.eqID : t \in Telegram} \union {NoQuake}
    /\ hooks \subseteq All \union Limited
    /\ \A s \in sends : s.t \in Telegram /\ s.hook \in All \union Limited
    /\ received \in 0 .. MaxTelegrams
    /\ crashes \in 0 .. MaxCrashes
    /\ failed \subseteq Telegram

IInv ==
    /\ ScalarsTyped
    /\ FilesInv
    /\ HandInv
    /\ MemoryInv
    /\ ToldMeansArchived
    /\ LimitedHearOfEveryQuake

-----------------------------------------------------------------------------
(* Writing and renaming a file.                                            *)

\* os.WriteFile replaces one file (store.go:43).
LEMMA Written ==
    ASSUME NEW p, NEW f, Write(p, f)
    PROVE  /\ DOMAIN files' = DOMAIN files \union {p}
           /\ files'[p] = f
           /\ \A q \in DOMAIN files : q # p => files'[q] = files[q]
BY DEF Write

\* os.Rename moves one file, over another one perhaps (store.go:70).
LEMMA Renamed ==
    ASSUME NEW from \in DOMAIN files, NEW to, from # to, Rename(from, to)
    PROVE  /\ DOMAIN files' = (DOMAIN files \ {from}) \union {to}
           /\ files'[to] = files[from]
           /\ \A q \in DOMAIN files : q # from /\ q # to => files'[q] = files[q]
BY DEF Rename

LEMMA PathFacts ==
    ASSUME now \in 0 .. MaxTime, NEW t \in Telegram
    PROVE  /\ TempPath(t).kind = "temp"
           /\ TempPath(t).id \in 0 .. MaxTime
           /\ TempPath(t).num = t.sum
           /\ TempPath(t) # NoPath
           /\ FinalPath(t).kind = "final"
BY TelegramAssumption DEF TempPath, FinalPath

LEMMA FileFacts ==
    ASSUME NEW t, NEW w
    PROVE  File(t, w).of = t /\ File(t, w).whole = w
BY DEF File

-----------------------------------------------------------------------------
(* Preservation of the invariant, one lemma per action.                    *)

LEMMA InitInv == Init => IInv
<1> SUFFICES ASSUME Init PROVE IInv
  OBVIOUS
<1>1. DOMAIN files = {}
  BY DEF Init
<1>2. ScalarsTyped
  BY BoundsAssumption DEF Init, ScalarsTyped
<1> QED
  BY <1>1, <1>2
     DEF Init, IInv, FilesInv, HandInv, MemoryInv, ToldMeansArchived,
         LimitedHearOfEveryQuake

LEMMA ReceiveInv ==
    ASSUME IInv, NEW t \in Telegram, Receive(t)
    PROVE  IInv'
<1>1. ScalarsTyped'
  BY BoundsAssumption DEF IInv, Receive, ScalarsTyped
<1>2. FilesInv'
  BY DEF IInv, Receive, FilesInv
<1>3. HandInv'
  BY TelegramAssumption DEF IInv, Receive, HandInv, ScalarsTyped
<1>4. MemoryInv'
  BY DEF IInv, Receive, MemoryInv, LimitedTold
<1>5. ToldMeansArchived' /\ LimitedHearOfEveryQuake'
  BY DEF IInv, Receive, ToldMeansArchived, LimitedHearOfEveryQuake
<1> QED BY <1>1, <1>2, <1>3, <1>4, <1>5 DEF IInv

\* Where a file under a temporary name is written, no file under a final name
\* changes.
LEMMA TempWritten ==
    ASSUME IInv, NEW p, NEW whole \in BOOLEAN, cur \in Telegram,
           p.kind = "temp", p.id \in 0 .. MaxTime, p.num = cur.sum,
           Write(p, File(cur, whole))
    PROVE  FilesInv' /\ DOMAIN files \subseteq DOMAIN files'
<1>1. /\ DOMAIN files' = DOMAIN files \union {p}
      /\ files'[p] = File(cur, whole)
      /\ \A q \in DOMAIN files : q # p => files'[q] = files[q]
  BY Written
<1>2. File(cur, whole).of = cur /\ File(cur, whole).whole = whole
  BY FileFacts
<1> QED BY <1>1, <1>2 DEF IInv, FilesInv

LEMMA CreateTempInv ==
    ASSUME IInv, CreateTemp
    PROVE  IInv'
<1>1. cur \in Telegram /\ now \in 0 .. MaxTime
  BY DEF IInv, CreateTemp, ScalarsTyped, HandInv
<1>2. /\ TempPath(cur).kind = "temp"
      /\ TempPath(cur).id \in 0 .. MaxTime
      /\ TempPath(cur).num = cur.sum
  BY <1>1, PathFacts
<1>3. Write(TempPath(cur), File(cur, FALSE))
  BY DEF CreateTemp
<1>4. ScalarsTyped'
  BY DEF IInv, CreateTemp, ScalarsTyped, countVars
<1>5. FilesInv' /\ DOMAIN files \subseteq DOMAIN files'
  BY <1>1, <1>2, <1>3, TempWritten
<1>6. HandInv'
  <2>1. AtTempPath(FALSE)'
    BY <1>1, <1>2, <1>3, PathFacts, Written DEF CreateTemp, AtTempPath
  <2> QED BY <2>1 DEF IInv, CreateTemp, HandInv, ScalarsTyped
<1>7. MemoryInv'
  BY DEF IInv, CreateTemp, MemoryInv, LimitedTold
<1>8. ToldMeansArchived' /\ LimitedHearOfEveryQuake'
  BY <1>5 DEF IInv, CreateTemp, ToldMeansArchived, LimitedHearOfEveryQuake, FinalPath
<1> QED BY <1>4, <1>5, <1>6, <1>7, <1>8 DEF IInv

LEMMA WriteTempInv ==
    ASSUME IInv, WriteTemp
    PROVE  IInv'
<1>1. cur \in Telegram /\ AtTempPath(FALSE)
  BY DEF IInv, WriteTemp, ScalarsTyped, HandInv
<1>2. /\ tempPath.kind = "temp"
      /\ tempPath.id \in 0 .. MaxTime
      /\ tempPath.num = cur.sum
  <2>1. files[tempPath].of = cur /\ tempPath \in DOMAIN files /\ tempPath.kind = "temp"
    BY <1>1, FileFacts DEF AtTempPath
  <2> QED BY <2>1 DEF IInv, FilesInv, FinalPath
<1>3. Write(tempPath, File(cur, TRUE))
  BY DEF WriteTemp
<1>4. ScalarsTyped'
  BY DEF IInv, WriteTemp, ScalarsTyped, countVars
<1>5. FilesInv' /\ DOMAIN files \subseteq DOMAIN files'
  BY <1>1, <1>2, <1>3, TempWritten
<1>6. HandInv'
  <2>1. AtTempPath(TRUE)'
    BY <1>1, <1>2, <1>3, Written DEF WriteTemp, AtTempPath
  <2>2. tempPath' # NoPath
    BY <2>1 DEF AtTempPath
  <2> QED BY <2>1, <2>2 DEF IInv, WriteTemp, HandInv, ScalarsTyped
<1>7. MemoryInv'
  BY DEF IInv, WriteTemp, MemoryInv, LimitedTold
<1>8. ToldMeansArchived' /\ LimitedHearOfEveryQuake'
  BY <1>5 DEF IInv, WriteTemp, ToldMeansArchived, LimitedHearOfEveryQuake, FinalPath
<1> QED BY <1>4, <1>5, <1>6, <1>7, <1>8 DEF IInv

LEMMA WriteTempFailsInv ==
    ASSUME IInv, WriteTempFails
    PROVE  IInv'
<1>1. cur \in Telegram
  BY DEF IInv, WriteTempFails, ScalarsTyped, HandInv
<1>2. ScalarsTyped'
  BY <1>1 DEF IInv, WriteTempFails, ScalarsTyped, countVars
<1>3. FilesInv'
  BY DEF IInv, WriteTempFails, FilesInv
<1>4. HandInv'
  BY DEF IInv, WriteTempFails, ForgetTemp, HandInv
<1>5. MemoryInv'
  BY DEF IInv, WriteTempFails, MemoryInv, LimitedTold
<1>6. ToldMeansArchived' /\ LimitedHearOfEveryQuake'
  BY DEF IInv, WriteTempFails, ToldMeansArchived, LimitedHearOfEveryQuake
<1> QED BY <1>2, <1>3, <1>4, <1>5, <1>6 DEF IInv

LEMMA HooksForInv ==
    ASSUME IInv, HooksFor
    PROVE  IInv'
<1>1. cur \in Telegram
  BY DEF IInv, HooksFor, ScalarsTyped, HandInv
<1>2. step' \in {"finalizing", "notifying"} /\ All \subseteq hooks' /\ hooks' \subseteq All \union Limited
  BY DEF HooksFor, AfterHooks, HooksOf
<1>3. ScalarsTyped'
  BY <1>1, <1>2 DEF IInv, HooksFor, ScalarsTyped, countVars
<1>4. FilesInv'
  BY DEF IInv, HooksFor, FilesInv
<1>5. HandInv'
  <2>1. CASE tempPath = NoPath
    BY <1>1, <1>2, <2>1, TelegramAssumption DEF IInv, HooksFor, AfterHooks, HandInv
  <2>2. CASE tempPath # NoPath
    BY <1>1, <1>2, <2>2, TelegramAssumption
       DEF IInv, HooksFor, AfterHooks, HandInv, AtTempPath
  <2> QED BY <2>1, <2>2
<1>6. MemoryInv'
  <2>1. CASE LimitedFires(cur)
    <3>1. lastEqID' = cur.eqID /\ Limited \subseteq hooks' /\ cur' = cur
      BY <2>1 DEF HooksFor, HooksOf
    <3> QED BY <1>2, <3>1 DEF MemoryInv
  <2>2. CASE ~LimitedFires(cur)
    <3>1. lastEqID' = lastEqID /\ cur.eqID = lastEqID /\ cur' = cur
      BY <2>2 DEF HooksFor, LimitedFires
    <3>2. lastEqID # NoQuake => LimitedTold(lastEqID)
      BY DEF IInv, HooksFor, MemoryInv
    <3>3. lastEqID # NoQuake => LimitedTold(lastEqID)'
      BY <3>1, <3>2 DEF HooksFor, LimitedTold
    <3> QED BY <3>1, <3>3 DEF MemoryInv, LimitedTold
  <2> QED BY <2>1, <2>2
<1>7. ToldMeansArchived' /\ LimitedHearOfEveryQuake'
  BY DEF IInv, HooksFor, ToldMeansArchived, LimitedHearOfEveryQuake
<1> QED BY <1>3, <1>4, <1>5, <1>6, <1>7 DEF IInv

LEMMA FinalizeInv ==
    ASSUME IInv, Finalize
    PROVE  IInv'
<1>1. cur \in Telegram /\ AtTempPath(TRUE)
  BY DEF IInv, Finalize, ScalarsTyped, HandInv
<1>2. FinalPath(cur).kind = "final"
  BY <1>1 DEF FinalPath
<1>3. tempPath \in DOMAIN files /\ tempPath # FinalPath(cur)
  BY <1>1, <1>2 DEF AtTempPath
<1>4. /\ DOMAIN files' = (DOMAIN files \ {tempPath}) \union {FinalPath(cur)}
      /\ files'[FinalPath(cur)] = File(cur, TRUE)
      /\ \A q \in DOMAIN files : q # tempPath /\ q # FinalPath(cur) => files'[q] = files[q]
  BY <1>1, <1>3, Renamed DEF Finalize, AtTempPath
<1>5. ScalarsTyped'
  BY DEF IInv, Finalize, ScalarsTyped, countVars
<1>6. FilesInv'
  <2>1. ASSUME NEW q \in DOMAIN files', q # FinalPath(cur)
        PROVE  q \in DOMAIN files /\ files'[q] = files[q]
    BY <1>4, <2>1
  <2>2. /\ files'[FinalPath(cur)].of = cur
        /\ files'[FinalPath(cur)].whole = TRUE
        /\ files'[FinalPath(cur)] = File(cur, TRUE)
    BY <1>4 DEF File
  <2>3. ASSUME NEW q \in DOMAIN files'
        PROVE  /\ files'[q].of \in Telegram
               /\ files'[q].whole \in BOOLEAN
               /\ files'[q] = File(files'[q].of, files'[q].whole)
               /\ \/ q.kind = "temp" /\ q.id \in 0 .. MaxTime /\ q.num = files'[q].of.sum
                  \/ q.kind = "final" /\ files'[q].whole /\ q = FinalPath(files'[q].of)
    <3>1. CASE q = FinalPath(cur)
      BY <1>1, <1>2, <2>2, <3>1
    <3>2. CASE q # FinalPath(cur)
      BY <2>1, <3>2 DEF IInv, FilesInv
    <3> QED BY <3>1, <3>2
  <2> QED BY <2>3 DEF FilesInv, File, FinalPath
<1>7. HandInv'
  BY <1>1, <1>4, TelegramAssumption DEF IInv, Finalize, HandInv
<1>8. MemoryInv'
  BY DEF IInv, Finalize, MemoryInv, LimitedTold
<1>9. ToldMeansArchived'
  <2>1. \A t \in Telegram : FinalPath(t) \in DOMAIN files => FinalPath(t) \in DOMAIN files'
    BY <1>1, <1>4 DEF AtTempPath, FinalPath
  <2> QED BY <2>1 DEF IInv, Finalize, ToldMeansArchived, ScalarsTyped, FinalPath
<1>10. LimitedHearOfEveryQuake'
  BY DEF IInv, Finalize, LimitedHearOfEveryQuake
<1> QED BY <1>5, <1>6, <1>7, <1>8, <1>9, <1>10 DEF IInv

LEMMA FinalizeFailsInv ==
    ASSUME IInv, FinalizeFails
    PROVE  IInv'
<1>1. cur \in Telegram
  BY DEF IInv, FinalizeFails, ScalarsTyped, HandInv
<1>2. ScalarsTyped'
  BY <1>1 DEF IInv, FinalizeFails, ScalarsTyped, countVars
<1>3. FilesInv'
  BY DEF IInv, FinalizeFails, FilesInv
<1>4. HandInv'
  BY DEF IInv, FinalizeFails, HandInv
<1>5. MemoryInv'
  BY DEF IInv, FinalizeFails, MemoryInv, LimitedTold
<1>6. ToldMeansArchived' /\ LimitedHearOfEveryQuake'
  BY DEF IInv, FinalizeFails, ToldMeansArchived, LimitedHearOfEveryQuake
<1> QED BY <1>2, <1>3, <1>4, <1>5, <1>6 DEF IInv

LEMMA NotifyInv ==
    ASSUME IInv, Notify
    PROVE  IInv'
<1>1. /\ cur \in Telegram
      /\ hooks \subseteq All \union Limited
      /\ sends' = sends \union {[t |-> cur, hook |-> h] : h \in hooks}
  BY DEF IInv, Notify, ScalarsTyped, HandInv
<1>2. \A s \in sends' : s \in sends \/ (s.t = cur /\ s.hook \in hooks)
  BY <1>1
<1>3. ASSUME NEW q, LimitedTold(q) PROVE LimitedTold(q)'
  BY <1>1, <1>3 DEF LimitedTold
<1>4. ASSUME Limited \subseteq hooks, NEW q, q = cur.eqID PROVE LimitedTold(q)'
  <2>1. ASSUME NEW h \in Limited
        PROVE  \E r \in sends' : r.t.eqID = q /\ r.hook = h
    <3>1. [t |-> cur, hook |-> h] \in sends'
      BY <1>1, <1>4
    <3> QED BY <1>4, <3>1
  <2> QED BY <2>1 DEF LimitedTold
<1>5. ASSUME cur.eqID # NoQuake, NEW q, q = cur.eqID PROVE LimitedTold(q)'
  BY <1>3, <1>4, <1>5 DEF IInv, Notify, MemoryInv
<1>6. ScalarsTyped'
  BY <1>1, <1>2 DEF IInv, Notify, ScalarsTyped, countVars
<1>7. FilesInv'
  BY DEF IInv, Notify, FilesInv
<1>8. HandInv'
  BY DEF IInv, Notify, HandInv
<1>9. MemoryInv'
  <2>1. ASSUME lastEqID # NoQuake, NEW q, q = lastEqID PROVE LimitedTold(q)'
    BY <1>3, <1>4, <2>1 DEF IInv, Notify, MemoryInv
  <2>2. step' = "idle" /\ lastEqID' = lastEqID
    BY DEF Notify
  <2> QED BY <2>1, <2>2 DEF MemoryInv, LimitedTold
<1>10. ToldMeansArchived'
  BY <1>2 DEF IInv, Notify, ToldMeansArchived, HandInv
<1>11. LimitedHearOfEveryQuake'
  <2>1. ASSUME NEW s \in sends', s.t.eqID # NoQuake PROVE LimitedTold(s.t.eqID)'
    <3>1. CASE s \in sends
      <4>1. LimitedTold(s.t.eqID)
        BY <2>1, <3>1 DEF IInv, LimitedHearOfEveryQuake, LimitedTold
      <4> QED BY <1>3, <4>1
    <3>2. CASE s.t = cur
      BY <1>5, <2>1, <3>2
    <3> QED BY <1>2, <3>1, <3>2
  <2> QED BY <2>1 DEF LimitedHearOfEveryQuake, LimitedTold
<1> QED BY <1>6, <1>7, <1>8, <1>9, <1>10, <1>11 DEF IInv

\* After a crash nothing is at hand, and nothing is remembered either.
LEMMA CrashInv ==
    ASSUME IInv, Crash
    PROVE  IInv'
<1>1. ScalarsTyped'
  BY BoundsAssumption DEF IInv, Crash, ScalarsTyped
<1>2. FilesInv'
  BY DEF IInv, Crash, FilesInv
<1>3. HandInv'
  BY DEF IInv, Crash, HandInv
<1>4. MemoryInv'
  BY DEF IInv, Crash, MemoryInv
<1>5. ToldMeansArchived' /\ LimitedHearOfEveryQuake'
  BY DEF IInv, Crash, ToldMeansArchived, LimitedHearOfEveryQuake
<1> QED BY <1>1, <1>2, <1>3, <1>4, <1>5 DEF IInv

LEMMA TickInv ==
    ASSUME IInv, Tick
    PROVE  IInv'
<1>1. ScalarsTyped'
  BY BoundsAssumption DEF IInv, Tick, ScalarsTyped, countVars
<1>2. FilesInv' /\ HandInv' /\ MemoryInv'
  BY DEF IInv, Tick, FilesInv, HandInv, AtTempPath, MemoryInv, LimitedTold
<1>3. ToldMeansArchived' /\ LimitedHearOfEveryQuake'
  BY DEF IInv, Tick, ToldMeansArchived, LimitedHearOfEveryQuake
<1> QED BY <1>1, <1>2, <1>3 DEF IInv

LEMMA NextInv == IInv /\ [Next]_vars => IInv'
<1> SUFFICES ASSUME IInv, [Next]_vars PROVE IInv'
  OBVIOUS
<1>1. ASSUME UNCHANGED vars PROVE IInv'
  <2>1. ScalarsTyped' /\ FilesInv'
    BY <1>1 DEF vars, countVars, IInv, ScalarsTyped, FilesInv
  <2>2. HandInv' /\ MemoryInv'
    BY <1>1 DEF vars, countVars, IInv, HandInv, AtTempPath, MemoryInv, LimitedTold
  <2>3. ToldMeansArchived' /\ LimitedHearOfEveryQuake'
    BY <1>1 DEF vars, countVars, IInv, ToldMeansArchived, LimitedHearOfEveryQuake
  <2> QED BY <2>1, <2>2, <2>3 DEF IInv
<1> QED
  BY <1>1, ReceiveInv, CreateTempInv, WriteTempInv, WriteTempFailsInv, HooksForInv,
     FinalizeInv, FinalizeFailsInv, NotifyInv, CrashInv, TickInv
     DEF Next, Process, Quiet

LEMMA Invariance == Spec => []IInv
<1> QED BY InitInv, NextInv, PTL DEF Spec

-----------------------------------------------------------------------------
(* A telegram that is on disk stays there.                                 *)

\* The exceptions StaysOnDisk makes for telegram t.
GivesWay(t) ==
    \/ /\ step = "finalizing" /\ FinalPath(t) = FinalPath(cur)
       /\ WrittenOver(t, FinalPath(cur), File(cur, TRUE))
    \/ /\ step = "creating" /\ t.sum = cur.sum
       /\ WrittenOver(t, TempPath(cur), File(cur, FALSE))

KeepsFiles ==
    \A t \in Telegram : OnDisk(t) => OnDisk(t)' \/ GivesWay(t)

LEMMA CreateTempKeepsFiles ==
    ASSUME IInv, CreateTemp
    PROVE  KeepsFiles
<1>1. cur \in Telegram /\ now \in 0 .. MaxTime /\ step = "creating"
  BY DEF IInv, CreateTemp, ScalarsTyped, HandInv
<1>2. /\ DOMAIN files' = DOMAIN files \union {TempPath(cur)}
      /\ files'[TempPath(cur)] = File(cur, FALSE)
      /\ \A q \in DOMAIN files : q # TempPath(cur) => files'[q] = files[q]
  BY Written DEF CreateTemp
<1>3. ASSUME NEW t \in Telegram, OnDisk(t), ~OnDisk(t)'
      PROVE  GivesWay(t)
  <2>1. \A p \in DOMAIN files : files[p] = File(t, TRUE) => p = TempPath(cur)
    BY <1>2, <1>3 DEF OnDisk, File
  <2>2. PICK p \in DOMAIN files : files[p] = File(t, TRUE)
    BY <1>3 DEF OnDisk
  <2>3. p.kind = "temp" /\ p.num = cur.sum
    BY <1>1, <2>1, <2>2, PathFacts
  <2>4. files[p].of = t
    BY <2>2 DEF File
  <2>5. t.sum = cur.sum
    BY <2>3, <2>4 DEF IInv, FilesInv
  <2> QED BY <1>1, <1>2, <2>1, <2>5 DEF GivesWay, WrittenOver
<1> QED BY <1>3 DEF KeepsFiles

\* The file that is written over held the beginning of the telegram only.
LEMMA WriteTempKeepsFiles ==
    ASSUME IInv, WriteTemp
    PROVE  KeepsFiles
<1>1. AtTempPath(FALSE)
  BY DEF IInv, WriteTemp, HandInv
<1>2. /\ DOMAIN files' = DOMAIN files \union {tempPath}
      /\ \A q \in DOMAIN files : q # tempPath => files'[q] = files[q]
  BY Written DEF WriteTemp
<1>3. ASSUME NEW t \in Telegram, NEW p \in DOMAIN files, files[p] = File(t, TRUE)
      PROVE  OnDisk(t)'
  <2>1. p # tempPath
    BY <1>1, <1>3 DEF AtTempPath, File
  <2> QED BY <1>2, <1>3, <2>1 DEF OnDisk, File
<1> QED BY <1>3 DEF KeepsFiles, OnDisk

LEMMA FinalizeKeepsFiles ==
    ASSUME IInv, Finalize
    PROVE  KeepsFiles
<1>1. AtTempPath(TRUE) /\ cur \in Telegram /\ step = "finalizing"
  BY DEF IInv, Finalize, HandInv, ScalarsTyped
<1>2. tempPath \in DOMAIN files /\ tempPath # FinalPath(cur)
  BY <1>1 DEF AtTempPath, FinalPath
<1>3. /\ DOMAIN files' = (DOMAIN files \ {tempPath}) \union {FinalPath(cur)}
      /\ files'[FinalPath(cur)] = File(cur, TRUE)
      /\ \A q \in DOMAIN files : q # tempPath /\ q # FinalPath(cur) => files'[q] = files[q]
  BY <1>1, <1>2, Renamed DEF Finalize, AtTempPath
<1>4. ASSUME NEW t \in Telegram, OnDisk(t), ~OnDisk(t)'
      PROVE  GivesWay(t)
  <2>1. ASSUME NEW p \in DOMAIN files, files[p] = File(t, TRUE)
        PROVE  p = FinalPath(cur)
    <3>1. CASE p = tempPath
      <4>1. files[p].of = t
        BY <2>1 DEF File
      <4>2. files[tempPath].of = cur
        BY <1>1, FileFacts DEF AtTempPath
      <4> QED BY <1>3, <1>4, <3>1, <4>1, <4>2 DEF OnDisk, File
    <3>2. CASE p # tempPath /\ p # FinalPath(cur)
      BY <1>3, <1>4, <2>1, <3>2 DEF OnDisk, File
    <3> QED BY <3>1, <3>2
  <2>2. PICK p \in DOMAIN files : files[p] = File(t, TRUE)
    BY <1>4 DEF OnDisk
  <2>3. files[p].of = t /\ p.kind = "final"
    BY <2>1, <2>2 DEF File, FinalPath
  <2>4. FinalPath(t) = FinalPath(cur)
    BY <2>1, <2>2, <2>3 DEF IInv, FilesInv
  <2> QED BY <1>1, <1>3, <2>1, <2>4 DEF GivesWay, WrittenOver
<1> QED BY <1>4 DEF KeepsFiles

LEMMA NextKeepsFiles == IInv /\ [Next]_vars => [KeepsFiles]_vars
<1> SUFFICES ASSUME IInv, Next PROVE KeepsFiles \/ UNCHANGED vars
  OBVIOUS
<1>1. ASSUME UNCHANGED files PROVE KeepsFiles
  BY <1>1 DEF KeepsFiles, OnDisk, File
<1>2. ASSUME \/ \E t \in Telegram : Receive(t)
             \/ WriteTempFails \/ HooksFor \/ FinalizeFails \/ Notify \/ Tick \/ Crash
      PROVE  UNCHANGED files
  BY <1>2 DEF Receive, WriteTempFails, HooksFor, FinalizeFails, Notify, Tick, Crash
<1> QED
  BY <1>1, <1>2, CreateTempKeepsFiles, WriteTempKeepsFiles, FinalizeKeepsFiles
     DEF Next, Process, Quiet

-----------------------------------------------------------------------------
(* The theorems.                                                           *)

\* Every variable keeps its type; tempPath names a file that exists whenever
\* it is about to be renamed (app.go:294-316).
THEOREM TypeCorrect == Spec => []TypeOK
<1>1. IInv => TypeOK
  BY DEF IInv, ScalarsTyped, FilesInv, HandInv, AtTempPath, TypeOK
<1> QED BY <1>1, Invariance, PTL

\* A name in the archive never stands for half a telegram or for another one,
\* wherever the process dies and whatever fails (app.go:294-316,
\* store.go:37-74).
THEOREM FinalsAreAlwaysWhole == Spec => []FinalsAreWhole
<1>1. IInv => FinalsAreWhole
  BY DEF IInv, FilesInv, FinalsAreWhole
<1> QED BY <1>1, Invariance, PTL

\* The archive comes before the hooks: what was sent can be looked up, unless
\* archiving it failed (app.go:309-316, 82-87).
THEOREM ToldAreArchived == Spec => []ToldMeansArchived
<1>1. IInv => ToldMeansArchived
  BY DEF IInv
<1> QED BY <1>1, Invariance, PTL

\* No order of reports, no failure of the archive and no crash leaves the
\* limited hooks out of an earthquake the other hooks were told of, although
\* one eqID is all that is remembered (notify/dispatcher.go:32-35).
THEOREM LimitedHearToo == Spec => []LimitedHearOfEveryQuake
<1>1. IInv => LimitedHearOfEveryQuake
  BY DEF IInv
<1> QED BY <1>1, Invariance, PTL

\* Neither a failure nor a crash takes a telegram off the disk, the one at hand
\* included: only a telegram that comes to lie under the very name does, the
\* whole of it under a final name or its beginning under a temporary one
\* (store.go:40-47, 65-74).
THEOREM FilesStayOnDisk == Spec => StaysOnDisk
<1>1. KeepsFiles =>
        \A t \in Telegram : OnDisk(t) =>
          \/ OnDisk(t)'
          \/ /\ step = "finalizing" /\ FinalPath(t) = FinalPath(cur)
             /\ WrittenOver(t, FinalPath(cur), File(cur, TRUE))
          \/ /\ step = "creating" /\ t.sum = cur.sum
             /\ WrittenOver(t, TempPath(cur), File(cur, FALSE))
  BY DEF KeepsFiles, GivesWay
<1> QED BY <1>1, Invariance, NextKeepsFiles, PTL DEF Spec, StaysOnDisk

=============================================================================
