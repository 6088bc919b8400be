-------------------------- MODULE SlackSendProofs --------------------------
(***************************************************************************)
(* Theorems about the sends to one Slack hook, for every finite set of     *)
(* sends, every number of attempts, and all times that stand in the        *)
(* relation of those in the code.                                          *)
(*                                                                         *)
(* The invariant keeps three accounts for each send: of its messages, of   *)
(* its time, and, for a reliable hook, of the other messages that got its  *)
(* attempts refused.                                                       *)
(***************************************************************************)
EXTENDS SlackSend, FiniteSetTheorems, TLAPS

\* The message appears at most once for each attempt that has ended, and once
\* more than 5xx answers deny only when the send has returned.
MessageAccount(s) ==
    /\ posted[s] \in Nat /\ denied[s] \in Nat
    /\ pc[s] \in {"idle", "request", "waiting"} => posted[s] <= denied[s]
    /\ posted[s] <= 1 + denied[s]
    /\ denied[s] <= attempt[s] /\ posted[s] <= attempt[s]
    /\ pc[s] = "request" => denied[s] < attempt[s]

\* Of the deadline, what is not left was spent on requests or on at most one
\* wait of at most MaxWait after each attempt.
TimeAccount(s) ==
    /\ timer[s] \in Nat /\ left[s] \in 0 .. Deadline /\ spent[s] \in Nat
    /\ spent[s] + left[s] <= Deadline
    /\ pc[s] = "idle" => spent[s] + left[s] = 0
    /\ pc[s] = "request" =>
          /\ attempt[s] \in 1 .. MaxAttempts
          /\ timer[s] <= RequestTimeout /\ timer[s] <= left[s]
          /\ timer[s] = left[s] \/ spent[s] >= RequestTimeout - timer[s]
          /\ spent[s] + left[s] >= Deadline - (attempt[s] - 1) * MaxWait
    /\ pc[s] = "waiting" =>
          /\ attempt[s] \in 1 .. MaxAttempts - 1
          /\ timer[s] <= MaxWait
          /\ spent[s] + left[s] >= Deadline - attempt[s] * MaxWait + timer[s]

Sent == {s \in Send : pc[s] = "sent"}

\* A reliable hook takes no time, and refuses an attempt only for another
\* message that it accepted since the attempt before.
RefusalAccount(s) ==
    ~erring =>
        /\ spent[s] = 0
        /\ pc[s] # "failed"
        /\ pc[s] = "request" =>
              /\ timer[s] > 0
              /\ attempt[s] - 1 <= Cardinality(Sent)
              /\ cool > 0 => attempt[s] <= Cardinality(Sent)
        /\ pc[s] = "waiting" =>
              /\ attempt[s] <= Cardinality(Sent)
              /\ timer[s] < cool => attempt[s] < Cardinality(Sent)

TypesInv ==
    /\ pc \in [Send -> {"idle", "request", "waiting", "sent", "failed"}]
    /\ attempt \in [Send -> 0 .. MaxAttempts]
    /\ timer \in [Send -> Nat]
    /\ left \in [Send -> 0 .. Deadline]
    /\ erring \in BOOLEAN
    /\ cool \in 0 .. Period
    /\ posted \in [Send -> Nat]
    /\ denied \in [Send -> Nat]
    /\ spent \in [Send -> Nat]
    /\ last \in [Send -> {"none", "accepted", "refused", "rejected", "broken", "late"}]

SendInv(s) ==
    /\ MessageAccount(s)
    /\ TimeAccount(s)
    /\ timer[s] <= RequestTimeout \/ timer[s] <= MaxWait
    /\ attempt[s] \in 0 .. MaxAttempts
    /\ pc[s] = "idle" => attempt[s] = 0
    /\ pc[s] = "failed" /\ last[s] \in {"refused", "late"} =>
            \/ attempt[s] = MaxAttempts /\ last[s] = "refused"
            \/ spent[s] >= Deadline - (MaxAttempts - 1) * MaxWait

\* The counting argument is about as many sends as there are attempts.
BurstInv ==
    Cardinality(Send) <= MaxAttempts =>
        /\ ~erring /\ cool > 0 => Cardinality(Sent) > 0
        /\ \A s \in Send : RefusalAccount(s)

IInv == TypesInv /\ (\A s \in Send : SendInv(s)) /\ BurstInv

-----------------------------------------------------------------------------
(* Waits.                                                                  *)

\* n waits take no longer than m, if n <= m.
LEMMA WaitSums ==
    ASSUME NEW n \in Nat, NEW m \in Nat, n <= m
    PROVE  /\ n * MaxWait \in Nat
           /\ n * MaxWait <= m * MaxWait
           /\ (n + 1) * MaxWait = n * MaxWait + MaxWait
<1>1. MaxWait \in Nat
  BY TimesAssumption
<1>2. m * MaxWait = n * MaxWait + (m - n) * MaxWait
  BY <1>1
<1>3. n * MaxWait \in Nat /\ (m - n) * MaxWait \in Nat
  BY <1>1
<1>4. m * MaxWait \in Nat /\ n * MaxWait <= m * MaxWait
  BY <1>2, <1>3
<1> QED BY <1>1, <1>3, <1>4

\* Whatever Retry-After asks for, a wait is neither negative nor longer than
\* maxRetryWait, and one without it is as long as defaultRetryWait at least
\* (notifier.go:104-110, 146-160).
LEMMA WaitBounds ==
    ASSUME NEW asked \in Int, NEW n \in Nat \ {0}
    PROVE  /\ WaitFor(asked, n) \in 0 .. MaxWait
           /\ asked > 0 /\ asked <= MaxWait => WaitFor(asked, n) = asked
           /\ asked <= 0 => Period <= WaitFor(asked, n)
<1>1. MaxWait \in Nat /\ DefaultWait \in Nat /\ Period <= DefaultWait /\ Period <= MaxWait
      /\ Period \in Nat
  BY TimesAssumption
<1>2. DefaultWait * n \in Nat /\ DefaultWait <= DefaultWait * n
  <2>1. n - 1 \in Nat /\ DefaultWait * n = DefaultWait * (n - 1) + DefaultWait
    BY <1>1
  <2>2. DefaultWait * (n - 1) \in Nat
    BY <1>1, <2>1
  <2> QED BY <1>1, <2>1, <2>2
<1> QED BY <1>1, <1>2 DEF WaitFor, Least

LEMMA HeaderParsed ==
    ASSUME NEW h \in RetryAfter(Int)
    PROVE  ParseRetryAfter(h) \in Int
BY DEF RetryAfter, ParseRetryAfter

-----------------------------------------------------------------------------
(* What a step does to the sends it is not about, and to the one it is.    *)

Same(t) ==
    /\ pc'[t] = pc[t] /\ attempt'[t] = attempt[t] /\ timer'[t] = timer[t]
    /\ left'[t] = left[t] /\ posted'[t] = posted[t] /\ denied'[t] = denied[t]
    /\ spent'[t] = spent[t] /\ last'[t] = last[t]

LEMMA OthersKeep ==
    ASSUME NEW t \in Send, SendInv(t), Same(t)
    PROVE  SendInv(t)'
BY DEF Same, SendInv, MessageAccount, TimeAccount

\* A refusal ends the send or is followed by a wait.
LEMMA RefusedStep ==
    ASSUME TypesInv, NEW s \in Send, SendInv(s), pc[s] = "request",
           NEW h \in RetryAfter(Int), Refused(s, h)
    PROVE  /\ last' = [last EXCEPT ![s] = "refused"]
           /\ UNCHANGED <<attempt, left, erring, spent>>
           /\ \/ /\ attempt[s] = MaxAttempts
                 /\ pc' = [pc EXCEPT ![s] = "failed"]
                 /\ UNCHANGED timer
              \/ /\ attempt[s] \in 1 .. MaxAttempts - 1
                 /\ pc' = [pc EXCEPT ![s] = "waiting"]
                 /\ timer' = [timer EXCEPT ![s] = WaitFor(ParseRetryAfter(h), attempt[s])]
                 /\ WaitFor(ParseRetryAfter(h), attempt[s]) \in 0 .. MaxWait
<1>1. attempt[s] \in 1 .. MaxAttempts /\ MaxAttempts \in Nat
  BY TimesAssumption DEF SendInv, TimeAccount
<1>2. WaitFor(ParseRetryAfter(h), attempt[s]) \in 0 .. MaxWait
  BY <1>1, HeaderParsed, WaitBounds
<1> QED BY <1>1, <1>2 DEF Refused, IsLast

LEMMA BeginStep ==
    ASSUME TypesInv, NEW s \in Send, SendInv(s), Begin(s)
    PROVE  TypesInv' /\ SendInv(s)' /\ \A t \in Send \ {s} : Same(t)
<1>1. RequestTimer(Deadline) \in 0 .. RequestTimeout /\ RequestTimer(Deadline) <= Deadline
      /\ \/ RequestTimer(Deadline) = Deadline \/ RequestTimer(Deadline) = RequestTimeout
  BY TimesAssumption DEF RequestTimer, Least
<1>2. Deadline \in Nat \ {0} /\ MaxAttempts \in Nat \ {0} /\ RequestTimeout \in Nat
  BY TimesAssumption
<1>3. /\ pc' = [pc EXCEPT ![s] = "request"]
      /\ attempt' = [attempt EXCEPT ![s] = 1]
      /\ timer' = [timer EXCEPT ![s] = RequestTimer(Deadline)]
      /\ left' = [left EXCEPT ![s] = Deadline]
      /\ UNCHANGED <<erring, cool, posted, denied, spent, last>>
      /\ pc[s] = "idle"
  BY DEF Begin
<1>4. TypesInv'
  BY <1>1, <1>2, <1>3 DEF TypesInv
<1>5. /\ pc'[s] = "request" /\ attempt'[s] = 1 /\ timer'[s] = RequestTimer(Deadline)
      /\ left'[s] = Deadline /\ posted'[s] = posted[s] /\ denied'[s] = denied[s]
      /\ spent'[s] = spent[s] /\ last'[s] = last[s]
  BY <1>3 DEF TypesInv
<1>6. spent[s] = 0 /\ posted[s] = 0 /\ denied[s] = 0
  BY <1>3 DEF SendInv, MessageAccount, TimeAccount
<1>7. MessageAccount(s)'
  BY <1>5, <1>6 DEF MessageAccount
<1>8. TimeAccount(s)'
  <2>1. (1 - 1) * MaxWait = 0
    BY TimesAssumption
  <2> QED BY <1>1, <1>2, <1>5, <1>6, <2>1 DEF TimeAccount
<1>9. SendInv(s)'
  BY <1>1, <1>2, <1>5, <1>7, <1>8 DEF SendInv
<1>10. \A t \in Send \ {s} : Same(t)
  BY <1>3 DEF TypesInv, Same
<1> QED BY <1>4, <1>9, <1>10

\* An answer or a broken connection ends the send, and the message appears or
\* does not.
LEMMA ReturnStep ==
    ASSUME TypesInv, NEW s \in Send, SendInv(s), pc[s] = "request",
           NEW where \in {"sent", "failed"}, NEW how \in {"accepted", "rejected", "broken"},
           NEW so \in BOOLEAN, Appears(s, so) \/ UNCHANGED posted,
           Return(s, where, how), UNCHANGED denied, cool' \in 0 .. Period
    PROVE  TypesInv' /\ SendInv(s)' /\ \A t \in Send \ {s} : Same(t)
<1>1. /\ pc' = [pc EXCEPT ![s] = where]
      /\ last' = [last EXCEPT ![s] = how]
      /\ UNCHANGED <<attempt, timer, left, erring, spent, denied>>
  BY DEF Return
<1>2. /\ posted' \in [Send -> Nat]
      /\ posted'[s] \in {posted[s], posted[s] + 1}
      /\ \A t \in Send \ {s} : posted'[t] = posted[t]
  BY DEF Appears, TypesInv
<1>3. TypesInv'
  BY <1>1, <1>2 DEF TypesInv
<1>4. /\ pc'[s] = where /\ attempt'[s] = attempt[s] /\ timer'[s] = timer[s]
      /\ left'[s] = left[s] /\ denied'[s] = denied[s]
      /\ spent'[s] = spent[s] /\ last'[s] = how
  BY <1>1 DEF TypesInv
<1>5. MessageAccount(s)'
  BY <1>2, <1>4 DEF SendInv, MessageAccount, TimeAccount
<1>6. TimeAccount(s)'
  BY <1>4 DEF SendInv, TimeAccount
<1>7. SendInv(s)'
  BY <1>4, <1>5, <1>6 DEF SendInv
<1>8. \A t \in Send \ {s} : Same(t)
  BY <1>1, <1>2 DEF TypesInv, Same
<1> QED BY <1>3, <1>7, <1>8

\* 429 or 5xx: the message appears only if a 5xx denies it.
LEMMA RefusalStep ==
    ASSUME TypesInv, NEW s \in Send, SendInv(s), pc[s] = "request",
           NEW h \in RetryAfter(Int), Refused(s, h), UNCHANGED cool,
           \/ UNCHANGED <<posted, denied>>
           \/ \E so \in BOOLEAN :
                 /\ Appears(s, so)
                 /\ denied' = [denied EXCEPT ![s] = IF so THEN @ + 1 ELSE @]
    PROVE  TypesInv' /\ SendInv(s)' /\ \A t \in Send \ {s} : Same(t)
<1>1. /\ last' = [last EXCEPT ![s] = "refused"]
      /\ UNCHANGED <<attempt, left, erring, spent>>
      /\ \/ /\ attempt[s] = MaxAttempts
            /\ pc' = [pc EXCEPT ![s] = "failed"]
            /\ UNCHANGED timer
         \/ /\ attempt[s] \in 1 .. MaxAttempts - 1
            /\ pc' = [pc EXCEPT ![s] = "waiting"]
            /\ timer' = [timer EXCEPT ![s] = WaitFor(ParseRetryAfter(h), attempt[s])]
            /\ WaitFor(ParseRetryAfter(h), attempt[s]) \in 0 .. MaxWait
  BY RefusedStep
<1>2. /\ posted' \in [Send -> Nat] /\ denied' \in [Send -> Nat]
      /\ \/ posted'[s] = posted[s] /\ denied'[s] = denied[s]
         \/ posted'[s] = posted[s] + 1 /\ denied'[s] = denied[s] + 1
      /\ \A t \in Send \ {s} : posted'[t] = posted[t] /\ denied'[t] = denied[t]
  BY DEF Appears, TypesInv
<1>3. MaxWait \in Nat /\ MaxAttempts \in Nat
  BY TimesAssumption
<1>4. timer' \in [Send -> Nat] /\ pc' \in [Send -> {"idle", "request", "waiting", "sent", "failed"}]
  BY <1>1, <1>3 DEF TypesInv
<1>5. TypesInv'
  BY <1>1, <1>2, <1>4 DEF TypesInv
<1>6. /\ attempt'[s] = attempt[s] /\ left'[s] = left[s] /\ spent'[s] = spent[s]
      /\ last'[s] = "refused"
      /\ \/ attempt[s] = MaxAttempts /\ pc'[s] = "failed" /\ timer'[s] = timer[s]
         \/ attempt[s] \in 1 .. MaxAttempts - 1 /\ pc'[s] = "waiting" /\ timer'[s] \in 0 .. MaxWait
  BY <1>1 DEF TypesInv
<1>7. MessageAccount(s)'
  BY <1>2, <1>6 DEF SendInv, MessageAccount, TimeAccount
<1>8. TimeAccount(s)'
  <2>1. /\ attempt[s] - 1 \in Nat
        /\ (attempt[s] - 1) * MaxWait \in Nat
        /\ attempt[s] * MaxWait = (attempt[s] - 1) * MaxWait + MaxWait
    <3>1. attempt[s] - 1 \in Nat /\ (attempt[s] - 1) + 1 = attempt[s]
      BY DEF SendInv, TimeAccount
    <3> QED BY <3>1, WaitSums
  <2> DEFINE before == (attempt[s] - 1) * MaxWait
             with == attempt[s] * MaxWait
  <2>2. spent[s] + left[s] >= Deadline - before
    BY DEF SendInv, TimeAccount
  <2>3. with = before + MaxWait /\ before \in Nat
    BY <2>1
  <2>4. Deadline \in Nat /\ spent[s] \in Nat /\ left[s] \in Nat
    BY TimesAssumption DEF SendInv, TimeAccount
  <2> HIDE DEF before, with
  <2>5. pc'[s] = "waiting" => spent[s] + left[s] >= Deadline - with + timer'[s]
    BY <1>3, <1>6, <2>2, <2>3, <2>4
  <2> QED BY <1>6, <1>3, <2>5 DEF SendInv, TimeAccount, with
<1>9. SendInv(s)'
  BY <1>3, <1>6, <1>7, <1>8 DEF SendInv
<1>10. \A t \in Send \ {s} : Same(t)
  BY <1>1, <1>2 DEF TypesInv, Same
<1> QED BY <1>5, <1>9, <1>10

LEMMA AnswerStep ==
    ASSUME TypesInv, NEW s \in Send, SendInv(s), Answer(s)
    PROVE  TypesInv' /\ SendInv(s)' /\ \A t \in Send \ {s} : Same(t)
<1> DEFINE Goal == TypesInv' /\ SendInv(s)' /\ \A t \in Send \ {s} : Same(t)
<1>1. Period \in Nat /\ Period > 0 /\ cool \in 0 .. Period /\ Header \subseteq RetryAfter(Int)
  BY TimesAssumption DEF TypesInv
<1>2. ASSUME Accepted(s) PROVE Goal
  <2>1. cool' \in 0 .. Period
    BY <1>1, <1>2 DEF Accepted
  <2> QED BY <1>2, <2>1, ReturnStep DEF Accepted
<1>3. ASSUME Limited(s) PROVE Goal
  <2>1. PICK h \in IF erring THEN Header
                   ELSE {NoHeader, [form |-> "seconds", n |-> cool]} : Refused(s, h)
    BY <1>3 DEF Limited
  <2>2. h \in RetryAfter(Int)
    BY <1>1, <2>1 DEF RetryAfter, NoHeader
  <2> QED BY <1>3, <2>1, <2>2, RefusalStep DEF Limited
<1>4. ASSUME ServerError(s) PROVE Goal
  <2>1. PICK h \in RetryAfter(Int) : Refused(s, h)
    BY <1>1, <1>4 DEF ServerError
  <2> QED BY <1>4, <2>1, RefusalStep DEF ServerError
<1>5. ASSUME Rejected(s) PROVE Goal
  <2>1. UNCHANGED <<posted, denied>> /\ cool' \in 0 .. Period /\ Return(s, "failed", "rejected")
    BY <1>1, <1>5 DEF Rejected
  <2> QED BY <1>5, <2>1, ReturnStep DEF Rejected
<1>6. ASSUME Broken(s) PROVE Goal
  <2>1. PICK so \in BOOLEAN : Appears(s, so)
    BY <1>6 DEF Broken
  <2>2. UNCHANGED denied /\ cool' \in 0 .. Period /\ Return(s, "failed", "broken")
    BY <1>1, <1>6 DEF Broken, AfterNetworkError
  <2> QED BY <1>6, <2>1, <2>2, ReturnStep DEF Broken
<1> QED BY <1>2, <1>3, <1>4, <1>5, <1>6 DEF Answer

\* A request that ran out of time had all the time the client gives it, or
\* all that was left.
LEMMA TimedOutStep ==
    ASSUME TypesInv, NEW s \in Send, SendInv(s), TimedOut(s)
    PROVE  TypesInv' /\ SendInv(s)' /\ \A t \in Send \ {s} : Same(t)
<1>1. PICK so \in BOOLEAN : Appears(s, so)
  BY DEF TimedOut
<1>2. /\ pc' = [pc EXCEPT ![s] = "failed"]
      /\ last' = [last EXCEPT ![s] = "late"]
      /\ UNCHANGED <<attempt, timer, left, erring, spent, cool, denied>>
      /\ pc[s] = "request" /\ timer[s] = 0
  BY DEF TimedOut, Return, SendInv, TimeAccount
<1>3. /\ posted' \in [Send -> Nat]
      /\ posted'[s] \in {posted[s], posted[s] + 1}
      /\ \A t \in Send \ {s} : posted'[t] = posted[t]
  BY <1>1 DEF Appears, TypesInv
<1>4. TypesInv'
  BY <1>2, <1>3 DEF TypesInv
<1>5. /\ pc'[s] = "failed" /\ attempt'[s] = attempt[s] /\ timer'[s] = timer[s]
      /\ left'[s] = left[s] /\ denied'[s] = denied[s]
      /\ spent'[s] = spent[s] /\ last'[s] = "late"
  BY <1>2 DEF TypesInv
<1>6. MessageAccount(s)'
  BY <1>2, <1>3, <1>5 DEF SendInv, MessageAccount, TimeAccount
<1>7. TimeAccount(s)'
  BY <1>5 DEF SendInv, TimeAccount
<1>8. spent[s] >= Deadline - (MaxAttempts - 1) * MaxWait
  <2> DEFINE before == (attempt[s] - 1) * MaxWait
             all == (MaxAttempts - 1) * MaxWait
  <2>1. /\ attempt[s] - 1 \in Nat /\ MaxAttempts - 1 \in Nat
        /\ attempt[s] - 1 <= MaxAttempts - 1
    BY <1>2, TimesAssumption DEF SendInv, TimeAccount
  <2>2. before \in Nat /\ before <= all /\ all \in Nat
    BY <2>1, WaitSums
  <2>3. spent[s] + left[s] >= Deadline - before
    BY <1>2 DEF SendInv, TimeAccount
  <2>4. left[s] = 0 \/ spent[s] >= RequestTimeout
    BY <1>2, TimesAssumption DEF SendInv, TimeAccount
  <2>5. Deadline <= all + RequestTimeout
    BY DeadlineAssumption
  <2>6. Deadline \in Nat /\ RequestTimeout \in Nat /\ spent[s] \in Nat /\ left[s] \in Nat
    BY TimesAssumption DEF SendInv, TimeAccount
  <2> HIDE DEF before, all
  <2>7. spent[s] >= Deadline - all
    BY <2>2, <2>3, <2>4, <2>5, <2>6
  <2> QED BY <2>7 DEF all
<1>9. SendInv(s)'
  BY <1>2, <1>5, <1>6, <1>7, <1>8 DEF SendInv
<1>10. \A t \in Send \ {s} : Same(t)
  BY <1>2, <1>3 DEF TypesInv, Same
<1> QED BY <1>4, <1>9, <1>10

LEMMA RetryStep ==
    ASSUME TypesInv, NEW s \in Send, SendInv(s), Retry(s)
    PROVE  TypesInv' /\ SendInv(s)' /\ \A t \in Send \ {s} : Same(t)
<1>1. /\ attempt[s] \in 1 .. MaxAttempts - 1 /\ MaxAttempts \in Nat
      /\ left[s] \in 0 .. Deadline /\ Deadline \in Nat /\ RequestTimeout \in Nat
      /\ timer[s] = 0
  BY TimesAssumption DEF Retry, SendInv, TimeAccount
<1>2. RequestTimer(left[s]) \in 0 .. RequestTimeout /\ RequestTimer(left[s]) <= left[s]
      /\ \/ RequestTimer(left[s]) = left[s] \/ RequestTimer(left[s]) = RequestTimeout
  BY <1>1 DEF RequestTimer, Least
<1>3. /\ pc' = [pc EXCEPT ![s] = "request"]
      /\ attempt' = [attempt EXCEPT ![s] = attempt[s] + 1]
      /\ timer' = [timer EXCEPT ![s] = RequestTimer(left[s])]
      /\ UNCHANGED <<left, erring, cool, posted, denied, spent, last>>
      /\ pc[s] = "waiting"
  BY DEF Retry
<1>4. TypesInv'
  BY <1>1, <1>2, <1>3 DEF TypesInv
<1>5. /\ pc'[s] = "request" /\ attempt'[s] = attempt[s] + 1
      /\ timer'[s] = RequestTimer(left[s])
      /\ left'[s] = left[s] /\ posted'[s] = posted[s] /\ denied'[s] = denied[s]
      /\ spent'[s] = spent[s] /\ last'[s] = last[s]
  BY <1>3 DEF TypesInv
<1>6. MessageAccount(s)'
  BY <1>1, <1>3, <1>5 DEF SendInv, MessageAccount
<1>7. TimeAccount(s)'
  <2>1. (attempt[s] + 1) - 1 = attempt[s]
    BY <1>1
  <2> DEFINE before == attempt[s] * MaxWait
  <2>2. before \in Nat /\ spent[s] + left[s] >= Deadline - before + timer[s]
    BY <1>1, <1>3, WaitSums DEF SendInv, TimeAccount
  <2>3. (attempt'[s] - 1) * MaxWait = before
    BY <1>5, <2>1
  <2>4. spent[s] \in Nat
    BY DEF SendInv, TimeAccount
  <2> HIDE DEF before
  <2>5. spent'[s] + left'[s] >= Deadline - (attempt'[s] - 1) * MaxWait
    BY <1>1, <1>5, <2>2, <2>3, <2>4
  <2> QED BY <1>1, <1>2, <1>3, <1>5, <2>5 DEF SendInv, TimeAccount
<1>8. SendInv(s)'
  BY <1>1, <1>2, <1>5, <1>6, <1>7 DEF SendInv
<1>9. \A t \in Send \ {s} : Same(t)
  BY <1>3 DEF TypesInv, Same
<1> QED BY <1>4, <1>8, <1>9

LEMMA GiveUpStep ==
    ASSUME TypesInv, NEW s \in Send, SendInv(s), GiveUp(s)
    PROVE  TypesInv' /\ SendInv(s)' /\ \A t \in Send \ {s} : Same(t)
<1>1. /\ pc' = [pc EXCEPT ![s] = "failed"]
      /\ UNCHANGED <<attempt, timer, left, erring, cool, posted, denied, spent, last>>
      /\ pc[s] = "waiting" /\ left[s] = 0
  BY DEF GiveUp, SendInv, TimeAccount
<1>2. TypesInv'
  BY <1>1 DEF TypesInv
<1>3. /\ pc'[s] = "failed" /\ attempt'[s] = attempt[s] /\ timer'[s] = timer[s]
      /\ left'[s] = left[s] /\ posted'[s] = posted[s] /\ denied'[s] = denied[s]
      /\ spent'[s] = spent[s] /\ last'[s] = last[s]
  BY <1>1 DEF TypesInv
<1>4. MessageAccount(s)'
  BY <1>1, <1>3 DEF SendInv, MessageAccount
<1>5. TimeAccount(s)'
  BY <1>3 DEF SendInv, TimeAccount
<1>6. spent[s] >= Deadline - (MaxAttempts - 1) * MaxWait
  <2> DEFINE before == attempt[s] * MaxWait
             all == (MaxAttempts - 1) * MaxWait
  <2>1. attempt[s] \in Nat /\ MaxAttempts - 1 \in Nat /\ attempt[s] <= MaxAttempts - 1
    BY <1>1, TimesAssumption DEF SendInv, TimeAccount
  <2>2. before \in Nat /\ before <= all /\ all \in Nat
    BY <2>1, WaitSums
  <2>3. spent[s] + left[s] >= Deadline - before + timer[s]
    BY <1>1 DEF SendInv, TimeAccount
  <2>4. Deadline \in Nat /\ spent[s] \in Nat /\ timer[s] \in Nat
    BY TimesAssumption DEF SendInv, TimeAccount
  <2> HIDE DEF before, all
  <2>5. spent[s] >= Deadline - all
    BY <1>1, <2>2, <2>3, <2>4
  <2> QED BY <2>5 DEF all
<1>7. SendInv(s)'
  BY <1>3, <1>4, <1>5, <1>6 DEF SendInv
<1>8. \A t \in Send \ {s} : Same(t)
  BY <1>1 DEF TypesInv, Same
<1> QED BY <1>2, <1>7, <1>8

\* A unit of time passes for every send that is on its way, and no send whose
\* time has come is passed over.
LEMMA TickStep ==
    ASSUME TypesInv, \A s \in Send : SendInv(s), Tick
    PROVE  TypesInv' /\ \A s \in Send : SendInv(s)'
<1>1. /\ timer' = [s \in Send |-> timer[s] - (IF Active(s) THEN 1 ELSE 0)]
      /\ left' = [s \in Send |-> left[s] - (IF Active(s) THEN 1 ELSE 0)]
      /\ spent' = [s \in Send |-> spent[s] + (IF pc[s] = "request" THEN 1 ELSE 0)]
      /\ UNCHANGED <<pc, attempt, erring, posted, denied, last>>
  BY DEF Tick
<1>2. ASSUME NEW s \in Send
      PROVE  /\ timer[s] \in Nat /\ left[s] \in 0 .. Deadline
             /\ Active(s) => timer[s] > 0 /\ left[s] > 0
  <2>1. timer[s] \in Nat /\ left[s] \in 0 .. Deadline /\ ~Due(s)
    BY DEF SendInv, TimeAccount, Tick
  <2>2. pc[s] = "request" => timer[s] <= left[s]
    BY DEF SendInv, TimeAccount
  <2> QED BY <2>1, <2>2 DEF Due, Active
<1>3. Deadline \in Nat /\ Period \in Nat
  BY TimesAssumption
<1>4. cool' \in 0 .. Period
  BY <1>3 DEF Tick, TypesInv
<1>5. TypesInv'
  <2>1. timer' \in [Send -> Nat]
    BY <1>1, <1>2
  <2>2. left' \in [Send -> 0 .. Deadline]
    BY <1>1, <1>2, <1>3
  <2>3. spent' \in [Send -> Nat]
    BY <1>1 DEF TypesInv
  <2> QED BY <1>1, <1>4, <2>1, <2>2, <2>3 DEF TypesInv
<1>6. ASSUME NEW s \in Send PROVE SendInv(s)'
  <2>1. /\ timer'[s] = timer[s] - (IF Active(s) THEN 1 ELSE 0)
        /\ left'[s] = left[s] - (IF Active(s) THEN 1 ELSE 0)
        /\ spent'[s] = spent[s] + (IF pc[s] = "request" THEN 1 ELSE 0)
        /\ UNCHANGED <<pc, attempt, posted, denied, last>>
    BY <1>1
  <2>2. MessageAccount(s)'
    BY <2>1 DEF SendInv, MessageAccount
  <2>3. CASE pc[s] = "request"
    <3>1. /\ timer'[s] = timer[s] - 1 /\ left'[s] = left[s] - 1 /\ spent'[s] = spent[s] + 1
          /\ timer[s] > 0 /\ left[s] > 0
      BY <1>2, <2>1, <2>3 DEF Active
    <3> DEFINE before == (attempt[s] - 1) * MaxWait
    <3>2. spent[s] + left[s] >= Deadline - before
      BY <2>3 DEF SendInv, TimeAccount
    <3>3. spent[s] + left[s] = spent'[s] + left'[s]
      BY <1>2, <3>1 DEF SendInv, TimeAccount
    <3> HIDE DEF before
    <3>4. spent'[s] + left'[s] >= Deadline - before
      BY <3>2, <3>3
    <3>5. TimeAccount(s)'
      BY <1>2, <1>3, <2>1, <2>3, <3>1, <3>3, <3>4, TimesAssumption
         DEF SendInv, TimeAccount, before
    <3> QED BY <1>2, <2>1, <2>2, <2>3, <3>1, <3>5, TimesAssumption DEF SendInv
  <2>4. CASE pc[s] = "waiting"
    <3>1. /\ timer'[s] = timer[s] - 1 /\ left'[s] = left[s] - 1 /\ spent'[s] = spent[s]
          /\ timer[s] > 0 /\ left[s] > 0
      BY <1>2, <2>1, <2>4 DEF Active, SendInv, TimeAccount
    <3> DEFINE before == attempt[s] * MaxWait
    <3>2. spent[s] + left[s] >= Deadline - before + timer[s] /\ before \in Nat
      BY <2>4, WaitSums DEF SendInv, TimeAccount
    <3>3. spent[s] \in Nat
      BY DEF SendInv, TimeAccount
    <3> HIDE DEF before
    <3>4. spent'[s] + left'[s] >= Deadline - before + timer'[s]
      BY <1>2, <1>3, <3>1, <3>2, <3>3
    <3>5. TimeAccount(s)'
      BY <1>2, <1>3, <2>1, <2>4, <3>1, <3>4, TimesAssumption
         DEF SendInv, TimeAccount, before
    <3> QED BY <1>2, <2>1, <2>2, <2>4, <3>1, <3>5, TimesAssumption DEF SendInv
  <2>5. CASE ~Active(s)
    <3>1. /\ timer'[s] = timer[s] /\ left'[s] = left[s] /\ spent'[s] = spent[s]
      BY <1>2, <2>1, <2>5 DEF Active, SendInv, TimeAccount
    <3> QED BY <2>1, <3>1, OthersKeep DEF Same
  <2> QED BY <2>3, <2>4, <2>5 DEF Active
<1> QED BY <1>5, <1>6

-----------------------------------------------------------------------------
(* The account of refusals.                                                *)

\* As long as some send has not got through, fewer than all have.
LEMMA SentCounted ==
    /\ Cardinality(Sent) \in Nat
    /\ \A s \in Send : pc[s] # "sent" => Cardinality(Sent) < Cardinality(Send)
<1>1. IsFiniteSet(Send)
  BY TimesAssumption
<1>2. IsFiniteSet(Sent) /\ Sent \subseteq Send
  BY <1>1, FS_Subset DEF Sent
<1>3. Cardinality(Sent) \in Nat
  BY <1>2, FS_CardinalityType
<1>4. ASSUME NEW s \in Send, pc[s] # "sent" PROVE Cardinality(Sent) < Cardinality(Send)
  <2>1. Sent # Send
    BY <1>4 DEF Sent
  <2> QED BY <1>1, <1>2, <1>3, <2>1, FS_Subset, FS_CardinalityType
<1> QED BY <1>3, <1>4

\* What BurstInv says, where it says something.
BurstFacts ==
    /\ cool > 0 => Cardinality(Sent) > 0
    /\ \A s \in Send : RefusalAccount(s)

\* A step that lets nobody through and leaves the hook alone disturbs only the
\* account of the send it is about.
LEMMA OthersRefusalsKept ==
    ASSUME ~erring, UNCHANGED <<erring, cool>>, Sent' = Sent, BurstFacts,
           NEW s \in Send, RefusalAccount(s)', \A t \in Send \ {s} : Same(t)
    PROVE  BurstFacts'
<1>1. Cardinality(Sent') = Cardinality(Sent)
  OBVIOUS
<1>2. \A t \in Send \ {s} : RefusalAccount(t)'
  BY <1>1 DEF BurstFacts, RefusalAccount, Same
<1> QED BY <1>1, <1>2 DEF BurstFacts

LEMMA BeginRefusals ==
    ASSUME TypesInv, NEW s \in Send, SendInv(s), Begin(s), ~erring, BurstFacts,
           \A t \in Send \ {s} : Same(t)
    PROVE  BurstFacts'
<1>1. /\ pc'[s] = "request" /\ attempt'[s] = 1 /\ timer'[s] = RequestTimer(Deadline)
      /\ spent'[s] = 0 /\ pc[s] = "idle"
      /\ UNCHANGED <<erring, cool>>
  BY DEF Begin, TypesInv, SendInv, TimeAccount
<1>2. RequestTimer(Deadline) > 0
  BY TimesAssumption DEF RequestTimer, Least
<1>3. Sent' = Sent
  BY <1>1 DEF Sent, Same
<1>4. Cardinality(Sent') = Cardinality(Sent) /\ Cardinality(Sent) \in Nat
  BY <1>3, SentCounted
<1>5. RefusalAccount(s)'
  BY <1>1, <1>2, <1>4 DEF RefusalAccount, BurstFacts
<1> QED BY <1>1, <1>3, <1>5, OthersRefusalsKept

\* Getting through makes up for every refusal that it causes.
LEMMA AcceptedRefusals ==
    ASSUME TypesInv, NEW s \in Send, \A t \in Send : SendInv(t), Accepted(s), ~erring,
           BurstFacts, \A t \in Send \ {s} : Same(t)
    PROVE  BurstFacts'
<1>1. /\ pc[s] = "request" /\ pc'[s] = "sent" /\ spent'[s] = spent[s]
      /\ UNCHANGED erring
  BY DEF Accepted, Return, TypesInv
<1>2. Sent' = Sent \union {s} /\ s \notin Sent
  BY <1>1 DEF Sent, Same
<1>3. IsFiniteSet(Sent)
  BY TimesAssumption, FS_Subset DEF Sent
<1>4. Cardinality(Sent') = Cardinality(Sent) + 1 /\ Cardinality(Sent) \in Nat
  BY <1>2, <1>3, FS_AddElement, SentCounted
<1>5. \A t \in Send : attempt[t] \in Nat
  BY TimesAssumption DEF TypesInv
<1>6. ASSUME NEW t \in Send PROVE RefusalAccount(t)'
  <2>1. CASE t = s
    BY <1>1, <2>1 DEF RefusalAccount, BurstFacts
  <2>2. CASE t # s
    <3>1. Same(t) /\ RefusalAccount(t)
      BY <2>2 DEF BurstFacts
    <3> QED BY <1>1, <1>4, <1>5, <3>1 DEF RefusalAccount, Same
  <2> QED BY <2>1, <2>2
<1> QED BY <1>4, <1>6 DEF BurstFacts

\* A refused send waits until the hook is free again, or longer; and it has an
\* attempt left, since fewer messages than attempts can have come first.
LEMMA LimitedRefusals ==
    ASSUME Cardinality(Send) <= MaxAttempts,
           TypesInv, NEW s \in Send, SendInv(s), Limited(s), ~erring, BurstFacts,
           \A t \in Send \ {s} : Same(t)
    PROVE  BurstFacts'
<1>1. /\ pc[s] = "request" /\ cool > 0
      /\ UNCHANGED <<cool, posted, denied>>
  BY DEF Limited
<1>2. PICK h \in {NoHeader, [form |-> "seconds", n |-> cool]} : Refused(s, h)
  BY DEF Limited
<1>3. /\ cool \in 1 .. Period /\ Period \in Nat /\ Period <= MaxWait /\ MaxWait \in Nat
      /\ MaxAttempts \in Nat
  BY <1>1, TimesAssumption DEF TypesInv
<1>4. attempt[s] \in 1 .. MaxAttempts
  BY <1>1 DEF SendInv, TimeAccount
<1>5. h \in RetryAfter(Int)
  BY <1>2, <1>3 DEF RetryAfter, NoHeader
<1>6. cool <= WaitFor(ParseRetryAfter(h), attempt[s]) /\ WaitFor(ParseRetryAfter(h), attempt[s]) \in Nat
  <2>1. ParseRetryAfter(h) \in {0, cool}
    BY <1>2 DEF ParseRetryAfter, NoHeader
  <2>2. attempt[s] \in Nat \ {0}
    BY <1>3, <1>4
  <2>3. CASE ParseRetryAfter(h) = 0
    <3>1. WaitFor(0, attempt[s]) \in 0 .. MaxWait /\ Period <= WaitFor(0, attempt[s])
      BY <2>2, WaitBounds
    <3> QED BY <1>3, <2>3, <3>1
  <2>4. CASE ParseRetryAfter(h) = cool
    <3>1. WaitFor(cool, attempt[s]) = cool
      BY <1>3, <2>2, WaitBounds
    <3> QED BY <1>3, <2>4, <3>1
  <2> QED BY <2>1, <2>3, <2>4
<1>7. attempt[s] <= Cardinality(Sent) /\ Cardinality(Sent) \in Nat
  BY <1>1, SentCounted DEF BurstFacts, RefusalAccount
<1>8. attempt[s] # MaxAttempts
  <2>1. Cardinality(Sent) < Cardinality(Send)
    BY <1>1, SentCounted
  <2>2. Cardinality(Send) \in Nat
    BY TimesAssumption, FS_CardinalityType
  <2> QED BY <1>3, <1>4, <1>7, <2>1, <2>2
<1>9. /\ pc'[s] = "waiting" /\ timer'[s] = WaitFor(ParseRetryAfter(h), attempt[s])
      /\ attempt'[s] = attempt[s] /\ spent'[s] = spent[s] /\ UNCHANGED erring
  BY <1>1, <1>2, <1>5, <1>8, RefusedStep DEF TypesInv
<1>10. Sent' = Sent
  BY <1>1, <1>9 DEF Sent, Same
<1>11. RefusalAccount(s)'
  <2>1. Cardinality(Sent') = Cardinality(Sent)
    BY <1>10
  <2>2. spent[s] = 0
    BY DEF BurstFacts, RefusalAccount
  <2> QED BY <1>1, <1>3, <1>6, <1>7, <1>9, <2>1, <2>2 DEF RefusalAccount
<1> QED BY <1>1, <1>9, <1>10, <1>11, OthersRefusalsKept

\* The waits leave time for another request.
LEMMA TimeRemains ==
    ASSUME NEW s \in Send, SendInv(s), pc[s] = "waiting", spent[s] = 0
    PROVE  left[s] > 0
<1> DEFINE before == attempt[s] * MaxWait
           all == (MaxAttempts - 1) * MaxWait
<1>1. attempt[s] \in Nat /\ MaxAttempts - 1 \in Nat /\ attempt[s] <= MaxAttempts - 1
  BY TimesAssumption DEF SendInv, TimeAccount
<1>2. before \in Nat /\ before <= all /\ all \in Nat
  BY <1>1, WaitSums
<1>3. spent[s] + left[s] >= Deadline - before + timer[s]
  BY DEF SendInv, TimeAccount
<1>4. Deadline \in Nat /\ left[s] \in Nat /\ timer[s] \in Nat
  BY TimesAssumption DEF SendInv, TimeAccount
<1>5. all < Deadline
  BY DeadlineAssumption
<1> HIDE DEF before, all
<1> QED BY <1>2, <1>3, <1>4, <1>5

LEMMA RetryRefusals ==
    ASSUME TypesInv, NEW s \in Send, SendInv(s), Retry(s), ~erring, BurstFacts,
           \A t \in Send \ {s} : Same(t)
    PROVE  BurstFacts'
<1>1. /\ pc[s] = "waiting" /\ timer[s] = 0 /\ pc'[s] = "request"
      /\ attempt'[s] = attempt[s] + 1 /\ timer'[s] = RequestTimer(left[s])
      /\ spent'[s] = spent[s] /\ UNCHANGED <<erring, cool>>
  BY DEF Retry, TypesInv
<1>2. spent[s] = 0
  BY DEF BurstFacts, RefusalAccount
<1>3. timer'[s] > 0
  BY <1>1, <1>2, TimeRemains, TimesAssumption DEF RequestTimer, Least
<1>4. Sent' = Sent
  BY <1>1 DEF Sent, Same
<1>5. RefusalAccount(s)'
  <2>1. Cardinality(Sent') = Cardinality(Sent) /\ Cardinality(Sent) \in Nat
    BY <1>4, SentCounted
  <2>2. /\ attempt[s] \in Nat
        /\ attempt[s] <= Cardinality(Sent)
        /\ cool > 0 => attempt[s] < Cardinality(Sent)
    BY <1>1 DEF BurstFacts, RefusalAccount, SendInv, TimeAccount
  <2> QED BY <1>1, <1>2, <1>3, <2>1, <2>2 DEF RefusalAccount
<1> QED BY <1>1, <1>4, <1>5, OthersRefusalsKept

LEMMA TickRefusals ==
    ASSUME TypesInv, \A s \in Send : SendInv(s), Tick, ~erring, BurstFacts
    PROVE  BurstFacts'
<1>1. /\ timer' = [s \in Send |-> timer[s] - (IF Active(s) THEN 1 ELSE 0)]
      /\ spent' = [s \in Send |-> spent[s] + (IF pc[s] = "request" THEN 1 ELSE 0)]
      /\ cool' = IF cool > 0 THEN cool - 1 ELSE 0
      /\ UNCHANGED <<pc, attempt, erring>>
  BY DEF Tick
<1>2. Cardinality(Sent') = Cardinality(Sent)
  BY <1>1 DEF Sent
<1>3. cool \in Nat
  BY TimesAssumption DEF TypesInv
<1>4. ASSUME NEW s \in Send PROVE RefusalAccount(s)'
  <2>1. pc[s] # "request" /\ (pc[s] = "waiting" => timer[s] > 0) /\ timer[s] \in Nat
    BY DEF Tick, Due, Active, SendInv, TimeAccount
  <2>2. spent'[s] = 0 /\ pc[s] # "failed"
    BY <1>1, <2>1 DEF BurstFacts, RefusalAccount
  <2>3. CASE pc[s] = "waiting"
    <3>1. /\ timer'[s] = timer[s] - 1
          /\ attempt[s] <= Cardinality(Sent)
          /\ timer[s] < cool => attempt[s] < Cardinality(Sent)
      BY <1>1, <2>3 DEF Active, BurstFacts, RefusalAccount
    <3>2. timer'[s] < cool' => timer[s] < cool
      BY <1>1, <1>3, <2>1, <2>3, <3>1
    <3> QED BY <1>1, <1>2, <2>2, <2>3, <3>1, <3>2 DEF RefusalAccount
  <2>4. CASE pc[s] # "waiting"
    BY <1>1, <2>1, <2>2, <2>4 DEF RefusalAccount
  <2> QED BY <2>3, <2>4
<1>5. cool' > 0 => Cardinality(Sent') > 0
  BY <1>1, <1>2, <1>3 DEF BurstFacts
<1> QED BY <1>4, <1>5 DEF BurstFacts

-----------------------------------------------------------------------------
(* The invariant.                                                          *)

LEMMA InitInv == Init => IInv
<1> SUFFICES ASSUME Init PROVE IInv
  OBVIOUS
<1>1. MaxAttempts \in Nat \ {0} /\ Deadline \in Nat \ {0} /\ Period \in Nat /\ RequestTimeout \in Nat
  BY TimesAssumption
<1>2. TypesInv
  BY <1>1 DEF Init, TypesInv
<1>3. ASSUME NEW s \in Send PROVE SendInv(s) /\ RefusalAccount(s)
  <2>1. /\ pc[s] = "idle" /\ attempt[s] = 0 /\ timer[s] = 0 /\ left[s] = 0
        /\ posted[s] = 0 /\ denied[s] = 0 /\ spent[s] = 0
    BY DEF Init
  <2> QED BY <1>1, <2>1 DEF SendInv, MessageAccount, TimeAccount, RefusalAccount
<1>4. cool = 0
  BY DEF Init
<1> QED BY <1>2, <1>3, <1>4 DEF IInv, BurstInv

\* One step per action, first for each send alone.
LEMMA SendStep ==
    ASSUME TypesInv, \A s \in Send : SendInv(s),
           NEW s \in Send, Begin(s) \/ Answer(s) \/ Runs(s)
    PROVE  /\ TypesInv'
           /\ \A t \in Send : SendInv(t)'
           /\ \A t \in Send \ {s} : Same(t)
<1>1. TypesInv' /\ SendInv(s)' /\ \A t \in Send \ {s} : Same(t)
  BY BeginStep, AnswerStep, TimedOutStep, RetryStep, GiveUpStep DEF Runs
<1>2. \A t \in Send \ {s} : SendInv(t)'
  BY <1>1, OthersKeep
<1> QED BY <1>1, <1>2

\* Then for the account of refusals: with a reliable hook nothing fails, times
\* out or is given up.
LEMMA SendStepRefusals ==
    ASSUME Cardinality(Send) <= MaxAttempts,
           TypesInv, \A s \in Send : SendInv(s), BurstFacts, ~erring,
           NEW s \in Send, Begin(s) \/ Answer(s) \/ Runs(s)
    PROVE  BurstFacts'
<1>1. \A t \in Send \ {s} : Same(t)
  BY SendStep
<1>2. ASSUME Begin(s) PROVE BurstFacts'
  BY <1>1, <1>2, BeginRefusals
<1>3. ASSUME Answer(s) PROVE BurstFacts'
  <2>1. Accepted(s) \/ Limited(s)
    BY <1>3 DEF Answer, ServerError, Rejected, Broken
  <2> QED BY <1>1, <2>1, AcceptedRefusals, LimitedRefusals
<1>4. ASSUME TimedOut(s) PROVE FALSE
  BY <1>4 DEF TimedOut, BurstFacts, RefusalAccount, SendInv, TimeAccount
<1>5. ASSUME GiveUp(s) PROVE FALSE
  <2>1. pc[s] = "waiting" /\ spent[s] = 0 /\ left[s] <= 0
    BY <1>5 DEF GiveUp, BurstFacts, RefusalAccount
  <2>2. left[s] > 0 /\ left[s] \in Nat
    BY <2>1, TimeRemains, TimesAssumption DEF SendInv, TimeAccount
  <2> QED BY <2>1, <2>2
<1>6. ASSUME Retry(s) PROVE BurstFacts'
  BY <1>1, <1>6, RetryRefusals
<1> QED BY <1>2, <1>3, <1>4, <1>5, <1>6 DEF Runs

LEMMA NextInv == IInv /\ [Next]_vars => IInv'
<1> SUFFICES ASSUME IInv, [Next]_vars PROVE IInv'
  OBVIOUS
<1> DEFINE Accounts == TypesInv /\ \A s \in Send : SendInv(s)
           Burst == Cardinality(Send) <= MaxAttempts /\ ~erring => BurstFacts
<1>1. Accounts /\ Burst
  BY DEF IInv, BurstInv, BurstFacts
<1>2. erring' = erring /\ erring \in BOOLEAN
  <2>1. ASSUME NEW s \in Send, Begin(s) \/ Answer(s) \/ Runs(s) PROVE erring' = erring
    BY <2>1
       DEF Begin, Answer, Accepted, Limited, ServerError, Rejected, Broken,
           AfterNetworkError, Return, Refused, Runs, TimedOut, Retry, GiveUp
  <2> QED BY <1>1, <2>1 DEF Next, Tick, vars, TypesInv
<1>3. CASE UNCHANGED vars
  <2>1. \A s \in Send : Same(s)
    BY <1>3 DEF vars, Same
  <2>2. TypesInv'
    BY <1>1, <1>3 DEF vars, TypesInv
  <2>3. Accounts'
    BY <1>1, <2>1, <2>2, OthersKeep
  <2>4. Burst'
    BY <1>1, <1>3 DEF vars, BurstFacts, RefusalAccount, Sent
  <2> QED BY <2>3, <2>4 DEF IInv, BurstInv, BurstFacts, RefusalAccount
<1>4. CASE Tick
  <2>1. Accounts'
    BY <1>1, <1>4, TickStep
  <2>2. Burst'
    BY <1>1, <1>2, <1>4, TickRefusals
  <2> QED BY <2>1, <2>2 DEF IInv, BurstInv, BurstFacts, RefusalAccount
<1>5. ASSUME NEW s \in Send, Begin(s) \/ Answer(s) \/ Runs(s) PROVE IInv'
  <2>1. Accounts'
    BY <1>1, <1>5, SendStep
  <2>2. Burst'
    BY <1>1, <1>2, <1>5, SendStepRefusals
  <2> QED BY <2>1, <2>2 DEF IInv, BurstInv, BurstFacts, RefusalAccount
<1> QED BY <1>3, <1>4, <1>5 DEF Next

LEMMA Invariance == Spec => []IInv
<1> QED BY InitInv, NextInv, PTL DEF Spec

-----------------------------------------------------------------------------
(* The theorems.                                                           *)

\* Every variable keeps its type: no attempt beyond maxAttempts, no wait
\* beyond maxRetryWait, nothing spent beyond the deadline (notifier.go:88-124).
THEOREM TypeCorrect == Spec => []TypeOK
<1>1. ASSUME IInv PROVE TypeOK
  <2>1. RequestTimeout \in Nat /\ MaxWait \in Nat /\ Deadline \in Nat /\ MaxAttempts \in Nat
    BY TimesAssumption
  <2>2. ASSUME NEW s \in Send
        PROVE  /\ timer[s] \in 0 .. (IF RequestTimeout > MaxWait THEN RequestTimeout
                                     ELSE MaxWait)
               /\ left[s] \in (-RequestTimeout) .. Deadline
               /\ posted[s] \in 0 .. MaxAttempts
               /\ denied[s] \in 0 .. MaxAttempts
               /\ spent[s] \in 0 .. Deadline
    BY <1>1, <2>1 DEF IInv, SendInv, MessageAccount, TimeAccount
  <2>3. timer \in [Send -> 0 .. (IF RequestTimeout > MaxWait THEN RequestTimeout
                                 ELSE MaxWait)]
    BY <1>1, <2>2 DEF IInv, TypesInv
  <2>4. left \in [Send -> (-RequestTimeout) .. Deadline] /\ spent \in [Send -> 0 .. Deadline]
    BY <1>1, <2>2 DEF IInv, TypesInv
  <2>5. posted \in [Send -> 0 .. MaxAttempts] /\ denied \in [Send -> 0 .. MaxAttempts]
    BY <1>1, <2>2 DEF IInv, TypesInv
  <2> QED BY <1>1, <2>3, <2>4, <2>5 DEF IInv, TypesInv, TypeOK
<1> QED BY <1>1, Invariance, PTL

\* Only what the hook refused is sent again, however the answers, the timeouts
\* and the goroutines interleave (notifier.go:59-61, 99).
THEOREM PostedAtMostOnce == Spec => []PostedOnce
<1>1. IInv => PostedOnce
  BY DEF IInv, SendInv, MessageAccount, PostedOnce
<1> QED BY <1>1, Invariance, PTL

\* No request and no wait outlives the context, whatever Retry-After asks for
\* (notifier.go:75-77, 112-116).
THEOREM EndsWithinDeadline == Spec => []EndsInTime
<1>1. IInv => EndsInTime
  BY DEF IInv, SendInv, TimeAccount, EndsInTime
<1> QED BY <1>1, Invariance, PTL

\* A send fails for want of attempts or of time only when it used all of the
\* one or what the waits leave of the other (app.go:29-32).
THEOREM FailsOnlyForCause == Spec => []FailsForCause
<1>1. IInv => FailsForCause
  BY DEF IInv, SendInv, FailsForCause
<1> QED BY <1>1, Invariance, PTL

\* maxAttempts sends that meet a rate limit all get through: each attempt that
\* is refused is refused for a message that did (notifier.go:21-30, 102-110).
THEOREM BurstsGetThrough == Spec => []BurstGetsThrough
<1>1. IInv => BurstGetsThrough
  BY DEF IInv, BurstInv, RefusalAccount, BurstGetsThrough
<1> QED BY <1>1, Invariance, PTL

=============================================================================
