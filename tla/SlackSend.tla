----------------------------- MODULE SlackSend -----------------------------
(***************************************************************************)
(* The Slack notifier: internal/slack/notifier.go's Send, run by           *)
(* dispatchToSlack (internal/app/app.go) in one goroutine for each hook    *)
(* and telegram.  Modelled are the goroutines that post to one hook, and   *)
(* the hook, which is either reliable, so that it posts one message at a   *)
(* time, refuses the others for a while and answers at once, or erring,    *)
(* so that it answers anything, late or not at all.                        *)
(*                                                                         *)
(* Time passes in units.  A goroutine whose time has come runs before the  *)
(* next unit passes.                                                       *)
(***************************************************************************)
EXTENDS Integers, FiniteSets

CONSTANTS
    Send,            \* the sends to the hook: one goroutine each
    MaxAttempts,     \* maxAttempts
    RequestTimeout,  \* http.Client.Timeout
    Deadline,        \* slackSendTimeout
    DefaultWait,     \* defaultRetryWait
    MaxWait,         \* maxRetryWait
    Header,          \* Retry-After headers of an erring hook, see RetryAfter
    Period,          \* for how long a reliable hook refuses after a message
    MaxErring        \* bound on the sends to an erring hook

\* A Retry-After header: seconds, a date that is so far ahead, or neither.
RetryAfter(Times) == [form : {"seconds", "date", "neither"}, n : Times]

ASSUME TimesAssumption ==
    /\ MaxAttempts \in Nat \ {0} /\ RequestTimeout \in Nat \ {0}
    /\ Deadline \in Nat \ {0} /\ DefaultWait \in Nat \ {0}
    /\ MaxWait \in Nat \ {0}
    /\ Period \in 1..DefaultWait /\ Period <= MaxWait
    /\ Header \subseteq RetryAfter(Int) /\ MaxErring \in Nat
    /\ IsFiniteSet(Send)

\* The deadline, 30 s, is longer than the waits, twice 10 s, and no longer
\* than the waits and one request of 10 s.
ASSUME DeadlineAssumption ==
    /\ (MaxAttempts - 1) * MaxWait < Deadline
    /\ Deadline <= (MaxAttempts - 1) * MaxWait + RequestTimeout

VARIABLES
    pc,       \* where each goroutine is
    attempt,
    timer,    \* until the request times out, or the wait is over
    left,     \* until the send's context ends
    erring,   \* is the hook an erring one?
    cool,     \* for how long a reliable hook goes on refusing
    posted,   \* how often a message appeared (history)
    denied,   \* how often it appeared and was answered with 5xx (history)
    spent,    \* time spent in requests (history)
    last      \* how the last attempt ended (history)

vars == <<pc, attempt, timer, left, erring, cool, posted, denied, spent, last>>

Least(a, b) == IF a < b THEN a ELSE b

\* A request is bounded by the client's timeout and by the context.
NoContext(remaining) == RequestTimeout    \* mutant
RequestTimer(remaining) == Least(RequestTimeout, remaining)

NoHeader == [form |-> "neither", n |-> 0]

\* A date that has passed, and what is neither a number nor a date, count as 0.
ParseRetryAfter(h) ==
    IF h.form = "seconds" \/ (h.form = "date" /\ h.n > 0) THEN h.n ELSE 0

\* mutants: no default, no cap
NoDefault(asked, n) == Least(IF asked < 0 THEN DefaultWait * n ELSE asked, MaxWait)
Uncapped(asked, n) == IF asked <= 0 THEN DefaultWait * n ELSE asked

\* The wait before the next attempt, given what the hook asked for.
WaitFor(asked, n) ==
    Least(IF asked <= 0 THEN DefaultWait * n ELSE asked, MaxWait)

Init ==
    /\ erring \in BOOLEAN /\ cool = 0
    /\ pc = [s \in Send |-> "idle"]
    /\ attempt = [s \in Send |-> 0]
    /\ timer = [s \in Send |-> 0]
    /\ left = [s \in Send |-> 0]
    /\ posted = [s \in Send |-> 0]
    /\ denied = [s \in Send |-> 0]
    /\ spent = [s \in Send |-> 0]
    /\ last = [s \in Send |-> "none"]

\* dispatchToSlack starts the goroutine, which posts for the first time.
Begin(s) ==
    /\ pc[s] = "idle"
    /\ erring => Cardinality({t \in Send : pc[t] # "idle"}) < MaxErring
    /\ pc' = [pc EXCEPT ![s] = "request"]
    /\ attempt' = [attempt EXCEPT ![s] = 1]
    /\ timer' = [timer EXCEPT ![s] = RequestTimer(Deadline)]
    /\ left' = [left EXCEPT ![s] = Deadline]
    /\ UNCHANGED <<erring, cool, posted, denied, spent, last>>

\* The attempt ends in a way Send does not retry.
Return(s, where, how) ==
    /\ pc' = [pc EXCEPT ![s] = where]
    /\ last' = [last EXCEPT ![s] = how]
    /\ UNCHANGED <<attempt, timer, left, erring, spent>>

OneMore(n) == n > MaxAttempts    \* mutant
IsLast(n) == n = MaxAttempts

\* The attempt ended with a retryableError: Send waits, unless it was the last.
Refused(s, header) ==
    /\ last' = [last EXCEPT ![s] = "refused"]
    /\ \/ /\ IsLast(attempt[s])
          /\ pc' = [pc EXCEPT ![s] = "failed"]
          /\ UNCHANGED timer
       \/ /\ ~IsLast(attempt[s])
          /\ pc' = [pc EXCEPT ![s] = "waiting"]
          /\ timer' = [timer EXCEPT ![s] = WaitFor(ParseRetryAfter(header), attempt[s])]
    /\ UNCHANGED <<attempt, left, erring, spent>>

\* The message appears, if so.
Appears(s, so) == posted' = [posted EXCEPT ![s] = IF so THEN @ + 1 ELSE @]

\* 2xx
Accepted(s) ==
    /\ pc[s] = "request" /\ (erring \/ cool = 0)
    /\ Appears(s, TRUE) /\ Return(s, "sent", "accepted")
    /\ cool' = IF erring THEN 0 ELSE Period
    /\ UNCHANGED denied

\* 429, with or without a Retry-After
Limited(s) ==
    /\ pc[s] = "request" /\ (erring \/ cool > 0)
    /\ \E header \in IF erring THEN Header
                     ELSE {NoHeader, [form |-> "seconds", n |-> cool]} :
          Refused(s, header)
    /\ UNCHANGED <<cool, posted, denied>>

\* 5xx, which does not tell whether the message was posted
ServerError(s) ==
    /\ pc[s] = "request" /\ erring
    /\ \E header \in Header : Refused(s, header)
    /\ \E so \in BOOLEAN :
          /\ Appears(s, so)
          /\ denied' = [denied EXCEPT ![s] = IF so THEN @ + 1 ELSE @]
    /\ UNCHANGED cool

\* Any other answer: a revoked hook, a malformed payload
Rejected(s) ==
    /\ pc[s] = "request" /\ erring
    /\ Return(s, "failed", "rejected")
    /\ UNCHANGED <<cool, posted, denied>>

\* The connection cannot be had, or breaks before the answer has come.
TriesAgain(s) == Refused(s, NoHeader)    \* mutant
AfterNetworkError(s) == Return(s, "failed", "broken")
Broken(s) ==
    /\ pc[s] = "request" /\ erring
    /\ \E so \in BOOLEAN : Appears(s, so)
    /\ AfterNetworkError(s)
    /\ UNCHANGED <<cool, denied>>

NeverTimesOut(s) == FALSE    \* mutant
\* The client's timeout or the context ends the request.
TimedOut(s) ==
    /\ pc[s] = "request" /\ timer[s] <= 0
    /\ \E so \in BOOLEAN : Appears(s, so)
    /\ Return(s, "failed", "late")
    /\ UNCHANGED <<cool, denied>>

\* time.After fires: the next attempt.
Retry(s) ==
    /\ pc[s] = "waiting" /\ timer[s] = 0
    /\ pc' = [pc EXCEPT ![s] = "request"]
    /\ attempt' = [attempt EXCEPT ![s] = @ + 1]
    /\ timer' = [timer EXCEPT ![s] = RequestTimer(left[s])]
    /\ UNCHANGED <<left, erring, cool, posted, denied, spent, last>>

\* The context ends during the wait.
GiveUp(s) ==
    /\ pc[s] = "waiting" /\ left[s] <= 0
    /\ pc' = [pc EXCEPT ![s] = "failed"]
    /\ UNCHANGED <<attempt, timer, left, erring, cool, posted, denied, spent, last>>

Active(s) == pc[s] \in {"request", "waiting"}

\* A goroutine, or a reliable hook, has something to do now.
Due(s) ==
    \/ Active(s) /\ timer[s] <= 0
    \/ pc[s] = "waiting" /\ left[s] <= 0
    \/ pc[s] = "request" /\ ~erring

\* A unit of time passes.
Tick ==
    /\ \A s \in Send : ~Due(s)
    /\ cool > 0 \/ \E s \in Send : Active(s)
    /\ timer' = [s \in Send |-> timer[s] - (IF Active(s) THEN 1 ELSE 0)]
    /\ left' = [s \in Send |-> left[s] - (IF Active(s) THEN 1 ELSE 0)]
    /\ spent' = [s \in Send |-> spent[s] + (IF pc[s] = "request" THEN 1 ELSE 0)]
    /\ cool' = IF cool > 0 THEN cool - 1 ELSE 0
    /\ UNCHANGED <<pc, attempt, erring, posted, denied, last>>

Answer(s) ==
    Accepted(s) \/ Limited(s) \/ ServerError(s) \/ Rejected(s) \/ Broken(s)

Runs(s) == TimedOut(s) \/ Retry(s) \/ GiveUp(s)

Next == Tick \/ \E s \in Send : Begin(s) \/ Answer(s) \/ Runs(s)

\* Goroutines run when they can, and time passes.  An erring hook need not
\* answer; a reliable one does, before the next unit.
Fairness ==
    /\ WF_vars(Tick)
    /\ \A s \in Send : WF_vars(Runs(s)) /\ WF_vars(~erring /\ Answer(s))

Spec == Init /\ [][Next]_vars /\ Fairness

-----------------------------------------------------------------------------

\* The types of the variables; a send makes MaxAttempts attempts at most
\* (notifier.go:88).
TypeOK ==
    /\ pc \in [Send -> {"idle", "request", "waiting", "sent", "failed"}]
    /\ attempt \in [Send -> 0..MaxAttempts]
    /\ timer \in [Send -> 0..(IF RequestTimeout > MaxWait THEN RequestTimeout
                              ELSE MaxWait)]
    /\ left \in [Send -> (-RequestTimeout)..Deadline]
    /\ erring \in BOOLEAN /\ cool \in 0..Period
    /\ posted \in [Send -> 0..MaxAttempts]
    /\ denied \in [Send -> 0..MaxAttempts]
    /\ spent \in [Send -> 0..Deadline]
    /\ last \in [Send -> {"none", "accepted", "refused", "rejected", "broken", "late"}]

\* notifier.go:59-61, 99: only what was refused is sent again.  A message
\* appears once, unless the hook answers 5xx to one it has posted; one whose
\* fate is unknown because the connection broke is not repeated.
PostedOnce == \A s \in Send : posted[s] <= 1 + denied[s]

\* notifier.go:75-77: the context "bounds the whole operation regardless", be
\* it a request or a wait, and whatever Retry-After asked for.
EndsInTime == \A s \in Send : Active(s) => left[s] >= 0

\* app.go:29-32: the deadline leaves room for every wait, so a send that fails
\* for want of an answer or of attempts had all its attempts refused, or spent
\* on requests what the waits leave of the deadline.
FailsForCause ==
    \A s \in Send :
        pc[s] = "failed" /\ last[s] \in {"refused", "late"} =>
            \/ attempt[s] = MaxAttempts /\ last[s] = "refused"
            \/ spent[s] >= Deadline - (MaxAttempts - 1) * MaxWait

\* notifier.go:21-26: a burst of reports about one earthquake meets the hook's
\* rate limit.  As many sends as there are attempts all get through, in
\* whatever order they started and retry.
BurstGetsThrough ==
    ~erring /\ Cardinality(Send) <= MaxAttempts => \A s \in Send : pc[s] # "failed"

\* app.go:110-116: a send that was started returns, whatever the hook does.
Returns == \A s \in Send : Active(s) ~> ~Active(s)
=============================================================================
