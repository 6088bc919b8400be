# TLA+ models of irc-eew

irc-eew is a daemon that receives earthquake early warnings from a WNI
"FastCaster" server over a long-lived TCP connection, archives them, and
forwards them to Slack webhooks and IRC channels.  This directory holds TLA+
models of its concurrent core, the TLC configurations that check them, and
proofs checked by TLAPS.  Paths are relative to the repository's root.

## The system and its parts

| Part | State | Operations | Talks to |
| --- | --- | --- | --- |
| WNI client (`internal/wni/client.go`, `protocol.go`) | the socket, the parser's buffer, header block and body length | `Dial`, `Login`, `Run`, `FrameParser.Feed` | the WNI server; calls `onData` for every telegram |
| WNI connection loop (`internal/app/app.go`, `internal/wni/serverlist.go`) | backoff, cached server list | `runConnectionLoop`, `connectAndLogin`, `serverResolver.Resolve` | WNI client, list server, the context |
| Processor (`internal/app/app.go:268-319`) | none of its own | `Process` | archive, decoder, formatter, Slack dispatcher |
| Daemon (`cmd/eew-notifier`, `app.Run`) | the context, one goroutine per IRC connection | start, signal, wait, exit | configuration, archive, the WNI loop, the IRC connections |
| Archive (`internal/eewlog/store.go`) | files | `Open`, `WriteTemp`, `Finalize` | the viewer reads the same directory |
| Decoder (`internal/decoder`) and formatter (`internal/eewmsg`) | none | `Decode`, `Format` | |
| Slack (`internal/notify`, `internal/slack`) | `lastEqID`; an attempt counter per send | `HooksFor`, `Send` | one goroutine per hook and telegram |
| IRC send queue (`internal/irc/queue.go`) | order, entries, closed | `Enqueue`, `Dequeue`, `Close` | WNI goroutine, write goroutine |
| IRC channel dispatcher (`internal/irc/dispatcher.go`) | `lastEqID` | `ChannelsFor`, `JoinChannels` | called by `Notify` |
| IRC connection (`internal/irc/connection.go`) | session, ready channel, reconnect token, backoff | `Notify`, `Run`, `writeLoop`, two handlers | goirc, queue, dispatcher, the context |
| Viewer (`internal/eewview`) | none between requests | list and detail handlers | reads the archive, and decodes what it finds |
| WNI simulator (`internal/wnisim`, `cmd/wnisim`) | a session's line channel | `AwaitLogin`, `AwaitAck`, `Send...` | a WNI client under test |

How a telegram travels: `Client.Run` reads bytes and feeds the parser; for
every Data frame it calls `onData` on the same goroutine, which archives the
telegram, chooses Slack hooks, starts one goroutine per hook, and calls
`Notify` of every IRC connection.  `Notify` chooses channels and puts a notice
into that connection's queue without blocking.  Each IRC connection has two
goroutines, `Run` (connect, wait, back off, shut down) and `writeLoop` (wait
until ready, dequeue, send), and two handlers that goirc calls.  One context,
canceled by a signal, shuts everything down.

What is hard in each part, and what makes the part right:

* **IRC send queue.**  Two goroutines, a condition variable, and two
  structures (a slice of slots, a map of notices) updated apart.  Right means:
  the two agree, no wake-up is lost, a newer report replaces an unsent one in
  place, eviction takes the oldest of the least important, and `Close` ends the
  consumer.
* **IRC connection.**  Four actors (`Run`, `writeLoop`, the two handlers) and
  the network.  The ready channel is replaced per session, and the reconnect
  channel holds one token.  Right means: nothing of one session leaks into the
  next, the connection comes back, servers are not hammered, notices leave
  the queue, and cancellation ends both goroutines.
* **WNI client.**  A byte stream cut anywhere by `Read`, a server ping that
  must be answered and wipes the buffer, errors in the middle of a batch.
  Right means: telegrams whole, in order, without delay, and not lost with an
  error that came after them.
* **WNI connection loop.**  Failures of the list endpoint, of dialing and of
  sessions.  Right means: paced retries, the newest list, no single outage
  stops it, cancellation does.
* **Processor, archive, Slack hooks.**  A crash or a failing file operation
  between any two steps.  Right means: the viewer sees whole telegrams only,
  nothing archived gets lost, hooks hear of what can be looked up, limited
  hooks hear of every earthquake.
* **Slack notifier.**  Attempts, waits and a deadline that do not fit together by
  arithmetic; answers that never come; a burst of sends that is refused and
  retries together.  Right means: nothing is posted twice that may have been
  posted already, every send ends at its deadline, and only with cause before
  its last attempt, and a burst the rate limit allows for gets through.
* **Daemon.**  It may fail before anything runs, and a signal may come at any
  time.  Right means: the signal ends it, and not before every IRC connection
  has had its QUIT.
* **Decoder.**  Lines of five kinds in any order, some repeated.  Right means:
  no line undoes what a line of another kind, or about another area, told.
* **Viewer.**  It looks for a day's directory level by level, lists it and
  reads file by file, while the notifier makes directories and renames files
  into them.  Where a telegram goes, where the list looks and where a link
  leads is worked out in three places.  Right means: the list is complete,
  ordered and true, and leads to every report.
* **Formatter, configuration.**  Sequential functions.

## The modules

| Module | What it is | Code |
| --- | --- | --- |
| `NoticeBox` | what the send queue promises: a box of at most `Capacity` notices, one per earthquake | `queue.go:34-45` in the abstract |
| `IrcQueue` | the send queue, one action per critical section | `queue.go` |
| `IrcDispatcher` | which channels, which priority: operators | `dispatcher.go` |
| `IrcConnection` | one connection; `Q == INSTANCE IrcQueue` is its queue | `connection.go` |
| `WniClient` | one session with a WNI server, and the server | `client.go`, `protocol.go`, `wnisim/server.go` |
| `WniLoop` | the daemon from start to exit, the loop that keeps sessions alive, and the server resolver | `app.go:38-95, 134-266`, `serverlist.go`, `cmd/eew-notifier/main.go` |
| `Processor` | one telegram through archive and hook choice, with crashes | `app.go:82-122, 268-319`, `store.go`, `notify/dispatcher.go` |
| `SlackSend` | the sends to one hook, and the hook | `slack/notifier.go`, `app.go:105-122` |
| `Decoder` | what `Decode` makes of a body, and what the body says: operators | `decoder/decoder.go` |
| `EewView` | the viewer's handlers, with the notifier writing to the archive meanwhile | `eewview/list.go`, `detail.go`, `summary.go`, `eewlog/store.go` |
| `MCIrcQueue`, `MCIrcConnection`, `MCWniClient`, `MCWniLoop`, `MCProcessor`, `MCSlackSend`, `MCEewView` | small instances for TLC | |
| `IrcQueueProofs`, `IrcConnectionProofs`, `WniClientProofs`, `WniLoopProofs`, `ProcessorProofs`, `SlackSendProofs`, `DecoderProofs`, `EewViewProofs` | theorems about these modules | |
| `MCIrcDocs` | what comments say of a connection and the code does not do | |

In every module a variable carries the name of the field or local variable it
models, where there is one, and a program counter (`run`, `writer`, `client`,
`loop`, `step`) says where a goroutine is.  A goroutine's code is cut into
actions where something else can happen in between: at a lock, a channel, a
read, a sleep, a file operation.  What happens under one lock is one action.
Time is not measured: a sleep ends at any time, unless the context ends it.

Some modules hold definitions marked `mutant`.  They are slips a programmer
could make in the definition that follows them, and nothing uses them; with
the slip in place of the definition, the property named beside them in
`PROJECT.json` fails.  They document what each property is able to see.

### IrcQueue

`Enqueue` is `Ignore` (closed), `Coalesce` (the earthquake has an unsent
notice: replaced in place), `AppendNew` or `EvictAndAppend`.  `Dequeue` is
`Park` (`cond.Wait` releases the lock), `Take` and `GiveUp`.  `Wake` is
`cond.Signal`; `consumer = "parked"` is a goroutine inside `Wait`.  One
goroutine dequeues, as in the daemon.  `SlotsKept` has two halves: what stays in
the queue keeps its order (`KeepsSlots`), and what leaves it before an older
notice is less important (`LeavesInTurn`), which is the "oldest" in `evictOne`'s
comment.

### IrcConnection

Ready channels are numbered, since a goroutine that waits keeps the one it
read: `ready` is the one in `c.ready`, `opened` holds those that were closed,
and `gate` is what `writeLoop` waits for.  `reconnect` is the buffered token.
`handleDisconnected` is two steps, replacing the channel and signalling.

A sleep of `Run` is the step that ends it; it lasts `backoff` seconds, and
`PacedReconnect` says how that value goes on: doubled, or at its maximum, with
every failed attempt and every session that did not last, and back at its initial
value after one that did.  A failed attempt doubles it after the sleep and a short
session before (`connection.go:134-137, 151-157`), so that two sleeps in a row
may be equally long.

goirc is outside this repository.  Assumed of it is what the code relies on: a
session that ends calls the DISCONNECTED handler once, after any CONNECTED
handler of that session has returned; a session is welcomed at most once;
sending never blocks, and what is sent on a dead link is lost.

### WniClient

The stream is a sequence of cells.  A line's text is one cell and its newline
another, since the parser looks at a line only when its newline has come; a
body is counted in cells and may hold cells that look like lines.  `Read`
takes any number of the cells that have come.  The parser's loop is one action
per kind of line, and the ack of a ping may be sent or fail.
`ServerAwaitsAck = TRUE` is a server that, after a ping, pushes no telegram
before the ack has come, as `wnisim/server.go:10-12` describes; keep-alives,
which the simulator sends from another goroutine, come all the same.

### WniLoop

`process` is where `main` and `Run` are: before `signal.NotifyContext`, before
`eewlog.Open` has returned, running, exited or failed.  `conns` says of each
IRC connection whether its `Run` has returned; `IrcConnection` models what it
does until then and shows that it returns.  When the process exits, what still
runs in it is gone, so `ShutdownCompletes` asks for both: the process exits,
and every connection had ended.  `loop` is the goroutine of `runConnectionLoop`.
After a session that ended it goes back to the top without a wait; only a
failed attempt is followed by a sleep.

`failures` and `newest`, the last list that was fetched, are history variables,
used in properties only: `DialsNewestList` compares the server dialed with
`newest`, and not with the resolver's own cache.  The list endpoint may answer with any list, fail, or, with `FetchMayHang`, take the
request and not answer.  `Client.Run` is the state `running`.

### Processor

`CreateTemp` and `WriteTemp` are the two halves of `os.WriteFile`.  Every file
operation may fail, and `Crash` may come between any two steps; it clears what
is in memory and leaves the files.  When the archive fails, the hooks are told
all the same.  A body without an ND line decodes to an
empty eqID and number 0.

### Decoder

A line is what each of the five patterns finds in it, so that a line may match
several; `Kind` is the case `Decode`'s `switch` takes, `Read` what that case
does to the telegram, and `Decode` the fold over the lines.  `Line` holds the
lines there may be; of them it is only assumed that digits follow the type in an
ND line, as `ndRE` has it (`LineAssumption`).  `Says` states the
result without the fold: every field comes from the last line of its kind, the
report number from the last ND line that has one, and an area's forecast from
the last EBI line that names it.

### EewView

The list handler keeps nothing between requests, so one request at a time is
enough; `Request` to `Reply` are its steps, cut at every access to the file
system, and any of them may fail.  The notifier's `Finalize` is cut the same
way: `os.MkdirAll` makes one directory after the other.  `ShowDetail` is one
step, since the detail handler reads a single file.  A directory is the
sequence of the numbers in its path and a name the earthquake with the
report's number.  What the eqID in an ND line begins with is taken to be a date
of this millennium: the viewer's clamps rest on that, and `BodyAssumption` states
it.  `before` and `unread` are history variables: what the day held when the
request came, and what could not be read.

### SlackSend

The goroutines of `dispatchToSlack` that post to one hook.  Each has a timer,
for the request or the wait it is in, and what is `left` of its context; `Tick`
takes a unit off all of them, and does not come while a goroutine has something
to do.  The `select` at `notifier.go:113` is `Retry` and `GiveUp`: when both
have come, either may happen.  A reliable hook posts one message per `Period`,
refuses the others with or without a Retry-After, and answers at once; an erring
one gives any answer, late or never, and may have posted what it answers 5xx
to, or nothing at all.  Sends to different hooks share nothing.  `posted`,
`denied`, `spent` and `last` are history variables, used in properties only.

## What is checked

All bounds are constants, named in the modules and set in the `.cfg` files.
Deadlock is checked in every run but `slack_send`, whose goroutines all return.

| Run | Instance | Shows |
| --- | --- | --- |
| `irc_queue` | 4 earthquakes, 3 slots, 3 priorities | `TypeOK`, `OrderMatchesEntries`, `NoLostWakeup`, `SlotsKept`, `ImplementsBox`, `NotStarved`, `DrainsAfterClose` |
| `irc_connection` | 2 sessions, 2 failed attempts, 1 earthquake with 2 reports, backoff 1 to 3 | `TypeOK`, `NeverClosedTwice`, `ReadyMeansJoined`, `NothingLeftBehind`, `PacedReconnect`, `ComesBack`, `ShutdownCompletes`, `DrainedUnlessOrphaned` |
| `wni_client` | 3 blocks, bodies of 0, 1 and 3 cells, one of them a ping between newlines | `TypeOK`, `InOrder`, `CaughtUp`, `PingsAnswered`, `DispatchedBeforeEnd`, `ShutdownNoticed` |
| `wni_loop` | 2 servers, hence 3 lists, override or none, 2 IRC connections | `TypeOK`, `BackoffCountsFailures`, `DialsNewestList`, `ShutdownCompletes`, `ListErrorsSurvived` |
| `processor` | 3 telegrams out of 5, 2 seconds, 1 crash | `TypeOK`, `FinalsAreWhole`, `StaysOnDisk`, `ToldMeansArchived`, `LimitedHearOfEveryQuake` |
| `slack_send` | 3 sends to a reliable hook, 1 to an erring one, 3 attempts; timeout, longest wait and deadline 3, 3 and 9 | `TypeOK`, `PostedOnce`, `EndsInTime`, `FailsForCause`, `BurstGetsThrough`, `Returns` |
| `archive_view` | 6 bodies of 3 earthquakes, 8 queries; 16 lines | `ListIsFaithful`, `EveryReportReached`, `DecodeAgrees` |

Why the bounds are enough.  *Queue:* eviction needs one earthquake more than
slots, and removal from front, middle and end needs three slots; a new report
differs from the old one in its priority.  *Connection:* what can leak from a
session leaks into the next one, so two sessions are needed; the last one lasts,
so that liveness is asked of a network that calms down.  Two reports let one
notice be in hand while another one waits.  Backoff 3 is not a power of two, so
the cap bites.  *Client:* a telegram, a ping and another telegram meet in one
batch with three blocks.  *Loop:* nothing is bounded but the number of servers and of IRC connections;
the failure counter stops at 7, when the backoff has reached its cap.
*Processor:* two telegrams that meet in a name, or an earthquake, with a crash
between them, and a third one.  *Slack:* timeout, longest wait and deadline are
1:1:3 as in the code.  An erring hook's answers do not depend on other sends, so
one send shows all; at a reliable hook it takes as many others as there are
attempts to keep one send out, so three sends are the largest burst that is sure
to get through.

*Viewer:* reports 2 and 10 of one earthquake, whose numbers sort differently as
text; a second earthquake on that day; another day at the end of a year; a
telegram that replaces another one of its name; eight queries that reach every
level and every branch of `saturate`.  `DecodeAgrees` compares the fold with the
reference for every telegram in the archive, and for all bodies of up to four
(`MaxLines`) lines out of sixteen.  `Misread` holds those that differ; being a constant, it is evaluated once.

### Fairness

* The write goroutine, `Run` and goirc's handlers run when they can (the Go
  scheduler); sleeps end; `ConnectContext` returns, having a timeout; a server
  welcomes the client it accepted.  No fairness is asked of telegrams, drops,
  failures or the cancellation.
* `Client.Run` runs when it can, and a `Read` that gets nothing ends with
  `SetReadDeadline`.
* The daemon and the WNI loop run when they can, `Dial` ends with the kernel's timeout, and
  once canceled, `Client.Run` returns (`WniClient!ShutdownNoticed`) and so does
  every IRC connection's `Run` (`IrcConnection!ShutdownCompletes`).  A list
  request has no timeout, so nothing but the cancellation ends `hanging`, and a
  session may last forever.
* Slack's goroutines run when they can, and time passes.  A reliable hook
  answers; nothing is asked of an erring one, so `Returns` rests on the
  timeouts alone.

### Where code and documents disagree

Five runs each violate one statement of a comment or document.

* **`irc_stuck_writer`** (`QueueIsDrained`).  A session ends before it is
  welcomed: `handleDisconnected` replaces the ready channel without closing
  it.  `writeLoop`, which had read the old one, waits for it forever; later
  sessions register, and nothing is sent on them.
  `DrainedUnlessOrphaned` shows that this is the only way the write goroutine
  gets lost.
* **`irc_dequeued_while_down`** (`NotDequeuedWhileDown`).  `writeLoop` passed
  the gate and blocks in `Dequeue`; the link drops; the next notice is taken
  at once and goes to the dead link.
* **`irc_limited_forgotten`** (`LimitedNotForgotten`).  The first report waits,
  for all channels; the routine second one replaces it, for all-notice
  channels only.  Limited-notice channels never hear of the earthquake's
  first report.
* **`wni_ping_swallows`** (`CaughtUp`, with a server that does not await the
  ack).  Two writes, a ping and a telegram, come back from one `Read`; the ping
  wipes the buffer and the telegram with it.
* **`wni_list_hangs`** (`ListOutageSurvived`).  The list endpoint takes the
  request and does not answer; `http.DefaultClient` has no timeout, and the
  cached list is not tried.  `ListErrorsSurvived` shows that any answer,
  however often an error, lets the loop go on.

## What is proved

Each component has a module of theorems beside it.  A theorem
holds for all values of the constants that the named `ASSUME`s of the modules
allow; TLC evaluates these assumptions on the instances.  All follow the same
pattern but for the decoder, which has no state: an inductive invariant `IInv`, one
lemma per action that the action keeps it, `Invariance == Spec => []IInv`, and the
theorems as its consequences.

| Module | Theorem | Property |
| --- | --- | --- |
| `IrcQueueProofs` | `TypeCorrect`, `OrderAlwaysMatchesEntries`, `NoWakeupIsLost`, `SlotsAreKept` | `TypeOK`, `OrderMatchesEntries`, `NoLostWakeup`, `SlotsKept` |
| | `QueueImplementsBox` | `ImplementsBox` |
| `IrcConnectionProofs` | `ConnectionImplementsQueue` | `Spec => Q!QueueSpec` |
| | `ConnectionKeepsQueue` | the queue's `OrderMatchesEntries`, `NoLostWakeup` and slots, inside a connection |
| | `ConnectionImplementsBox` | the queue's `ImplementsBox`, inside a connection |
| | `TypeCorrect`, `NeverClosesTwice`, `ReadyImpliesJoined`, `NothingIsLeftBehind` | `TypeOK`, `NeverClosedTwice`, `ReadyMeansJoined`, `NothingLeftBehind` |
| | `ReconnectIsPaced` | `PacedReconnect` |
| `WniClientProofs` | `TypeCorrect`, `TelegramsInOrder`, `NoneLeftUnread`, `PingsGetAnswers` | `TypeOK`, `InOrder`, `CaughtUp`, `PingsAnswered` |
| | `NothingLostAtEnd` | `DispatchedBeforeEnd` |
| `WniLoopProofs` | `TypeCorrect`, `BackoffIsExponential`, `NewestListIsDialed` | `TypeOK`, `BackoffCountsFailures`, `DialsNewestList` |
| | `DaemonExitsLast` | `ExitsLast` |
| `ProcessorProofs` | `TypeCorrect`, `FinalsAreAlwaysWhole`, `ToldAreArchived`, `LimitedHearToo` | `TypeOK`, `FinalsAreWhole`, `ToldMeansArchived`, `LimitedHearOfEveryQuake` |
| | `FilesStayOnDisk` | `StaysOnDisk` |
| `SlackSendProofs` | `TypeCorrect`, `PostedAtMostOnce`, `EndsWithinDeadline`, `FailsOnlyForCause`, `BurstsGetThrough` | `TypeOK`, `PostedOnce`, `EndsInTime`, `FailsForCause`, `BurstGetsThrough` |
| `DecoderProofs` | `DecodeSays` | `Says(Decode(body), body)`, for bodies of any length |
| | `LinesCommute` | the order of two lines matters only if they tell the same thing |
| `EewViewProofs` | `ListAlwaysFaithful`, `EveryReportIsReached`, `DecodeAlwaysAgrees` | `ListIsFaithful`, `EveryReportReached`, `DecodeAgrees` |

### The send queue

The inductive invariant is `IInv == TypeOK /\ OrderMatchesEntries /\
NoLostWakeup`.  None of the three is inductive alone: that the length stays
within capacity after `Coalesce` needs that a notice has a slot exactly if it
has an entry; that `order` is empty while the consumer sleeps needs that every
`Enqueue` wakes it.  Two lemmas about sequences carry the proof: what removing
one position does to membership and injectivity, and what appending a new
element does.  The refinement rests on the cardinality of the entries being the
length of the order, which follows from injectivity.

### The connection

`ConnectionImplementsQueue` shows each step of a connection to be a step of its
queue or none at all.  So the theorems of `IrcQueueProofs`, taken as an
instance, hold of `c.queue`, and nothing about the queue is proved twice:
`ConnectionKeepsQueue` and `ConnectionImplementsBox` state them of a connection.
`QueueAssumption` restates the queue's assumptions for the connection's
constants.

`SessionInv` says what the actors know of each other.  It has a part for every
stage of a session (up, registered, over with its DISCONNECTED handler still to
run or running, over altogether): which handler may be on its way, whether the
token is in the channel, and whether the present ready channel is closed; and
one for `Run` between two sessions.  The four invariants are corners of it;
alone none is inductive.  `NeverClosedTwice`, for one, needs that a session is
welcomed only when the DISCONNECTED handler of the one before has replaced the
channel, which needs that `Run` does not connect before it has the token, which
needs that the handler replaces the channel before it sends the token: the order
of `connection.go:189-194`.  `ReadyCounted` numbers the channels by the sessions.

### The WNI client

Its bodies are arbitrary: telegrams may hold newlines, headers, pings and whole
blocks.  The variables do not tell where in the stream the client is, so the
invariant says that there is an explanation for what it holds: a stream `H` of
all that was sent, the places `D` where the telegrams' blocks start in it, a
number `off` of cells the parser is through with, and a number `n` of telegrams
it has completed, such that

* `Layout`: the blocks are at these places in their order, and everything
  between them is a line no telegram depends on, or a ping;
* `Cut`: the buffer and then the wire hold the cells after the first `off`,
  however `Read` has cut them;
* `Between` or `Inside`: `id`, `length` and `size` are what they are between
  two blocks, or after the first, the second or the third line of block `n + 1`;
* `PingsAfter`, `PingInv`: a ping still to come is the last thing but filler,
  and an ack the server waits for will be sent;
* `Handed`: the `n` telegrams are those delivered and then those in `frames`.

Writes make `H` and `D` longer, `Read` only moves the cut, each line or body
moves `off` to another such place, and `Dispatch` only moves the account.
`CaughtUp` and `PingsAnswered` follow from `Incomplete`, which `Feed`
establishes before it returns: if a telegram or a ping were left, the buffer would
hold the newline after it, or the whole of the body.

The hypothesis `ServerAwaitsAck = TRUE` of the first four theorems is the
behaviour that the simulator describes; `wni_ping_swallows` shows that
`CaughtUp` fails without it.  `NothingLostAtEnd` needs no hypothesis and has a
small invariant of its own, `FramesInv`.

### The daemon and the connection loop

`DialsNewestList` and `BackoffCountsFailures` are made inductive by
`ProcessInv` (nothing runs before it was started), `WaitInv` (only a failure is
followed by a sleep, and the cache is the newest list) and `TypeOK`.  `BackoffTable` shows that the doubling and
its cap go through the values 1, 2, 4, ... 60, 60.  `ExitsLast` is the safety
half of `ShutdownCompletes`: the process exits only after the loop and all
connections.

### Telegrams

`FilesInv` says of every file which telegram it holds and that its name is that
telegram's; `HandInv` says at each step of `Process` what is known of the
telegram at hand, after any failure before; `MemoryInv` says what the
dispatcher's `lastEqID` stands for.  `LimitedHearOfEveryQuake` needs the last:
`lastEqID` is set before anything is sent, and nothing but the end of the process,
which forgets it, keeps the sends from following.
`StaysOnDisk` is an action property and follows from `FilesInv` and `HandInv`.
It holds of the telegram at hand, too, when `MkdirAll` or `Rename` fails or the
process dies before them.  Its two exceptions are the overwritings the code does,
and each names the file that must be found in the place of the one that is gone:
after a rename, the whole of the telegram at hand under the final name of both;
after the beginning of a write, the telegram at hand, not yet whole, under the
temporary name of both (the same sum in the same second).  `TelegramAssumption` says that a
telegram is not `NoTelegram` and a path not `NoPath`.

### Slack

Each send has three accounts: of the times its message may have appeared, of its
time, and, for a burst, of the messages that other sends got accepted.
`EndsInTime` and `FailsForCause` come from the second: what is not left of the
deadline was spent on requests, or on at most one wait of `MaxWait` per attempt.
`BurstGetsThrough` comes from the third: an attempt is refused only if another
message was accepted since the attempt before, so a send refused as often as
there are attempts would count more other sends than there are.
`DeadlineAssumption` states how the deadline relates to the waits and the
request timeout (30 s, two waits of 10 s, and 10 s).

### The decoder

`Decode` is a fold over a sequence of any length, so `DecodeSays` needs an
induction.  The library's induction theorem takes an operator as its parameter,
and no prover here can be given one; `InductionOverNat` states induction for a set
of numbers instead, and is proved by the pigeonhole principle: were `n` the number
that a set with 0 and all successors misses, adding 1 would map what there is up to
`n` into itself without 0, one to one.

The community modules define a fold over a sequence by a recursive function on the
sets of places.  `FoldExists` shows that there is such a function, `FoldStep` that
it takes one line more at a time, and `DecodeAppend` draws the conclusion: the
last line is read into what the lines before it gave.  `SaysAppend` is the step of
the induction, a case for each kind of line.  In each, what the line tells takes
the place of what the last such line told before, and all else stays: the report
number when an ND line has none, and the areas that an EBI line does not name.

`LinesCommute` follows from `DecodeAppend` and `ReadByField`, which says of each
field what a line makes of it.

### The viewer

Queries are arbitrary, and telegrams too but for `BodyAssumption`: they are
sequences of lines, and the eqID in an ND line begins with a date between 2000 and
3000.  That a telegram has no eqID or such a one, and a report number of two
digits, is what decoding makes of that (`DecodedName`, a consequence of
`DecodeSays`).  `ArchiveInv` says that every file is where `FinalPath` puts what
it holds, that its directories are there, and that a directory is the beginning
of a date.  `ListInv` says at each step of the list handler where the reports
are that the day had when it was asked for: in the archive, then among the rows,
the names still to be read and the unreadable.  The rows and then the names to
be read are in order throughout.

Two things keep the notifier from spoiling a list.  `ListSurvives`: files and
directories only come, so what the handler has found out stays true.  And a file
replaced between `ReadDir` and `ReadFile` has the same name, hence the same
number.  `SortedSorts` shows that a finite set of names has its order, by
counting for each name those that are not after it.  That a link to a month
lists the month, and not a day of it, needs that no directory has the number 0,
which is what an absent parameter becomes.

### What is only model-checked

Every safety property of the passing runs is proved.  What is left is liveness
(`NotStarved`, `DrainsAfterClose`, `ComesBack`, `ShutdownCompletes`,
`DrainedUnlessOrphaned`, `ShutdownNoticed`, `ListErrorsSurvived`, `Returns`): TLAPS
has no backend here for `ENABLED`, and so none for fairness.

## What is not modelled

* The formatter and the viewer's wording and templates: pure functions from
  fields to text.  The decoder's fields that only turn into wording, and its
  generated tables.
* The configuration's syntax: that loading it may fail is a step of `WniLoop`.
* Charset, logging and the link helpers touch no state; `eew-replay` decodes
  files in sequence.
* The viewer's process: `cmd/eew-view/main.go` starts the server and shuts it
  down.  It does not wait for `Shutdown`, so a request that is being served when
  the signal comes may be cut off.
* The simulator's own session (`readLoop`, `AwaitLogin`) and its command,
  which is a test tool; what it sends is in `WniClient`.
* Of the WNI client, the login's headers and the frames' other headers.  A text
  torn in the middle by the wipe after a ping counts as wiped or left whole.  A
  negative `Content-Length`, which would panic, comes from no server the
  repository describes.
* The time the WNI client's handlers take, which delays the answer to the next
  ping; how long a server waits for it is nowhere said.
* Slack's goroutines at exit: the process ends without waiting for them.

## Plan

Done, in this order: `IrcQueue` with `NoticeBox` and its proofs, `IrcConnection`,
`WniClient`, `WniLoop`, `Processor`, `SlackSend`, `Decoder` and `EewView`, the
daemon's start and exit in `WniLoop`, and the proofs of every safety property
of all of these.

What is left is a theorem about what the components do together: that every
connection's queue is handed the notices of `Processor` in the order in which
`WniClient` delivers the telegrams.  (Of Slack's hooks this is not true: there is
a goroutine for each hook and telegram.)
