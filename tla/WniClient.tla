----------------------------- MODULE WniClient -----------------------------
(***************************************************************************)
(* internal/wni/client.go and protocol.go: one session with a WNI server,  *)
(* from the first read to the end of Client.Run, and the server that       *)
(* pushes blocks to it.                                                    *)
(*                                                                         *)
(* The byte stream is a sequence of cells: a line's text is one cell, its  *)
(* newline another, and a body is counted in cells.  FrameParser looks at  *)
(* a line only when its newline has come, so a text that has come in part  *)
(* is like one that has not.  A body may hold cells that look like lines.  *)
(* A text the wipe after a ping would tear counts as wiped, or as left.    *)
(*                                                                         *)
(* Client.Run is one goroutine; its loop is split where the network or the *)
(* cancellation can come in between: the context check, Read, the lines    *)
(* and bodies Feed goes through (each ping is answered on the way), and    *)
(* the frames it hands to the handlers.                                    *)
(***************************************************************************)
EXTENDS Integers, SequencesExt

\* A "byte" is any text that means nothing to the parser.
Cells ==
    [kind : {"newline", "ping", "status", "data", "response", "keepalive", "length",
             "byte"},
     val : Nat]

CONSTANTS
    Bodies,             \* what Data blocks carry: sequences of cells
    ServerAwaitsAck,    \* after a ping, does the server wait for the ack?
    MaxBlocks           \* bound on the blocks the server sends

ASSUME ServerAssumption ==
    /\ Bodies \subseteq Seq(Cells)
    /\ ServerAwaitsAck \in BOOLEAN
    /\ MaxBlocks \in Nat

Cell(kind, val) == [kind |-> kind, val |-> val]

NL         == Cell("newline", 0)
Ping       == Cell("ping", 0)           \* GET / HTTP/1.1
Status     == Cell("status", 0)         \* a line without a colon
DataID     == Cell("data", 0)           \* X-WNI-ID: Data
ResponseID == Cell("response", 0)       \* X-WNI-ID: Response
KeepID     == Cell("keepalive", 0)      \* X-WNI-ID: Keep-Alive
ContentLength(n) == Cell("length", n)

IDs == {DataID, ResponseID, KeepID}

VARIABLES
    wire,       \* cells sent and not yet read
    sent,       \* bodies sent, in order
    blocks,     \* blocks sent
    unacked,    \* the server has sent a ping and not seen the ack
    link,       \* "open", "closed" by the server, or "broken"
    canceled,   \* ctx is canceled
    client,     \* where Client.Run is
    buf,        \* p.buf
    id,         \* p.header["X-WNI-ID"], NL if absent
    length,     \* p.header["Content-Length"], -1 if absent
    size,       \* p.size if p.hasSize, else -1
    frames,     \* the frames Feed has completed and Run not yet handed over
    failed,     \* Feed returned an error
    delivered   \* bodies handed to OnData, in order

serverVars == <<wire, sent, blocks, unacked, link>>
parserVars == <<buf, id, length, size>>
vars == <<serverVars, canceled, client, parserVars, frames, failed, delivered>>

Init ==
    /\ wire = <<>>
    /\ sent = <<>>
    /\ blocks = 0
    /\ unacked = FALSE
    /\ link = "open"
    /\ canceled = FALSE
    /\ client = "top"
    /\ buf = <<>>
    /\ id = NL
    /\ length = -1
    /\ size = -1
    /\ frames = <<>>
    /\ failed = FALSE
    /\ delivered = <<>>

-----------------------------------------------------------------------------
(* The server                                                              *)

DataBlock(b) == <<DataID, NL, ContentLength(Len(b)), NL, NL>> \o b
PingLine     == <<Ping, NL>>

\* One write on the server's side.
Write(cells, bodies, ping) ==
    /\ link = "open"
    /\ blocks < MaxBlocks
    /\ wire' = wire \o cells
    /\ sent' = sent \o bodies
    /\ blocks' = blocks + 1
    /\ unacked' = (unacked \/ ping)
    /\ UNCHANGED <<link, canceled, client, parserVars, frames, failed, delivered>>

\* A server that awaits the ack sends keep-alives only before it has come.
MayPush == ~(ServerAwaitsAck /\ unacked)

SendResponseOK == MayPush /\ Write(<<Status, NL, ResponseID, NL, NL>>, <<>>, FALSE)

SendKeepAlive == Write(<<KeepID, NL, NL>>, <<>>, FALSE)

SendData(b) == MayPush /\ Write(DataBlock(b), <<b>>, FALSE)

SendGETPing == MayPush /\ Write(PingLine, <<>>, TRUE)

SendDataThenGETPing(b) == MayPush /\ Write(DataBlock(b) \o PingLine, <<b>>, TRUE)

\* The server closes the connection; what it has sent can still be read.
ServerCloses ==
    /\ link = "open"
    /\ link' = "closed"
    /\ UNCHANGED <<wire, sent, blocks, unacked, canceled, client, parserVars,
                   frames, failed, delivered>>

\* The connection breaks, and what was on its way is lost.
LinkBreaks ==
    /\ link = "open"
    /\ link' = "broken"
    /\ wire' = <<>>
    /\ UNCHANGED <<sent, blocks, unacked, canceled, client, parserVars, frames,
                   failed, delivered>>

Cancel ==
    /\ ~canceled
    /\ canceled' = TRUE
    /\ UNCHANGED <<serverVars, client, parserVars, frames, failed, delivered>>

-----------------------------------------------------------------------------
(* Client.Run                                                              *)

CheckContext ==
    /\ client = "top"
    /\ client' = IF canceled THEN "ended" ELSE "reading"
    /\ UNCHANGED <<serverVars, canceled, parserVars, frames, failed, delivered>>

\* Read returns some of what has come, and Feed appends it to its buffer.
Read ==
    /\ client = "reading"
    /\ \E k \in 1 .. Len(wire) :
          /\ buf' = buf \o SubSeq(wire, 1, k)
          /\ wire' = SubSeq(wire, k + 1, Len(wire))
    /\ client' = "feeding"
    /\ UNCHANGED <<sent, blocks, unacked, link, canceled, id, length, size,
                   frames, failed, delivered>>

\* mutant: no read deadline
NoDeadline ==
    /\ client = "reading"
    /\ wire = <<>>
    /\ link # "open"
    /\ client' = "ended"
    /\ UNCHANGED <<serverVars, canceled, parserVars, frames, failed, delivered>>

\* Read has nothing to return, and fails: end of file, a broken link, or
\* idleTimeout.  The caller closes the connection.
ReadFails ==
    /\ client = "reading"
    /\ wire = <<>>
    /\ client' = "ended"
    /\ UNCHANGED <<serverVars, canceled, parserVars, frames, failed, delivered>>

\* The buffer starts with a complete line, which ends before position i.
LineEnds(i) ==
    /\ client = "feeding"
    /\ size = -1
    /\ i \in DOMAIN buf
    /\ buf[i] = NL
    /\ \A j \in 1 .. i - 1 : buf[j] # NL

Line(i)  == SubSeq(buf, 1, i - 1)
After(i) == SubSeq(buf, i + 1, Len(buf))

NewHeader == id' = NL /\ length' = -1

\* What is left in the buffer after a ping: nothing, whatever had come.
AfterPing(i) == <<>>

\* GET / HTTP/1.1, acknowledged: the header block and the buffer are wiped.
PingLineAcked(i) ==
    /\ LineEnds(i)
    /\ Contains(Line(i), Ping)
    /\ buf' = AfterPing(i)
    /\ NewHeader
    /\ unacked' = FALSE
    /\ UNCHANGED <<wire, sent, blocks, link, canceled, client, size, frames,
                   failed, delivered>>

\* GET / HTTP/1.1, but the ack cannot be written: Feed returns the frames it
\* has, and an error.
PingLineFails(i) ==
    /\ LineEnds(i)
    /\ Contains(Line(i), Ping)
    /\ link # "open"
    /\ buf' = After(i)
    /\ failed' = TRUE
    /\ client' = "dispatching"
    /\ UNCHANGED <<serverVars, canceled, id, length, size, frames, delivered>>

\* X-WNI-ID or Content-Length.
HeaderLine(i) ==
    /\ LineEnds(i)
    /\ Len(Line(i)) = 1
    /\ LET text == buf[1] IN
       \/ /\ text \in IDs
          /\ id' = text
          /\ UNCHANGED length
       \/ /\ text = ContentLength(text.val)
          /\ length' = text.val
          /\ UNCHANGED id
    /\ buf' = After(i)
    /\ UNCHANGED <<serverVars, canceled, client, size, frames, failed, delivered>>

\* Any other text: a status line, or a header nothing depends on.
OtherLine(i) ==
    /\ LineEnds(i)
    /\ Line(i) # <<>>
    /\ ~Contains(Line(i), Ping)
    /\ Len(Line(i)) = 1 => buf[1] \notin IDs /\ buf[1].kind # "length"
    /\ buf' = After(i)
    /\ UNCHANGED <<serverVars, canceled, client, id, length, size, frames,
                   failed, delivered>>

Frame(i, body) == [id |-> i, body |-> body]

\* The blank line after a Data header with a length: the body comes next.
BodyFollows(i) ==
    /\ LineEnds(i)
    /\ Line(i) = <<>>
    /\ id = DataID
    /\ length # -1
    /\ size' = length
    /\ buf' = After(i)
    /\ UNCHANGED <<serverVars, canceled, client, id, length, frames, failed,
                   delivered>>

\* A blank line anywhere else ends the block; a Data block without a length
\* is dropped.
BlockEnds(i) ==
    /\ LineEnds(i)
    /\ Line(i) = <<>>
    /\ ~(id = DataID /\ length # -1)
    /\ frames' = IF id = DataID THEN frames ELSE Append(frames, Frame(id, <<>>))
    /\ NewHeader
    /\ buf' = After(i)
    /\ UNCHANGED <<serverVars, canceled, client, size, failed, delivered>>

\* mutant: the exact match of EEWSock::parse_body
BodyExact == Len(buf) = size

\* mutant: the rest of the batch is dropped with the body
NothingAfterBody == <<>>

\* mutant: a body one cell short
ShortBody == SubSeq(buf, 1, size - 1)

\* mutant: the newline that is thought to follow a body goes with it
SkipNewline == SubSeq(buf, size + 2, Len(buf))

BodyComplete == Len(buf) >= size
Body         == SubSeq(buf, 1, size)
AfterBody    == SubSeq(buf, size + 1, Len(buf))

TakeBody ==
    /\ client = "feeding"
    /\ size # -1
    /\ BodyComplete
    /\ frames' = Append(frames, Frame(id, Body))
    /\ buf' = AfterBody
    /\ size' = -1
    /\ NewHeader
    /\ UNCHANGED <<serverVars, canceled, client, failed, delivered>>

\* Nothing in the buffer is complete, and Feed returns.
FeedReturns ==
    /\ client = "feeding"
    /\ IF size = -1 THEN ~Contains(buf, NL) ELSE ~BodyComplete
    /\ client' = "dispatching"
    /\ UNCHANGED <<serverVars, canceled, parserVars, frames, failed, delivered>>

Feed ==
    \/ \E i \in DOMAIN buf :
          \/ PingLineAcked(i)
          \/ PingLineFails(i)
          \/ HeaderLine(i)
          \/ OtherLine(i)
          \/ BodyFollows(i)
          \/ BlockEnds(i)
    \/ TakeBody
    \/ FeedReturns

Dispatch ==
    /\ client = "dispatching"
    /\ frames # <<>>
    /\ frames' = Tail(frames)
    /\ delivered' = IF Head(frames).id = DataID
                    THEN Append(delivered, Head(frames).body)
                    ELSE delivered
    /\ UNCHANGED <<serverVars, canceled, client, parserVars, failed>>

\* mutant: feedErr is looked at before the frames
ErrorFirst == failed \/ frames = <<>>

\* Run looks at feedErr only when every frame has been handed over.
AllDispatched == frames = <<>>

DispatchEnds ==
    /\ client = "dispatching"
    /\ AllDispatched
    /\ client' = IF failed THEN "ended" ELSE "top"
    /\ UNCHANGED <<serverVars, canceled, parserVars, frames, failed, delivered>>

-----------------------------------------------------------------------------
ServerStep ==
    \/ SendResponseOK
    \/ SendKeepAlive
    \/ SendGETPing
    \/ \E b \in Bodies : SendData(b) \/ SendDataThenGETPing(b)
    \/ ServerCloses

ClientStep ==
    \/ CheckContext
    \/ Read
    \/ ReadFails
    \/ Feed
    \/ Dispatch
    \/ DispatchEnds

Terminated == client = "ended" /\ UNCHANGED vars

Next == ServerStep \/ LinkBreaks \/ Cancel \/ ClientStep \/ Terminated

Spec == Init /\ [][Next]_vars

\* The goroutine runs, and SetReadDeadline ends a Read that gets nothing.
FairSpec == Spec /\ WF_vars(ClientStep)

-----------------------------------------------------------------------------
(* Properties                                                              *)

\* Every variable keeps its type; a frame's body is one the server sent.
TypeOK ==
    /\ wire \in Seq(Cells)
    /\ sent \in Seq(Bodies)
    /\ blocks \in 0 .. MaxBlocks
    /\ unacked \in BOOLEAN
    /\ link \in {"open", "closed", "broken"}
    /\ canceled \in BOOLEAN
    /\ client \in {"top", "reading", "feeding", "dispatching", "ended"}
    /\ buf \in Seq(Cells)
    /\ id \in IDs \union {NL}
    /\ length \in Nat \union {-1}
    /\ size \in Nat \union {-1}
    /\ frames \in Seq([id : IDs \union {NL}, body : Bodies \union {<<>>}])
    /\ failed \in BOOLEAN
    /\ delivered \in Seq(Bodies)

\* The handlers get the telegrams whole, in the order they were sent, none
\* twice and none made of something else, however Read cuts the stream
\* (Feed, protocol.go:68-154).
InOrder == IsPrefix(delivered, sent)

\* When Run waits in Read and all that was sent has been read, every telegram
\* has been handed over: no cut of the stream leaves a complete body in the
\* buffer until more bytes come (protocol.go:130-142).
CaughtUp ==
    client = "reading" /\ wire = <<>> /\ link # "broken" => delivered = sent

\* Run never waits in Read while a ping it has read is without an answer, or
\* the server would push nothing more (protocol.go:81-83).
PingsAnswered ==
    client = "reading" /\ wire = <<>> /\ link = "open" => ~unacked

\* Run ends with no complete telegram left behind, also when the ack fails
\* after it in the same batch (client.go:100-124).
DispatchedBeforeEnd == client = "ended" => frames = <<>>

\* A canceled context ends Run, at the latest when idleTimeout does
\* (client.go:90-99).
ShutdownNoticed == canceled ~> client = "ended"
=============================================================================
