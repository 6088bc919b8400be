-------------------------- MODULE WniClientProofs --------------------------
(***************************************************************************)
(* Theorems about a session with a WNI server that awaits its acks, for    *)
(* every set of telegrams, also those that look like headers or pings, and *)
(* every number of blocks.                                                 *)
(*                                                                         *)
(* The invariant is about the whole stream, H: all that the server has     *)
(* sent in the session.  D tells where in H each telegram's block starts.  *)
(* The client has gone through the first off cells of H, its buffer and    *)
(* the wire hold the next ones, and the parser is between two blocks or at *)
(* one of three places inside one.                                         *)
(***************************************************************************)
EXTENDS WniClient, SequenceTheorems, TLAPS

\* Block k of the telegrams s ends with this cell of the stream.
BlockEnd(D, s, k) == D[k] + Len(DataBlock(s[k]))

\* Cell p is in none of the blocks.
Filler(D, s, p) == \A k \in 1 .. Len(s) : p <= D[k] \/ BlockEnd(D, s, k) < p

\* What may be outside the blocks: other blocks' lines, and pings.  Each ends
\* with a newline.
FillerCells == {NL, Status, ResponseID, KeepID, Ping}

BlockAt(H, d, b) ==
    /\ d + Len(DataBlock(b)) <= Len(H)
    /\ \A i \in 1 .. Len(DataBlock(b)) : H[d + i] = DataBlock(b)[i]

FillerAt(H, p) ==
    /\ H[p] \in FillerCells
    /\ H[p] # NL => p + 1 <= Len(H) /\ H[p + 1] = NL

\* The stream is the blocks of the telegrams s, in their order, and filler.
Layout(H, D, s) ==
    /\ H \in Seq(Cells)
    /\ D \in [1 .. Len(s) -> Nat]
    /\ \A k \in 1 .. Len(s) : BlockAt(H, D[k], s[k])
    /\ \A k, l \in 1 .. Len(s) : k < l => BlockEnd(D, s, k) <= D[l]
    /\ \A p \in 1 .. Len(H) : Filler(D, s, p) => FillerAt(H, p)

\* A ping to come is the only one, it comes after all the telegrams, and the
\* server awaits its ack.
PingAt(H, D, s, p) == p \in 1 .. Len(H) /\ H[p] = Ping /\ Filler(D, s, p)

PingsAfter(H, D, s, off, awaits) ==
    \A p \in off + 1 .. Len(H) : PingAt(H, D, s, p) =>
        /\ awaits
        /\ \A k \in 1 .. Len(s) : BlockEnd(D, s, k) < p
        /\ \A q \in p + 1 .. Len(H) : H[q] # Ping

\* The buffer and the wire hold the cells after the first off, unless what was
\* on its way has been lost.
Cut(H, off) ==
    /\ off + Len(buf) + Len(wire) <= Len(H)
    /\ link # "broken" => off + Len(buf) + Len(wire) = Len(H)
    /\ \A i \in 1 .. Len(buf) : buf[i] = H[off + i]
    /\ \A i \in 1 .. Len(wire) : wire[i] = H[off + Len(buf) + i]

\* The parser has gone through n blocks and not into the next one.  Whether a
\* ping has wiped the header lines of another kind of block does not matter.
Between(D, off, n) ==
    /\ size = -1 /\ length = -1 /\ id # DataID
    /\ \A k \in 1 .. n : BlockEnd(D, sent, k) <= off
    /\ \A k \in n + 1 .. Len(sent) : off <= D[k]

\* It has read the first, the second or all of the lines of the next block.
Inside(D, off, n) ==
    /\ n + 1 \in 1 .. Len(sent)
    /\ id = DataID
    /\ \/ off = D[n + 1] + 2 /\ length = -1 /\ size = -1
       \/ off = D[n + 1] + 4 /\ length = Len(sent[n + 1]) /\ size = -1
       \/ off = D[n + 1] + 5 /\ length = Len(sent[n + 1]) /\ size = length

\* A server that awaits an ack will get it: the ping has yet to be parsed.
PingInv(H, D, off) ==
    /\ PingsAfter(H, D, sent, off, unacked)
    /\ unacked /\ ~failed => \E p \in off + 1 .. Len(H) : PingAt(H, D, sent, p)

StreamInv(H, D, off, n) ==
    /\ off \in Nat /\ n \in 0 .. Len(sent)
    /\ Layout(H, D, sent)
    /\ Cut(H, off)
    /\ Between(D, off, n) \/ Inside(D, off, n)
    /\ PingInv(H, D, off)

\* The n telegrams the parser has completed are those the handlers have got
\* and then those of the frames; c counts them along the frames.
Account(c, n) ==
    /\ c[0] = Len(delivered) /\ c[Len(frames)] = n
    /\ Len(delivered) <= Len(sent)
    /\ \A i \in 1 .. Len(delivered) : delivered[i] = sent[i]
    /\ \A j \in 1 .. Len(frames) :
          IF frames[j].id = DataID
          THEN /\ c[j] = c[j - 1] + 1
               /\ c[j] \in 1 .. Len(sent) /\ frames[j].body = sent[c[j]]
          ELSE c[j] = c[j - 1]

Handed(n) == \E c \in [0 .. Len(frames) -> Nat] : Account(c, n)

\* Nothing in the buffer is complete.
Incomplete ==
    IF size = -1 THEN \A i \in 1 .. Len(buf) : buf[i] # NL ELSE Len(buf) < size

ClientInv ==
    /\ client \in {"top", "reading"} => frames = <<>> /\ ~failed
    /\ client \in {"top", "reading", "dispatching"} /\ ~failed => Incomplete
    /\ failed => client \in {"dispatching", "ended"}
    /\ DispatchedBeforeEnd

IInv ==
    /\ TypeOK
    /\ ClientInv
    /\ \E H, D, off, n : StreamInv(H, D, off, n) /\ Handed(n)

-----------------------------------------------------------------------------
(* Cells.                                                                  *)

LEMMA CellKinds ==
    /\ {NL, Ping, Status, DataID, ResponseID, KeepID} \subseteq Cells
    /\ \A n \in Nat : ContentLength(n) \in Cells /\ ContentLength(n).val = n
    /\ NL \notin {Ping, Status, DataID, ResponseID, KeepID}
    /\ Ping \notin {Status, DataID, ResponseID, KeepID}
    /\ DataID \notin {Status, ResponseID, KeepID}
    /\ Status \notin IDs
    /\ \A n \in Nat : ContentLength(n) \notin {NL, Ping, Status} \union IDs
<1> USE DEF Cell, NL, Ping, Status, DataID, ResponseID, KeepID, ContentLength, IDs
<1>1. {NL, Ping, Status, DataID, ResponseID, KeepID} \subseteq Cells
  BY DEF Cells
<1>2. \A n \in Nat : ContentLength(n) \in Cells /\ ContentLength(n).val = n
  BY DEF Cells
<1>3. /\ NL.kind = "newline" /\ Ping.kind = "ping" /\ Status.kind = "status"
      /\ DataID.kind = "data" /\ ResponseID.kind = "response"
      /\ KeepID.kind = "keepalive" /\ \A n \in Nat : ContentLength(n).kind = "length"
  OBVIOUS
<1> HIDE DEF Cell, NL, Ping, Status, DataID, ResponseID, KeepID, ContentLength
<1> QED BY <1>1, <1>2, <1>3

\* The cells of a telegram's block.
LEMMA DataBlockCells ==
    ASSUME NEW b \in Seq(Cells)
    PROVE  LET cells == DataBlock(b) IN
           /\ cells \in Seq(Cells) /\ Len(cells) = 5 + Len(b)
           /\ cells[1] = DataID /\ cells[2] = NL
           /\ cells[3] = ContentLength(Len(b)) /\ cells[4] = NL /\ cells[5] = NL
           /\ \A i \in 1 .. Len(b) : cells[5 + i] = b[i]
<1> DEFINE head == <<DataID, NL, ContentLength(Len(b)), NL, NL>>
<1>1. head \in Seq(Cells) /\ Len(head) = 5 /\ Len(b) \in Nat
  BY CellKinds
<1>2. /\ head[1] = DataID /\ head[2] = NL /\ head[3] = ContentLength(Len(b))
      /\ head[4] = NL /\ head[5] = NL
  OBVIOUS
<1> HIDE DEF head
<1>3. /\ head \o b \in Seq(Cells) /\ Len(head \o b) = 5 + Len(b)
      /\ \A i \in 1 .. 5 + Len(b) :
            (head \o b)[i] = IF i <= 5 THEN head[i] ELSE b[i - 5]
  <2>1. /\ head \o b \in Seq(Cells) /\ Len(head \o b) = Len(head) + Len(b)
        /\ \A i \in 1 .. Len(head) + Len(b) :
            (head \o b)[i] = IF i <= Len(head) THEN head[i] ELSE b[i - Len(head)]
    BY <1>1, ConcatProperties
  <2> QED BY <1>1, <2>1
<1>4. DataBlock(b) = head \o b
  BY DEF DataBlock, head
<1> QED BY <1>1, <1>2, <1>3, <1>4

-----------------------------------------------------------------------------
(* The stream grows.                                                       *)

\* What is appended to a stream leaves a block in it where it was.
LEMMA BlockStays ==
    ASSUME NEW H, NEW G, Len(H) \in Nat, Len(G) \in Nat, Len(H) <= Len(G),
           \A i \in 1 .. Len(H) : G[i] = H[i],
           NEW d \in Nat, NEW b \in Seq(Cells), BlockAt(H, d, b)
    PROVE  BlockAt(G, d, b)
<1> DEFINE n == Len(DataBlock(b))
<1>1. n \in Nat /\ d + n <= Len(H)
  BY DataBlockCells DEF BlockAt
<1>2. \A i \in 1 .. n : H[d + i] = DataBlock(b)[i]
  BY DEF BlockAt
<1> HIDE DEF n
<1>3. ASSUME NEW i \in 1 .. n PROVE G[d + i] = H[d + i]
  <2>1. d + i \in 1 .. Len(H)
    BY <1>1
  <2> QED BY <2>1
<1>4. \A i \in 1 .. n : G[d + i] = DataBlock(b)[i]
  BY <1>2, <1>3
<1>5. d + n <= Len(G)
  BY <1>1
<1> QED BY <1>4, <1>5 DEF BlockAt, n

\* And so it leaves filler that does not end the stream.
LEMMA FillerStays ==
    ASSUME NEW H, NEW G, Len(H) \in Nat, Len(G) \in Nat, Len(H) <= Len(G),
           \A i \in 1 .. Len(H) : G[i] = H[i],
           NEW p \in 1 .. Len(H), FillerAt(H, p)
    PROVE  FillerAt(G, p)
<1>1. G[p] = H[p]
  OBVIOUS
<1>2. CASE H[p] = NL
  BY <1>1, <1>2 DEF FillerAt
<1>3. CASE H[p] # NL
  <2>1. p + 1 <= Len(H) /\ H[p + 1] = NL
    BY <1>3 DEF FillerAt
  <2>2. G[p + 1] = H[p + 1]
    BY <2>1
  <2> QED BY <1>1, <2>1, <2>2 DEF FillerAt
<1> QED BY <1>2, <1>3

\* The cells of a stream that has grown.
LEMMA Grown ==
    ASSUME NEW S, NEW H \in Seq(S), NEW cells \in Seq(S)
    PROVE  LET G == H \o cells IN
           /\ G \in Seq(S) /\ Len(G) \in Nat /\ Len(H) \in Nat /\ Len(cells) \in Nat
           /\ Len(G) = Len(H) + Len(cells) /\ Len(H) <= Len(G)
           /\ \A i \in 1 .. Len(H) : G[i] = H[i]
           /\ \A i \in 1 .. Len(cells) : G[Len(H) + i] = cells[i]
<1> DEFINE G == H \o cells
<1>1. /\ G \in Seq(S) /\ Len(G) = Len(H) + Len(cells)
      /\ \A i \in 1 .. Len(H) + Len(cells) :
            G[i] = IF i <= Len(H) THEN H[i] ELSE cells[i - Len(H)]
  BY ConcatProperties
<1>2. Len(H) \in Nat /\ Len(cells) \in Nat
  OBVIOUS
<1> HIDE DEF G
<1>3. ASSUME NEW i \in 1 .. Len(H) PROVE G[i] = H[i]
  BY <1>1, <1>2
<1>4. ASSUME NEW i \in 1 .. Len(cells) PROVE G[Len(H) + i] = cells[i]
  <2>1. Len(H) + i \in 1 .. Len(H) + Len(cells) /\ ~(Len(H) + i <= Len(H))
    BY <1>2
  <2>2. Len(H) + i - Len(H) = i
    BY <1>2
  <2> QED BY <1>1, <2>1, <2>2
<1>5. Len(G) \in Nat /\ Len(H) <= Len(G)
  BY <1>1, <1>2
<1> QED BY <1>1, <1>2, <1>3, <1>4, <1>5 DEF G

\* The blocks of a stream, one by one.
LEMMA Blocks ==
    ASSUME NEW H, NEW D, NEW s \in Seq(Seq(Cells)), Layout(H, D, s), NEW k \in 1 .. Len(s)
    PROVE  /\ Len(H) \in Nat /\ D[k] \in Nat /\ s[k] \in Seq(Cells) /\ Len(s[k]) \in Nat
           /\ BlockAt(H, D[k], s[k])
           /\ BlockEnd(D, s, k) = D[k] + 5 + Len(s[k])
           /\ BlockEnd(D, s, k) \in Nat
           /\ D[k] + 5 <= BlockEnd(D, s, k) /\ BlockEnd(D, s, k) <= Len(H)
<1>1. s[k] \in Seq(Cells)
  OBVIOUS
<1>2. D[k] \in Nat /\ BlockAt(H, D[k], s[k])
  BY DEF Layout
<1>3. Len(H) \in Nat /\ Len(s[k]) \in Nat
  <2>1. H \in Seq(Cells)
    BY DEF Layout
  <2> QED BY <1>1, <2>1, LenProperties
<1>4. Len(DataBlock(s[k])) = 5 + Len(s[k])
  BY <1>1, DataBlockCells
<1>5. BlockEnd(D, s, k) = D[k] + 5 + Len(s[k]) /\ BlockEnd(D, s, k) <= Len(H)
  <2>1. /\ BlockEnd(D, s, k) = D[k] + Len(DataBlock(s[k]))
        /\ D[k] + Len(DataBlock(s[k])) <= Len(H)
    BY <1>2 DEF BlockEnd, BlockAt
  <2> DEFINE d == D[k]  n == Len(s[k])  m == Len(DataBlock(s[k]))
  <2>2. d \in Nat /\ n \in Nat /\ m = 5 + n
    BY <1>2, <1>3, <1>4
  <2> HIDE DEF d, n, m
  <2>3. d + m = d + 5 + n
    BY <2>2
  <2> QED BY <2>1, <2>3 DEF d, n, m
<1> QED BY <1>1, <1>2, <1>3, <1>5

\* More filler at the end leaves the blocks where they are.
LEMMA FillerGrows ==
    ASSUME NEW H, NEW D, NEW s \in Seq(Seq(Cells)), Layout(H, D, s),
           NEW cells \in Seq(Cells), \A p \in 1 .. Len(cells) : FillerAt(cells, p)
    PROVE  /\ Layout(H \o cells, D, s)
           /\ \A p \in Len(H) + 1 .. Len(H) + Len(cells) : Filler(D, s, p)
<1> DEFINE G == H \o cells
<1>1. H \in Seq(Cells)
  BY DEF Layout
<1>2. /\ G \in Seq(Cells) /\ Len(G) \in Nat /\ Len(H) \in Nat /\ Len(cells) \in Nat
      /\ Len(G) = Len(H) + Len(cells) /\ Len(H) <= Len(G)
      /\ \A i \in 1 .. Len(H) : G[i] = H[i]
      /\ \A i \in 1 .. Len(cells) : G[Len(H) + i] = cells[i]
  BY <1>1, Grown
<1> HIDE DEF G
<1>4. \A k \in 1 .. Len(s) : BlockAt(G, D[k], s[k])
  BY <1>2, Blocks, BlockStays
<1>5. \A p \in Len(H) + 1 .. Len(H) + Len(cells) : Filler(D, s, p)
  BY <1>2, Blocks DEF Filler
<1>6. ASSUME NEW p \in 1 .. Len(G), Filler(D, s, p)
      PROVE  FillerAt(G, p)
  <2>1. CASE p <= Len(H)
    <3>1. p \in 1 .. Len(H)
      BY <1>2, <2>1
    <3>2. FillerAt(H, p)
      BY <1>6, <3>1 DEF Layout
    <3> QED BY <1>2, <3>1, <3>2, FillerStays
  <2>2. CASE p > Len(H)
    <3> DEFINE q == p - Len(H)
    <3>1. q \in 1 .. Len(cells) /\ p = Len(H) + q
      BY <1>2, <2>2
    <3> HIDE DEF q
    <3>2. FillerAt(cells, q) /\ G[p] = cells[q]
      BY <1>2, <3>1
    <3>3. CASE cells[q] # NL
      <4>1. q + 1 \in 1 .. Len(cells) /\ cells[q + 1] = NL
        BY <1>2, <3>1, <3>2, <3>3 DEF FillerAt
      <4>2. G[Len(H) + (q + 1)] = NL /\ Len(H) + (q + 1) = p + 1 /\ p + 1 <= Len(G)
        BY <1>2, <3>1, <4>1
      <4> QED BY <3>2, <4>2 DEF FillerAt
    <3> QED BY <3>2, <3>3 DEF FillerAt
  <2> QED BY <1>2, <2>1, <2>2
<1>7. Layout(G, D, s)
  BY <1>2, <1>4, <1>6 DEF Layout
<1> QED BY <1>5, <1>7 DEF G

\* Where the blocks start when another one is sent.
Starts(H, D, s) == [k \in 1 .. Len(s) + 1 |-> IF k <= Len(s) THEN D[k] ELSE Len(H)]

\* Another telegram's block is the last.
LEMMA BlockGrows ==
    ASSUME NEW H, NEW D, NEW s \in Seq(Seq(Cells)), Layout(H, D, s), NEW b \in Seq(Cells)
    PROVE  LET G == H \o DataBlock(b)
               E == Starts(H, D, s)
               t == s \o <<b>>
           IN  /\ Layout(G, E, t)
               /\ \A p \in 1 .. Len(H) : Filler(E, t, p) <=> Filler(D, s, p)
               /\ \A p \in Len(H) + 1 .. Len(G) : ~Filler(E, t, p)
<1> DEFINE cells == DataBlock(b)
           G == H \o cells
           E == Starts(H, D, s)
           t == s \o <<b>>
           n == Len(s) + 1
<1>1. H \in Seq(Cells) /\ cells \in Seq(Cells)
  BY DataBlockCells DEF Layout
<1>2. /\ G \in Seq(Cells) /\ Len(G) \in Nat /\ Len(H) \in Nat /\ Len(cells) \in Nat
      /\ Len(G) = Len(H) + Len(cells) /\ Len(H) <= Len(G)
      /\ \A i \in 1 .. Len(H) : G[i] = H[i]
      /\ \A i \in 1 .. Len(cells) : G[Len(H) + i] = cells[i]
  <2> HIDE DEF cells
  <2> QED BY <1>1, Grown
<1>3. /\ t \in Seq(Seq(Cells)) /\ Len(t) = n /\ Len(s) \in Nat
      /\ \A k \in 1 .. Len(s) : t[k] = s[k]
      /\ t[n] = b
  <2>1. <<b>> \in Seq(Seq(Cells)) /\ Len(<<b>>) = 1 /\ <<b>>[1] = b
    OBVIOUS
  <2>2. 1 \in 1 .. 1
    OBVIOUS
  <2> QED BY <2>1, <2>2, Grown
<1>4. /\ E \in [1 .. n -> Nat]
      /\ \A k \in 1 .. Len(s) : E[k] = D[k]
      /\ E[n] = Len(H)
  BY <1>2, <1>3 DEF Starts, Layout
<1>5. 1 .. n = 1 .. Len(s) \union {n}
  BY <1>3
<1> HIDE DEF cells, G, E, t
<1>6. \A k \in 1 .. Len(s) :
         /\ D[k] \in Nat /\ s[k] \in Seq(Cells)
         /\ BlockEnd(E, t, k) = BlockEnd(D, s, k)
         /\ BlockEnd(D, s, k) \in Nat /\ BlockEnd(D, s, k) <= Len(H)
  <2> SUFFICES ASSUME NEW k \in 1 .. Len(s)
               PROVE  /\ D[k] \in Nat /\ s[k] \in Seq(Cells)
                      /\ BlockEnd(E, t, k) = BlockEnd(D, s, k)
                      /\ BlockEnd(D, s, k) \in Nat /\ BlockEnd(D, s, k) <= Len(H)
    OBVIOUS
  <2>1. E[k] = D[k] /\ t[k] = s[k]
    BY <1>3, <1>4
  <2> QED BY <2>1, Blocks DEF BlockEnd
<1>7. BlockEnd(E, t, n) = Len(G)
  BY <1>2, <1>3, <1>4 DEF BlockEnd, cells
<1>8. \A k \in 1 .. n : BlockAt(G, E[k], t[k])
  <2>1. ASSUME NEW k \in 1 .. Len(s) PROVE BlockAt(G, E[k], t[k])
    <3>1. BlockAt(H, D[k], s[k])
      BY DEF Layout
    <3>2. D[k] \in Nat /\ s[k] \in Seq(Cells) /\ E[k] = D[k] /\ t[k] = s[k]
      BY <1>3, <1>4, <1>6
    <3> QED BY <1>2, <3>1, <3>2, BlockStays
  <2>2. BlockAt(G, E[n], t[n])
    BY <1>2, <1>3, <1>4 DEF BlockAt, cells
  <2> QED BY <1>5, <2>1, <2>2
<1>9. \A k, l \in 1 .. n : k < l => BlockEnd(E, t, k) <= E[l]
  <2> SUFFICES ASSUME NEW k \in 1 .. n, NEW l \in 1 .. n, k < l
               PROVE  BlockEnd(E, t, k) <= E[l]
    OBVIOUS
  <2>0. k \in 1 .. Len(s)
    BY <1>3
  <2>1. CASE l = n
    BY <1>4, <1>6, <2>0, <2>1
  <2>2. CASE l \in 1 .. Len(s)
    BY <1>4, <1>6, <2>0, <2>2 DEF Layout
  <2> QED BY <1>5, <2>1, <2>2
<1>10. \A p \in 1 .. Len(H) : Filler(E, t, p) <=> Filler(D, s, p)
  <2> SUFFICES ASSUME NEW p \in 1 .. Len(H)
               PROVE  Filler(E, t, p) <=> Filler(D, s, p)
    OBVIOUS
  <2>1. \A k \in 1 .. Len(s) : /\ E[k] = D[k]
                               /\ BlockEnd(E, t, k) = BlockEnd(D, s, k)
    BY <1>4, <1>6
  <2>2. p <= E[n]
    BY <1>2, <1>4
  <2> QED BY <1>3, <1>5, <2>1, <2>2 DEF Filler
<1>11. \A p \in Len(H) + 1 .. Len(G) : ~Filler(E, t, p)
  <2> SUFFICES ASSUME NEW p \in Len(H) + 1 .. Len(G) PROVE ~Filler(E, t, p)
    OBVIOUS
  <2>1. ~(p <= E[n] \/ BlockEnd(E, t, n) < p)
    BY <1>2, <1>4, <1>7
  <2> QED BY <1>3, <1>5, <2>1 DEF Filler
<1>12. \A p \in 1 .. Len(G) : Filler(E, t, p) => FillerAt(G, p)
  <2> SUFFICES ASSUME NEW p \in 1 .. Len(G), Filler(E, t, p) PROVE FillerAt(G, p)
    OBVIOUS
  <2>1. p \in 1 .. Len(H)
    BY <1>2, <1>11
  <2>2. FillerAt(H, p)
    BY <1>10, <2>1 DEF Layout
  <2> QED BY <1>2, <2>1, <2>2, FillerStays
<1>13. Layout(G, E, t)
  BY <1>2, <1>3, <1>4, <1>8, <1>9, <1>12 DEF Layout
<1> QED BY <1>10, <1>11, <1>13 DEF cells, G, E, t

-----------------------------------------------------------------------------
(* What the server writes.                                                 *)

\* No ping is to come, and a telegram does not change that, whatever it holds.
LEMMA NoPingInBlock ==
    ASSUME NEW H, NEW D, NEW s \in Seq(Seq(Cells)), Layout(H, D, s), NEW b \in Seq(Cells),
           NEW off \in Nat, off <= Len(H), PingsAfter(H, D, s, off, FALSE), NEW awaits
    PROVE  PingsAfter(H \o DataBlock(b), Starts(H, D, s), s \o <<b>>, off, awaits)
<1> DEFINE G == H \o DataBlock(b)
           E == Starts(H, D, s)
           t == s \o <<b>>
<1>1. /\ Len(G) \in Nat /\ Len(H) \in Nat
      /\ \A i \in 1 .. Len(H) : G[i] = H[i]
  BY DataBlockCells, Grown DEF Layout
<1>2. /\ \A p \in 1 .. Len(H) : Filler(E, t, p) <=> Filler(D, s, p)
      /\ \A p \in Len(H) + 1 .. Len(G) : ~Filler(E, t, p)
  BY BlockGrows
<1> HIDE DEF G, E, t
<1>3. \A p \in off + 1 .. Len(H) : ~PingAt(H, D, s, p)
  BY DEF PingsAfter
<1>4. ASSUME NEW p \in off + 1 .. Len(G), PingAt(G, E, t, p) PROVE FALSE
  <2>1. p \in 1 .. Len(H) /\ p \in off + 1 .. Len(H)
    BY <1>1, <1>2, <1>4 DEF PingAt
  <2>2. PingAt(H, D, s, p)
    BY <1>1, <1>2, <1>4, <2>1 DEF PingAt
  <2> QED BY <1>3, <2>1, <2>2
<1>5. PingsAfter(G, E, t, off, awaits)
  BY <1>4 DEF PingsAfter
<1> QED BY <1>5 DEF G, E, t

\* Other blocks may follow a ping.
LEMMA NoPingInFiller ==
    ASSUME NEW H, NEW D, NEW s \in Seq(Seq(Cells)), Layout(H, D, s),
           NEW cells \in Seq(Cells), \A i \in 1 .. Len(cells) : cells[i] # Ping,
           NEW off \in Nat, off <= Len(H), NEW awaits, PingsAfter(H, D, s, off, awaits)
    PROVE  /\ PingsAfter(H \o cells, D, s, off, awaits)
           /\ \A p \in off + 1 .. Len(H) :
                 PingAt(H, D, s, p) => PingAt(H \o cells, D, s, p)
<1> DEFINE G == H \o cells
<1>1. /\ Len(G) \in Nat /\ Len(H) \in Nat /\ Len(cells) \in Nat
      /\ Len(G) = Len(H) + Len(cells)
      /\ \A i \in 1 .. Len(H) : G[i] = H[i]
      /\ \A i \in 1 .. Len(cells) : G[Len(H) + i] = cells[i]
  BY Grown DEF Layout
<1> HIDE DEF G
<1>2. ASSUME NEW q \in Len(H) + 1 .. Len(G) PROVE G[q] # Ping
  <2> DEFINE i == q - Len(H)
  <2>1. i \in 1 .. Len(cells) /\ q = Len(H) + i
    BY <1>1
  <2> HIDE DEF i
  <2> QED BY <1>1, <2>1
<1>3. \A p \in off + 1 .. Len(H) : PingAt(H, D, s, p) => PingAt(G, D, s, p)
  BY <1>1 DEF PingAt
<1>4. ASSUME NEW p \in off + 1 .. Len(G), PingAt(G, D, s, p)
      PROVE  /\ awaits
             /\ \A k \in 1 .. Len(s) : BlockEnd(D, s, k) < p
             /\ \A q \in p + 1 .. Len(G) : G[q] # Ping
  <2>1. p \in 1 .. Len(H) /\ p \in off + 1 .. Len(H)
    BY <1>1, <1>2, <1>4 DEF PingAt
  <2>2. PingAt(H, D, s, p)
    BY <1>1, <1>4, <2>1 DEF PingAt
  <2>3. /\ awaits
        /\ \A k \in 1 .. Len(s) : BlockEnd(D, s, k) < p
        /\ \A q \in p + 1 .. Len(H) : H[q] # Ping
    BY <2>1, <2>2 DEF PingsAfter
  <2>4. ASSUME NEW q \in p + 1 .. Len(G) PROVE G[q] # Ping
    <3>1. CASE q \in p + 1 .. Len(H)
      <4>1. q \in 1 .. Len(H)
        BY <1>1, <2>1, <3>1
      <4> QED BY <1>1, <2>3, <3>1, <4>1
    <3>2. CASE q \in Len(H) + 1 .. Len(G)
      BY <1>2, <3>2
    <3> QED BY <1>1, <3>1, <3>2
  <2> QED BY <2>3, <2>4
<1>5. PingsAfter(G, D, s, off, awaits)
  BY <1>4 DEF PingsAfter
<1> QED BY <1>3, <1>5 DEF G

\* A ping is sent when none is to come.
LEMMA PingGrows ==
    ASSUME NEW H, NEW D, NEW s \in Seq(Seq(Cells)), Layout(H, D, s),
           NEW off \in Nat, off <= Len(H), PingsAfter(H, D, s, off, FALSE)
    PROVE  /\ Layout(H \o PingLine, D, s)
           /\ PingsAfter(H \o PingLine, D, s, off, TRUE)
           /\ \E p \in off + 1 .. Len(H \o PingLine) : PingAt(H \o PingLine, D, s, p)
<1>1. /\ PingLine \in Seq(Cells) /\ Len(PingLine) = 2
      /\ PingLine[1] = Ping /\ PingLine[2] = NL
  BY CellKinds DEF PingLine
<1>2. \A p \in 1 .. Len(PingLine) : FillerAt(PingLine, p)
  BY <1>1 DEF FillerAt, FillerCells
<1> DEFINE G == H \o PingLine
<1>3. /\ Layout(G, D, s)
      /\ \A p \in Len(H) + 1 .. Len(H) + 2 : Filler(D, s, p)
  BY <1>1, <1>2, FillerGrows
<1>4. /\ Len(G) \in Nat /\ Len(H) \in Nat /\ Len(G) = Len(H) + 2
      /\ \A i \in 1 .. Len(H) : G[i] = H[i]
      /\ \A i \in 1 .. 2 : G[Len(H) + i] = PingLine[i]
  <2>1. /\ Len(G) \in Nat /\ Len(H) \in Nat /\ Len(G) = Len(H) + Len(PingLine)
        /\ \A i \in 1 .. Len(H) : G[i] = H[i]
        /\ \A i \in 1 .. Len(PingLine) : G[Len(H) + i] = PingLine[i]
    <3>1. H \in Seq(Cells) /\ PingLine \in Seq(Cells)
      BY <1>1 DEF Layout
    <3> QED BY <3>1, Grown
  <2> QED BY <1>1, <2>1
<1> HIDE DEF G
<1> DEFINE here == Len(H) + 1
<1>5. /\ here \in off + 1 .. Len(G) /\ here \in 1 .. Len(G) /\ here \in Len(H) + 1 .. Len(H) + 2
      /\ G[here] = Ping /\ G[Len(H) + 2] = NL
  BY <1>1, <1>4
<1>6. PingAt(G, D, s, here)
  BY <1>3, <1>5 DEF PingAt
<1>7. \A p \in off + 1 .. Len(H) : ~PingAt(H, D, s, p)
  BY DEF PingsAfter
<1>8. ASSUME NEW p \in off + 1 .. Len(G), PingAt(G, D, s, p) PROVE p = here
  <2>1. CASE p <= Len(H)
    <3>1. p \in 1 .. Len(H) /\ p \in off + 1 .. Len(H)
      BY <1>4, <2>1
    <3>2. PingAt(H, D, s, p)
      BY <1>4, <1>8, <3>1 DEF PingAt
    <3> QED BY <1>7, <3>1, <3>2
  <2>2. CASE p = Len(H) + 2
    BY <1>5, <1>8, <2>2, CellKinds DEF PingAt
  <2> QED BY <1>4, <2>1, <2>2
<1>9. \A k \in 1 .. Len(s) : BlockEnd(D, s, k) < here
  BY <1>4, Blocks
<1>10. \A q \in here + 1 .. Len(G) : G[q] # Ping
  <2>1. \A q \in here + 1 .. Len(G) : q = Len(H) + 2
    BY <1>4
  <2> QED BY <1>5, <2>1, CellKinds
<1>11. PingsAfter(G, D, s, off, TRUE)
  BY <1>8, <1>9, <1>10 DEF PingsAfter
<1> QED BY <1>3, <1>5, <1>6, <1>11 DEF G

\* Lengths and types.
LEMMA Types ==
    ASSUME TypeOK
    PROVE  /\ sent \in Seq(Seq(Cells)) /\ buf \in Seq(Cells) /\ wire \in Seq(Cells)
           /\ Len(sent) \in Nat /\ Len(buf) \in Nat /\ Len(wire) \in Nat
<1>1. sent \in Seq(Bodies) /\ buf \in Seq(Cells) /\ wire \in Seq(Cells)
  BY DEF TypeOK
<1>2. sent \in Seq(Seq(Cells))
  BY <1>1, ServerAssumption, SeqMonotonic
<1> QED BY <1>1, <1>2

\* After a write, what is unread ends with what was written.
LEMMA CutGrows ==
    ASSUME TypeOK, NEW H \in Seq(Cells), NEW off \in Nat, Cut(H, off),
           NEW cells \in Seq(Cells), link = "open",
           wire' = wire \o cells, UNCHANGED <<buf, link>>
    PROVE  Cut(H \o cells, off)'
<1> DEFINE G == H \o cells
<1>1. /\ Len(G) \in Nat /\ Len(H) \in Nat /\ Len(cells) \in Nat
      /\ Len(G) = Len(H) + Len(cells)
      /\ \A i \in 1 .. Len(H) : G[i] = H[i]
      /\ \A i \in 1 .. Len(cells) : G[Len(H) + i] = cells[i]
  BY Grown
<1>2. /\ Len(wire') \in Nat /\ Len(wire) \in Nat
      /\ Len(wire') = Len(wire) + Len(cells)
      /\ \A i \in 1 .. Len(wire) : wire'[i] = wire[i]
      /\ \A i \in 1 .. Len(cells) : wire'[Len(wire) + i] = cells[i]
  BY Types, Grown
<1> HIDE DEF G
<1>3. Len(buf) \in Nat /\ off + Len(buf) + Len(wire) = Len(H)
  BY Types DEF Cut
<1>4. \A i \in 1 .. Len(buf) : buf[i] = G[off + i]
  <2> SUFFICES ASSUME NEW i \in 1 .. Len(buf) PROVE buf[i] = G[off + i]
    OBVIOUS
  <2>1. off + i \in 1 .. Len(H)
    BY <1>1, <1>2, <1>3
  <2> QED BY <1>1, <2>1 DEF Cut
<1>5. \A i \in 1 .. Len(wire') : wire'[i] = G[off + Len(buf) + i]
  <2> SUFFICES ASSUME NEW i \in 1 .. Len(wire') PROVE wire'[i] = G[off + Len(buf) + i]
    OBVIOUS
  <2>1. CASE i \in 1 .. Len(wire)
    <3>1. off + Len(buf) + i \in 1 .. Len(H)
      BY <1>1, <1>2, <1>3, <2>1
    <3> QED BY <1>1, <1>2, <2>1, <3>1 DEF Cut
  <2>2. CASE i > Len(wire)
    <3> DEFINE j == i - Len(wire)
    <3>1. j \in 1 .. Len(cells) /\ i = Len(wire) + j
      BY <1>1, <1>2, <2>2
    <3>2. off + Len(buf) + i = Len(H) + j
      <4> DEFINE b == Len(buf)  w == Len(wire)  h == Len(H)
      <4>1. b \in Nat /\ w \in Nat /\ h \in Nat /\ off + b + w = h
        BY <1>1, <1>2, <1>3
      <4> HIDE DEF b, w, h
      <4>2. off + b + i = h + (i - w)
        BY <4>1
      <4> QED BY <4>2 DEF b, w, h
    <3> HIDE DEF j
    <3>3. wire'[i] = cells[j] /\ G[Len(H) + j] = cells[j]
      BY <1>1, <1>2, <3>1
    <3> QED BY <3>2, <3>3
  <2> QED BY <1>2, <2>1, <2>2
<1>6. off + Len(buf) + Len(wire') = Len(G)
  <2> DEFINE b == Len(buf)  w == Len(wire)  v == Len(wire')  h == Len(H)  c == Len(cells)
             g == Len(G)
  <2>1. /\ b \in Nat /\ w \in Nat /\ v = w + c /\ c \in Nat /\ h \in Nat
        /\ off + b + w = h /\ g = h + c
    BY <1>1, <1>2, <1>3
  <2> HIDE DEF b, w, v, h, c, g
  <2>2. off + b + v = g
    BY <2>1
  <2> QED BY <2>2 DEF b, v, g
<1>7. buf' = buf /\ off + Len(buf) + Len(wire') <= Len(G)
  BY <1>1, <1>6
<1> QED BY <1>4, <1>5, <1>6, <1>7 DEF Cut, G

\* More telegrams sent do not change what was handed over.
LEMMA HandedStays ==
    ASSUME TypeOK, NEW n, Handed(n), Len(sent') \in Nat, Len(sent) <= Len(sent'),
           \A k \in 1 .. Len(sent) : sent'[k] = sent[k], UNCHANGED <<frames, delivered>>
    PROVE  Handed(n)'
<1>1. PICK c \in [0 .. Len(frames) -> Nat] : Account(c, n)
  BY DEF Handed
<1>2. Len(sent) \in Nat /\ Len(delivered) \in Nat /\ Len(frames) \in Nat
  BY Types DEF TypeOK
<1>3. \A i \in 1 .. Len(delivered) : delivered[i] = sent'[i]
  <2> SUFFICES ASSUME NEW i \in 1 .. Len(delivered) PROVE delivered[i] = sent'[i]
    OBVIOUS
  <2>1. i \in 1 .. Len(sent) /\ delivered[i] = sent[i]
    BY <1>1, <1>2 DEF Account
  <2> QED BY <2>1
<1>4. ASSUME NEW j \in 1 .. Len(frames)
      PROVE  IF frames[j].id = DataID
             THEN /\ c[j] = c[j - 1] + 1
                  /\ c[j] \in 1 .. Len(sent') /\ frames[j].body = sent'[c[j]]
             ELSE c[j] = c[j - 1]
  <2>1. CASE frames[j].id = DataID
    <3>1. /\ c[j] = c[j - 1] + 1
          /\ c[j] \in 1 .. Len(sent) /\ frames[j].body = sent[c[j]]
      BY <1>1, <2>1 DEF Account
    <3>2. c[j] \in 1 .. Len(sent')
      BY <1>2, <3>1
    <3> QED BY <2>1, <3>1, <3>2
  <2>2. CASE frames[j].id # DataID
    BY <1>1, <2>2 DEF Account
  <2> QED BY <2>1, <2>2
<1>5. Account(c, n)'
  <2>1. c[0] = Len(delivered) /\ c[Len(frames)] = n /\ Len(delivered) <= Len(sent')
    BY <1>1, <1>2 DEF Account
  <2> QED BY <1>3, <1>4, <2>1 DEF Account
<1> QED BY <1>5 DEF Handed

\* The parser is where it was when blocks have been added at the end.
LEMMA ParserStays ==
    ASSUME TypeOK, NEW H, NEW D, NEW off, NEW n, StreamInv(H, D, off, n),
           NEW E, Len(sent') \in Nat, Len(sent) <= Len(sent'),
           \A k \in 1 .. Len(sent) : E[k] = D[k] /\ sent'[k] = sent[k],
           \A k \in Len(sent) + 1 .. Len(sent') : E[k] \in Nat /\ Len(H) <= E[k],
           UNCHANGED parserVars
    PROVE  Between(E, off, n)' \/ Inside(E, off, n)'
<1>1. /\ off \in Nat /\ n \in 0 .. Len(sent) /\ Len(sent) \in Nat
      /\ Len(H) \in Nat /\ off <= Len(H)
  BY Types DEF StreamInv, Cut, Layout
<1>2. UNCHANGED <<id, length, size>>
  BY DEF parserVars
<1>3. CASE Between(D, off, n)
  <2>1. \A k \in 1 .. n : BlockEnd(E, sent', k) <= off
    <3> SUFFICES ASSUME NEW k \in 1 .. n PROVE BlockEnd(E, sent', k) <= off
      OBVIOUS
    <3>1. E[k] = D[k] /\ sent'[k] = sent[k]
      BY <1>1
    <3> QED BY <1>3, <3>1 DEF Between, BlockEnd
  <2>2. \A k \in n + 1 .. Len(sent') : off <= E[k]
    <3> SUFFICES ASSUME NEW k \in n + 1 .. Len(sent') PROVE off <= E[k]
      OBVIOUS
    <3>1. CASE k \in 1 .. Len(sent)
      <4>1. E[k] = D[k] /\ k \in n + 1 .. Len(sent)
        BY <1>1, <3>1
      <4> QED BY <1>3, <4>1 DEF Between
    <3>2. CASE k \in Len(sent) + 1 .. Len(sent')
      <4>1. E[k] \in Nat /\ Len(H) <= E[k]
        BY <3>2
      <4> QED BY <1>1, <3>2, <4>1
    <3> QED BY <1>1, <3>1, <3>2
  <2> QED BY <1>2, <1>3, <2>1, <2>2 DEF Between
<1>4. CASE Inside(D, off, n)
  <2>1. n + 1 \in 1 .. Len(sent) /\ n + 1 \in 1 .. Len(sent')
    BY <1>1, <1>4 DEF Inside
  <2>2. E[n + 1] = D[n + 1] /\ sent'[n + 1] = sent[n + 1]
    BY <2>1
  <2> QED BY <1>2, <1>4, <2>1, <2>2 DEF Inside
<1> QED BY <1>3, <1>4 DEF StreamInv

\* A write keeps the invariant when the stream it makes is laid out well.
LEMMA WriteKeeps ==
    ASSUME IInv, NEW H, NEW D, NEW off, NEW n, StreamInv(H, D, off, n), Handed(n),
           NEW cells \in Seq(Cells), NEW bodies \in Seq(Bodies), NEW ping \in BOOLEAN,
           Write(cells, bodies, ping),
           NEW E, Layout(H \o cells, E, sent'),
           \A k \in 1 .. Len(sent) : E[k] = D[k],
           \A k \in Len(sent) + 1 .. Len(sent') : E[k] \in Nat /\ Len(H) <= E[k],
           PingInv(H \o cells, E, off)'
    PROVE  IInv'
<1>1. TypeOK /\ ClientInv /\ H \in Seq(Cells) /\ off \in Nat
  BY DEF IInv, StreamInv, Layout
<1>2. /\ wire' = wire \o cells /\ sent' = sent \o bodies /\ link = "open"
      /\ blocks < MaxBlocks /\ blocks' = blocks + 1 /\ unacked' = (unacked \/ ping)
      /\ UNCHANGED <<link, canceled, client, buf, id, length, size, frames, failed,
                     delivered>>
  BY DEF Write, parserVars
<1>3. /\ sent' \in Seq(Bodies) /\ Len(sent') \in Nat /\ Len(sent) \in Nat
      /\ Len(sent) <= Len(sent')
      /\ \A k \in 1 .. Len(sent) : sent'[k] = sent[k]
  <2>1. sent \in Seq(Bodies)
    BY <1>1 DEF TypeOK
  <2> QED BY <1>2, <2>1, Grown
<1>4. TypeOK'
  <2>1. wire' \in Seq(Cells)
    <3>1. wire \in Seq(Cells)
      BY <1>1 DEF TypeOK
    <3> QED BY <1>2, <3>1, Grown
  <2>2. blocks' \in 0 .. MaxBlocks
    BY <1>1, <1>2, ServerAssumption DEF TypeOK
  <2>3. unacked' \in BOOLEAN
    BY <1>1, <1>2 DEF TypeOK
  <2> QED BY <1>1, <1>2, <1>3, <2>1, <2>2, <2>3 DEF TypeOK
<1>5. ClientInv'
  BY <1>1, <1>2 DEF ClientInv, Incomplete, DispatchedBeforeEnd
<1>6. Cut(H \o cells, off)'
  BY <1>1, <1>2, CutGrows DEF StreamInv
<1>7. Between(E, off, n)' \/ Inside(E, off, n)'
  <2>1. UNCHANGED parserVars
    BY <1>2 DEF parserVars
  <2> QED BY <1>1, <1>3, <2>1, ParserStays
<1>8. n \in 0 .. Len(sent')
  BY <1>3 DEF StreamInv
<1>9. StreamInv(H \o cells, E, off, n)'
  BY <1>1, <1>6, <1>7, <1>8 DEF StreamInv
<1>10. Handed(n)'
  BY <1>1, <1>2, <1>3, HandedStays
<1> QED BY <1>4, <1>5, <1>9, <1>10 DEF IInv

\* Blocks of other kinds, whether or not a ping is to come.
LEMMA FillerKeeps ==
    ASSUME IInv, NEW cells \in Seq(Cells), \A p \in 1 .. Len(cells) : FillerAt(cells, p),
           \A p \in 1 .. Len(cells) : cells[p] # Ping, Write(cells, <<>>, FALSE)
    PROVE  IInv'
<1>1. PICK H, D, off, n : StreamInv(H, D, off, n) /\ Handed(n)
  BY DEF IInv
<1>2. /\ sent \in Seq(Seq(Cells)) /\ sent \in Seq(Bodies)
      /\ Layout(H, D, sent) /\ off \in Nat /\ PingInv(H, D, off)
  BY <1>1, Types DEF IInv, StreamInv, TypeOK
<1>3. off <= Len(H)
  BY <1>1, Types DEF IInv, StreamInv, Cut, Layout
<1>4. sent' = sent /\ unacked' = unacked /\ failed' = failed
  BY <1>2 DEF Write, IInv, TypeOK
<1>5. Layout(H \o cells, D, sent')
  BY <1>2, <1>4, FillerGrows
<1>6. PingsAfter(H, D, sent, off, unacked)
  BY <1>2 DEF PingInv
<1>7. /\ PingsAfter(H \o cells, D, sent, off, unacked)
      /\ \A p \in off + 1 .. Len(H) :
            PingAt(H, D, sent, p) => PingAt(H \o cells, D, sent, p)
  BY <1>2, <1>3, <1>6, NoPingInFiller
<1>8. ASSUME unacked, ~failed
      PROVE  \E p \in off + 1 .. Len(H \o cells) : PingAt(H \o cells, D, sent, p)
  <2>1. PICK p \in off + 1 .. Len(H) : PingAt(H, D, sent, p)
    BY <1>2, <1>8 DEF PingInv
  <2>2. PingAt(H \o cells, D, sent, p)
    BY <1>7, <2>1
  <2>3. p \in off + 1 .. Len(H \o cells)
    <3>1. Len(H \o cells) \in Nat /\ Len(H) \in Nat /\ Len(H) <= Len(H \o cells)
      BY <1>2, Grown DEF Layout
    <3> QED BY <1>2, <3>1
  <2> QED BY <2>2, <2>3
<1>9. PingInv(H \o cells, D, off)'
  BY <1>4, <1>7, <1>8 DEF PingInv
<1>10. \A k \in Len(sent) + 1 .. Len(sent') : FALSE
  BY <1>2, <1>4
<1>11. <<>> \in Seq(Bodies)
  OBVIOUS
<1> QED BY <1>1, <1>5, <1>9, <1>10, <1>11, WriteKeeps

\* While the server may push, no ping is to come: the session goes on from one
\* ack to the next.
LEMMA NoneToCome ==
    ASSUME IInv, ServerAwaitsAck = TRUE, MayPush,
           NEW H, NEW D, NEW off, NEW n, StreamInv(H, D, off, n)
    PROVE  /\ ~unacked /\ PingsAfter(H, D, sent, off, FALSE)
           /\ off \in Nat /\ off <= Len(H) /\ H \in Seq(Cells) /\ Len(H) \in Nat
           /\ Layout(H, D, sent)
           /\ sent \in Seq(Seq(Cells)) /\ Len(sent) \in Nat
<1>1. ~unacked
  BY DEF MayPush
<1>2. PingsAfter(H, D, sent, off, FALSE)
  BY <1>1 DEF StreamInv, PingInv, PingsAfter
<1>3. /\ sent \in Seq(Seq(Cells)) /\ Len(sent) \in Nat /\ off \in Nat
      /\ H \in Seq(Cells) /\ Len(H) \in Nat /\ Layout(H, D, sent)
  BY Types DEF IInv, StreamInv, Layout
<1>4. off <= Len(H)
  BY <1>3, Types DEF IInv, StreamInv, Cut
<1> QED BY <1>1, <1>2, <1>3, <1>4

\* The block of a telegram, before or after which no ping is to come.
LEMMA DataKeeps ==
    ASSUME IInv, ServerAwaitsAck = TRUE, NEW b \in Bodies, SendData(b)
    PROVE  IInv'
<1>1. PICK H, D, off, n : StreamInv(H, D, off, n) /\ Handed(n)
  BY DEF IInv
<1>2. MayPush /\ Write(DataBlock(b), <<b>>, FALSE)
  BY DEF SendData
<1>3. /\ ~unacked /\ PingsAfter(H, D, sent, off, FALSE)
      /\ off \in Nat /\ off <= Len(H) /\ H \in Seq(Cells) /\ Len(H) \in Nat
      /\ Layout(H, D, sent)
      /\ sent \in Seq(Seq(Cells)) /\ Len(sent) \in Nat
  BY <1>1, <1>2, NoneToCome
<1>4. b \in Seq(Cells) /\ DataBlock(b) \in Seq(Cells) /\ <<b>> \in Seq(Bodies)
  <2>1. b \in Seq(Cells)
    BY ServerAssumption
  <2> QED BY <2>1, DataBlockCells
<1> DEFINE G == H \o DataBlock(b)
<1>5. PICK E : E = Starts(H, D, sent)
  OBVIOUS
<1>6. sent' = sent \o <<b>> /\ ~unacked'
  BY <1>2, <1>3 DEF Write
<1>7. Layout(G, E, sent') /\ PingsAfter(G, E, sent', off, FALSE)
  BY <1>3, <1>4, <1>6, <1>5, BlockGrows, NoPingInBlock
<1>8. Len(sent') = Len(sent) + 1
  <2>1. <<b>> \in Seq(Bodies) /\ Len(<<b>>) = 1 /\ sent \in Seq(Bodies)
    BY <1>4 DEF IInv, TypeOK
  <2>2. Len(sent') = Len(sent) + Len(<<b>>)
    BY <1>6, <2>1, Grown
  <2> QED BY <2>1, <2>2
<1>9. /\ \A k \in 1 .. Len(sent) : E[k] = D[k]
      /\ \A k \in Len(sent) + 1 .. Len(sent') : E[k] \in Nat /\ Len(H) <= E[k]
  BY <1>3, <1>8, <1>5 DEF Starts
<1>10. PingInv(G, E, off)'
  <2>1. unacked' = FALSE
    BY <1>6, <1>2 DEF Write, IInv, TypeOK
  <2> QED BY <1>7, <2>1 DEF PingInv
<1> HIDE DEF G
<1> QED BY <1>1, <1>2, <1>4, <1>7, <1>9, <1>10, WriteKeeps DEF G

\* A ping, which is the only one to come.
LEMMA PingKeeps ==
    ASSUME IInv, ServerAwaitsAck = TRUE, SendGETPing
    PROVE  IInv'
<1>1. PICK H, D, off, n : StreamInv(H, D, off, n) /\ Handed(n)
  BY DEF IInv
<1>2. MayPush /\ Write(PingLine, <<>>, TRUE)
  BY DEF SendGETPing
<1>3. /\ ~unacked /\ PingsAfter(H, D, sent, off, FALSE)
      /\ off \in Nat /\ off <= Len(H) /\ H \in Seq(Cells) /\ Len(H) \in Nat
      /\ Layout(H, D, sent)
      /\ sent \in Seq(Seq(Cells)) /\ Len(sent) \in Nat
  BY <1>1, <1>2, NoneToCome
<1>4. PingLine \in Seq(Cells) /\ <<>> \in Seq(Bodies)
  BY CellKinds DEF PingLine
<1>5. sent' = sent /\ unacked' = TRUE
  <2>1. sent' = sent \o <<>> /\ unacked' = (unacked \/ TRUE)
    BY <1>2 DEF Write
  <2>2. sent' = sent
    BY <1>3, <2>1, ConcatEmptySeq
  <2> QED BY <2>1, <2>2
<1>6. Layout(H \o PingLine, D, sent')
  BY <1>3, <1>5, PingGrows
<1>7. PingInv(H \o PingLine, D, off)'
  BY <1>3, <1>5, PingGrows DEF PingInv
<1>8. \A k \in Len(sent) + 1 .. Len(sent') : FALSE
  BY <1>3, <1>5
<1> QED BY <1>1, <1>2, <1>4, <1>6, <1>7, <1>8, WriteKeeps

\* A telegram and a ping in one write.
LEMMA DataThenPingKeeps ==
    ASSUME IInv, ServerAwaitsAck = TRUE, NEW b \in Bodies, SendDataThenGETPing(b)
    PROVE  IInv'
<1>1. PICK H, D, off, n : StreamInv(H, D, off, n) /\ Handed(n)
  BY DEF IInv
<1>2. MayPush /\ Write(DataBlock(b) \o PingLine, <<b>>, TRUE)
  BY DEF SendDataThenGETPing
<1>3. /\ ~unacked /\ PingsAfter(H, D, sent, off, FALSE)
      /\ off \in Nat /\ off <= Len(H) /\ H \in Seq(Cells) /\ Len(H) \in Nat
      /\ Layout(H, D, sent)
      /\ sent \in Seq(Seq(Cells)) /\ Len(sent) \in Nat
  BY <1>1, <1>2, NoneToCome
<1>4. /\ b \in Seq(Cells) /\ DataBlock(b) \in Seq(Cells) /\ <<b>> \in Seq(Bodies)
      /\ PingLine \in Seq(Cells) /\ DataBlock(b) \o PingLine \in Seq(Cells)
  <2>1. b \in Seq(Cells) /\ PingLine \in Seq(Cells)
    BY ServerAssumption, CellKinds DEF PingLine
  <2> QED BY <2>1, DataBlockCells, Grown
<1> DEFINE F == H \o DataBlock(b)
           G == F \o PingLine
<1>5. PICK E : E = Starts(H, D, sent)
  OBVIOUS
<1>6. sent' = sent \o <<b>> /\ unacked' = TRUE
  BY <1>2 DEF Write
<1>7. Layout(F, E, sent') /\ PingsAfter(F, E, sent', off, FALSE)
  BY <1>3, <1>4, <1>6, <1>5, BlockGrows, NoPingInBlock
<1>8. /\ sent' \in Seq(Seq(Cells)) /\ Len(sent') = Len(sent) + 1
      /\ off <= Len(F)
  <2>1. <<b>> \in Seq(Seq(Cells)) /\ Len(<<b>>) = 1
    BY <1>4
  <2>2. sent' \in Seq(Seq(Cells)) /\ Len(sent') = Len(sent) + Len(<<b>>)
    BY <1>3, <1>6, <2>1, Grown
  <2>3. Len(F) \in Nat /\ Len(H) <= Len(F)
    BY <1>3, <1>4, Grown
  <2> QED BY <1>3, <2>1, <2>2, <2>3
<1>9. /\ \A k \in 1 .. Len(sent) : E[k] = D[k]
      /\ \A k \in Len(sent) + 1 .. Len(sent') : E[k] \in Nat /\ Len(H) <= E[k]
  BY <1>3, <1>8, <1>5 DEF Starts
<1>10. G = H \o (DataBlock(b) \o PingLine)
  BY <1>3, <1>4, ConcatAssociative
<1> HIDE DEF F
<1>11. Layout(G, E, sent') /\ PingInv(G, E, off)'
  BY <1>3, <1>6, <1>7, <1>8, PingGrows DEF PingInv
<1> HIDE DEF G
<1> QED BY <1>1, <1>2, <1>4, <1>9, <1>10, <1>11, WriteKeeps

\* The server closing the connection, or the connection breaking.
LEMMA LinkKeeps ==
    ASSUME IInv, ServerCloses \/ LinkBreaks
    PROVE  IInv'
<1>1. PICK H, D, off, n : StreamInv(H, D, off, n) /\ Handed(n)
  BY DEF IInv
<1>2. /\ UNCHANGED <<sent, blocks, unacked, canceled, client, parserVars, frames,
                     failed, delivered>>
      /\ \/ wire' = wire /\ link = "open" /\ link' = "closed"
         \/ wire' = <<>> /\ link' = "broken"
  BY DEF ServerCloses, LinkBreaks
<1>3. Cut(H, off)'
  <2>1. Cut(H, off) /\ Len(buf) \in Nat /\ Len(wire) \in Nat /\ off \in Nat /\ Len(H) \in Nat
    BY <1>1, Types DEF StreamInv, IInv, Layout
  <2>2. CASE wire' = wire /\ link = "open" /\ link' = "closed"
    BY <1>2, <2>1, <2>2 DEF Cut, parserVars
  <2>3. CASE wire' = <<>> /\ link' = "broken"
    BY <1>2, <2>1, <2>3 DEF Cut, parserVars
  <2> QED BY <1>2, <2>2, <2>3
<1>4. StreamInv(H, D, off, n)'
  BY <1>1, <1>2, <1>3 DEF StreamInv, Between, Inside, PingInv, parserVars
<1>5. Handed(n)'
  BY <1>1, <1>2 DEF Handed, Account
<1>6. TypeOK' /\ ClientInv'
  <2>1. wire' \in Seq(Cells) /\ link' \in {"open", "closed", "broken"}
    <3>1. wire \in Seq(Cells) /\ <<>> \in Seq(Cells)
      BY DEF IInv, TypeOK
    <3> QED BY <1>2, <3>1
  <2>2. TypeOK'
    BY <1>2, <2>1 DEF IInv, TypeOK, parserVars
  <2>3. ClientInv'
    BY <1>2 DEF IInv, ClientInv, Incomplete, DispatchedBeforeEnd, parserVars
  <2> QED BY <2>2, <2>3
<1> QED BY <1>4, <1>5, <1>6 DEF IInv

LEMMA ServerKeeps ==
    ASSUME IInv, ServerAwaitsAck = TRUE, ServerStep \/ LinkBreaks
    PROVE  IInv'
<1>1. CASE SendResponseOK
  <2> DEFINE cells == <<Status, NL, ResponseID, NL, NL>>
  <2>1. cells \in Seq(Cells) /\ Len(cells) = 5
    BY CellKinds
  <2>2. \A p \in 1 .. 5 : FillerAt(cells, p) /\ cells[p] # Ping
    BY <2>1, CellKinds DEF FillerAt, FillerCells
  <2>3. Write(cells, <<>>, FALSE)
    BY <1>1 DEF SendResponseOK
  <2> HIDE DEF cells
  <2> QED BY <2>1, <2>2, <2>3, FillerKeeps
<1>2. CASE SendKeepAlive
  <2> DEFINE cells == <<KeepID, NL, NL>>
  <2>1. cells \in Seq(Cells) /\ Len(cells) = 3
    BY CellKinds
  <2>2. \A p \in 1 .. 3 : FillerAt(cells, p) /\ cells[p] # Ping
    BY <2>1, CellKinds DEF FillerAt, FillerCells
  <2>3. Write(cells, <<>>, FALSE)
    BY <1>2 DEF SendKeepAlive
  <2> HIDE DEF cells
  <2> QED BY <2>1, <2>2, <2>3, FillerKeeps
<1> QED BY <1>1, <1>2, DataKeeps, PingKeeps, DataThenPingKeeps, LinkKeeps DEF ServerStep

-----------------------------------------------------------------------------
(* Where the parser is, and what it finds there.                           *)

\* The parser moves on by i cells of its buffer.
LEMMA CutAdvances ==
    ASSUME TypeOK, NEW H \in Seq(Cells), NEW off \in Nat, Cut(H, off),
           NEW i \in 0 .. Len(buf), buf' = SubSeq(buf, i + 1, Len(buf)),
           UNCHANGED <<wire, link>>
    PROVE  Cut(H, off + i)' /\ buf' \in Seq(Cells) /\ off + i <= Len(H)
<1> DEFINE b == Len(buf)  w == Len(wire)  h == Len(H)
<1>1. b \in Nat /\ w \in Nat /\ h \in Nat /\ off + b + w <= h /\ i \in 0 .. b
  BY Types DEF Cut
<1>2. /\ buf' \in Seq(Cells) /\ Len(buf') = b - i
      /\ \A j \in 1 .. b - i : buf'[j] = buf[i + j]
  <2>1. \A j \in i + 1 .. b : buf[j] \in Cells
    BY Types
  <2> DEFINE rest == SubSeq(buf, i + 1, b)
  <2>2. /\ rest \in Seq(Cells)
        /\ Len(rest) = IF i + 1 <= b THEN b - (i + 1) + 1 ELSE 0
        /\ \A j \in 1 .. b - (i + 1) + 1 : rest[j] = buf[i + 1 + j - 1]
    <3>1. i + 1 \in Int /\ b \in Int
      BY <1>1
    <3> HIDE DEF b
    <3> QED BY <2>1, <3>1, SubSeqProperties
  <2>3. buf' = rest
    OBVIOUS
  <2> HIDE DEF rest, b
  <2>4. Len(rest) = b - i /\ b - (i + 1) + 1 = b - i
    BY <1>1, <2>2
  <2>5. ASSUME NEW j \in 1 .. b - i PROVE buf'[j] = buf[i + j]
    <3>1. i + 1 + j - 1 = i + j
      BY <1>1
    <3> QED BY <2>2, <2>3, <2>4, <3>1
  <2> QED BY <2>2, <2>3, <2>4, <2>5
<1>3. \A j \in 1 .. b : buf[j] = H[off + j]
  BY DEF Cut
<1>4. \A j \in 1 .. w : wire[j] = H[off + b + j]
  BY DEF Cut
<1>5. link # "broken" => off + b + w = h
  BY DEF Cut
<1> HIDE DEF b, w, h
<1>6. ASSUME NEW j \in 1 .. b - i PROVE buf'[j] = H[off + i + j]
  <2>1. i + j \in 1 .. b /\ off + (i + j) = off + i + j
    BY <1>1
  <2> QED BY <1>2, <1>3, <2>1
<1>7. off + i + (b - i) = off + b /\ off + i <= h
  BY <1>1
<1>8. ASSUME NEW j \in 1 .. w PROVE wire[j] = H[off + i + (b - i) + j]
  BY <1>4, <1>7
<1> QED BY <1>1, <1>2, <1>5, <1>6, <1>7, <1>8 DEF Cut, w, h

\* The block the parser is at or in: its lines and its telegram.
LEMMA NextBlock ==
    ASSUME NEW H, NEW D, NEW s \in Seq(Seq(Cells)), Layout(H, D, s), NEW k \in 1 .. Len(s)
    PROVE  LET d == D[k]  m == Len(s[k]) IN
           /\ d \in Nat /\ m \in Nat /\ d + 5 + m <= Len(H)
           /\ BlockEnd(D, s, k) = d + 5 + m
           /\ H[d + 1] = DataID /\ H[d + 2] = NL
           /\ H[d + 3] = ContentLength(m) /\ H[d + 4] = NL /\ H[d + 5] = NL
           /\ \A i \in 1 .. m : H[d + 5 + i] = s[k][i]
<1> DEFINE d == D[k]
           m == Len(s[k])
           cells == DataBlock(s[k])
<1>1. /\ s[k] \in Seq(Cells) /\ d \in Nat /\ m \in Nat /\ Len(H) \in Nat
      /\ BlockEnd(D, s, k) = d + 5 + m /\ d + 5 + m <= Len(H)
      /\ BlockAt(H, d, s[k])
  BY Blocks
<1>2. /\ Len(cells) = 5 + m
      /\ cells[1] = DataID /\ cells[2] = NL
      /\ cells[3] = ContentLength(m) /\ cells[4] = NL /\ cells[5] = NL
      /\ \A i \in 1 .. m : cells[5 + i] = s[k][i]
  BY <1>1, DataBlockCells
<1>3. \A i \in 1 .. Len(cells) : H[d + i] = cells[i]
  BY <1>1 DEF BlockAt
<1> HIDE DEF d, m, cells
<1>4. \A i \in 1 .. 5 : H[d + i] = cells[i]
  <2>1. \A i \in 1 .. 5 : i \in 1 .. Len(cells)
    <3>1. Len(cells) = 5 + m /\ m \in Nat
      BY <1>1, <1>2
    <3> QED BY <3>1
  <2> QED BY <1>3, <2>1
<1>5. /\ H[d + 1] = DataID /\ H[d + 2] = NL
      /\ H[d + 3] = ContentLength(m) /\ H[d + 4] = NL /\ H[d + 5] = NL
  BY <1>2, <1>4
<1>6. ASSUME NEW i \in 1 .. m PROVE H[d + 5 + i] = s[k][i]
  <2>1. 5 + i \in 1 .. Len(cells) /\ d + (5 + i) = d + 5 + i
    BY <1>1, <1>2
  <2> QED BY <1>2, <1>3, <2>1
<1> QED BY <1>1, <1>5, <1>6 DEF d, m

\* The blocks in front of a block end before it starts, and so does every
\* position up to them.
LEMMA FillerAhead ==
    ASSUME NEW H, NEW D, NEW s \in Seq(Seq(Cells)), Layout(H, D, s), Len(s) \in Nat,
           NEW off \in Nat, NEW n \in 0 .. Len(s),
           \A k \in 1 .. n : BlockEnd(D, s, k) <= off,
           \A k \in n + 1 .. Len(s) : off <= D[k],
           n + 1 \in 1 .. Len(s) => off # D[n + 1]
    PROVE  Filler(D, s, off + 1) /\ \A k \in n + 1 .. Len(s) : off + 1 <= D[k]
<1>1. ASSUME NEW k \in n + 1 .. Len(s) PROVE off + 1 <= D[k]
  <2>1. n + 1 \in 1 .. Len(s) /\ k \in 1 .. Len(s) /\ n + 1 \in n + 1 .. Len(s)
    OBVIOUS
  <2>2. /\ D[k] \in Nat /\ D[n + 1] \in Nat /\ BlockEnd(D, s, n + 1) \in Nat
        /\ D[n + 1] + 5 <= BlockEnd(D, s, n + 1)
    BY <2>1, Blocks
  <2>3. off <= D[n + 1] /\ off # D[n + 1]
    BY <2>1
  <2>4. CASE k = n + 1
    BY <2>2, <2>3, <2>4
  <2>5. CASE k # n + 1
    <3>1. BlockEnd(D, s, n + 1) <= D[k]
      BY <2>1, <2>5 DEF Layout
    <3> DEFINE e == BlockEnd(D, s, n + 1)  d == D[n + 1]  dk == D[k]
    <3>2. /\ d \in Nat /\ dk \in Nat /\ e \in Nat
          /\ off <= d /\ d + 5 <= e /\ e <= dk
      BY <2>2, <2>3, <3>1
    <3> HIDE DEF e, d, dk
    <3>3. off + 1 <= dk
      BY <3>2
    <3> QED BY <3>3 DEF dk
  <2> QED BY <2>4, <2>5
<1>2. ASSUME NEW k \in 1 .. Len(s) PROVE off + 1 <= D[k] \/ BlockEnd(D, s, k) < off + 1
  <2>1. CASE k \in 1 .. n
    <3>1. BlockEnd(D, s, k) \in Nat /\ BlockEnd(D, s, k) <= off
      BY <2>1, Blocks
    <3> QED BY <3>1
  <2>2. CASE k \in n + 1 .. Len(s)
    BY <1>1, <2>2
  <2> QED BY <2>1, <2>2
<1> QED BY <1>1, <1>2 DEF Filler

\* A line in the buffer is empty, or one text and its newline, when that is what
\* the stream has there.
LEMMA FirstLine ==
    ASSUME TypeOK, NEW H \in Seq(Cells), NEW off \in Nat, Cut(H, off),
           NEW i, LineEnds(i), H[off + 1] # NL => H[off + 2] = NL
    PROVE  /\ i = IF H[off + 1] = NL THEN 1 ELSE 2
           /\ i \in 1 .. Len(buf) /\ buf[1] = H[off + 1] /\ off + i <= Len(H)
           /\ size = -1
<1>1. /\ i \in 1 .. Len(buf) /\ buf[i] = NL /\ size = -1
      /\ \A j \in 1 .. i - 1 : buf[j] # NL
  BY Types DEF LineEnds
<1>2. Len(buf) \in Nat /\ Len(wire) \in Nat /\ Len(H) \in Nat
  BY Types
<1>3. \A j \in 1 .. Len(buf) : buf[j] = H[off + j]
  BY DEF Cut
<1>4. buf[1] = H[off + 1]
  BY <1>1, <1>2, <1>3
<1>5. ASSUME H[off + 1] = NL PROVE i = 1
  <2>1. i # 1 => 1 \in 1 .. i - 1
    BY <1>1, <1>2
  <2> QED BY <1>1, <1>4, <1>5, <2>1
<1>6. ASSUME H[off + 1] # NL PROVE i = 2
  <2>1. i # 1
    BY <1>1, <1>4, <1>6
  <2>2. 2 \in 1 .. Len(buf) /\ buf[2] = NL
    BY <1>1, <1>2, <1>3, <1>6, <2>1
  <2>3. i # 2 => 2 \in 1 .. i - 1
    BY <1>1, <1>2, <2>1
  <2> QED BY <1>1, <2>2, <2>3
<1>7. off + i <= Len(H)
  BY <1>1, <1>2 DEF Cut
<1> QED BY <1>1, <1>4, <1>5, <1>6, <1>7

\* Nothing but texts that tell the parser nothing is between the blocks.
FillerLine(H, D, off, n, i) ==
    /\ Between(D, off, n)
    /\ Filler(D, sent, off + 1)
    /\ buf[1] \in FillerCells
    /\ \A k \in n + 1 .. Len(sent) : off + i <= D[k]

\* The three lines of a block, before the empty one.
BlockLine(D, off, n, i) ==
    /\ n + 1 \in 1 .. Len(sent)
    /\ \/ /\ Between(D, off, n) /\ off = D[n + 1]
          /\ i = 2 /\ buf[1] = DataID
       \/ /\ Inside(D, off, n) /\ off = D[n + 1] + 2 /\ length = -1
          /\ i = 2 /\ buf[1] = ContentLength(Len(sent[n + 1]))
       \/ /\ Inside(D, off, n) /\ off = D[n + 1] + 4 /\ length = Len(sent[n + 1])
          /\ i = 1 /\ buf[1] = NL

\* What a complete line in the buffer can be.
LEMMA AtLine ==
    ASSUME TypeOK, NEW H, NEW D, NEW off, NEW n, StreamInv(H, D, off, n),
           NEW i, LineEnds(i)
    PROVE  /\ i = IF buf[1] = NL THEN 1 ELSE 2
           /\ i \in 1 .. Len(buf) /\ off + i <= Len(H) /\ size = -1
           /\ H[off + 1] = buf[1] /\ (i = 2 => H[off + 2] = NL)
           /\ FillerLine(H, D, off, n, i) \/ BlockLine(D, off, n, i)
<1>1. /\ sent \in Seq(Seq(Cells)) /\ Len(sent) \in Nat /\ H \in Seq(Cells) /\ off \in Nat
      /\ Layout(H, D, sent) /\ Cut(H, off) /\ n \in 0 .. Len(sent) /\ Len(H) \in Nat
  BY Types DEF StreamInv, Layout
<1>2. i \in 1 .. Len(buf) /\ size = -1 /\ off + 1 <= Len(H)
  BY <1>1, Types DEF LineEnds, Cut
<1> DEFINE Goal ==
             /\ i = IF buf[1] = NL THEN 1 ELSE 2
             /\ i \in 1 .. Len(buf) /\ off + i <= Len(H) /\ size = -1
             /\ H[off + 1] = buf[1] /\ (i = 2 => H[off + 2] = NL)
           Seen ==
             /\ i = IF H[off + 1] = NL THEN 1 ELSE 2
             /\ i \in 1 .. Len(buf) /\ buf[1] = H[off + 1] /\ off + i <= Len(H)
             /\ size = -1
<1>3. ASSUME H[off + 1] # NL => H[off + 2] = NL PROVE Seen
  BY <1>1, <1>3, FirstLine
<1>4. CASE n + 1 \in 1 .. Len(sent) /\ Between(D, off, n) /\ off = D[n + 1]
  <2>1. H[off + 1] = DataID /\ H[off + 2] = NL
    BY <1>1, <1>4, NextBlock
  <2>2. Seen
    BY <1>3, <2>1
  <2> QED BY <1>4, <2>1, <2>2, CellKinds DEF BlockLine
<1>5. CASE Between(D, off, n) /\ ~(n + 1 \in 1 .. Len(sent) /\ off = D[n + 1])
  <2>1. /\ Filler(D, sent, off + 1)
        /\ \A k \in n + 1 .. Len(sent) : off + 1 <= D[k]
    <3>1. /\ \A k \in 1 .. n : BlockEnd(D, sent, k) <= off
          /\ \A k \in n + 1 .. Len(sent) : off <= D[k]
      BY <1>5 DEF Between
    <3> QED BY <1>1, <1>5, <3>1, FillerAhead
  <2>2. FillerAt(H, off + 1)
    BY <1>1, <1>2, <2>1 DEF Layout
  <2>3. H[off + 1] # NL => H[off + 2] = NL
    <3>1. off + 1 + 1 = off + 2
      BY <1>1
    <3> QED BY <2>2, <3>1 DEF FillerAt
  <2>4. Seen
    BY <1>3, <2>3
  <2>5. ASSUME NEW k \in n + 1 .. Len(sent) PROVE off + i <= D[k]
    <3>1. k \in 1 .. Len(sent) /\ off + 1 <= D[k]
      BY <1>1, <2>1
    <3>2. D[k] \in Nat /\ H[D[k] + 1] = DataID
      BY <1>1, <3>1, NextBlock
    <3>3. CASE i = 1
      BY <3>1, <3>3
    <3>4. CASE i = 2
      <4>1. H[off + 2] = NL
        BY <2>3, <2>4, <3>4
      <4>2. off + 1 # D[k]
        <5>1. off + 1 = D[k] => D[k] + 1 = off + 2
          BY <1>1, <3>2
        <5> QED BY <3>2, <4>1, <5>1, CellKinds
      <4> QED BY <1>1, <3>1, <3>2, <3>4, <4>2
    <3> QED BY <2>4, <3>3, <3>4
  <2>6. FillerLine(H, D, off, n, i)
    BY <1>5, <2>1, <2>2, <2>4, <2>5 DEF FillerLine, FillerAt
  <2> QED BY <2>3, <2>4, <2>6
<1>6. CASE Inside(D, off, n)
  <2>1. n + 1 \in 1 .. Len(sent)
    BY <1>6 DEF Inside
  <2> DEFINE d == D[n + 1]  m == Len(sent[n + 1])
  <2>2. /\ d \in Nat /\ m \in Nat
        /\ H[d + 3] = ContentLength(m) /\ H[d + 4] = NL /\ H[d + 5] = NL
    BY <1>1, <2>1, NextBlock
  <2>3. \/ off = d + 2 /\ length = -1
        \/ off = d + 4 /\ length = m
    <3>1. \/ off = d + 2 /\ length = -1
          \/ off = d + 4 /\ length = m
          \/ size = m
      BY <1>6 DEF Inside
    <3> HIDE DEF m, d
    <3> QED BY <1>2, <2>2, <3>1
  <2> HIDE DEF m, d
  <2>4. CASE off = d + 2 /\ length = -1
    <3>1. H[off + 1] = ContentLength(m) /\ H[off + 2] = NL
      <4>1. off + 1 = d + 3 /\ off + 2 = d + 4
        BY <2>2, <2>4
      <4> QED BY <2>2, <4>1
    <3>2. ContentLength(m) # NL
      BY <2>2, CellKinds
    <3>3. Seen
      BY <1>3, <3>1
    <3> QED BY <1>6, <2>1, <2>4, <3>1, <3>2, <3>3 DEF BlockLine, d, m
  <2>5. CASE off = d + 4 /\ length = m
    <3>1. H[off + 1] = NL
      <4>1. off + 1 = d + 5
        BY <2>2, <2>5
      <4> QED BY <2>2, <4>1
    <3>2. Seen
      BY <1>3, <3>1
    <3> QED BY <1>6, <2>1, <2>5, <3>1, <3>2 DEF BlockLine, d, m
  <2> QED BY <2>3, <2>4, <2>5
<1> QED BY <1>4, <1>5, <1>6 DEF StreamInv

\* Of the pings to come, those remain that the parser has not gone through.
LEMMA PingsPass ==
    ASSUME NEW H, NEW D, NEW off \in Nat, PingInv(H, D, off), NEW i \in Nat,
           failed' \/ \A p \in off + 1 .. off + i : ~PingAt(H, D, sent, p),
           Len(H) \in Nat, UNCHANGED <<sent, unacked>>, failed => failed'
    PROVE  PingInv(H, D, off + i)'
<1>1. PingsAfter(H, D, sent, off + i, unacked)
  <2>1. \A p \in off + i + 1 .. Len(H) : p \in off + 1 .. Len(H)
    OBVIOUS
  <2>2. PingsAfter(H, D, sent, off, unacked)
    BY DEF PingInv
  <2> QED BY <2>1, <2>2 DEF PingsAfter
<1>2. ASSUME unacked, ~failed'
      PROVE  \E p \in off + i + 1 .. Len(H) : PingAt(H, D, sent, p)
  <2>1. PICK p \in off + 1 .. Len(H) : PingAt(H, D, sent, p)
    BY <1>2 DEF PingInv
  <2>2. p \notin off + 1 .. off + i
    BY <1>2, <2>1
  <2>3. p \in off + i + 1 .. Len(H)
    BY <2>1, <2>2
  <2> QED BY <2>1, <2>3
<1>3. PingsAfter(H, D, sent', off + i, unacked')
  BY <1>1
<1>4. unacked' /\ ~failed' => \E p \in off + i + 1 .. Len(H) : PingAt(H, D, sent', p)
  BY <1>2
<1> QED BY <1>3, <1>4 DEF PingInv

\* The text of a line.
LEMMA LineText ==
    ASSUME buf \in Seq(Cells), NEW i, i \in 1 .. Len(buf),
           i = IF buf[1] = NL THEN 1 ELSE 2
    PROVE  /\ i = 1 <=> Line(i) = <<>>
           /\ i = 2 <=> Len(Line(i)) = 1
           /\ Contains(Line(i), Ping) <=> buf[1] = Ping
<1>1. Len(buf) \in Nat
  OBVIOUS
<1>2. CASE buf[1] = NL
  <2>1. i = 1 /\ Line(i) = <<>>
    BY <1>2, SubSeqEmpty DEF Line
  <2>2. Len(<<>>) = 0 /\ ~Contains(<<>>, Ping)
    BY DEF Contains
  <2>3. buf[1] # Ping
    BY <1>2, CellKinds
  <2>4. i # 2 /\ Len(Line(i)) # 1
    BY <2>1, <2>2
  <2>5. Contains(Line(i), Ping) <=> buf[1] = Ping
    BY <2>1, <2>2, <2>3
  <2> QED BY <2>1, <2>4, <2>5
<1>3. CASE buf[1] # NL
  <2>1. i = 2 /\ i - 1 = 1
    BY <1>3
  <2>2. \A j \in 1 .. 1 : buf[j] \in Cells
    BY <1>1, <2>1
  <2> DEFINE text == SubSeq(buf, 1, 1)
  <2>3. /\ text \in Seq(Cells)
        /\ Len(text) = IF 1 <= 1 THEN 1 - 1 + 1 ELSE 0
        /\ \A j \in 1 .. 1 - 1 + 1 : text[j] = buf[1 + j - 1]
    BY <2>2, SubSeqProperties
  <2>4. Line(i) = text
    BY <2>1 DEF Line
  <2> HIDE DEF text
  <2>5. Len(text) = 1 /\ text[1] = buf[1]
    BY <2>3
  <2>6. text # <<>>
    BY <2>5
  <2>7. Contains(text, Ping) <=> buf[1] = Ping
    BY <2>5 DEF Contains
  <2> QED BY <2>1, <2>4, <2>5, <2>6, <2>7
<1> QED BY <1>2, <1>3

\* The parser takes i cells and is at, or in, a block again.
LEMMA StreamMoves ==
    ASSUME TypeOK, NEW H, NEW D, NEW off, NEW n, StreamInv(H, D, off, n),
           NEW i \in 0 .. Len(buf), buf' = SubSeq(buf, i + 1, Len(buf)),
           UNCHANGED <<wire, link, sent, unacked>>, failed => failed',
           failed' \/ \A p \in off + 1 .. off + i : ~PingAt(H, D, sent, p),
           NEW m \in 0 .. Len(sent), Between(D, off + i, m)' \/ Inside(D, off + i, m)'
    PROVE  StreamInv(H, D, off + i, m)' /\ buf' \in Seq(Cells)
<1>1. off \in Nat /\ H \in Seq(Cells) /\ Len(H) \in Nat /\ Cut(H, off) /\ i \in Nat
  BY Types DEF StreamInv, Layout
<1>2. Cut(H, off + i)' /\ buf' \in Seq(Cells)
  BY <1>1, CutAdvances
<1>3. PingInv(H, D, off + i)'
  <2>1. PingInv(H, D, off)
    BY DEF StreamInv
  <2> QED BY <1>1, <2>1, PingsPass
<1>4. Layout(H, D, sent') /\ m \in 0 .. Len(sent') /\ off + i \in Nat
  BY <1>1 DEF StreamInv
<1> QED BY <1>2, <1>3, <1>4 DEF StreamInv

\* It has gone through a line between the blocks.
LEMMA FillerPassed ==
    ASSUME TypeOK, NEW H, NEW D, NEW off, NEW n, StreamInv(H, D, off, n), NEW i \in Nat,
           FillerLine(H, D, off, n, i),
           sent' = sent, size' = -1, length' = -1, id' # DataID
    PROVE  Between(D, off + i, n)'
<1>1. /\ sent \in Seq(Seq(Cells)) /\ Len(sent) \in Nat /\ off \in Nat
      /\ n \in 0 .. Len(sent) /\ Layout(H, D, sent)
  BY Types DEF StreamInv
<1>2. ASSUME NEW k \in 1 .. n PROVE BlockEnd(D, sent, k) <= off + i
  <2>1. BlockEnd(D, sent, k) \in Nat
    BY <1>1, Blocks
  <2>2. BlockEnd(D, sent, k) <= off
    BY DEF FillerLine, Between
  <2> QED BY <1>1, <2>1, <2>2
<1>3. \A k \in n + 1 .. Len(sent) : off + i <= D[k]
  BY DEF FillerLine
<1>4. /\ \A k \in 1 .. n : BlockEnd(D, sent', k) <= off + i
      /\ \A k \in n + 1 .. Len(sent') : off + i <= D[k]
  BY <1>2, <1>3
<1> QED BY <1>4 DEF Between

\* What a line action does to the rest of the state.
LineTaken(i) ==
    /\ client = "feeding" /\ LineEnds(i)
    /\ buf' = After(i)
    /\ UNCHANGED <<serverVars, canceled, delivered>>

\* A line that is no ping keeps the invariant when it takes the parser where
\* the stream says.
LEMMA LineKeeps ==
    ASSUME IInv, NEW H, NEW D, NEW off, NEW n, StreamInv(H, D, off, n),
           NEW i, LineTaken(i), buf[1] # Ping,
           UNCHANGED <<client, failed>>,
           id' \in IDs \union {NL}, length' \in Nat \union {-1}, size' \in Nat \union {-1},
           frames' \in Seq([id : IDs \union {NL}, body : Bodies \union {<<>>}]),
           Between(D, off + i, n)' \/ Inside(D, off + i, n)',
           Handed(n)'
    PROVE  IInv'
<1>1. TypeOK /\ ClientInv
  BY DEF IInv
<1>2. /\ i = IF buf[1] = NL THEN 1 ELSE 2
      /\ i \in 1 .. Len(buf) /\ off + i <= Len(H)
      /\ H[off + 1] = buf[1] /\ (i = 2 => H[off + 2] = NL)
  BY <1>1, AtLine DEF LineTaken
<1>3. \A p \in off + 1 .. off + i : ~PingAt(H, D, sent, p)
  <2> SUFFICES ASSUME NEW p \in off + 1 .. off + i PROVE H[p] # Ping
    BY DEF PingAt
  <2>1. off \in Nat
    BY DEF StreamInv
  <2>2. p = off + 1 \/ (i = 2 /\ p = off + 2)
    BY <1>2, <2>1
  <2> QED BY <1>2, <2>2, CellKinds
<1>4. StreamInv(H, D, off + i, n)' /\ buf' \in Seq(Cells)
  <2>1. /\ buf' = SubSeq(buf, i + 1, Len(buf))
        /\ UNCHANGED <<wire, link, sent, unacked>> /\ failed' = failed
    BY DEF LineTaken, After, serverVars
  <2>2. n \in 0 .. Len(sent) /\ i \in 0 .. Len(buf)
    BY <1>2, <1>1, Types DEF StreamInv
  <2> QED BY <1>1, <1>3, <2>1, <2>2, StreamMoves
<1>5. TypeOK'
  BY <1>1, <1>4 DEF TypeOK, LineTaken, serverVars
<1>6. ClientInv'
  <2>1. client' = "feeding" /\ ~failed'
    BY <1>1 DEF ClientInv, LineTaken
  <2> QED BY <2>1 DEF ClientInv, DispatchedBeforeEnd
<1> QED BY <1>4, <1>5, <1>6 DEF IInv

-----------------------------------------------------------------------------
(* Feed keeps the invariant.                                               *)

LEMMA HandedSame ==
    ASSUME NEW n, Handed(n), UNCHANGED <<sent, frames, delivered>>
    PROVE  Handed(n)'
BY DEF Handed, Account

\* What lines are made of.
LEMMA TextKinds ==
    ASSUME TypeOK, buf # <<>>
    PROVE  /\ buf[1] \in Cells /\ buf[1].val \in Nat
           /\ buf[1] = ContentLength(buf[1].val) => buf[1] \notin {NL, Ping, Status} \union IDs
           /\ id \in IDs \union {NL} /\ length \in Nat \union {-1}
           /\ frames \in Seq([id : IDs \union {NL}, body : Bodies \union {<<>>}])
<1>1. buf[1] \in Cells
  <2>1. buf \in Seq(Cells) /\ Len(buf) \in Nat /\ 1 \in 1 .. Len(buf)
    BY Types, EmptySeq
  <2> QED BY <2>1
<1>2. buf[1].val \in Nat
  BY <1>1 DEF Cells
<1> QED BY <1>1, <1>2, CellKinds DEF TypeOK

LEMMA HeaderLineKeeps ==
    ASSUME IInv, NEW i \in DOMAIN buf, HeaderLine(i)
    PROVE  IInv'
<1>1. PICK H, D, off, n : StreamInv(H, D, off, n) /\ Handed(n)
  BY DEF IInv
<1>2. /\ TypeOK /\ LineTaken(i) /\ LineEnds(i)
      /\ Len(Line(i)) = 1 /\ UNCHANGED <<client, size, frames, failed>>
  BY DEF IInv, HeaderLine, LineTaken, LineEnds
<1>3. /\ i = IF buf[1] = NL THEN 1 ELSE 2
      /\ i \in 1 .. Len(buf) /\ size = -1
      /\ FillerLine(H, D, off, n, i) \/ BlockLine(D, off, n, i)
  BY <1>1, <1>2, AtLine
<1>4. i = 2 /\ buf[1] # NL
  <2>1. buf \in Seq(Cells)
    BY <1>2, Types
  <2> QED BY <1>2, <1>3, <2>1, LineText
<1>5. buf # <<>>
  BY <1>3
<1>6. \/ buf[1] \in IDs /\ id' = buf[1] /\ length' = length
      \/ buf[1] = ContentLength(buf[1].val) /\ length' = buf[1].val /\ id' = id
  BY DEF HeaderLine
<1>7. buf[1] # Ping
  BY <1>2, <1>5, <1>6, TextKinds, CellKinds DEF IDs
<1>8. Between(D, off + i, n)' \/ Inside(D, off + i, n)'
  <2>1. CASE FillerLine(H, D, off, n, i)
    <3>1. buf[1] \in {ResponseID, KeepID} /\ buf[1] \in IDs
      <4>1. buf[1] \in {Status, ResponseID, KeepID}
        BY <1>4, <1>7, <2>1 DEF FillerLine, FillerCells
      <4>2. buf[1] \in IDs
        <5>1. CASE buf[1] = Status
          BY <1>2, <1>5, <1>6, <5>1, TextKinds
        <5>2. CASE buf[1] # Status
          BY <4>1, <5>2 DEF IDs
        <5> QED BY <5>1, <5>2
      <4> QED BY <4>1, <4>2, CellKinds
    <3>2. buf[1] # ContentLength(buf[1].val)
      BY <1>2, <1>5, <3>1, TextKinds
    <3>3. id' # DataID /\ length' = -1 /\ size' = -1
      BY <1>2, <1>6, <2>1, <3>1, <3>2, CellKinds DEF FillerLine, Between
    <3>4. sent' = sent /\ i \in Nat
      BY <1>2, <1>4 DEF LineTaken, serverVars
    <3> QED BY <1>1, <1>2, <2>1, <3>3, <3>4, FillerPassed
  <2>2. CASE BlockLine(D, off, n, i)
    <3> DEFINE d == D[n + 1]  m == Len(sent[n + 1])
    <3>1. n + 1 \in 1 .. Len(sent) /\ d \in Nat /\ m \in Nat
      <4>1. n + 1 \in 1 .. Len(sent)
        BY <2>2 DEF BlockLine
      <4> QED BY <1>1, <1>2, <4>1, Types, NextBlock DEF StreamInv
    <3>2. sent' = sent /\ size' = -1
      BY <1>2, <1>3 DEF LineTaken, serverVars
    <3>3. CASE Between(D, off, n) /\ off = d /\ buf[1] = DataID
      <4>1. buf[1] # ContentLength(buf[1].val)
        BY <1>2, <1>5, <3>3, TextKinds DEF IDs
      <4>2. id' = DataID /\ length' = -1
        BY <1>6, <3>3, <4>1 DEF Between
      <4>3. off + i = d + 2
        BY <1>4, <3>3
      <4> QED BY <3>1, <3>2, <4>2, <4>3 DEF Inside
    <3>4. CASE Inside(D, off, n) /\ off = d + 2 /\ buf[1] = ContentLength(m)
      <4>1. buf[1] \notin IDs /\ buf[1].val = m
        BY <3>1, <3>4, CellKinds
      <4>2. id' = DataID /\ length' = m
        BY <1>6, <3>4, <4>1 DEF Inside
      <4>3. off + i = d + 4
        BY <1>4, <3>1, <3>4
      <4> QED BY <3>1, <3>2, <4>2, <4>3 DEF Inside
    <3> QED BY <1>4, <2>2, <3>3, <3>4 DEF BlockLine
  <2> QED BY <1>3, <2>1, <2>2
<1>9. /\ id' \in IDs \union {NL} /\ length' \in Nat \union {-1}
      /\ size' \in Nat \union {-1}
      /\ frames' \in Seq([id : IDs \union {NL}, body : Bodies \union {<<>>}])
  BY <1>2, <1>3, <1>5, <1>6, TextKinds
<1>10. Handed(n)'
  BY <1>1, <1>2, HandedSame DEF LineTaken, serverVars
<1>11. UNCHANGED <<client, failed>>
  BY <1>2
<1> QED BY <1>1, <1>2, <1>7, <1>8, <1>9, <1>10, <1>11, LineKeeps

LEMMA OtherLineKeeps ==
    ASSUME IInv, NEW i \in DOMAIN buf, OtherLine(i)
    PROVE  IInv'
<1>1. PICK H, D, off, n : StreamInv(H, D, off, n) /\ Handed(n)
  BY DEF IInv
<1>2. /\ TypeOK /\ LineTaken(i) /\ LineEnds(i)
      /\ Line(i) # <<>> /\ ~Contains(Line(i), Ping)
      /\ Len(Line(i)) = 1 => buf[1] \notin IDs /\ buf[1].kind # "length"
      /\ UNCHANGED <<client, id, length, size, frames, failed>>
  BY DEF IInv, OtherLine, LineTaken, LineEnds
<1>3. /\ i = IF buf[1] = NL THEN 1 ELSE 2
      /\ i \in 1 .. Len(buf) /\ size = -1
      /\ FillerLine(H, D, off, n, i) \/ BlockLine(D, off, n, i)
  BY <1>1, <1>2, AtLine
<1>4. i = 2 /\ buf[1] \notin IDs /\ buf[1].kind # "length" /\ buf[1] # Ping
  <2>1. buf \in Seq(Cells)
    BY <1>2, Types
  <2> QED BY <1>2, <1>3, <2>1, LineText
<1>5. FillerLine(H, D, off, n, i)
  <2>1. ASSUME BlockLine(D, off, n, i) PROVE FALSE
    <3>1. buf[1] = DataID \/ buf[1] = ContentLength(Len(sent[n + 1]))
      BY <1>4, <2>1 DEF BlockLine
    <3> QED BY <1>4, <3>1 DEF IDs, ContentLength, Cell
  <2> QED BY <1>3, <2>1
<1>6. Between(D, off + i, n)'
  <2>1. id' # DataID /\ length' = -1 /\ size' = -1
    BY <1>2, <1>5 DEF FillerLine, Between
  <2>2. sent' = sent /\ i \in Nat
    BY <1>2, <1>4 DEF LineTaken, serverVars
  <2> QED BY <1>1, <1>2, <1>5, <2>1, <2>2, FillerPassed
<1>7. /\ id' \in IDs \union {NL} /\ length' \in Nat \union {-1}
      /\ size' \in Nat \union {-1}
      /\ frames' \in Seq([id : IDs \union {NL}, body : Bodies \union {<<>>}])
  BY <1>2 DEF TypeOK
<1>8. Handed(n)'
  BY <1>1, <1>2, HandedSame DEF LineTaken, serverVars
<1>9. UNCHANGED <<client, failed>>
  BY <1>2
<1> QED BY <1>1, <1>2, <1>4, <1>6, <1>7, <1>8, <1>9, LineKeeps

LEMMA BodyFollowsKeeps ==
    ASSUME IInv, NEW i \in DOMAIN buf, BodyFollows(i)
    PROVE  IInv'
<1>1. PICK H, D, off, n : StreamInv(H, D, off, n) /\ Handed(n)
  BY DEF IInv
<1>2. /\ TypeOK /\ LineTaken(i) /\ LineEnds(i) /\ Line(i) = <<>>
      /\ id = DataID /\ size' = length
      /\ UNCHANGED <<client, id, length, frames, failed>>
  BY DEF IInv, BodyFollows, LineTaken, LineEnds
<1>3. /\ i = IF buf[1] = NL THEN 1 ELSE 2
      /\ i \in 1 .. Len(buf) /\ size = -1
      /\ FillerLine(H, D, off, n, i) \/ BlockLine(D, off, n, i)
  BY <1>1, <1>2, AtLine
<1>4. i = 1 /\ buf[1] # Ping
  <2>1. buf \in Seq(Cells)
    BY <1>2, Types
  <2>2. i = 1
    BY <1>2, <1>3, <2>1, LineText
  <2> QED BY <1>3, <2>2, CellKinds
<1>5. /\ n + 1 \in 1 .. Len(sent)
      /\ off = D[n + 1] + 4 /\ length = Len(sent[n + 1])
  <2>1. ~FillerLine(H, D, off, n, i)
    BY <1>2 DEF FillerLine, Between
  <2> QED BY <1>3, <1>4, <2>1 DEF BlockLine
<1>6. Inside(D, off + i, n)'
  <2>1. D[n + 1] \in Nat
    BY <1>1, <1>2, <1>5, Types, NextBlock DEF StreamInv
  <2>2. off + i = D[n + 1] + 5
    BY <1>4, <1>5, <2>1
  <2>3. sent' = sent
    BY <1>2 DEF LineTaken, serverVars
  <2> QED BY <1>2, <1>5, <2>2, <2>3 DEF Inside
<1>7. /\ id' \in IDs \union {NL} /\ length' \in Nat \union {-1}
      /\ size' \in Nat \union {-1}
      /\ frames' \in Seq([id : IDs \union {NL}, body : Bodies \union {<<>>}])
  BY <1>2 DEF TypeOK
<1>8. Handed(n)'
  BY <1>1, <1>2, HandedSame DEF LineTaken, serverVars
<1>9. UNCHANGED <<client, failed>>
  BY <1>2
<1> QED BY <1>1, <1>2, <1>4, <1>6, <1>7, <1>8, <1>9, LineKeeps

\* A frame that is no telegram's leaves the account as it is.
LEMMA OtherFrame ==
    ASSUME TypeOK, NEW n, Handed(n), NEW f, f.id # DataID,
           f \in [id : IDs \union {NL}, body : Bodies \union {<<>>}],
           frames' = Append(frames, f), UNCHANGED <<sent, delivered>>
    PROVE  Handed(n)'
<1>1. PICK c \in [0 .. Len(frames) -> Nat] : Account(c, n)
  BY DEF Handed
<1>2. /\ Len(frames) \in Nat /\ Len(frames') = Len(frames) + 1
      /\ \A j \in 1 .. Len(frames) : frames'[j] = frames[j]
      /\ frames'[Len(frames) + 1] = f
  BY AppendProperties DEF TypeOK
<1> DEFINE l == Len(frames)
<1>3. PICK e : e = [j \in 0 .. l + 1 |-> IF j <= l THEN c[j] ELSE n]
  OBVIOUS
<1>4. l \in Nat /\ c[l] = n /\ c[0] = Len(delivered) /\ n \in Nat
  BY <1>1, <1>2 DEF Account
<1>5. \A j \in 1 .. l :
         IF frames[j].id = DataID
         THEN /\ c[j] = c[j - 1] + 1
              /\ c[j] \in 1 .. Len(sent) /\ frames[j].body = sent[c[j]]
         ELSE c[j] = c[j - 1]
  BY <1>1 DEF Account
<1>6. /\ e \in [0 .. l + 1 -> Nat] /\ e[l + 1] = n /\ e[l] = n
      /\ \A j \in 0 .. l : e[j] = c[j]
  BY <1>1, <1>3, <1>4
<1>7. ASSUME NEW j \in 1 .. l + 1
      PROVE  IF frames'[j].id = DataID
             THEN /\ e[j] = e[j - 1] + 1
                  /\ e[j] \in 1 .. Len(sent) /\ frames'[j].body = sent[e[j]]
             ELSE e[j] = e[j - 1]
  <2>1. CASE j = l + 1
    <3>1. j - 1 = l
      BY <1>4, <2>1
    <3> QED BY <1>2, <1>6, <2>1, <3>1
  <2>2. CASE j \in 1 .. l
    <3>1. e[j] = c[j] /\ e[j - 1] = c[j - 1] /\ frames'[j] = frames[j]
      BY <1>2, <1>4, <1>6, <2>2
    <3> QED BY <1>5, <2>2, <3>1
  <2> QED BY <1>4, <2>1, <2>2
<1>8. e[0] = Len(delivered)
  BY <1>4, <1>6
<1>9. /\ Len(delivered) <= Len(sent)
      /\ \A j \in 1 .. Len(delivered) : delivered[j] = sent[j]
  BY <1>1 DEF Account
<1>10. Len(frames') = l + 1
  BY <1>2
<1> HIDE DEF l
<1>11. Account(e, n)'
  BY <1>6, <1>7, <1>8, <1>9, <1>10 DEF Account
<1>12. e \in [0 .. Len(frames') -> Nat]
  BY <1>6, <1>10
<1> QED BY <1>11, <1>12 DEF Handed

LEMMA BlockEndsKeeps ==
    ASSUME IInv, NEW i \in DOMAIN buf, BlockEnds(i)
    PROVE  IInv'
<1>1. PICK H, D, off, n : StreamInv(H, D, off, n) /\ Handed(n)
  BY DEF IInv
<1>2. /\ TypeOK /\ LineTaken(i) /\ LineEnds(i) /\ Line(i) = <<>>
      /\ ~(id = DataID /\ length # -1)
      /\ frames' = IF id = DataID THEN frames ELSE Append(frames, Frame(id, <<>>))
      /\ id' = NL /\ length' = -1
      /\ UNCHANGED <<client, size, failed>>
  BY DEF IInv, BlockEnds, LineTaken, LineEnds, NewHeader
<1>3. /\ i = IF buf[1] = NL THEN 1 ELSE 2
      /\ i \in 1 .. Len(buf) /\ size = -1
      /\ FillerLine(H, D, off, n, i) \/ BlockLine(D, off, n, i)
  BY <1>1, <1>2, AtLine
<1>4. i = 1 /\ buf[1] # Ping
  <2>1. buf \in Seq(Cells)
    BY <1>2, Types
  <2>2. i = 1
    BY <1>2, <1>3, <2>1, LineText
  <2> QED BY <1>3, <2>2, CellKinds
<1>5. FillerLine(H, D, off, n, i) /\ id # DataID
  <2>1. ASSUME BlockLine(D, off, n, i) PROVE FALSE
    <3>1. /\ n + 1 \in 1 .. Len(sent)
          /\ Inside(D, off, n) /\ length = Len(sent[n + 1])
      BY <1>4, <2>1 DEF BlockLine
    <3>2. Len(sent[n + 1]) \in Nat
      BY <1>1, <1>2, <3>1, Types, NextBlock DEF StreamInv
    <3> QED BY <1>2, <3>1, <3>2 DEF Inside
  <2>2. FillerLine(H, D, off, n, i)
    BY <1>3, <2>1
  <2> QED BY <2>2 DEF FillerLine, Between
<1>6. Between(D, off + i, n)'
  <2>1. id' # DataID /\ length' = -1 /\ size' = -1
    BY <1>2, <1>3, CellKinds
  <2>2. sent' = sent /\ i \in Nat
    BY <1>2, <1>4 DEF LineTaken, serverVars
  <2> QED BY <1>1, <1>2, <1>5, <2>1, <2>2, FillerPassed
<1> DEFINE f == Frame(id, <<>>)
<1>7. /\ f.id # DataID
      /\ f \in [id : IDs \union {NL}, body : Bodies \union {<<>>}]
  BY <1>2, <1>5 DEF Frame, TypeOK
<1>8. frames' = Append(frames, f)
  BY <1>2, <1>5
<1> HIDE DEF f
<1>9. Handed(n)'
  BY <1>1, <1>2, <1>7, <1>8, OtherFrame DEF LineTaken, serverVars
<1>10. /\ id' \in IDs \union {NL} /\ length' \in Nat \union {-1}
       /\ size' \in Nat \union {-1}
       /\ frames' \in Seq([id : IDs \union {NL}, body : Bodies \union {<<>>}])
  <2>1. frames \in Seq([id : IDs \union {NL}, body : Bodies \union {<<>>}])
    BY <1>2 DEF TypeOK
  <2>2. frames' \in Seq([id : IDs \union {NL}, body : Bodies \union {<<>>}])
    BY <1>7, <1>8, <2>1, AppendProperties
  <2> QED BY <1>2, <1>3, <2>2
<1>11. UNCHANGED <<client, failed>>
  BY <1>2
<1> QED BY <1>1, <1>2, <1>4, <1>6, <1>9, <1>10, <1>11, LineKeeps

\* A ping is found between the blocks, and after all of them.
LEMMA AtPing ==
    ASSUME IInv, NEW i \in DOMAIN buf, LineEnds(i), Contains(Line(i), Ping),
           NEW H, NEW D, NEW off, NEW n, StreamInv(H, D, off, n)
    PROVE  /\ i = 2 /\ 2 \in 1 .. Len(buf) /\ size = -1
           /\ FillerLine(H, D, off, n, i)
           /\ n = Len(sent)
           /\ \A p \in off + 2 .. Len(H) : H[p] # Ping
<1>1. /\ TypeOK /\ off \in Nat /\ n \in 0 .. Len(sent) /\ Layout(H, D, sent)
      /\ sent \in Seq(Seq(Cells)) /\ Len(sent) \in Nat
      /\ buf \in Seq(Cells)
      /\ PingsAfter(H, D, sent, off, unacked)
  BY Types DEF IInv, StreamInv, PingInv
<1>2. /\ i = IF buf[1] = NL THEN 1 ELSE 2
      /\ i \in 1 .. Len(buf) /\ off + i <= Len(H) /\ size = -1
      /\ H[off + 1] = buf[1]
      /\ FillerLine(H, D, off, n, i) \/ BlockLine(D, off, n, i)
  BY <1>1, AtLine
<1>3. buf[1] = Ping
  BY <1>1, <1>2, LineText
<1>4. i = 2
  BY <1>2, <1>3, CellKinds
<1>5. FillerLine(H, D, off, n, i)
  <2>1. ASSUME BlockLine(D, off, n, i) PROVE FALSE
    <3>1. /\ n + 1 \in 1 .. Len(sent)
          /\ buf[1] \in {DataID, NL, ContentLength(Len(sent[n + 1]))}
      BY <2>1 DEF BlockLine
    <3>2. Len(sent[n + 1]) \in Nat
      BY <1>1, <3>1, NextBlock
    <3> QED BY <1>3, <3>1, <3>2, CellKinds
  <2> QED BY <1>2, <2>1
<1>6. H \in Seq(Cells) /\ Len(H) \in Nat
  BY <1>1 DEF Layout
<1>7. off + 1 \in off + 1 .. Len(H) /\ off + 1 \in 1 .. Len(H)
  BY <1>1, <1>2, <1>4, <1>6
<1>8. PingAt(H, D, sent, off + 1)
  BY <1>2, <1>3, <1>5, <1>7 DEF PingAt, FillerLine
<1>9. /\ \A k \in 1 .. Len(sent) : BlockEnd(D, sent, k) < off + 1
      /\ \A q \in off + 1 + 1 .. Len(H) : H[q] # Ping
  BY <1>1, <1>7, <1>8 DEF PingsAfter
<1>10. n = Len(sent)
  <2>1. ASSUME n + 1 \in 1 .. Len(sent) PROVE FALSE
    <3>1. /\ D[n + 1] \in Nat /\ BlockEnd(D, sent, n + 1) \in Nat
          /\ D[n + 1] + 5 <= BlockEnd(D, sent, n + 1)
      BY <1>1, <2>1, Blocks
    <3>2. off + i <= D[n + 1]
      BY <1>1, <1>5, <2>1 DEF FillerLine
    <3>3. BlockEnd(D, sent, n + 1) < off + 1
      BY <1>9, <2>1
    <3> QED BY <1>1, <1>4, <3>1, <3>2, <3>3
  <2> QED BY <1>1, <2>1
<1>11. \A p \in off + 2 .. Len(H) : H[p] # Ping
  <2>1. off + 1 + 1 = off + 2
    BY <1>1
  <2> QED BY <1>9, <2>1
<1> QED BY <1>2, <1>4, <1>5, <1>10, <1>11

\* The wipe takes nothing that matters: what follows a ping is filler.
LEMMA PingLineAckedKeeps ==
    ASSUME IInv, NEW i \in DOMAIN buf, PingLineAcked(i)
    PROVE  IInv'
<1>1. PICK H, D, off, n : StreamInv(H, D, off, n) /\ Handed(n)
  BY DEF IInv
<1>2. /\ TypeOK /\ client = "feeding" /\ LineEnds(i) /\ Contains(Line(i), Ping)
      /\ buf' = <<>> /\ id' = NL /\ length' = -1 /\ unacked' = FALSE
      /\ UNCHANGED <<wire, sent, blocks, link, canceled, client, size, frames,
                     failed, delivered>>
  BY DEF IInv, PingLineAcked, AfterPing, NewHeader, LineEnds
<1>3. /\ 2 \in 1 .. Len(buf) /\ size = -1
      /\ FillerLine(H, D, off, n, i)
      /\ n = Len(sent)
      /\ \A p \in off + 2 .. Len(H) : H[p] # Ping
  BY <1>1, <1>2, AtPing
<1>4. /\ Len(buf) \in Nat /\ off \in Nat /\ H \in Seq(Cells) /\ Len(H) \in Nat
      /\ Cut(H, off) /\ Layout(H, D, sent) /\ sent \in Seq(Seq(Cells))
      /\ Len(sent) \in Nat
  BY <1>1, <1>2, Types DEF StreamInv, Layout
<1>5. PICK l : l = Len(buf)
  OBVIOUS
<1>6. Cut(H, off + l)' /\ buf' \in Seq(Cells) /\ off + l \in Nat
  <2>1. l \in 0 .. Len(buf) /\ l \in Nat
    BY <1>4, <1>5
  <2>2. SubSeq(buf, l + 1, l) = <<>>
    BY <2>1, SubSeqEmpty
  <2>3. buf' = SubSeq(buf, l + 1, Len(buf))
    BY <1>2, <1>5, <2>2
  <2>4. Cut(H, off + l)' /\ buf' \in Seq(Cells)
    BY <1>2, <1>4, <2>1, <2>3, CutAdvances
  <2>5. off + l \in Nat
    BY <1>4, <2>1
  <2> QED BY <2>4, <2>5
<1>7. l \in Nat /\ l >= 2
  BY <1>3, <1>4, <1>5
<1>8. Between(D, off + l, n)'
  <2>1. ASSUME NEW k \in 1 .. n PROVE BlockEnd(D, sent, k) <= off + l
    <3>1. BlockEnd(D, sent, k) \in Nat /\ BlockEnd(D, sent, k) <= off
      BY <1>3, <1>4, Blocks DEF FillerLine, Between
    <3> QED BY <1>4, <1>7, <3>1
  <2>2. \A k \in n + 1 .. Len(sent) : FALSE
    BY <1>3, <1>4
  <2>3. /\ \A k \in 1 .. n : BlockEnd(D, sent', k) <= off + l
        /\ \A k \in n + 1 .. Len(sent') : off + l <= D[k]
    BY <1>2, <2>1, <2>2
  <2>4. size' = -1 /\ length' = -1 /\ id' # DataID
    BY <1>2, <1>3, CellKinds
  <2> QED BY <2>3, <2>4 DEF Between
<1>9. PingInv(H, D, off + l)'
  <2>1. \A p \in off + l + 1 .. Len(H) : H[p] # Ping
    <3>1. \A p \in off + l + 1 .. Len(H) : p \in off + 2 .. Len(H)
      BY <1>4, <1>7
    <3> QED BY <1>3, <3>1
  <2> QED BY <1>2, <2>1 DEF PingInv, PingsAfter, PingAt
<1>10. StreamInv(H, D, off + l, n)'
  <2>1. n \in 0 .. Len(sent') /\ Layout(H, D, sent')
    BY <1>1, <1>2 DEF StreamInv
  <2> QED BY <1>6, <1>8, <1>9, <2>1 DEF StreamInv
<1>11. Handed(n)'
  BY <1>1, <1>2, HandedSame
<1>12. TypeOK'
  <2>1. id' \in IDs \union {NL} /\ length' \in Nat \union {-1} /\ unacked' \in BOOLEAN
    BY <1>2
  <2> QED BY <1>2, <1>6, <2>1 DEF TypeOK
<1>13. ClientInv'
  <2>1. client' = "feeding" /\ ~failed'
    BY <1>2 DEF IInv, ClientInv
  <2> QED BY <2>1 DEF ClientInv, DispatchedBeforeEnd
<1> QED BY <1>10, <1>11, <1>12, <1>13 DEF IInv

\* A ping whose ack cannot be written is the end of the session.
LEMMA PingLineFailsKeeps ==
    ASSUME IInv, NEW i \in DOMAIN buf, PingLineFails(i)
    PROVE  IInv'
<1>1. PICK H, D, off, n : StreamInv(H, D, off, n) /\ Handed(n)
  BY DEF IInv
<1>2. /\ TypeOK /\ LineEnds(i) /\ Contains(Line(i), Ping)
      /\ buf' = SubSeq(buf, i + 1, Len(buf)) /\ failed' = TRUE
      /\ client' = "dispatching"
      /\ UNCHANGED <<wire, sent, blocks, unacked, link, canceled, id, length, size,
                     frames, delivered>>
  BY DEF IInv, PingLineFails, After, LineEnds, serverVars
<1>3. /\ i = 2 /\ 2 \in 1 .. Len(buf) /\ size = -1
      /\ FillerLine(H, D, off, n, i)
  BY <1>1, <1>2, AtPing
<1>4. Between(D, off + i, n)'
  <2>1. sent' = sent /\ size' = -1 /\ length' = -1 /\ id' # DataID /\ i \in Nat
    BY <1>2, <1>3 DEF FillerLine, Between
  <2> QED BY <1>1, <1>2, <1>3, <2>1, FillerPassed
<1>5. StreamInv(H, D, off + i, n)' /\ buf' \in Seq(Cells)
  <2>1. n \in 0 .. Len(sent) /\ i \in 0 .. Len(buf)
    BY <1>1, <1>2, <1>3, Types DEF StreamInv
  <2> QED BY <1>1, <1>2, <1>4, <2>1, StreamMoves
<1>6. Handed(n)'
  BY <1>1, <1>2, HandedSame
<1>7. TypeOK'
  <2>1. client' \in {"top", "reading", "feeding", "dispatching", "ended"}
        /\ failed' \in BOOLEAN
    BY <1>2
  <2> QED BY <1>2, <1>5, <2>1 DEF TypeOK
<1>8. ClientInv'
  BY <1>2 DEF ClientInv, DispatchedBeforeEnd
<1> QED BY <1>5, <1>6, <1>7, <1>8 DEF IInv

\* A telegram's frame is the next in the account.
LEMMA DataFrame ==
    ASSUME TypeOK, NEW n, Handed(n), NEW f, f.id = DataID,
           f \in [id : IDs \union {NL}, body : Bodies \union {<<>>}],
           n + 1 \in 1 .. Len(sent), f.body = sent[n + 1],
           frames' = Append(frames, f), UNCHANGED <<sent, delivered>>
    PROVE  Handed(n + 1)'
<1>1. PICK c \in [0 .. Len(frames) -> Nat] : Account(c, n)
  BY DEF Handed
<1>2. /\ Len(frames) \in Nat /\ Len(frames') = Len(frames) + 1
      /\ \A j \in 1 .. Len(frames) : frames'[j] = frames[j]
      /\ frames'[Len(frames) + 1] = f
  BY AppendProperties DEF TypeOK
<1> DEFINE l == Len(frames)
<1>3. PICK e : e = [j \in 0 .. l + 1 |-> IF j <= l THEN c[j] ELSE n + 1]
  OBVIOUS
<1>4. l \in Nat /\ c[l] = n /\ c[0] = Len(delivered) /\ n \in Nat
  BY <1>1, <1>2 DEF Account
<1>5. \A j \in 1 .. l :
         IF frames[j].id = DataID
         THEN /\ c[j] = c[j - 1] + 1
              /\ c[j] \in 1 .. Len(sent) /\ frames[j].body = sent[c[j]]
         ELSE c[j] = c[j - 1]
  BY <1>1 DEF Account
<1>6. /\ e \in [0 .. l + 1 -> Nat] /\ e[l + 1] = n + 1 /\ e[l] = n
      /\ \A j \in 0 .. l : e[j] = c[j]
  BY <1>1, <1>3, <1>4
<1>7. ASSUME NEW j \in 1 .. l + 1
      PROVE  IF frames'[j].id = DataID
             THEN /\ e[j] = e[j - 1] + 1
                  /\ e[j] \in 1 .. Len(sent) /\ frames'[j].body = sent[e[j]]
             ELSE e[j] = e[j - 1]
  <2>1. CASE j = l + 1
    <3>1. j - 1 = l
      BY <1>4, <2>1
    <3> QED BY <1>2, <1>6, <2>1, <3>1
  <2>2. CASE j \in 1 .. l
    <3>1. e[j] = c[j] /\ e[j - 1] = c[j - 1] /\ frames'[j] = frames[j]
      BY <1>2, <1>4, <1>6, <2>2
    <3> QED BY <1>5, <2>2, <3>1
  <2> QED BY <1>4, <2>1, <2>2
<1>8. e[0] = Len(delivered)
  BY <1>4, <1>6
<1>9. /\ Len(delivered) <= Len(sent)
      /\ \A j \in 1 .. Len(delivered) : delivered[j] = sent[j]
  BY <1>1 DEF Account
<1>10. Len(frames') = l + 1
  BY <1>2
<1> HIDE DEF l
<1>11. Account(e, n + 1)'
  BY <1>6, <1>7, <1>8, <1>9, <1>10 DEF Account
<1>12. e \in [0 .. Len(frames') -> Nat]
  BY <1>6, <1>10
<1> QED BY <1>11, <1>12 DEF Handed

\* A body that is complete is the next telegram, whatever it looks like and
\* whatever follows it.
LEMMA TakeBodyKeeps ==
    ASSUME IInv, TakeBody
    PROVE  IInv'
<1>1. PICK H, D, off, n : StreamInv(H, D, off, n) /\ Handed(n)
  BY DEF IInv
<1>2. /\ TypeOK /\ client = "feeding" /\ size # -1 /\ Len(buf) >= size
      /\ frames' = Append(frames, Frame(id, Body))
      /\ buf' = SubSeq(buf, size + 1, Len(buf))
      /\ size' = -1 /\ id' = NL /\ length' = -1
      /\ UNCHANGED <<wire, sent, blocks, unacked, link, canceled, client, failed,
                     delivered>>
  BY DEF IInv, TakeBody, BodyComplete, AfterBody, NewHeader, serverVars
<1>3. /\ Len(buf) \in Nat /\ buf \in Seq(Cells) /\ off \in Nat /\ H \in Seq(Cells)
      /\ Cut(H, off) /\ Layout(H, D, sent) /\ sent \in Seq(Seq(Cells))
      /\ sent \in Seq(Bodies) /\ Len(sent) \in Nat /\ n \in 0 .. Len(sent)
  BY <1>1, <1>2, Types DEF StreamInv, Layout, TypeOK
<1>4. PICK m : m = size
  OBVIOUS
<1>5. /\ n + 1 \in 1 .. Len(sent) /\ id = DataID
      /\ off = D[n + 1] + 5 /\ m = Len(sent[n + 1])
  BY <1>1, <1>2, <1>4 DEF StreamInv, Between, Inside
<1> DEFINE d == D[n + 1]
<1>6. /\ d \in Nat /\ m \in Nat /\ d + 5 + m <= Len(H)
      /\ BlockEnd(D, sent, n + 1) = d + 5 + m
      /\ \A i \in 1 .. m : H[d + 5 + i] = sent[n + 1][i]
      /\ sent[n + 1] \in Seq(Cells) /\ sent[n + 1] \in Bodies
  <2>1. PICK k : k = n + 1
    OBVIOUS
  <2>2. k \in 1 .. Len(sent)
    BY <1>5, <2>1
  <2>3. sent[k] \in Seq(Cells) /\ sent[k] \in Bodies
    BY <1>3, <2>2
  <2>4. /\ D[k] \in Nat /\ Len(sent[k]) \in Nat /\ D[k] + 5 + Len(sent[k]) <= Len(H)
        /\ BlockEnd(D, sent, k) = D[k] + 5 + Len(sent[k])
        /\ \A i \in 1 .. Len(sent[k]) : H[D[k] + 5 + i] = sent[k][i]
    BY <1>3, <2>2, NextBlock
  <2> QED BY <1>5, <2>1, <2>3, <2>4
<1>7. m \in 0 .. Len(buf) /\ off = d + 5 /\ BlockEnd(D, sent, n + 1) = off + m
  BY <1>2, <1>3, <1>4, <1>5, <1>6
<1> HIDE DEF d
<1>8. Body = sent[n + 1]
  <2>1. \A i \in 1 .. m : buf[i] = sent[n + 1][i] /\ buf[i] \in Cells
    <3> SUFFICES ASSUME NEW i \in 1 .. m
                 PROVE  buf[i] = sent[n + 1][i] /\ buf[i] \in Cells
      OBVIOUS
    <3>1. i \in 1 .. Len(buf)
      BY <1>3, <1>7
    <3>2. buf[i] = H[off + i] /\ H[off + i] = sent[n + 1][i]
      BY <1>3, <1>6, <1>7, <3>1 DEF Cut
    <3> QED BY <1>3, <3>1, <3>2
  <2> DEFINE text == SubSeq(buf, 1, m)
  <2>2. /\ text \in Seq(Cells)
        /\ Len(text) = IF 1 <= m THEN m - 1 + 1 ELSE 0
        /\ \A i \in 1 .. m - 1 + 1 : text[i] = buf[1 + i - 1]
    BY <1>6, <2>1, SubSeqProperties
  <2>3. Body = text
    BY <1>4 DEF Body
  <2> HIDE DEF text
  <2>4. Len(text) = m
    BY <1>6, <2>2
  <2>5. ASSUME NEW i \in 1 .. m PROVE text[i] = sent[n + 1][i]
    <3>1. i \in 1 .. m - 1 + 1 /\ 1 + i - 1 = i
      BY <1>6
    <3> QED BY <2>1, <2>2, <3>1
  <2>6. text = sent[n + 1]
    BY <1>5, <1>6, <2>2, <2>4, <2>5, SeqEqual
  <2> QED BY <2>3, <2>6
<1>9. Handed(n + 1)'
  <2> DEFINE f == Frame(id, Body)
  <2>1. /\ f.id = DataID /\ f.body = sent[n + 1]
        /\ f \in [id : IDs \union {NL}, body : Bodies \union {<<>>}]
    BY <1>5, <1>6, <1>8 DEF Frame, IDs
  <2>2. frames' = Append(frames, f)
    BY <1>2
  <2> HIDE DEF f
  <2> QED BY <1>1, <1>2, <1>5, <2>1, <2>2, DataFrame
<1>10. Between(D, off + m, n + 1)'
  <2>1. ASSUME NEW k \in 1 .. n + 1 PROVE BlockEnd(D, sent, k) <= off + m
    <3>1. CASE k = n + 1
      BY <1>3, <1>6, <1>7, <3>1
    <3>2. CASE k # n + 1
      <4>1. k \in 1 .. Len(sent) /\ k < n + 1
        BY <1>3, <1>5, <3>2
      <4>2. BlockEnd(D, sent, k) <= D[n + 1] /\ BlockEnd(D, sent, k) \in Nat
        BY <1>3, <1>5, <4>1, Blocks DEF Layout
      <4> QED BY <1>3, <1>6, <1>7, <4>2 DEF d
    <3> QED BY <3>1, <3>2
  <2>2. ASSUME NEW k \in n + 1 + 1 .. Len(sent) PROVE off + m <= D[k]
    <3>1. k \in 1 .. Len(sent) /\ n + 1 < k
      BY <1>3, <1>5
    <3>2. BlockEnd(D, sent, n + 1) <= D[k]
      BY <1>3, <1>5, <3>1 DEF Layout
    <3> QED BY <1>7, <3>2
  <2>3. /\ \A k \in 1 .. n + 1 : BlockEnd(D, sent', k) <= off + m
        /\ \A k \in n + 1 + 1 .. Len(sent') : off + m <= D[k]
    BY <1>2, <2>1, <2>2
  <2>4. id' # DataID
    BY <1>2, CellKinds
  <2> QED BY <1>2, <2>3, <2>4 DEF Between
<1>11. \A p \in off + 1 .. off + m : ~PingAt(H, D, sent, p)
  <2> SUFFICES ASSUME NEW p \in off + 1 .. off + m PROVE ~Filler(D, sent, p)
    BY DEF PingAt
  <2> DEFINE e == BlockEnd(D, sent, n + 1)
  <2>1. d \in Nat /\ m \in Nat /\ off = d + 5 /\ e = off + m
    BY <1>6, <1>7
  <2> HIDE DEF e
  <2>2. ~(p <= d \/ e < p)
    BY <2>1
  <2>3. ~(p <= D[n + 1] \/ BlockEnd(D, sent, n + 1) < p)
    BY <2>2 DEF d, e
  <2> QED BY <1>5, <2>3 DEF Filler
<1>12. StreamInv(H, D, off + m, n + 1)' /\ buf' \in Seq(Cells)
  <2>1. n + 1 \in 0 .. Len(sent)
    BY <1>5
  <2>2. buf' = SubSeq(buf, m + 1, Len(buf))
    BY <1>2, <1>4
  <2> QED BY <1>1, <1>2, <1>7, <1>10, <1>11, <2>1, <2>2, StreamMoves
<1>13. TypeOK'
  <2>1. frames' \in Seq([id : IDs \union {NL}, body : Bodies \union {<<>>}])
    <3>1. Frame(id, Body) \in [id : IDs \union {NL}, body : Bodies \union {<<>>}]
      BY <1>5, <1>6, <1>8 DEF Frame, IDs
    <3>2. frames \in Seq([id : IDs \union {NL}, body : Bodies \union {<<>>}])
      BY <1>2 DEF TypeOK
    <3> QED BY <1>2, <3>1, <3>2, AppendProperties
  <2>2. /\ id' \in IDs \union {NL} /\ length' \in Nat \union {-1}
        /\ size' \in Nat \union {-1}
    BY <1>2
  <2> QED BY <1>2, <1>12, <2>1, <2>2 DEF TypeOK
<1>14. ClientInv'
  <2>1. client' = "feeding" /\ ~failed'
    BY <1>2 DEF IInv, ClientInv
  <2> QED BY <2>1 DEF ClientInv, DispatchedBeforeEnd
<1> QED BY <1>9, <1>12, <1>13, <1>14 DEF IInv

-----------------------------------------------------------------------------
(* The other steps of Run.                                                 *)

\* While the parser does nothing it stays where it is in the stream.
LEMMA ParserWaits ==
    ASSUME NEW H, NEW D, NEW off, NEW n, StreamInv(H, D, off, n), Cut(H, off)',
           UNCHANGED <<sent, unacked, id, length, size, failed>>
    PROVE  StreamInv(H, D, off, n)'
<1>1. (Between(D, off, n) \/ Inside(D, off, n))' /\ PingInv(H, D, off)'
  BY DEF StreamInv, Between, Inside, PingInv
<1>2. off \in Nat /\ n \in 0 .. Len(sent') /\ Layout(H, D, sent')
  BY DEF StreamInv
<1> QED BY <1>1, <1>2 DEF StreamInv

\* Read moves cells from the wire to the buffer.
LEMMA CutMoves ==
    ASSUME TypeOK, NEW H \in Seq(Cells), NEW off \in Nat, Cut(H, off),
           NEW k \in 1 .. Len(wire), buf' = buf \o SubSeq(wire, 1, k),
           wire' = SubSeq(wire, k + 1, Len(wire)), link' = link
    PROVE  Cut(H, off)' /\ buf' \in Seq(Cells) /\ wire' \in Seq(Cells)
<1> DEFINE b == Len(buf)  w == Len(wire)  h == Len(H)
           got == SubSeq(wire, 1, k)  rest == SubSeq(wire, k + 1, w)
<1>1. b \in Nat /\ w \in Nat /\ h \in Nat /\ off + b + w <= h /\ k \in 1 .. w
  BY Types DEF Cut
<1>2. buf \in Seq(Cells) /\ wire \in Seq(Cells)
  BY Types
<1>3. /\ \A i \in 1 .. b : buf[i] = H[off + i]
      /\ \A i \in 1 .. w : wire[i] = H[off + b + i]
      /\ link # "broken" => off + b + w = h
  BY DEF Cut
<1>4. /\ got \in Seq(Cells) /\ Len(got) = k
      /\ \A i \in 1 .. k : got[i] = wire[i]
  <2>1. \A i \in 1 .. k : wire[i] \in Cells
    BY <1>1, <1>2
  <2>2. /\ got \in Seq(Cells) /\ Len(got) = IF 1 <= k THEN k - 1 + 1 ELSE 0
        /\ \A i \in 1 .. k - 1 + 1 : got[i] = wire[1 + i - 1]
    BY <2>1, SubSeqProperties
  <2> HIDE DEF got, w
  <2>3. k - 1 + 1 = k /\ Len(got) = k
    BY <1>1, <2>2
  <2>4. ASSUME NEW i \in 1 .. k PROVE got[i] = wire[i]
    <3>1. 1 + i - 1 = i
      BY <1>1
    <3> QED BY <2>2, <2>3, <3>1
  <2> QED BY <2>2, <2>3, <2>4
<1>5. /\ rest \in Seq(Cells) /\ Len(rest) = w - k
      /\ \A i \in 1 .. w - k : rest[i] = wire[k + i]
  <2>1. \A i \in k + 1 .. w : wire[i] \in Cells
    BY <1>1, <1>2
  <2>2. k + 1 \in Int /\ w \in Int
    BY <1>1
  <2> HIDE DEF w
  <2>3. /\ rest \in Seq(Cells) /\ Len(rest) = IF k + 1 <= w THEN w - (k + 1) + 1 ELSE 0
        /\ \A i \in 1 .. w - (k + 1) + 1 : rest[i] = wire[k + 1 + i - 1]
    BY <2>1, <2>2, SubSeqProperties
  <2> HIDE DEF rest
  <2>4. w - (k + 1) + 1 = w - k /\ Len(rest) = w - k
    BY <1>1, <2>3
  <2>5. ASSUME NEW i \in 1 .. w - k PROVE rest[i] = wire[k + i]
    <3>1. k + 1 + i - 1 = k + i
      BY <1>1
    <3> QED BY <2>3, <2>4, <3>1
  <2> QED BY <2>3, <2>4, <2>5
<1>6. buf' = buf \o got /\ wire' = rest
  OBVIOUS
<1> HIDE DEF got, rest
<1>7. /\ buf' \in Seq(Cells) /\ Len(buf') = b + k
      /\ \A i \in 1 .. b : buf'[i] = buf[i]
      /\ \A i \in 1 .. k : buf'[b + i] = got[i]
  <2> DEFINE both == buf \o got
  <2>1. /\ both \in Seq(Cells) /\ Len(both) = b + Len(got)
        /\ \A i \in 1 .. b : both[i] = buf[i]
        /\ \A i \in 1 .. Len(got) : both[b + i] = got[i]
    <3>1. buf \in Seq(Cells) /\ got \in Seq(Cells)
      BY <1>2, <1>4
    <3> QED BY <3>1, Grown
  <2>2. buf' = both
    BY <1>6
  <2> HIDE DEF both, b
  <2> QED BY <1>4, <2>1, <2>2
<1>8. Len(wire') = w - k
  BY <1>5, <1>6
<1> HIDE DEF b, w, h
<1>9. ASSUME NEW i \in 1 .. b + k PROVE buf'[i] = H[off + i]
  <2>1. CASE i \in 1 .. b
    BY <1>3, <1>7, <2>1
  <2>2. CASE i \in b + 1 .. b + k
    <3> DEFINE j == i - b
    <3>1. j \in 1 .. k /\ j \in 1 .. w /\ b + j = i /\ off + b + j = off + i
      BY <1>1, <2>2
    <3> HIDE DEF j
    <3>2. buf'[b + j] = got[j] /\ got[j] = wire[j] /\ wire[j] = H[off + b + j]
      BY <1>3, <1>4, <1>7, <3>1
    <3> QED BY <3>1, <3>2
  <2>3. i \in 1 .. b \/ i \in b + 1 .. b + k
    <3>1. b \in Nat /\ k \in Int
      BY <1>1
    <3> QED BY <3>1
  <2> QED BY <2>1, <2>2, <2>3
<1>10. ASSUME NEW i \in 1 .. w - k PROVE wire'[i] = H[off + (b + k) + i]
  <2>1. k + i \in 1 .. w /\ off + b + (k + i) = off + (b + k) + i
    BY <1>1
  <2>2. wire'[i] = wire[k + i]
    BY <1>5, <1>6
  <2> QED BY <1>3, <2>1, <2>2
<1>11. off + (b + k) + (w - k) = off + b + w
  BY <1>1
<1>12. Cut(H, off)'
  BY <1>1, <1>3, <1>7, <1>8, <1>9, <1>10, <1>11 DEF Cut, h
<1> QED BY <1>5, <1>6, <1>7, <1>12

LEMMA ReadKeeps ==
    ASSUME IInv, Read
    PROVE  IInv'
<1>1. PICK H, D, off, n : StreamInv(H, D, off, n) /\ Handed(n)
  BY DEF IInv
<1>2. /\ TypeOK /\ client = "reading" /\ client' = "feeding"
      /\ UNCHANGED <<sent, blocks, unacked, link, canceled, id, length, size, frames,
                     failed, delivered>>
  BY DEF IInv, Read
<1>3. PICK k \in 1 .. Len(wire) :
         buf' = buf \o SubSeq(wire, 1, k) /\ wire' = SubSeq(wire, k + 1, Len(wire))
  BY DEF Read
<1>4. off \in Nat /\ H \in Seq(Cells) /\ Cut(H, off)
  BY <1>1 DEF StreamInv, Layout
<1>5. Cut(H, off)' /\ buf' \in Seq(Cells) /\ wire' \in Seq(Cells)
  BY <1>2, <1>3, <1>4, CutMoves
<1>6. StreamInv(H, D, off, n)'
  BY <1>1, <1>2, <1>5, ParserWaits
<1>7. Handed(n)'
  BY <1>1, <1>2, HandedSame
<1>8. TypeOK'
  <2>1. client' \in {"top", "reading", "feeding", "dispatching", "ended"}
    BY <1>2
  <2> QED BY <1>2, <1>5, <2>1 DEF TypeOK
<1>9. ClientInv'
  <2>1. client' = "feeding" /\ ~failed'
    BY <1>2 DEF IInv, ClientInv
  <2> QED BY <2>1 DEF ClientInv, DispatchedBeforeEnd
<1> QED BY <1>6, <1>7, <1>8, <1>9 DEF IInv

\* A step that only changes where Run is, or the context, leaves the stream
\* and the account alone.
LEMMA RunKeeps ==
    ASSUME IInv, UNCHANGED <<serverVars, parserVars, frames, failed, delivered>>,
           canceled' \in BOOLEAN, client' \in {"top", "reading", "feeding", "dispatching", "ended"},
           ClientInv'
    PROVE  IInv'
<1>1. PICK H, D, off, n : StreamInv(H, D, off, n) /\ Handed(n)
  BY DEF IInv
<1>2. UNCHANGED <<wire, sent, blocks, unacked, link, buf, id, length, size, frames,
                  failed, delivered>>
  BY DEF serverVars, parserVars
<1>3. Cut(H, off)'
  BY <1>1, <1>2 DEF StreamInv, Cut
<1>4. StreamInv(H, D, off, n)'
  BY <1>1, <1>2, <1>3, ParserWaits
<1>5. Handed(n)'
  BY <1>1, <1>2, HandedSame
<1>6. TypeOK'
  BY <1>2 DEF IInv, TypeOK
<1> QED BY <1>4, <1>5, <1>6 DEF IInv

\* What Feed leaves in the buffer is not complete.
LEMMA FeedReturnsKeeps ==
    ASSUME IInv, FeedReturns
    PROVE  IInv'
<1>1. /\ client = "feeding" /\ client' = "dispatching"
      /\ IF size = -1 THEN ~Contains(buf, NL) ELSE ~(Len(buf) >= size)
      /\ UNCHANGED <<serverVars, canceled, parserVars, frames, failed, delivered>>
  BY DEF FeedReturns, BodyComplete
<1>2. TypeOK /\ ~failed
  BY <1>1 DEF IInv, ClientInv
<1>3. Len(buf) \in Nat /\ size \in Nat \union {-1}
  BY <1>2, Types DEF TypeOK
<1>4. Incomplete
  <2>1. CASE size = -1
    BY <1>1, <2>1 DEF Contains, Incomplete
  <2>2. CASE size # -1
    <3>1. Len(buf) < size
      BY <1>1, <1>3, <2>2
    <3> QED BY <2>2, <3>1 DEF Incomplete
  <2> QED BY <2>1, <2>2
<1>5. ClientInv'
  BY <1>1, <1>2, <1>4 DEF ClientInv, Incomplete, DispatchedBeforeEnd, parserVars
<1>6. canceled' \in BOOLEAN
  BY <1>1, <1>2 DEF TypeOK
<1> QED BY <1>1, <1>5, <1>6, RunKeeps

\* Every way through Feed.
LEMMA FeedKeeps ==
    ASSUME IInv, Feed
    PROVE  IInv'
BY PingLineAckedKeeps, PingLineFailsKeeps, HeaderLineKeeps, OtherLineKeeps,
   BodyFollowsKeeps, BlockEndsKeeps, TakeBodyKeeps, FeedReturnsKeeps DEF Feed

\* The first frame goes to its handlers: the account of the others begins one
\* telegram later, if it was one.
LEMMA DispatchKeeps ==
    ASSUME IInv, Dispatch
    PROVE  IInv'
<1>1. PICK H, D, off, n : StreamInv(H, D, off, n) /\ Handed(n)
  BY DEF IInv
<1>2. /\ TypeOK /\ client = "dispatching" /\ frames # <<>> /\ frames' = Tail(frames)
      /\ delivered' = IF Head(frames).id = DataID
                      THEN Append(delivered, Head(frames).body) ELSE delivered
      /\ UNCHANGED <<wire, sent, blocks, unacked, link, canceled, client, buf, id,
                     length, size, failed>>
  BY DEF IInv, Dispatch, serverVars, parserVars
<1>3. PICK c \in [0 .. Len(frames) -> Nat] : Account(c, n)
  BY <1>1 DEF Handed
<1>4. PICK l : l = Len(frames)
  OBVIOUS
<1>5. /\ frames \in Seq([id : IDs \union {NL}, body : Bodies \union {<<>>}])
      /\ delivered \in Seq(Bodies) /\ sent \in Seq(Bodies)
      /\ Len(sent) \in Nat /\ Len(delivered) \in Nat
  BY <1>2, Types DEF TypeOK
<1>6. /\ l \in Nat /\ l >= 1 /\ Head(frames) = frames[1]
      /\ frames' \in Seq([id : IDs \union {NL}, body : Bodies \union {<<>>}])
      /\ Len(frames') = l - 1
      /\ \A j \in 1 .. l - 1 : frames'[j] = frames[j + 1]
  <2>1. l \in Nat \ {0}
    BY <1>2, <1>4, <1>5, EmptySeq
  <2>2. Head(frames) = frames[1]
    BY <1>2, <1>5
  <2> QED BY <1>2, <1>4, <1>5, <2>1, <2>2, HeadTailProperties
<1>7. /\ c[0] = Len(delivered) /\ c[l] = n
      /\ Len(delivered) <= Len(sent)
      /\ \A j \in 1 .. Len(delivered) : delivered[j] = sent[j]
      /\ \A j \in 1 .. l :
            IF frames[j].id = DataID
            THEN /\ c[j] = c[j - 1] + 1
                 /\ c[j] \in 1 .. Len(sent) /\ frames[j].body = sent[c[j]]
            ELSE c[j] = c[j - 1]
  BY <1>3, <1>4 DEF Account
<1>8. /\ delivered' \in Seq(Bodies) /\ c[1] = Len(delivered')
      /\ Len(delivered') <= Len(sent)
      /\ \A j \in 1 .. Len(delivered') : delivered'[j] = sent[j]
  <2>1. 1 \in 1 .. l /\ 1 - 1 = 0
    BY <1>6
  <2>2. CASE frames[1].id = DataID
    <3> DEFINE x == frames[1].body
    <3>1. /\ c[1] = Len(delivered) + 1 /\ c[1] \in 1 .. Len(sent) /\ x = sent[c[1]]
      BY <1>7, <2>1, <2>2
    <3>2. x \in Bodies
      BY <1>5, <3>1
    <3>3. delivered' = Append(delivered, x)
      BY <1>2, <1>6, <2>2
    <3> HIDE DEF x
    <3>4. /\ delivered' \in Seq(Bodies) /\ Len(delivered') = Len(delivered) + 1
          /\ \A j \in 1 .. Len(delivered) : delivered'[j] = delivered[j]
          /\ delivered'[Len(delivered) + 1] = x
      BY <1>5, <3>2, <3>3, AppendProperties
    <3>5. ASSUME NEW j \in 1 .. Len(delivered') PROVE delivered'[j] = sent[j]
      <4>1. CASE j \in 1 .. Len(delivered)
        BY <1>7, <3>4, <4>1
      <4>2. CASE j = Len(delivered) + 1
        BY <3>1, <3>4, <4>2
      <4> QED BY <1>5, <3>4, <4>1, <4>2
    <3>6. c[1] = Len(delivered') /\ Len(delivered') <= Len(sent)
      BY <1>5, <3>1, <3>4
    <3> QED BY <3>4, <3>5, <3>6
  <2>3. CASE frames[1].id # DataID
    <3>1. delivered' = delivered /\ c[1] = c[0]
      BY <1>2, <1>6, <1>7, <2>1, <2>3
    <3> QED BY <1>5, <1>7, <3>1
  <2> QED BY <2>2, <2>3
<1>9. PICK e : e = [j \in 0 .. l - 1 |-> c[j + 1]]
  OBVIOUS
<1>10. e \in [0 .. l - 1 -> Nat] /\ \A j \in 0 .. l - 1 : e[j] = c[j + 1]
  BY <1>3, <1>4, <1>6, <1>9
<1>11. e[0] = Len(delivered') /\ e[l - 1] = n
  <2>1. 0 \in 0 .. l - 1 /\ l - 1 \in 0 .. l - 1 /\ 0 + 1 = 1 /\ l - 1 + 1 = l
    BY <1>6
  <2> QED BY <1>7, <1>8, <1>10, <2>1
<1>12. ASSUME NEW j \in 1 .. l - 1
       PROVE  IF frames'[j].id = DataID
              THEN /\ e[j] = e[j - 1] + 1
                   /\ e[j] \in 1 .. Len(sent) /\ frames'[j].body = sent[e[j]]
              ELSE e[j] = e[j - 1]
  <2>1. /\ j + 1 \in 1 .. l /\ j \in 0 .. l - 1 /\ j - 1 \in 0 .. l - 1
        /\ j - 1 + 1 = j /\ j + 1 - 1 = j
    BY <1>6
  <2>2. e[j] = c[j + 1] /\ e[j - 1] = c[j] /\ frames'[j] = frames[j + 1]
    BY <1>6, <1>10, <2>1
  <2>3. IF frames[j + 1].id = DataID
        THEN /\ c[j + 1] = c[j] + 1
             /\ c[j + 1] \in 1 .. Len(sent) /\ frames[j + 1].body = sent[c[j + 1]]
        ELSE c[j + 1] = c[j]
    BY <1>7, <2>1
  <2> QED BY <2>2, <2>3
<1>13. Account(e, n)'
  <2>1. Len(sent') = Len(sent) /\ sent' = sent
    BY <1>2
  <2> QED BY <1>6, <1>8, <1>11, <1>12, <2>1 DEF Account
<1>14. Handed(n)'
  <2>1. e \in [0 .. Len(frames') -> Nat]
    BY <1>6, <1>10
  <2> QED BY <1>13, <2>1 DEF Handed
<1>15. StreamInv(H, D, off, n)'
  <2>1. Cut(H, off)'
    BY <1>1, <1>2 DEF StreamInv, Cut
  <2> QED BY <1>1, <1>2, <2>1, ParserWaits
<1>16. TypeOK'
  BY <1>2, <1>6, <1>8 DEF TypeOK
<1>17. ClientInv'
  BY <1>2 DEF IInv, ClientInv, Incomplete, DispatchedBeforeEnd
<1> QED BY <1>14, <1>15, <1>16, <1>17 DEF IInv

-----------------------------------------------------------------------------
(* The invariant.                                                          *)

\* Before anything has been sent the stream is empty.
LEMMA InitHolds ==
    ASSUME Init
    PROVE  IInv
<1>1. /\ wire = <<>> /\ sent = <<>> /\ blocks = 0 /\ unacked = FALSE /\ link = "open"
      /\ canceled = FALSE /\ client = "top" /\ buf = <<>> /\ id = NL /\ length = -1
      /\ size = -1 /\ frames = <<>> /\ failed = FALSE /\ delivered = <<>>
  BY DEF Init
<1>2. <<>> \in Seq(Cells) /\ <<>> \in Seq(Bodies) /\ Len(<<>>) = 0
      /\ <<>> \in Seq([id : IDs \union {NL}, body : Bodies \union {<<>>}])
  BY EmptySeq
<1>3. TypeOK
  <2>1. blocks \in 0 .. MaxBlocks
    BY <1>1, ServerAssumption
  <2> QED BY <1>1, <1>2, <2>1 DEF TypeOK
<1>4. ClientInv
  BY <1>1, <1>2 DEF ClientInv, Incomplete, DispatchedBeforeEnd
<1>5. PICK H : H = <<>>
  OBVIOUS
<1>6. PICK D : D = [k \in 1 .. 0 |-> 0]
  OBVIOUS
<1>7. Layout(H, D, sent)
  <2>1. H \in Seq(Cells) /\ D \in [1 .. Len(sent) -> Nat]
    BY <1>1, <1>2, <1>5, <1>6
  <2>2. 1 .. Len(sent) = {} /\ 1 .. Len(H) = {}
    BY <1>1, <1>2, <1>5
  <2> QED BY <2>1, <2>2 DEF Layout
<1>8. Cut(H, 0)
  BY <1>1, <1>2, <1>5 DEF Cut
<1>9. Between(D, 0, 0)
  BY <1>1, <1>2, CellKinds DEF Between
<1>10. PingInv(H, D, 0)
  BY <1>1, <1>2, <1>5 DEF PingInv, PingsAfter
<1>11. StreamInv(H, D, 0, 0)
  BY <1>1, <1>2, <1>7, <1>8, <1>9, <1>10 DEF StreamInv
<1>12. Handed(0)
  <2> DEFINE c == [j \in 0 .. 0 |-> 0]
  <2>1. c \in [0 .. Len(frames) -> Nat] /\ c[0] = 0
    BY <1>1, <1>2
  <2> HIDE DEF c
  <2>2. Account(c, 0)
    BY <1>1, <1>2, <2>1 DEF Account
  <2> QED BY <2>1, <2>2 DEF Handed
<1> QED BY <1>3, <1>4, <1>11, <1>12 DEF IInv

LEMMA StepKeeps ==
    ASSUME IInv, ServerAwaitsAck = TRUE, [Next]_vars
    PROVE  IInv'
<1>1. CASE ServerStep \/ LinkBreaks
  BY <1>1, ServerKeeps
<1>2. CASE Cancel
  <2>1. /\ canceled' = TRUE
        /\ UNCHANGED <<serverVars, client, parserVars, frames, failed, delivered>>
    BY <1>2 DEF Cancel
  <2>2. ClientInv'
    BY <2>1 DEF IInv, ClientInv, Incomplete, DispatchedBeforeEnd, parserVars
  <2>3. client' \in {"top", "reading", "feeding", "dispatching", "ended"}
    BY <2>1 DEF IInv, TypeOK
  <2> QED BY <2>1, <2>2, <2>3, RunKeeps
<1>3. CASE CheckContext
  <2>1. /\ client = "top" /\ client' \in {"ended", "reading"}
        /\ UNCHANGED <<serverVars, canceled, parserVars, frames, failed, delivered>>
    BY <1>3 DEF CheckContext
  <2>2. ClientInv'
    BY <2>1 DEF IInv, ClientInv, Incomplete, DispatchedBeforeEnd, parserVars
  <2>3. canceled' \in BOOLEAN
    BY <2>1 DEF IInv, TypeOK
  <2> QED BY <2>1, <2>2, <2>3, RunKeeps
<1>4. CASE ReadFails
  <2>1. /\ client = "reading" /\ client' = "ended"
        /\ UNCHANGED <<serverVars, canceled, parserVars, frames, failed, delivered>>
    BY <1>4 DEF ReadFails
  <2>2. ClientInv'
    BY <2>1 DEF IInv, ClientInv, DispatchedBeforeEnd
  <2>3. canceled' \in BOOLEAN
    BY <2>1 DEF IInv, TypeOK
  <2> QED BY <2>1, <2>2, <2>3, RunKeeps
<1>5. CASE DispatchEnds
  <2>1. /\ client = "dispatching" /\ frames = <<>>
        /\ client' = IF failed THEN "ended" ELSE "top"
        /\ UNCHANGED <<serverVars, canceled, parserVars, frames, failed, delivered>>
    BY <1>5 DEF DispatchEnds, AllDispatched
  <2>2. ClientInv'
    BY <2>1 DEF IInv, ClientInv, Incomplete, DispatchedBeforeEnd, parserVars
  <2>3. canceled' \in BOOLEAN
    BY <2>1 DEF IInv, TypeOK
  <2> QED BY <2>1, <2>2, <2>3, RunKeeps
<1>6. CASE UNCHANGED vars
  <2>1. UNCHANGED <<serverVars, canceled, client, parserVars, frames, failed, delivered>>
    BY <1>6 DEF vars
  <2>2. ClientInv'
    BY <2>1 DEF IInv, ClientInv, Incomplete, DispatchedBeforeEnd, parserVars
  <2>3. /\ client' \in {"top", "reading", "feeding", "dispatching", "ended"}
        /\ canceled' \in BOOLEAN
    BY <2>1 DEF IInv, TypeOK
  <2> QED BY <2>1, <2>2, <2>3, RunKeeps
<1> QED
  BY <1>1, <1>2, <1>3, <1>4, <1>5, <1>6, ReadKeeps, FeedKeeps, DispatchKeeps
  DEF Next, ClientStep, Terminated

LEMMA Invariance == ServerAwaitsAck = TRUE => (Spec => []IInv)
<1>1. Init => IInv
  BY InitHolds
<1>2. ServerAwaitsAck = TRUE /\ IInv /\ [Next]_vars => IInv'
  BY StepKeeps
<1> SUFFICES ASSUME ServerAwaitsAck = TRUE PROVE Spec => []IInv
  OBVIOUS
<1>3. IInv /\ [Next]_vars => IInv'
  BY <1>2
<1> QED BY <1>1, <1>3, PTL DEF Spec

-----------------------------------------------------------------------------
(* What follows from it.                                                   *)

\* When all that was sent has been read, and nothing in the buffer is complete,
\* the cells that are left hold no newline of a block and no body.
LEMMA AllParsed ==
    ASSUME TypeOK, NEW H, NEW D, NEW off, NEW n, StreamInv(H, D, off, n),
           wire = <<>>, link # "broken", Incomplete
    PROVE  /\ n = Len(sent) /\ size = -1
           /\ \A p \in off + 1 .. Len(H) : H[p] # NL
<1>1. /\ off \in Nat /\ n \in 0 .. Len(sent) /\ Layout(H, D, sent)
      /\ sent \in Seq(Seq(Cells)) /\ Len(sent) \in Nat
      /\ Between(D, off, n) \/ Inside(D, off, n)
  BY Types DEF StreamInv
<1> DEFINE b == Len(buf)  h == Len(H)
<1>2. /\ b \in Nat /\ h \in Nat /\ off + b = h
      /\ \A i \in 1 .. b : buf[i] = H[off + i]
  <2>1. Len(wire) = 0
    BY EmptySeq
  <2>2. /\ off + b + Len(wire) = h
        /\ \A i \in 1 .. b : buf[i] = H[off + i]
    BY DEF StreamInv, Cut
  <2>3. b \in Nat /\ h \in Nat
    BY Types DEF StreamInv, Layout
  <2> HIDE DEF b, h
  <2> QED BY <1>1, <2>1, <2>2, <2>3
<1>3. IF size = -1 THEN \A i \in 1 .. b : buf[i] # NL ELSE b < size
  BY DEF Incomplete
<1> HIDE DEF b, h
<1>4. ASSUME size = -1, NEW p \in off + 1 .. h PROVE H[p] # NL
  <2> DEFINE i == p - off
  <2>1. i \in 1 .. b /\ off + i = p
    BY <1>1, <1>2
  <2> HIDE DEF i
  <2> QED BY <1>2, <1>3, <1>4, <2>1
<1>5. ASSUME n + 1 \in 1 .. Len(sent) PROVE FALSE
  <2>1. PICK k : k = n + 1
    OBVIOUS
  <2>2. PICK d : d = D[k]
    OBVIOUS
  <2>3. PICK m : m = Len(sent[k])
    OBVIOUS
  <2>4. /\ d \in Nat /\ m \in Nat /\ d + 5 + m <= h
        /\ H[d + 2] = NL /\ H[d + 4] = NL /\ H[d + 5] = NL
    BY <1>1, <1>5, <2>1, <2>2, <2>3, NextBlock DEF h
  <2>5. CASE Between(D, off, n)
    <3>1. off <= d /\ size = -1
      BY <1>1, <1>5, <2>1, <2>2, <2>5 DEF Between
    <3>2. d + 2 \in off + 1 .. h
      BY <1>1, <1>2, <2>4, <3>1
    <3> QED BY <1>4, <2>4, <3>1, <3>2
  <2>6. CASE Inside(D, off, n)
    <3>1. \/ off = d + 2 /\ size = -1
          \/ off = d + 4 /\ size = -1
          \/ off = d + 5 /\ size = m
      <4>1. \/ off = D[n + 1] + 2 /\ size = -1
            \/ off = D[n + 1] + 4 /\ size = -1
            \/ off = D[n + 1] + 5 /\ size = length /\ length = Len(sent[n + 1])
        BY <2>6 DEF Inside
      <4> QED BY <2>1, <2>2, <2>3, <4>1
    <3>2. ASSUME off = d + 2, size = -1 PROVE FALSE
      <4>1. d + 4 \in off + 1 .. h
        BY <1>2, <2>4, <3>2
      <4> QED BY <1>4, <2>4, <3>2, <4>1
    <3>3. ASSUME off = d + 4, size = -1 PROVE FALSE
      <4>1. d + 5 \in off + 1 .. h
        BY <1>2, <2>4, <3>3
      <4> QED BY <1>4, <2>4, <3>3, <4>1
    <3>4. ASSUME off = d + 5, size = m PROVE FALSE
      <4>1. size # -1 /\ b < size
        BY <1>3, <2>4, <3>4
      <4> QED BY <1>2, <2>4, <3>4, <4>1
    <3> QED BY <3>1, <3>2, <3>3, <3>4
  <2> QED BY <1>1, <2>5, <2>6
<1>6. n = Len(sent)
  BY <1>1, <1>5
<1>7. size = -1
  BY <1>1, <1>5 DEF Between, Inside
<1> QED BY <1>4, <1>6, <1>7 DEF h

\* The telegrams handed over are the first that were sent.
LEMMA HandedInOrder ==
    ASSUME IInv
    PROVE  InOrder
<1>1. PICK n : Handed(n)
  BY DEF IInv
<1>2. PICK c \in [0 .. Len(frames) -> Nat] : Account(c, n)
  BY <1>1 DEF Handed
<1>3. /\ delivered \in Seq(Bodies) /\ sent \in Seq(Bodies)
      /\ Len(delivered) \in Nat /\ Len(sent) \in Nat
  BY Types DEF IInv, TypeOK
<1>4. PICK l : l = Len(delivered)
  OBVIOUS
<1>5. /\ l \in Nat /\ l <= Len(sent)
      /\ \A i \in 1 .. l : delivered[i] = sent[i]
  BY <1>2, <1>3, <1>4 DEF Account
<1> DEFINE got == SubSeq(delivered, 1, l)  first == SubSeq(sent, 1, l)
<1>6. /\ got \in Seq(Bodies) /\ Len(got) = IF 1 <= l THEN l - 1 + 1 ELSE 0
      /\ \A i \in 1 .. l - 1 + 1 : got[i] = delivered[1 + i - 1]
  <2>1. \A i \in 1 .. l : delivered[i] \in Bodies
    BY <1>3, <1>4
  <2>2. 1 \in Int /\ l \in Int
    BY <1>5
  <2> QED BY <2>1, <2>2, SubSeqProperties
<1>7. /\ first \in Seq(Bodies) /\ Len(first) = IF 1 <= l THEN l - 1 + 1 ELSE 0
      /\ \A i \in 1 .. l - 1 + 1 : first[i] = sent[1 + i - 1]
  <2>1. \A i \in 1 .. l : sent[i] \in Bodies
    <3>1. \A i \in 1 .. l : i \in 1 .. Len(sent)
      BY <1>3, <1>5
    <3> QED BY <1>3, <3>1
  <2>2. 1 \in Int /\ l \in Int
    BY <1>5
  <2> QED BY <2>1, <2>2, SubSeqProperties
<1> HIDE DEF got, first
<1>8. Len(got) = l /\ Len(first) = l
  BY <1>5, <1>6, <1>7
<1>9. ASSUME NEW i \in 1 .. l PROVE got[i] = first[i]
  <2>1. i \in 1 .. l - 1 + 1 /\ 1 + i - 1 = i
    BY <1>5
  <2> QED BY <1>5, <1>6, <1>7, <2>1
<1>10. got = first
  BY <1>6, <1>7, <1>8, <1>9, SeqEqual
<1> QED BY <1>4, <1>5, <1>10 DEF InOrder, IsPrefix, got, first

\* In Read, with nothing on the wire, every telegram has been handed over.
LEMMA ReadingCaughtUp ==
    ASSUME IInv
    PROVE  CaughtUp
<1> SUFFICES ASSUME client = "reading", wire = <<>>, link # "broken"
             PROVE  delivered = sent
  BY DEF CaughtUp
<1>1. PICK H, D, off, n : StreamInv(H, D, off, n) /\ Handed(n)
  BY DEF IInv
<1>2. TypeOK /\ frames = <<>> /\ Incomplete
  BY DEF IInv, ClientInv
<1>3. n = Len(sent)
  BY <1>1, <1>2, AllParsed
<1>4. PICK c \in [0 .. Len(frames) -> Nat] : Account(c, n)
  BY <1>1 DEF Handed
<1>5. Len(delivered) = n /\ \A i \in 1 .. Len(delivered) : delivered[i] = sent[i]
  <2>1. Len(frames) = 0
    BY <1>2, EmptySeq
  <2> QED BY <1>4, <2>1 DEF Account
<1>6. delivered \in Seq(Bodies) /\ sent \in Seq(Bodies)
  BY <1>2 DEF TypeOK
<1> QED BY <1>3, <1>5, <1>6, SeqEqual

\* And a ping whose ack the server awaits has a newline that would be there.
LEMMA ReadingAnswered ==
    ASSUME IInv
    PROVE  PingsAnswered
<1> SUFFICES ASSUME client = "reading", wire = <<>>, link = "open", unacked
             PROVE  FALSE
  BY DEF PingsAnswered
<1>1. PICK H, D, off, n : StreamInv(H, D, off, n)
  BY DEF IInv
<1>2. TypeOK /\ Incomplete /\ ~failed
  BY DEF IInv, ClientInv
<1>3. \A p \in off + 1 .. Len(H) : H[p] # NL
  BY <1>1, <1>2, AllParsed
<1>4. PICK p \in off + 1 .. Len(H) : PingAt(H, D, sent, p)
  BY <1>1, <1>2 DEF StreamInv, PingInv
<1>5. FillerAt(H, p) /\ H[p] # NL
  BY <1>1, <1>4, CellKinds DEF PingAt, StreamInv, Layout
<1>6. p + 1 <= Len(H) /\ H[p + 1] = NL
  BY <1>5 DEF FillerAt
<1>7. p + 1 \in off + 1 .. Len(H)
  <2>1. off \in Nat /\ Len(H) \in Nat
    BY <1>1 DEF StreamInv, Layout
  <2> QED BY <1>6, <2>1
<1> QED BY <1>3, <1>6, <1>7

-----------------------------------------------------------------------------
(* The theorems.  All but the last are about a server that waits for the   *)
(* ack of a ping before it goes on; without that the wipe after a ping can *)
(* take a telegram with it, as a run on a small instance shows.            *)

\* Whatever the server sends and however Read cuts it, every variable of the
\* session keeps its type: no step puts anything in a frame but a telegram that
\* was sent (Client.Run and Feed).
THEOREM TypeCorrect == ServerAwaitsAck = TRUE => (Spec => []TypeOK)
<1>1. IInv => TypeOK
  BY DEF IInv
<1> QED BY <1>1, Invariance, PTL

\* The handlers get the telegrams whole, in the order they were sent, none twice
\* and none made of something else, also when a telegram looks like a header,
\* a ping or a block of its own (Feed, protocol.go:68-154).
THEOREM TelegramsInOrder == ServerAwaitsAck = TRUE => (Spec => []InOrder)
<1>1. IInv => InOrder
  BY HandedInOrder
<1> QED BY <1>1, Invariance, PTL

\* When Run waits in Read and all that was sent has been read, every telegram
\* has been handed over (Feed's loop over its buffer, protocol.go:130-142).
THEOREM NoneLeftUnread == ServerAwaitsAck = TRUE => (Spec => []CaughtUp)
<1>1. IInv => CaughtUp
  BY ReadingCaughtUp
<1> QED BY <1>1, Invariance, PTL

\* Run never waits in Read while a ping it has read is without an answer, so
\* the server and the client never wait for each other (protocol.go:81-83).
THEOREM PingsGetAnswers == ServerAwaitsAck = TRUE => (Spec => []PingsAnswered)
<1>1. IInv => PingsAnswered
  BY ReadingAnswered
<1> QED BY <1>1, Invariance, PTL

\* What the end of Run rests on, with a server that awaits its acks or not:
\* only Feed and Dispatch have frames on their hands.
FramesInv == client \in {"top", "reading", "ended"} => frames = <<>>

\* Run ends with no complete telegram left behind, also when the ack of a ping
\* that came in the same batch cannot be written (client.go:100-124); this one
\* holds of every server.
THEOREM NothingLostAtEnd == Spec => []DispatchedBeforeEnd
<1>1. Init => FramesInv
  BY DEF Init, FramesInv
<1>2. FramesInv /\ [Next]_vars => FramesInv'
  <2> SUFFICES ASSUME FramesInv, [Next]_vars PROVE FramesInv'
    OBVIOUS
  <2>1. CASE ServerStep
    BY <2>1 DEF FramesInv, ServerStep, SendResponseOK, SendKeepAlive, SendData, SendGETPing,
                SendDataThenGETPing, Write, ServerCloses
  <2>2. CASE LinkBreaks \/ Cancel
    BY <2>2 DEF FramesInv, LinkBreaks, Cancel
  <2>3. CASE CheckContext \/ Read \/ ReadFails
    BY <2>3 DEF FramesInv, CheckContext, Read, ReadFails
  <2>4. CASE Feed
    <3>1. client' \in {"feeding", "dispatching"}
      BY <2>4 DEF Feed, PingLineAcked, PingLineFails, HeaderLine, OtherLine, BodyFollows,
                  BlockEnds, TakeBody, FeedReturns, LineEnds
    <3> QED BY <3>1 DEF FramesInv
  <2>5. CASE Dispatch \/ DispatchEnds
    BY <2>5 DEF FramesInv, Dispatch, DispatchEnds, AllDispatched
  <2>6. CASE UNCHANGED vars
    BY <2>6 DEF FramesInv, vars
  <2> QED BY <2>1, <2>2, <2>3, <2>4, <2>5, <2>6 DEF Next, ClientStep, Terminated
<1>3. FramesInv => DispatchedBeforeEnd
  BY DEF FramesInv, DispatchedBeforeEnd
<1> QED BY <1>1, <1>2, <1>3, PTL DEF Spec
=============================================================================
