------------------------------ MODULE IrcQueue ------------------------------
(***************************************************************************)
(* internal/irc/queue.go: the bounded, coalescing send queue between the   *)
(* WNI receive goroutine (Enqueue) and the goroutine that owns an IRC      *)
(* connection's write path (Dequeue).                                      *)
(*                                                                         *)
(* Every method holds q.mu from its first to its last line, so a method is *)
(* one action; the exception is Dequeue, which gives the mutex up while it *)
(* waits on q.cond: Park is its first part, and after a Signal or a        *)
(* Broadcast the loop tests its condition again.                           *)
(*                                                                         *)
(* A notice's channels and text are one value, its body: the queue never   *)
(* looks at them.                                                          *)
(***************************************************************************)
EXTENDS Integers, SequencesExt

CONSTANTS
    EqID,       \* earthquakes: the keys of q.entries
    Body,       \* the channels and the text of a notice
    Capacity,   \* q.capacity
    NoNotice    \* "no such key", and what Dequeue returns with ok = false

Normal       == 0
Final        == 1
Cancellation == 2
Priority     == {Normal, Final, Cancellation}

Notice == [eqID : EqID, body : Body, priority : Priority]

\* NewQueue is called with defaultQueueCapacity, which is positive.
ASSUME CapacityAssumption == Capacity \in Nat \ {0}
ASSUME NoNoticeAssumption == NoNotice \notin Notice

VARIABLES
    order,      \* q.order: earthquakes with an unsent notice, oldest first
    entries,    \* q.entries: the unsent notice of each of them
    closed,     \* q.closed
    consumer,   \* "parked" inside q.cond.Wait, "awake" otherwise
    taken       \* the notice Dequeue last returned

queueVars == <<order, entries, closed, consumer, taken>>

-----------------------------------------------------------------------------

QueueInit ==
    /\ order = <<>>
    /\ entries = [e \in EqID |-> NoNotice]
    /\ closed = FALSE
    /\ consumer = "awake"
    /\ taken = NoNotice

Exists(e) == entries[e] # NoNotice

AtCapacityOffByOne == Len(order) > Capacity    \* mutant
AtCapacity == Len(order) >= Capacity

\* q.cond.Signal and q.cond.Broadcast: there is only one goroutine to wake.
NoWake == UNCHANGED consumer                    \* mutant
Wake == consumer' = "awake"

PriorityAt(i) == entries[order[i]].priority

IsOldest(i) == i = 1                            \* mutant

\* mutant: of the least important ones the last is found
IsNewestVictim(i) ==
    \A j \in DOMAIN order :
        \/ PriorityAt(i) < PriorityAt(j)
        \/ PriorityAt(i) = PriorityAt(j) /\ j <= i

\* The position evictOne finds: the oldest among the lowest priority present.
IsVictim(i) ==
    \A j \in DOMAIN order :
        \/ PriorityAt(i) < PriorityAt(j)
        \/ PriorityAt(i) = PriorityAt(j) /\ i <= j

\* Enqueue once the queue is closed.
Ignore(n) ==
    /\ closed
    /\ UNCHANGED queueVars

\* mutant: the new report goes to the end of the queue
CoalesceAtTail(n) ==
    /\ ~closed
    /\ Exists(n.eqID)
    /\ entries' = [entries EXCEPT ![n.eqID] = n]
    /\ order' = Append(SelectSeq(order, LAMBDA e : e # n.eqID), n.eqID)
    /\ Wake
    /\ UNCHANGED <<closed, taken>>

\* Enqueue for an earthquake that has an unsent notice: its slot is kept.
Coalesce(n) ==
    /\ ~closed
    /\ Exists(n.eqID)
    /\ entries' = [entries EXCEPT ![n.eqID] = n]
    /\ Wake
    /\ UNCHANGED <<order, closed, taken>>

\* Enqueue for another earthquake, with room for it.
AppendNew(n) ==
    /\ ~closed
    /\ ~Exists(n.eqID)
    /\ ~AtCapacity
    /\ order' = Append(order, n.eqID)
    /\ entries' = [entries EXCEPT ![n.eqID] = n]
    /\ Wake
    /\ UNCHANGED <<closed, taken>>

\* Enqueue for another earthquake at capacity: evictOne first.
EvictAndAppend(n) ==
    /\ ~closed
    /\ ~Exists(n.eqID)
    /\ AtCapacity
    /\ \E i \in DOMAIN order :
          /\ IsVictim(i)
          /\ order' = Append(RemoveAt(order, i), n.eqID)
          /\ entries' = [entries EXCEPT ![order[i]] = NoNotice, ![n.eqID] = n]
    /\ Wake
    /\ UNCHANGED <<closed, taken>>

Enqueue(n) == Ignore(n) \/ Coalesce(n) \/ AppendNew(n) \/ EvictAndAppend(n)

\* Dequeue finds nothing and waits.
Park ==
    /\ consumer = "awake"
    /\ order = <<>>
    /\ ~closed
    /\ consumer' = "parked"
    /\ UNCHANGED <<order, entries, closed, taken>>

\* mutant: the entry stays in the map
TakeSlotOnly ==
    /\ consumer = "awake"
    /\ order # <<>>
    /\ taken' = entries[Head(order)]
    /\ order' = Tail(order)
    /\ UNCHANGED <<entries, closed, consumer>>

\* Dequeue returns the oldest notice, of a closed queue too.
Take ==
    /\ consumer = "awake"
    /\ order # <<>>
    /\ taken' = entries[Head(order)]
    /\ order' = Tail(order)
    /\ entries' = [entries EXCEPT ![Head(order)] = NoNotice]
    /\ UNCHANGED <<closed, consumer>>

\* Dequeue returns ok = false.
GiveUp ==
    /\ consumer = "awake"
    /\ order = <<>>
    /\ closed
    /\ taken' = NoNotice
    /\ UNCHANGED <<order, entries, closed, consumer>>

Dequeue == Park \/ Take \/ GiveUp

Close ==
    /\ closed' = TRUE
    /\ Wake
    /\ UNCHANGED <<order, entries, taken>>

QueueNext ==
    \/ \E n \in Notice : Enqueue(n)
    \/ Dequeue
    \/ Close

QueueSpec == QueueInit /\ [][QueueNext]_queueVars

\* The write goroutine keeps calling Dequeue: a goroutine that can run does.
FairQueueSpec == QueueSpec /\ WF_queueVars(Dequeue)

-----------------------------------------------------------------------------

TypeOK ==
    /\ order \in Seq(EqID)
    /\ Len(order) <= Capacity
    /\ entries \in [EqID -> Notice \cup {NoNotice}]
    /\ closed \in BOOLEAN
    /\ consumer \in {"awake", "parked"}
    /\ taken \in Notice \cup {NoNotice}

\* The slice and the map, two structures updated apart, always describe the
\* same notices: an earthquake has a slot exactly if it has an entry, it has
\* one slot only, and the entry is about that earthquake.
OrderMatchesEntries ==
    /\ IsInjective(order)
    /\ \A e \in EqID : Exists(e) <=> Contains(order, e)
    /\ \A e \in EqID : Exists(e) => entries[e].eqID = e

\* No wake-up is lost: the write goroutine sleeps only while there is
\* nothing for it to do, neither a notice to send nor a close to see.
NoLostWakeup == consumer = "parked" => order = <<>> /\ ~closed

\* e has an earlier delivery slot than f in s.
Before(s, e, f) == \E i, j \in DOMAIN s : i < j /\ s[i] = e /\ s[j] = f

\* Notices that stay in the queue keep their relative order through coalescing,
\* eviction and removal, and a newcomer lines up behind all of them.
KeepsSlots ==
    \A e, f \in EqID :
        /\ e # f
        /\ Exists(e) /\ Exists(e)' /\ Exists(f)'
        /\ Exists(f) => Before(order, e, f)
        => Before(order', e, f)

\* A notice leaves before an older one only if it is less important.
LeavesInTurn ==
    \A e, f \in EqID :
        /\ Exists(e) /\ ~Exists(e)'
        /\ Exists(f) /\ Exists(f)'
        /\ Before(order, f, e)
        => entries[e].priority < entries[f].priority

\* A delivery slot is never overtaken (queue.go:34-37, 107-109): neither does the
\* queue change its order, nor does a notice leave it out of turn, but to make
\* room for one about another earthquake, and then the oldest of the least
\* important ones does (queue.go:38-41, 87-88).
SlotsKept == [][KeepsSlots /\ LeavesInTurn]_queueVars

\* An unsent notice does not wait forever, however often reports about it
\* and about other earthquakes arrive: it is sent or evicted.
NotStarved == \A e \in EqID : Exists(e) ~> ~Exists(e)

\* Close (queue.go:126-127) ends the write goroutine's loop: Dequeue hands out
\* what is left and then returns ok = false, even to a goroutine that was
\* asleep when the queue was closed.
DrainsAfterClose == closed ~> order = <<>> /\ taken = NoNotice

\* The queue implements the abstract box, whose contents are its entries.
Box == INSTANCE NoticeBox WITH pending <- entries
ImplementsBox == Box!BoxSpec
=============================================================================
