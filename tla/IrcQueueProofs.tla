--------------------------- MODULE IrcQueueProofs ---------------------------
(***************************************************************************)
(* Theorems about the send queue, for every set of earthquakes and bodies  *)
(* and every positive capacity.                                            *)
(*                                                                         *)
(* The three invariants of IrcQueue are inductive only together: that an   *)
(* eviction makes room needs the order's length, that the evicted entry is *)
(* the one that leaves the order needs the order to match the entries, and *)
(* that a parked consumer has nothing to do needs both.                    *)
(***************************************************************************)
EXTENDS IrcQueue, SequenceTheorems, FiniteSetTheorems, TLAPS

IInv == TypeOK /\ OrderMatchesEntries /\ NoLostWakeup

-----------------------------------------------------------------------------
(* What removing and adding a slot does to a sequence.                     *)

\* removeAt (queue.go:101-105) closes the gap that a removed slot leaves.
LEMMA RemoveAtProperties ==
    ASSUME NEW S, NEW s \in Seq(S), NEW i \in 1 .. Len(s)
    PROVE  /\ RemoveAt(s, i) \in Seq(S)
           /\ Len(RemoveAt(s, i)) = Len(s) - 1
           /\ \A k \in 1 .. Len(s) - 1 :
                 RemoveAt(s, i)[k] = IF k < i THEN s[k] ELSE s[k + 1]
<1> DEFINE front == SubSeq(s, 1, i - 1)
           back  == SubSeq(s, i + 1, Len(s))
<1>1. Len(s) \in Nat /\ \A k \in 1 .. Len(s) : s[k] \in S
  BY LenProperties, ElementOfSeq
<1>2. /\ front \in Seq(S)
      /\ Len(front) = i - 1
      /\ \A k \in 1 .. i - 1 : front[k] = s[k]
  <2>1. \A k \in 1 .. i - 1 : s[k] \in S
    BY <1>1
  <2>2. /\ front \in Seq(S)
        /\ Len(front) = IF 1 <= i - 1 THEN (i - 1) - 1 + 1 ELSE 0
        /\ \A k \in 1 .. (i - 1) - 1 + 1 : front[k] = s[1 + k - 1]
    BY <1>1, <2>1, SubSeqProperties
  <2> QED BY <1>1, <2>2
<1>3. /\ back \in Seq(S)
      /\ Len(back) = Len(s) - i
      /\ \A k \in 1 .. Len(s) - i : back[k] = s[i + k]
  <2>1. \A k \in i + 1 .. Len(s) : s[k] \in S
    BY <1>1
  <2>2. /\ back \in Seq(S)
        /\ Len(back) = IF i + 1 <= Len(s) THEN Len(s) - (i + 1) + 1 ELSE 0
        /\ \A k \in 1 .. Len(s) - (i + 1) + 1 : back[k] = s[(i + 1) + k - 1]
    BY <1>1, <2>1, SubSeqProperties
  <2> QED BY <1>1, <2>2
<1> HIDE DEF front, back
<1>4. /\ front \o back \in Seq(S)
      /\ Len(front \o back) = Len(front) + Len(back)
      /\ \A k \in 1 .. Len(front) + Len(back) :
            (front \o back)[k] =
                IF k <= Len(front) THEN front[k] ELSE back[k - Len(front)]
  BY <1>2, <1>3, ConcatProperties
<1>5. RemoveAt(s, i) = front \o back
  BY DEF RemoveAt, front, back
<1>6. Len(front \o back) = Len(s) - 1
  BY <1>1, <1>2, <1>3, <1>4
<1>7. ASSUME NEW k \in 1 .. Len(s) - 1
      PROVE  (front \o back)[k] = IF k < i THEN s[k] ELSE s[k + 1]
  <2>1. (front \o back)[k] = IF k <= i - 1 THEN front[k] ELSE back[k - (i - 1)]
    BY <1>1, <1>2, <1>3, <1>4
  <2>2. k <= i - 1 => front[k] = s[k]
    BY <1>1, <1>2
  <2>3. k > i - 1 => back[k - (i - 1)] = s[k + 1]
    <3>1. SUFFICES ASSUME k > i - 1
                   PROVE  back[k - (i - 1)] = s[k + 1]
      OBVIOUS
    <3>2. k - (i - 1) \in 1 .. Len(s) - i /\ i + (k - (i - 1)) = k + 1
      BY <1>1, <3>1
    <3> QED BY <1>3, <3>2
  <2> QED BY <1>1, <2>1, <2>2, <2>3
<1> QED BY <1>4, <1>5, <1>6, <1>7


\* Removing a slot removes that slot's earthquake and overtakes nobody.
LEMMA RemoveSlot ==
    ASSUME NEW S, NEW s \in Seq(S), NEW i \in 1 .. Len(s), IsInjective(s)
    PROVE  /\ IsInjective(RemoveAt(s, i))
           /\ \A x \in S : Contains(RemoveAt(s, i), x)
                              <=> Contains(s, x) /\ x # s[i]
           /\ \A x, y \in S : x # s[i] /\ y # s[i] /\ Before(s, x, y)
                              => Before(RemoveAt(s, i), x, y)
<1> DEFINE r == RemoveAt(s, i)
           new(k) == IF k < i THEN k ELSE k - 1
           old(k) == IF k < i THEN k ELSE k + 1
<1>1. Len(s) \in Nat /\ DOMAIN s = 1 .. Len(s)
  BY LenProperties
<1>2. /\ r \in Seq(S)
      /\ Len(r) = Len(s) - 1
      /\ \A k \in 1 .. Len(s) - 1 : r[k] = IF k < i THEN s[k] ELSE s[k + 1]
  BY RemoveAtProperties
<1>3. DOMAIN r = 1 .. Len(s) - 1
  BY <1>2, LenProperties
<1>4. \A k \in 1 .. Len(s) - 1 :
         old(k) \in 1 .. Len(s) /\ old(k) # i /\ r[k] = s[old(k)]
  BY <1>1, <1>2
<1>5. \A k, l \in 1 .. Len(s) - 1 : old(k) = old(l) => k = l
  BY <1>1
<1> HIDE DEF r, old
<1>6. IsInjective(r)
  BY <1>1, <1>3, <1>4, <1>5 DEF IsInjective
<1> USE DEF old
<1>7. \A k \in 1 .. Len(s) : k # i => new(k) \in 1 .. Len(s) - 1 /\ r[new(k)] = s[k]
  BY <1>1, <1>2
<1>8. ASSUME NEW x \in S
      PROVE  Contains(r, x) <=> Contains(s, x) /\ x # s[i]
  <2>1. ASSUME Contains(r, x)
        PROVE  Contains(s, x) /\ x # s[i]
    <3>1. PICK k \in 1 .. Len(s) - 1 : r[k] = x
      BY <1>2, <2>1 DEF Contains
    <3>2. s[old(k)] = x /\ old(k) \in 1 .. Len(s) /\ old(k) # i
      BY <1>4, <3>1
    <3> HIDE DEF old
    <3> QED BY <1>1, <3>2 DEF Contains, IsInjective
  <2>2. ASSUME Contains(s, x), x # s[i]
        PROVE  Contains(r, x)
    BY <1>2, <1>7, <2>2 DEF Contains
  <2> QED BY <2>1, <2>2
<1>9. ASSUME NEW x \in S, NEW y \in S, x # s[i], y # s[i], Before(s, x, y)
      PROVE  Before(r, x, y)
  <2>1. PICK k, l \in 1 .. Len(s) : k < l /\ s[k] = x /\ s[l] = y
    BY <1>1, <1>9 DEF Before
  <2>2. new(k) < new(l)
    BY <1>1, <1>9, <2>1
  <2> QED BY <1>3, <1>7, <1>9, <2>1, <2>2 DEF Before
<1> QED BY <1>6, <1>8, <1>9 DEF r

\* A newcomer lines up behind everybody.
LEMMA AddSlot ==
    ASSUME NEW S, NEW s \in Seq(S), NEW e \in S,
           IsInjective(s), ~Contains(s, e)
    PROVE  /\ Append(s, e) \in Seq(S)
           /\ Len(Append(s, e)) = Len(s) + 1
           /\ IsInjective(Append(s, e))
           /\ \A x \in S : Contains(Append(s, e), x) <=> Contains(s, x) \/ x = e
           /\ \A x, y \in S : Before(s, x, y) => Before(Append(s, e), x, y)
           /\ \A x \in S : Contains(s, x) => Before(Append(s, e), x, e)
<1> DEFINE t == Append(s, e)
<1>1. Len(s) \in Nat /\ DOMAIN s = 1 .. Len(s)
  BY LenProperties
<1>2. /\ t \in Seq(S)
      /\ Len(t) = Len(s) + 1
      /\ \A k \in 1 .. Len(s) : t[k] = s[k]
      /\ t[Len(s) + 1] = e
  BY AppendProperties
<1>3. DOMAIN t = 1 .. Len(s) + 1
  BY <1>2, LenProperties
<1> HIDE DEF t
<1>4. IsInjective(t)
  BY <1>1, <1>2, <1>3 DEF IsInjective, Contains
<1>5. \A x \in S : Contains(t, x) <=> Contains(s, x) \/ x = e
  BY <1>1, <1>2 DEF Contains
<1>6. \A x, y \in S : Before(s, x, y) => Before(t, x, y)
  BY <1>1, <1>2, <1>3 DEF Before
<1>7. \A x \in S : Contains(s, x) => Before(t, x, e)
  BY <1>1, <1>2, <1>3 DEF Before, Contains
<1> QED BY <1>2, <1>4, <1>5, <1>6, <1>7 DEF t

\* Dequeue removes the first slot.
LEMMA TailIsRemoval ==
    ASSUME NEW S, NEW s \in Seq(S), s # <<>>
    PROVE  /\ 1 \in 1 .. Len(s)
           /\ Head(s) = s[1]
           /\ Tail(s) = RemoveAt(s, 1)
<1>1. Len(s) \in Nat \ {0}
  BY EmptySeq
<1>2. 1 \in 1 .. Len(s)
  BY <1>1
<1>3. /\ Tail(s) \in Seq(S)
      /\ Len(Tail(s)) = Len(s) - 1
      /\ \A k \in 1 .. Len(Tail(s)) : Tail(s)[k] = s[k + 1]
  BY HeadTailProperties
<1>4. /\ RemoveAt(s, 1) \in Seq(S)
      /\ Len(RemoveAt(s, 1)) = Len(s) - 1
      /\ \A k \in 1 .. Len(s) - 1 : RemoveAt(s, 1)[k] = s[k + 1]
  BY <1>1, <1>2, RemoveAtProperties
<1>5. Tail(s) = RemoveAt(s, 1)
  BY <1>3, <1>4, SeqEqual
<1>6. Head(s) = s[1]
  OBVIOUS
<1> QED BY <1>2, <1>5, <1>6
-----------------------------------------------------------------------------
(* The three ways in which a step changes the slots together with the      *)
(* entries, each the same fact about order and entries that the invariant  *)
(* and the refinement need.                                                *)

\* An eviction (IsVictim) and a Dequeue (the first slot) remove slot i.
LEMMA SlotRemoved ==
    ASSUME TypeOK, OrderMatchesEntries, NEW i \in DOMAIN order
    PROVE  /\ order[i] \in EqID
           /\ Exists(order[i])
           /\ RemoveAt(order, i) \in Seq(EqID)
           /\ Len(RemoveAt(order, i)) = Len(order) - 1
           /\ Len(order) \in Nat
           /\ IsInjective(RemoveAt(order, i))
           /\ \A e \in EqID : Contains(RemoveAt(order, i), e)
                                 <=> Exists(e) /\ e # order[i]
           /\ \A e, f \in EqID : e # order[i] /\ f # order[i] /\ Before(order, e, f)
                                 => Before(RemoveAt(order, i), e, f)
<1>1. /\ order \in Seq(EqID)
      /\ Len(order) \in Nat
      /\ i \in 1 .. Len(order)
  BY LenProperties DEF TypeOK
<1>2. order[i] \in EqID
  BY <1>1, ElementOfSeq
<1>3. Contains(order, order[i])
  BY <1>1 DEF Contains
<1>4. IsInjective(order)
  BY DEF OrderMatchesEntries
<1>5. /\ RemoveAt(order, i) \in Seq(EqID)
      /\ Len(RemoveAt(order, i)) = Len(order) - 1
  BY <1>1, RemoveAtProperties
<1>6. /\ IsInjective(RemoveAt(order, i))
      /\ \A e \in EqID : Contains(RemoveAt(order, i), e)
                            <=> Contains(order, e) /\ e # order[i]
      /\ \A e, f \in EqID : e # order[i] /\ f # order[i] /\ Before(order, e, f)
                            => Before(RemoveAt(order, i), e, f)
  BY <1>1, <1>4, RemoveSlot
<1> QED BY <1>1, <1>2, <1>3, <1>5, <1>6 DEF OrderMatchesEntries

LEMMA QueueTyped ==
    ASSUME TypeOK
    PROVE  /\ order \in Seq(EqID)
           /\ Len(order) \in Nat
           /\ DOMAIN order = 1 .. Len(order)
           /\ order = <<>> <=> Len(order) = 0
BY LenProperties, EmptySeq DEF TypeOK

-----------------------------------------------------------------------------
(* Preservation of the invariant, one lemma per action.                    *)

LEMMA InitInv == QueueInit => IInv
<1> SUFFICES ASSUME QueueInit PROVE IInv
  OBVIOUS
<1>1. order \in Seq(EqID) /\ Len(order) = 0 /\ DOMAIN order = {}
  BY EmptySeq DEF QueueInit
<1>2. TypeOK
  <2>1. Len(order) <= Capacity
    BY <1>1, CapacityAssumption
  <2>2. entries \in [EqID -> Notice \cup {NoNotice}]
    BY DEF QueueInit
  <2> QED BY <1>1, <2>1, <2>2 DEF QueueInit, TypeOK
<1>3. OrderMatchesEntries
  BY <1>1 DEF QueueInit, OrderMatchesEntries, IsInjective, Contains, Exists
<1>4. NoLostWakeup
  BY DEF QueueInit, NoLostWakeup
<1> QED BY <1>2, <1>3, <1>4 DEF IInv

LEMMA CoalesceInv ==
    ASSUME IInv, NEW n \in Notice, Coalesce(n)
    PROVE  IInv'
<1> USE DEF IInv, Coalesce, Exists, Wake
<1>1. n.eqID \in EqID
  BY DEF Notice
<1>2. TypeOK'
  BY <1>1 DEF TypeOK
<1>3. OrderMatchesEntries'
  BY <1>1, NoNoticeAssumption DEF TypeOK, OrderMatchesEntries
<1>4. NoLostWakeup'
  BY DEF NoLostWakeup
<1> QED BY <1>2, <1>3, <1>4

LEMMA AppendNewInv ==
    ASSUME IInv, NEW n \in Notice, AppendNew(n)
    PROVE  IInv'
<1> USE DEF IInv, AppendNew, Exists, Wake
<1>1. n.eqID \in EqID
  BY DEF Notice
<1>2. IsInjective(order) /\ ~Contains(order, n.eqID)
  BY <1>1 DEF OrderMatchesEntries
<1>3. /\ order' \in Seq(EqID)
      /\ Len(order') = Len(order) + 1
      /\ IsInjective(order')
      /\ \A e \in EqID : Contains(order', e) <=> Contains(order, e) \/ e = n.eqID
  BY <1>1, <1>2, QueueTyped, AddSlot
<1>4. TypeOK'
  BY <1>1, <1>3, QueueTyped, CapacityAssumption DEF TypeOK, AtCapacity
<1>5. OrderMatchesEntries'
  BY <1>1, <1>3, NoNoticeAssumption DEF TypeOK, OrderMatchesEntries
<1>6. NoLostWakeup'
  BY DEF NoLostWakeup
<1> QED BY <1>4, <1>5, <1>6

LEMMA EvictAndAppendInv ==
    ASSUME IInv, NEW n \in Notice, EvictAndAppend(n)
    PROVE  IInv'
<1> USE DEF IInv
<1>1. n.eqID \in EqID /\ ~Exists(n.eqID)
  BY DEF Notice, EvictAndAppend
<1>2. PICK i \in DOMAIN order :
         /\ IsVictim(i)
         /\ order' = Append(RemoveAt(order, i), n.eqID)
         /\ entries' = [entries EXCEPT ![order[i]] = NoNotice, ![n.eqID] = n]
  BY DEF EvictAndAppend
<1> DEFINE rest == RemoveAt(order, i)
<1>3. /\ order[i] \in EqID
      /\ Exists(order[i])
      /\ rest \in Seq(EqID)
      /\ Len(rest) = Len(order) - 1
      /\ Len(order) \in Nat
      /\ IsInjective(rest)
      /\ \A e \in EqID : Contains(rest, e) <=> Exists(e) /\ e # order[i]
  BY SlotRemoved
<1>4. order' = Append(rest, n.eqID)
  BY <1>2
<1> HIDE DEF rest
<1>5. /\ order' \in Seq(EqID)
      /\ Len(order') = Len(order)
      /\ IsInjective(order')
      /\ \A e \in EqID : Contains(order', e) <=> Contains(rest, e) \/ e = n.eqID
  BY <1>1, <1>3, <1>4, AddSlot
<1>6. TypeOK'
  BY <1>1, <1>2, <1>3, <1>5 DEF TypeOK, EvictAndAppend, Wake
<1>7. OrderMatchesEntries'
  <2>1. ASSUME NEW e \in EqID
        PROVE  /\ Exists(e)' <=> Contains(order', e)
               /\ Exists(e)' => entries'[e].eqID = e
    <3>1. CASE e = n.eqID
      BY <1>1, <1>2, <1>5, <3>1, NoNoticeAssumption DEF TypeOK, Exists
    <3>2. CASE e # n.eqID /\ e = order[i]
      BY <1>1, <1>2, <1>3, <1>5, <3>2 DEF TypeOK, Exists
    <3>3. CASE e # n.eqID /\ e # order[i]
      <4>1. entries'[e] = entries[e]
        BY <1>2, <3>3 DEF TypeOK
      <4> QED BY <1>3, <1>5, <3>3, <4>1 DEF Exists, OrderMatchesEntries
    <3> QED BY <3>1, <3>2, <3>3
  <2> QED BY <1>5, <2>1 DEF OrderMatchesEntries
<1>8. NoLostWakeup'
  BY DEF NoLostWakeup, EvictAndAppend, Wake
<1> QED BY <1>6, <1>7, <1>8

LEMMA TakeInv ==
    ASSUME IInv, Take
    PROVE  IInv'
<1> USE DEF IInv
<1>1. /\ order # <<>>
      /\ taken' = entries[Head(order)]
      /\ order' = Tail(order)
      /\ entries' = [entries EXCEPT ![Head(order)] = NoNotice]
      /\ UNCHANGED <<closed, consumer>>
      /\ consumer = "awake"
  BY DEF Take
<1>2. /\ 1 \in DOMAIN order
      /\ Head(order) = order[1]
      /\ order' = RemoveAt(order, 1)
  BY <1>1, QueueTyped, TailIsRemoval
<1>3. /\ order[1] \in EqID
      /\ order' \in Seq(EqID)
      /\ Len(order') = Len(order) - 1
      /\ Len(order) \in Nat
      /\ IsInjective(order')
      /\ \A e \in EqID : Contains(order', e) <=> Exists(e) /\ e # order[1]
  BY <1>2, SlotRemoved
<1>4. TypeOK'
  BY <1>1, <1>2, <1>3, CapacityAssumption DEF TypeOK
<1>5. OrderMatchesEntries'
  BY <1>1, <1>2, <1>3 DEF TypeOK, OrderMatchesEntries, Exists
<1>6. NoLostWakeup'
  BY <1>1 DEF NoLostWakeup
<1> QED BY <1>4, <1>5, <1>6

\* What Dequeue hands out is a notice that was in the queue (queue.go:111-123).
LEMMA TakenIsNotice ==
    ASSUME IInv, Take
    PROVE  taken' \in Notice
<1>1. order # <<>> /\ taken' = entries[Head(order)]
  BY DEF Take
<1>2. 1 \in DOMAIN order /\ Head(order) = order[1]
  BY <1>1, QueueTyped, TailIsRemoval DEF IInv
<1>3. order[1] \in EqID /\ Exists(order[1])
  BY <1>2, SlotRemoved DEF IInv
<1> QED BY <1>1, <1>2, <1>3 DEF IInv, TypeOK, Exists

LEMMA NextInv == IInv /\ [QueueNext]_queueVars => IInv'
<1> SUFFICES ASSUME IInv, [QueueNext]_queueVars PROVE IInv'
  OBVIOUS
<1>1. ASSUME UNCHANGED queueVars PROVE IInv'
  BY <1>1 DEF IInv, TypeOK, OrderMatchesEntries, Exists, NoLostWakeup, queueVars
<1>2. ASSUME NEW n \in Notice, Ignore(n) PROVE IInv'
  BY <1>1, <1>2 DEF Ignore
<1>3. ASSUME NEW n \in Notice, Coalesce(n) PROVE IInv'
  BY <1>3, CoalesceInv
<1>4. ASSUME NEW n \in Notice, AppendNew(n) PROVE IInv'
  BY <1>4, AppendNewInv
<1>5. ASSUME NEW n \in Notice, EvictAndAppend(n) PROVE IInv'
  BY <1>5, EvictAndAppendInv
<1>6. ASSUME Park PROVE IInv'
  BY <1>6 DEF Park, IInv, TypeOK, OrderMatchesEntries, Exists, NoLostWakeup
<1>7. ASSUME Take PROVE IInv'
  BY <1>7, TakeInv
<1>8. ASSUME GiveUp PROVE IInv'
  BY <1>8 DEF GiveUp, IInv, TypeOK, OrderMatchesEntries, Exists, NoLostWakeup
<1>9. ASSUME Close PROVE IInv'
  BY <1>9 DEF Close, Wake, IInv, TypeOK, OrderMatchesEntries, Exists, NoLostWakeup
<1> QED
  BY <1>1, <1>2, <1>3, <1>4, <1>5, <1>6, <1>7, <1>8, <1>9
     DEF QueueNext, Enqueue, Dequeue

LEMMA Invariance == QueueSpec => []IInv
<1> QED BY InitInv, NextInv, PTL DEF QueueSpec

-----------------------------------------------------------------------------
(* No step lets a notice overtake another.                                 *)

LEMMA AppendNewKeepsSlots ==
    ASSUME IInv, NEW n \in Notice, AppendNew(n)
    PROVE  KeepsSlots
<1> USE DEF IInv, AppendNew
<1>1. n.eqID \in EqID
  BY DEF Notice
<1>2. IsInjective(order) /\ ~Contains(order, n.eqID)
  BY <1>1 DEF OrderMatchesEntries
<1>3. /\ \A e, f \in EqID : Before(order, e, f) => Before(order', e, f)
      /\ \A e \in EqID : Contains(order, e) => Before(order', e, n.eqID)
  BY <1>1, <1>2, QueueTyped, AddSlot
<1>4. \A f \in EqID : Exists(f)' /\ ~Exists(f) => f = n.eqID
  BY <1>1 DEF TypeOK, Exists
<1> QED BY <1>3, <1>4 DEF KeepsSlots, OrderMatchesEntries

LEMMA EvictAndAppendKeepsSlots ==
    ASSUME IInv, NEW n \in Notice, EvictAndAppend(n)
    PROVE  KeepsSlots
<1> USE DEF IInv
<1>1. n.eqID \in EqID /\ ~Exists(n.eqID)
  BY DEF Notice, EvictAndAppend
<1>2. PICK i \in DOMAIN order :
         /\ order' = Append(RemoveAt(order, i), n.eqID)
         /\ entries' = [entries EXCEPT ![order[i]] = NoNotice, ![n.eqID] = n]
  BY DEF EvictAndAppend
<1> DEFINE rest == RemoveAt(order, i)
<1>3. /\ order[i] \in EqID
      /\ Exists(order[i])
      /\ rest \in Seq(EqID)
      /\ IsInjective(rest)
      /\ \A e \in EqID : Contains(rest, e) <=> Exists(e) /\ e # order[i]
      /\ \A e, f \in EqID : e # order[i] /\ f # order[i] /\ Before(order, e, f)
                            => Before(rest, e, f)
  BY SlotRemoved
<1>4. order' = Append(rest, n.eqID)
  BY <1>2
<1> HIDE DEF rest
<1>5. /\ \A e, f \in EqID : Before(rest, e, f) => Before(order', e, f)
      /\ \A e \in EqID : Contains(rest, e) => Before(order', e, n.eqID)
  BY <1>1, <1>3, <1>4, AddSlot
<1>6. \A f \in EqID : Exists(f)' => f # order[i]
  BY <1>1, <1>2, <1>3 DEF TypeOK, Exists
<1>7. \A f \in EqID : Exists(f)' /\ ~Exists(f) => f = n.eqID
  BY <1>1, <1>2, <1>3 DEF TypeOK, Exists
<1>8. ASSUME NEW e \in EqID, NEW f \in EqID,
             Exists(e), Exists(e)', Exists(f)',
             Exists(f) => Before(order, e, f)
      PROVE  Before(order', e, f)
  <2>1. e # order[i] /\ f # order[i]
    BY <1>6, <1>8
  <2>2. CASE Exists(f)
    BY <1>3, <1>5, <1>8, <2>1, <2>2
  <2>3. CASE ~Exists(f)
    BY <1>3, <1>5, <1>7, <1>8, <2>1, <2>3
  <2> QED BY <2>2, <2>3
<1> QED BY <1>8 DEF KeepsSlots

LEMMA TakeKeepsSlots ==
    ASSUME IInv, Take
    PROVE  KeepsSlots
<1> USE DEF IInv
<1>1. /\ order # <<>>
      /\ order' = Tail(order)
      /\ entries' = [entries EXCEPT ![Head(order)] = NoNotice]
  BY DEF Take
<1>2. /\ 1 \in DOMAIN order
      /\ Head(order) = order[1]
      /\ order' = RemoveAt(order, 1)
  BY <1>1, QueueTyped, TailIsRemoval
<1>3. /\ order[1] \in EqID
      /\ \A e, f \in EqID : e # order[1] /\ f # order[1] /\ Before(order, e, f)
                            => Before(order', e, f)
  BY <1>2, SlotRemoved
<1>4. \A f \in EqID : Exists(f)' => f # order[1] /\ Exists(f)
  BY <1>1, <1>2, <1>3 DEF TypeOK, Exists
<1> QED BY <1>3, <1>4 DEF KeepsSlots

LEMMA NextKeepsSlots == IInv /\ [QueueNext]_queueVars => [KeepsSlots]_queueVars
<1> SUFFICES ASSUME IInv, QueueNext PROVE KeepsSlots
  OBVIOUS
<1>1. ASSUME UNCHANGED order,
             \A e \in EqID : Exists(e)' => Exists(e)
      PROVE  KeepsSlots
  BY <1>1 DEF KeepsSlots
<1>2. ASSUME NEW n \in Notice, Ignore(n) PROVE KeepsSlots
  BY <1>1, <1>2 DEF Ignore, queueVars, Exists
<1>3. ASSUME NEW n \in Notice, Coalesce(n) PROVE KeepsSlots
  BY <1>1, <1>3 DEF Coalesce, Exists, IInv, TypeOK
<1>4. ASSUME NEW n \in Notice, AppendNew(n) PROVE KeepsSlots
  BY <1>4, AppendNewKeepsSlots
<1>5. ASSUME NEW n \in Notice, EvictAndAppend(n) PROVE KeepsSlots
  BY <1>5, EvictAndAppendKeepsSlots
<1>6. ASSUME Take PROVE KeepsSlots
  BY <1>6, TakeKeepsSlots
<1>7. ASSUME Park \/ GiveUp \/ Close PROVE KeepsSlots
  BY <1>1, <1>7 DEF Park, GiveUp, Close, Exists
<1> QED
  BY <1>2, <1>3, <1>4, <1>5, <1>6, <1>7 DEF QueueNext, Enqueue, Dequeue

\* Only two steps let a notice leave that is not replaced: Take, which takes the
\* oldest, and an eviction, whose victim has nothing as unimportant before it.
LEMMA EvictAndAppendInTurn ==
    ASSUME IInv, NEW n \in Notice, EvictAndAppend(n)
    PROVE  LeavesInTurn
<1> USE DEF IInv
<1>1. PICK i \in DOMAIN order :
         /\ IsVictim(i)
         /\ entries' = [entries EXCEPT ![order[i]] = NoNotice, ![n.eqID] = n]
  BY DEF EvictAndAppend
<1>2. \A e \in EqID : Exists(e) /\ ~Exists(e)' => e = order[i]
  BY <1>1, NoNoticeAssumption DEF TypeOK, Exists
<1>3. ASSUME NEW e \in EqID, NEW f \in EqID, e = order[i], Exists(e), Exists(f),
             Before(order, f, e)
      PROVE  entries[e].priority < entries[f].priority
  <2>1. PICK k, l \in DOMAIN order : k < l /\ order[k] = f /\ order[l] = e
    BY <1>3 DEF Before
  <2>2. l = i
    BY <1>3, <2>1 DEF OrderMatchesEntries, IsInjective
  <2>3. k \in Int /\ i \in Int /\ ~(i <= k)
    BY <2>1, <2>2, QueueTyped
  <2> QED BY <1>1, <1>3, <2>1, <2>3 DEF IsVictim, PriorityAt
<1> QED BY <1>2, <1>3 DEF LeavesInTurn

LEMMA TakeInTurn ==
    ASSUME IInv, Take
    PROVE  LeavesInTurn
<1> USE DEF IInv
<1>1. /\ order # <<>>
      /\ entries' = [entries EXCEPT ![Head(order)] = NoNotice]
  BY DEF Take
<1>2. 1 \in DOMAIN order /\ Head(order) = order[1]
  BY <1>1, QueueTyped, TailIsRemoval
<1>3. \A e \in EqID : Exists(e) /\ ~Exists(e)' => e = order[1]
  BY <1>1, <1>2 DEF TypeOK, Exists
<1>4. \A f \in EqID : ~Before(order, f, order[1])
  BY <1>2, QueueTyped DEF Before, OrderMatchesEntries, IsInjective
<1> QED BY <1>3, <1>4 DEF LeavesInTurn

LEMMA NextInTurn == IInv /\ [QueueNext]_queueVars => [LeavesInTurn]_queueVars
<1> SUFFICES ASSUME IInv, QueueNext PROVE LeavesInTurn
  OBVIOUS
<1>1. ASSUME \A e \in EqID : Exists(e) => Exists(e)'
      PROVE  LeavesInTurn
  BY <1>1 DEF LeavesInTurn
<1>2. ASSUME NEW n \in Notice, Ignore(n) \/ Coalesce(n) \/ AppendNew(n)
      PROVE  LeavesInTurn
  BY <1>1, <1>2, NoNoticeAssumption
     DEF Ignore, Coalesce, AppendNew, queueVars, Exists, IInv, TypeOK
<1>3. ASSUME Park \/ GiveUp \/ Close PROVE LeavesInTurn
  BY <1>1, <1>3 DEF Park, GiveUp, Close, Exists
<1> QED
  BY <1>2, <1>3, EvictAndAppendInTurn, TakeInTurn DEF QueueNext, Enqueue, Dequeue

-----------------------------------------------------------------------------
(* The queue as a box of notices: what the box holds are the entries, and  *)
(* it is full when the order is as long as Capacity.                       *)

LEMMA HeldCounted ==
    ASSUME TypeOK, OrderMatchesEntries
    PROVE  Box!Cardinality(Box!Held) = Len(order)
<1>1. /\ Len(order) \in Nat
      /\ DOMAIN order = 1 .. Len(order)
      /\ order \in [1 .. Len(order) -> EqID]
  BY QueueTyped, LenProperties DEF TypeOK
<1>2. \A e \in Box!Held : \E i \in 1 .. Len(order) : order[i] = e
  BY <1>1 DEF Box!Held, OrderMatchesEntries, Exists, Contains
<1>3. \A i \in 1 .. Len(order) : order[i] \in Box!Held
  BY <1>1 DEF Box!Held, OrderMatchesEntries, Exists, Contains
<1>4. order \in [1 .. Len(order) -> Box!Held]
  BY <1>1, <1>3
<1>5. order \in Injection(1 .. Len(order), Box!Held)
  BY <1>4 DEF Injection, OrderMatchesEntries
<1>6. order \in Surjection(1 .. Len(order), Box!Held)
  BY <1>2, <1>4 DEF Surjection
<1>7. ExistsBijection(1 .. Len(order), Box!Held)
  BY <1>5, <1>6 DEF Bijection, ExistsBijection
<1>8. Cardinality(Box!Held) = Len(order)
  BY <1>1, <1>7, FS_CountingElements
<1>9. Box!Cardinality(Box!Held) = Cardinality(Box!Held)
  BY DEF Box!Cardinality, Cardinality
<1> QED BY <1>8, <1>9

LEMMA EvictAndAppendDisplaces ==
    ASSUME IInv, NEW n \in Notice, EvictAndAppend(n)
    PROVE  Box!Displace(n)
<1> USE DEF IInv
<1>1. PICK i \in DOMAIN order :
         /\ IsVictim(i)
         /\ entries' = [entries EXCEPT ![order[i]] = NoNotice, ![n.eqID] = n]
  BY DEF EvictAndAppend
<1>2. order[i] \in EqID /\ Exists(order[i])
  BY SlotRemoved
<1>3. \A e \in EqID : Exists(e) => entries[e].priority \in Int
  BY DEF TypeOK, Exists, Notice, Priority, Normal, Final, Cancellation
<1>4. ASSUME NEW f \in EqID, Exists(f)
      PROVE  entries[order[i]].priority <= entries[f].priority
  <2>1. PICK j \in DOMAIN order : order[j] = f
    BY <1>4, QueueTyped DEF OrderMatchesEntries, Contains
  <2> QED BY <1>1, <1>2, <1>3, <1>4, <2>1 DEF IsVictim, PriorityAt
<1>5. order[i] \in Box!Held /\ Box!Expendable(order[i])
  BY <1>2, <1>4 DEF Box!Held, Box!Expendable, Exists
<1>6. Box!Cardinality(Box!Held) = Capacity
  BY HeldCounted, QueueTyped, CapacityAssumption DEF EvictAndAppend, AtCapacity, TypeOK
<1> QED BY <1>1, <1>5, <1>6 DEF EvictAndAppend, Box!Displace, Box!Held, Exists

LEMMA NextImplementsBox ==
    IInv /\ [QueueNext]_queueVars => [Box!BoxNext]_Box!boxVars
<1> SUFFICES ASSUME IInv, [QueueNext]_queueVars
             PROVE  [Box!BoxNext]_Box!boxVars
  OBVIOUS
<1> USE DEF IInv, Box!boxVars, Box!BoxNext
<1>1. ASSUME NEW n \in Notice, Coalesce(n) PROVE Box!Put(n)
  BY <1>1 DEF Coalesce, Box!Put, Box!Held, Exists, Notice
<1>2. ASSUME NEW n \in Notice, AppendNew(n) PROVE Box!Put(n)
  <2>1. Box!Cardinality(Box!Held) < Capacity
    BY <1>2, HeldCounted, QueueTyped, CapacityAssumption DEF AppendNew, AtCapacity
  <2> QED BY <1>2, <2>1 DEF AppendNew, Box!Put
<1>3. ASSUME NEW n \in Notice, EvictAndAppend(n) PROVE Box!Displace(n)
  BY <1>3, EvictAndAppendDisplaces
<1>4. ASSUME Take PROVE \E e \in EqID : Box!TakeOut(e)
  <2>1. /\ 1 \in DOMAIN order
        /\ Head(order) = order[1]
    BY <1>4, QueueTyped, TailIsRemoval DEF Take
  <2>2. Head(order) \in Box!Held
    BY <2>1, SlotRemoved DEF Box!Held, Exists
  <2>3. Head(order) \in EqID
    BY <2>2 DEF Box!Held
  <2>4. Box!TakeOut(Head(order))
    BY <1>4, <2>2 DEF Take, Box!TakeOut
  <2> QED BY <2>3, <2>4
<1>5. ASSUME GiveUp PROVE Box!NoMore
  <2>1. Box!Held = {}
    BY <1>5, QueueTyped DEF GiveUp, Box!Held, OrderMatchesEntries, Contains, Exists
  <2> QED BY <1>5, <2>1 DEF GiveUp, Box!NoMore
<1>6. ASSUME Close PROVE Box!Shut
  BY <1>6 DEF Close, Box!Shut
<1>7. ASSUME NEW n \in Notice, Ignore(n) PROVE UNCHANGED Box!boxVars
  BY <1>7 DEF Ignore, queueVars
<1>8. ASSUME Park PROVE UNCHANGED Box!boxVars
  BY <1>8 DEF Park
<1>9. ASSUME UNCHANGED queueVars PROVE UNCHANGED Box!boxVars
  BY <1>9 DEF queueVars
<1> QED
  BY <1>1, <1>2, <1>3, <1>4, <1>5, <1>6, <1>7, <1>8, <1>9
     DEF QueueNext, Enqueue, Dequeue

-----------------------------------------------------------------------------
(* The theorems.                                                           *)

\* Every variable keeps its type, and the queue its bound: Enqueue evicts
\* before it appends (queue.go:78-84), so no run of calls outgrows Capacity.
THEOREM TypeCorrect == QueueSpec => []TypeOK
<1>1. IInv => TypeOK
  BY DEF IInv
<1> QED BY <1>1, Invariance, PTL

\* q.order and q.entries never disagree, whatever is coalesced, evicted,
\* dequeued or closed in whatever order (queue.go:64-133).
THEOREM OrderAlwaysMatchesEntries == QueueSpec => []OrderMatchesEntries
<1>1. IInv => OrderMatchesEntries
  BY DEF IInv
<1> QED BY <1>1, Invariance, PTL

\* Every Enqueue that adds something and every Close wakes the goroutine that
\* waits in Dequeue, so it never sleeps through either (queue.go:74, 84, 132).
THEOREM NoWakeupIsLost == QueueSpec => []NoLostWakeup
<1>1. IInv => NoLostWakeup
  BY DEF IInv
<1> QED BY <1>1, Invariance, PTL

\* No call overtakes a delivery slot, and none takes a notice out of turn but an
\* eviction, and that the oldest of the least important ones (queue.go:34-41,
\* 87-98, 107-109).
THEOREM SlotsAreKept == QueueSpec => SlotsKept
<1> QED BY Invariance, NextKeepsSlots, NextInTurn, PTL DEF QueueSpec, SlotsKept

\* Seen from outside, the queue is the box: it loses a notice only at
\* capacity and only a least important one, hands out the latest report about
\* an earthquake once, and drains after Close (queue.go:27-41, 107-127).
THEOREM QueueImplementsBox == QueueSpec => ImplementsBox
<1>1. QueueInit => Box!BoxInit
  BY DEF QueueInit, Box!BoxInit
<1> QED
  BY <1>1, Invariance, NextImplementsBox, PTL
     DEF QueueSpec, ImplementsBox, Box!BoxSpec
=============================================================================
