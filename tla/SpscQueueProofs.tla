-------------------------- MODULE SpscQueueProofs ---------------------------
(***************************************************************************)
(* SpscQueue implements SpscFifo, for every capacity of the first ring     *)
(* buffer and any number of pushes.                                        *)
(***************************************************************************)
EXTENDS SpscQueue, SequenceTheorems, TLAPS

-----------------------------------------------------------------------------
(* Slots *)

(* A slot is an index of the storage.                                      *)
LEMMA SlotInRange ==
  ASSUME NEW c \in Nat, c > 0, NEW a \in Nat
  PROVE  a % c \in 0..(c - 1)
OBVIOUS

(* Two indices less than the capacity apart have different slots.          *)
LEMMA SlotsDiffer ==
  ASSUME NEW c \in Nat, c > 0, NEW a \in Nat, NEW b \in Nat, a < b, b < a + c
  PROVE  a % c # b % c
<1> DEFINE p == a \div c
           q == b \div c
<1>1. p \in Int /\ q \in Int /\ a = c * p + (a % c) /\ b = c * q + (b % c)
  OBVIOUS
<1>2. SUFFICES ASSUME a % c = b % c PROVE FALSE
  OBVIOUS
<1>3. b - a = c * q - c * p
  BY <1>1, <1>2, SlotInRange
<1> HIDE DEF p, q
<1>4. b - a = c * (q - p)
  BY <1>1, <1>3
<1>5. CASE q - p >= 1
  <2>1. c * (q - p) >= c * 1
    BY <1>1, <1>5
  <2> QED BY <2>1, <1>4
<1>6. CASE q - p <= 0
  <2>1. c * (q - p) <= 0
    BY <1>1, <1>6
  <2> QED BY <2>1, <1>4
<1> QED BY <1>1, <1>5, <1>6

-----------------------------------------------------------------------------
(* The items between popped and pushed *)

Rest(s, p) == SubSeq(s, p + 1, Len(s))

(* What is left is a sequence of the items behind the first p.             *)
LEMMA RestType ==
  ASSUME NEW S, NEW s \in Seq(S), NEW p \in Nat, p <= Len(s)
  PROVE  /\ Rest(s, p) \in Seq(S)
         /\ Len(Rest(s, p)) = Len(s) - p
         /\ \A i \in 1..(Len(s) - p) : Rest(s, p)[i] = s[p + i]
BY SubSeqProperties DEF Rest

(* Nothing is left when everything was removed.                            *)
LEMMA RestEmpty ==
  ASSUME NEW S, NEW s \in Seq(S), NEW p \in Nat, p <= Len(s)
  PROVE  Rest(s, p) = <<>> <=> p = Len(s)
BY RestType, EmptySeq

(* A push appends to what is left.                                         *)
LEMMA RestPush ==
  ASSUME NEW S, NEW s \in Seq(S), NEW p \in Nat, p <= Len(s), NEW v \in S
  PROVE  Rest(Append(s, v), p) = Append(Rest(s, p), v)
<1>1. PICK t \in Seq(S) : t = Append(s, v)
  <2>1. Append(s, v) \in Seq(S)
    BY AppendProperties
  <2> QED BY <2>1, Zenon
<1>2. /\ Len(t) = Len(s) + 1 /\ Len(s) \in Nat
      /\ t[Len(s) + 1] = v
      /\ \A i \in 1..Len(s) : t[i] = s[i]
  BY <1>1, LenProperties
<1>3. /\ Rest(t, p) \in Seq(S) /\ Len(Rest(t, p)) = Len(t) - p
      /\ \A i \in 1..(Len(t) - p) : Rest(t, p)[i] = t[p + i]
  <2>1. p <= Len(t)
    BY <1>2
  <2> QED BY <2>1, RestType
<1>4. /\ Rest(s, p) \in Seq(S) /\ Len(Rest(s, p)) = Len(s) - p
      /\ \A i \in 1..(Len(s) - p) : Rest(s, p)[i] = s[p + i]
  BY RestType
<1>5. PICK u \in Seq(S) : u = Append(Rest(s, p), v)
  <2>1. Append(Rest(s, p), v) \in Seq(S)
    BY <1>4, AppendProperties
  <2> QED BY <2>1, Zenon
<1>6. /\ Len(u) = Len(s) - p + 1
      /\ u[Len(s) - p + 1] = v
      /\ \A i \in 1..(Len(s) - p) : u[i] = Rest(s, p)[i]
  BY <1>2, <1>4, <1>5
<1>7. ASSUME NEW i \in 1..Len(u)
      PROVE  Rest(t, p)[i] = u[i]
  <2>1. CASE i = Len(s) - p + 1
    BY <2>1, <1>2, <1>3, <1>6
  <2>2. CASE i \in 1..(Len(s) - p)
    BY <2>2, <1>2, <1>3, <1>4, <1>6
  <2> QED BY <2>1, <2>2, <1>2, <1>6
<1>8. Len(Rest(t, p)) = Len(u)
  BY <1>2, <1>3, <1>6
<1>9. Rest(t, p) = u
  BY <1>3, <1>7, <1>8, SeqEqual
<1> QED BY <1>1, <1>5, <1>9

(* Removing one item removes the first of what is left.                    *)
LEMMA RestPop ==
  ASSUME NEW S, NEW s \in Seq(S), NEW p \in Nat, p < Len(s)
  PROVE  /\ Head(Rest(s, p)) = s[p + 1]
         /\ Tail(Rest(s, p)) = Rest(s, p + 1)
<1>1. /\ Rest(s, p) \in Seq(S) /\ Len(Rest(s, p)) = Len(s) - p
      /\ \A i \in 1..(Len(s) - p) : Rest(s, p)[i] = s[p + i]
  <2>1. p <= Len(s)
    BY LenProperties
  <2> QED BY <2>1, RestType
<1>2. /\ Rest(s, p + 1) \in Seq(S) /\ Len(Rest(s, p + 1)) = Len(s) - (p + 1)
      /\ \A i \in 1..(Len(s) - (p + 1)) : Rest(s, p + 1)[i] = s[p + 1 + i]
  <2>1. p + 1 \in Nat /\ p + 1 <= Len(s)
    OBVIOUS
  <2> QED BY <2>1, RestType
<1>3. Rest(s, p) # <<>>
  BY <1>1
<1>4. Head(Rest(s, p)) = s[p + 1]
  BY <1>1, <1>3
<1>5. /\ Tail(Rest(s, p)) \in Seq(S)
      /\ Len(Tail(Rest(s, p))) = Len(s) - (p + 1)
      /\ \A i \in 1..(Len(s) - (p + 1)) : Tail(Rest(s, p))[i] = Rest(s, p)[i + 1]
  BY <1>1, <1>3, HeadTailProperties
<1>6. ASSUME NEW i \in 1..(Len(s) - (p + 1))
      PROVE  Tail(Rest(s, p))[i] = Rest(s, p + 1)[i]
  BY <1>1, <1>2, <1>5
<1> QED BY <1>2, <1>4, <1>5, <1>6, SeqEqual

-----------------------------------------------------------------------------
(* Ring buffers *)

(* A new ring buffer is empty, and holds nothing of any sequence.          *)
LEMMA NewRing ==
  ASSUME NEW cap \in Nat, cap > 0, NEW st \in Nat, NEW items
  PROVE  /\ NewBase(cap, st) \in Rings
         /\ RingFits(NewBase(cap, st)) /\ RingHolds(NewBase(cap, st), items)
<1> DEFINE q == NewBase(cap, st)
<1>1. q.mStorage \in [0..(cap - 1) -> Item \cup {Raw}]
  BY DEF NewBase
<1>2. q \in Rings
  BY <1>1 DEF NewBase, Rings
<1>3. RingFits(q)
  BY <1>1 DEF NewBase, RingFits
<1>4. Live(q) = {}
  BY DEF Live, NewBase
<1>5. RingHolds(q, items)
  <2>1. \A s \in 0..(q.capacity - 1) : q.mStorage[s] = Raw
    BY DEF NewBase
  <2> QED BY <1>4, <2>1 DEF RingHolds
<1> QED BY <1>2, <1>3, <1>5

(* Further pushes elsewhere do not concern a ring buffer.                  *)
LEMMA HoldsLonger ==
  ASSUME NEW q \in Rings, NEW items \in Seq(Item), NEW v \in Item,
         RingFits(q), RingHolds(q, items), q.start + q.mPushIdx <= Len(items)
  PROVE  RingHolds(q, Append(items, v))
<1>1. ASSUME NEW j \in Live(q)
      PROVE  Append(items, v)[q.start + j + 1] = items[q.start + j + 1]
  <2>1. q.start \in Nat /\ q.mPopIdx \in Nat /\ q.mPushIdx \in Nat
    BY DEF Rings
  <2>2. q.start + j + 1 \in 1..Len(items)
    BY <2>1, SMTT(30) DEF Live
  <2> QED BY <2>2
<1> QED BY <1>1 DEF RingHolds

(* An item pushed into a ring buffer with room joins those it holds.       *)
LEMMA PushRing ==
  ASSUME NEW q \in Rings, NEW items \in Seq(Item), NEW v \in Item,
         RingFits(q), RingHolds(q, items),
         q.start + q.mPushIdx = Len(items), Size(q) # q.capacity
  PROVE  /\ BasePush(q, v) \in Rings
         /\ RingFits(BasePush(q, v)) /\ RingHolds(BasePush(q, v), Append(items, v))
<1> DEFINE r == BasePush(q, v)
           here == q.mPushIdx % q.capacity
<1>1. /\ q.start \in Nat /\ q.capacity \in Nat /\ q.mPopIdx \in Nat /\ q.mPushIdx \in Nat
      /\ q.capacity > 0 /\ q.mStorage \in [0..(q.capacity - 1) -> Item \cup {Raw}]
      /\ q.mPopIdx <= q.mPushIdx /\ q.mPushIdx < q.mPopIdx + q.capacity
  BY DEF Rings, RingFits, Size
<1>2. here \in 0..(q.capacity - 1)
  BY <1>1, SlotInRange
<1>3. /\ r.start = q.start /\ r.capacity = q.capacity /\ r.mPopIdx = q.mPopIdx
      /\ r.mPushIdx = q.mPushIdx + 1 /\ r.mStorage = [q.mStorage EXCEPT ![here] = v]
  BY DEF BasePush, Rings
<1>4. r.mStorage \in [0..(q.capacity - 1) -> Item \cup {Raw}]
  BY <1>1, <1>2, <1>3
<1>5. r \in Rings
  <2>1. r.mStorage \in UNION {[0..(n - 1) -> Item \cup {Raw}] : n \in Nat}
    BY <1>1, <1>4
  <2> QED BY <1>1, <1>3, <2>1 DEF BasePush, Rings
<1>6. RingFits(r)
  BY <1>1, <1>3, <1>4 DEF RingFits
<1>7. ASSUME NEW j \in Live(r)
      PROVE  r.mStorage[j % r.capacity] = Append(items, v)[r.start + j + 1]
  <2>1. CASE j = q.mPushIdx
    BY <2>1, <1>1, <1>2, <1>3, LenProperties, SMTT(30)
  <2>2. CASE j # q.mPushIdx
    <3>1. j \in Live(q) /\ j \in Nat /\ j < q.mPushIdx /\ q.mPushIdx < j + q.capacity
      BY <2>2, <1>1, <1>3, SMTT(30) DEF Live
    <3>2. j % q.capacity # here /\ j % q.capacity \in 0..(q.capacity - 1)
      BY <3>1, <1>1, SlotsDiffer, SlotInRange
    <3>3. r.mStorage[j % q.capacity] = items[q.start + j + 1]
      BY <3>1, <3>2, <1>1, <1>3 DEF RingHolds
    <3>4. q.start + j + 1 \in 1..Len(items)
      BY <3>1, <1>1, LenProperties
    <3> QED BY <3>3, <3>4, <1>3
  <2> QED BY <2>1, <2>2
<1>8. ASSUME NEW s \in 0..(r.capacity - 1), \A j \in Live(r) : j % r.capacity # s
      PROVE  r.mStorage[s] = Raw
  <2>1. q.mPushIdx \in Live(r) /\ \A j \in Live(q) : j \in Live(r)
    BY <1>1, <1>3 DEF Live
  <2>2. s # here /\ \A j \in Live(q) : j % q.capacity # s
    BY <2>1, <1>3, <1>8
  <2> QED BY <2>2, <1>1, <1>3, <1>8 DEF RingHolds
<1> HIDE DEF r
<1> QED BY <1>5, <1>6, <1>7, <1>8 DEF RingHolds, r

(* The first item leaves a ring buffer that has one.                       *)
LEMMA PopRing ==
  ASSUME NEW q \in Rings, NEW items \in Seq(Item),
         RingFits(q), RingHolds(q, items), q.mPopIdx < q.mPushIdx
  PROVE  /\ BasePop(q) \in Rings
         /\ RingFits(BasePop(q)) /\ RingHolds(BasePop(q), items)
<1> DEFINE r == BasePop(q)
           here == q.mPopIdx % q.capacity
<1>1. /\ q.start \in Nat /\ q.capacity \in Nat /\ q.mPopIdx \in Nat /\ q.mPushIdx \in Nat
      /\ q.capacity > 0 /\ q.mStorage \in [0..(q.capacity - 1) -> Item \cup {Raw}]
      /\ q.mPushIdx <= q.mPopIdx + q.capacity
  BY DEF Rings, RingFits
<1>2. here \in 0..(q.capacity - 1)
  BY <1>1, SlotInRange
<1>3. /\ r.start = q.start /\ r.capacity = q.capacity /\ r.mPopIdx = q.mPopIdx + 1
      /\ r.mPushIdx = q.mPushIdx /\ r.mStorage = [q.mStorage EXCEPT ![here] = Raw]
  BY DEF BasePop, Rings
<1>4. r.mStorage \in [0..(q.capacity - 1) -> Item \cup {Raw}]
  BY <1>1, <1>2, <1>3
<1>5. r \in Rings
  <2>1. r.mStorage \in UNION {[0..(n - 1) -> Item \cup {Raw}] : n \in Nat}
    BY <1>1, <1>4
  <2> QED BY <1>1, <1>3, <2>1 DEF BasePop, Rings
<1>6. RingFits(r)
  BY <1>1, <1>3, <1>4, SMTT(30) DEF RingFits
<1>7. ASSUME NEW j \in Live(r)
      PROVE  r.mStorage[j % r.capacity] = items[r.start + j + 1]
  <2>1. j \in Live(q) /\ j \in Nat /\ q.mPopIdx < j /\ j < q.mPopIdx + q.capacity
    BY <1>1, <1>3 DEF Live
  <2>2. j % q.capacity # here /\ j % q.capacity \in 0..(q.capacity - 1)
    BY <2>1, <1>1, SlotsDiffer, SlotInRange
  <2> QED BY <2>1, <2>2, <1>1, <1>3 DEF RingHolds
<1>8. ASSUME NEW s \in 0..(r.capacity - 1), \A j \in Live(r) : j % r.capacity # s
      PROVE  r.mStorage[s] = Raw
  <2>1. CASE s = here
    BY <2>1, <1>1, <1>2, <1>3
  <2>2. CASE s # here
    <3>1. ASSUME NEW j \in Live(q) PROVE j % q.capacity # s
      <4>1. CASE j = q.mPopIdx
        BY <4>1, <2>2
      <4>2. CASE j # q.mPopIdx
        <5>1. j \in Live(r)
          BY <4>2, <1>1, <1>3 DEF Live
        <5> QED BY <5>1, <1>3, <1>8
      <4> QED BY <4>1, <4>2
    <3> QED BY <2>2, <3>1, <1>1, <1>3, <1>8 DEF RingHolds
  <2> QED BY <2>1, <2>2
<1> HIDE DEF r
<1> QED BY <1>5, <1>6, <1>7, <1>8 DEF RingHolds, r

-----------------------------------------------------------------------------
(* The list of ring buffers *)

(* What the invariant says of the numbers involved: the front ring buffer  *)
(* has an item exactly if the queue has one, and so has the last.          *)
LEMMA Bounds ==
  ASSUME IndInv
  PROVE  /\ mQueues \in Seq(Rings) /\ Len(mQueues) \in Nat /\ Len(mQueues) > 0
         /\ DOMAIN mQueues = 1..Len(mQueues) /\ Len(pushed) \in Nat
         /\ Head(mQueues) = mQueues[1] /\ mQueues[1] \in Rings /\ Back \in Rings
         /\ popped <= Len(pushed)
         /\ popped = Len(pushed) <=> Size(Back) = 0
         /\ popped < Len(pushed) <=> mQueues[1].mPopIdx < mQueues[1].mPushIdx
<1>1. /\ mQueues \in Seq(Rings) /\ mQueues # <<>> /\ pushed \in Seq(Item)
      /\ popped \in Nat
  BY DEF IndInv, RingsInv
<1>2. /\ Len(mQueues) \in Nat /\ Len(mQueues) > 0 /\ Len(pushed) \in Nat
      /\ DOMAIN mQueues = 1..Len(mQueues) /\ Head(mQueues) = mQueues[1]
  BY <1>1, LenProperties, EmptySeq, HeadTailProperties
<1>3. mQueues[1] \in Rings /\ Back \in Rings
  BY <1>1, <1>2, ElementOfSeq DEF Back
<1>4. /\ mQueues[1].start \in Nat /\ mQueues[1].mPopIdx \in Nat /\ mQueues[1].mPushIdx \in Nat
      /\ Back.start \in Nat /\ Back.mPopIdx \in Nat /\ Back.mPushIdx \in Nat
  BY <1>3 DEF Rings
<1>5. /\ mQueues[1].start + mQueues[1].mPopIdx = popped
      /\ Back.start + Back.mPushIdx = Len(pushed)
      /\ mQueues[1].start + mQueues[1].mPushIdx <= Len(pushed)
      /\ mQueues[1].mPopIdx <= mQueues[1].mPushIdx
      /\ Len(mQueues) > 1 => /\ mQueues[1].mPopIdx < mQueues[1].mPushIdx
                              /\ Back.mPopIdx < Back.mPushIdx
  BY <1>1, <1>2 DEF IndInv, RingsInv, Chained, RingFits, Back
<1>6. Len(mQueues) = 1 => Back = mQueues[1]
  BY DEF Back
<1>7. popped <= Len(pushed)
  BY <1>2, <1>4, <1>5
<1>8. /\ popped = Len(pushed) <=> Size(Back) = 0
      /\ popped < Len(pushed) <=> mQueues[1].mPopIdx < mQueues[1].mPushIdx
  <2>1. CASE Len(mQueues) = 1
    BY <2>1, <1>1, <1>2, <1>4, <1>5, <1>6 DEF Size
  <2>2. CASE Len(mQueues) > 1
    BY <2>2, <1>1, <1>2, <1>4, <1>5, SMTT(30) DEF Size
  <2> QED BY <2>1, <2>2, <1>2
<1> QED BY <1>1, <1>2, <1>3, <1>7, <1>8

(* The reference leads to the first item that was not removed.             *)
ReferencedFirst ==
  Referenced = IF reference = NoReference THEN Raw ELSE pushed[popped + 1]

(* It follows from the invariant, since no two ring buffers have the same  *)
(* start.                                                                  *)
LEMMA ReferencedItem == IndInv => ReferencedFirst
<1>1. CASE reference = NoReference
  BY <1>1 DEF Referenced, ReferencedFirst
<1>2. SUFFICES ASSUME IndInv, reference # NoReference
               PROVE  Referenced = pushed[popped + 1]
  BY <1>1 DEF ReferencedFirst
<1> DEFINE q == mQueues[1]
<1>3. /\ q \in Rings /\ DOMAIN mQueues = 1..Len(mQueues) /\ Len(mQueues) \in Nat
      /\ 1 \in DOMAIN mQueues /\ popped \in Nat
      /\ popped < Len(pushed) <=> q.mPopIdx < q.mPushIdx
  BY <1>2, Bounds DEF IndInv
<1>4. /\ answer = "items" /\ popped < Len(pushed)
      /\ reference.start = q.start /\ reference.slot = q.mPopIdx % q.capacity
  BY <1>2 DEF IndInv, ConsumerInv
<1>5. \A i \in DOMAIN mQueues : mQueues[i].start = q.start <=> i = 1
  <2>1. ASSUME NEW i \in DOMAIN mQueues, i # 1 PROVE mQueues[i].start # q.start
    <3>1. 1 < i /\ mQueues[i] \in Rings
      BY <2>1, <1>2, <1>3, Bounds, ElementOfSeq
    <3>2. q.start < mQueues[i].start
      BY <3>1, <1>2, <1>3 DEF IndInv, Chained
    <3> QED BY <3>1, <3>2, <1>3 DEF Rings
  <2> QED BY <2>1
<1>6. (CHOOSE i \in DOMAIN mQueues : mQueues[i].start = reference.start) = 1
  BY <1>3, <1>4, <1>5
<1>7. Referenced = q.mStorage[q.mPopIdx % q.capacity]
  BY <1>2, <1>4, <1>6 DEF Referenced
<1>8. /\ q.mPopIdx \in Nat /\ q.mPushIdx \in Nat /\ q.start \in Nat
      /\ RingHolds(q, pushed) /\ q.start + q.mPopIdx = popped
  BY <1>2, <1>3 DEF IndInv, RingsInv, Chained, Rings
<1>9. q.mPopIdx \in Live(q)
  BY <1>3, <1>4, <1>8 DEF Live
<1> HIDE DEF q
<1>10. q.mStorage[q.mPopIdx % q.capacity] = pushed[q.start + q.mPopIdx + 1]
  BY <1>8, <1>9 DEF RingHolds
<1> QED BY <1>7, <1>8, <1>10

(* The first ring buffer is empty and alone.                               *)
LEMMA InitInv == Init => IndInv
<1> SUFFICES ASSUME Init PROVE IndInv
  OBVIOUS
<1> DEFINE q == NewBase(InitialCapacity, 0)
<1>1. q \in Rings /\ RingFits(q) /\ RingHolds(q, pushed)
  BY NewRing, CapacityAssumption
<1>2. q.start = 0 /\ q.mPopIdx = 0 /\ q.mPushIdx = 0
  BY DEF NewBase
<1>3. mQueues = <<q>> /\ pushed = <<>> /\ popped = 0
  BY DEF Init
<1> HIDE DEF q
<1>4. /\ mQueues \in Seq(Rings) /\ mQueues # <<>> /\ Len(mQueues) = 1
      /\ DOMAIN mQueues = {1} /\ mQueues[1] = q /\ Back = q
      /\ pushed \in Seq(Item) /\ Len(pushed) = 0
  BY <1>1, <1>3 DEF Back
<1>5. RingsInv
  BY <1>1, <1>4 DEF RingsInv
<1>6. Chained
  BY <1>2, <1>3, <1>4 DEF Chained
<1>7. ConsumerInv
  BY DEF Init, ConsumerInv
<1> QED BY <1>3, <1>4, <1>5, <1>6, <1>7 DEF IndInv

(* A ring buffer's numbers, for steps that compare them.                   *)
LEMMA RingNumbers ==
  ASSUME NEW q \in Rings
  PROVE  /\ q.start \in Nat /\ q.capacity \in Nat
         /\ q.mPopIdx \in Nat /\ q.mPushIdx \in Nat
BY DEF Rings

(* A push goes to a ring buffer g, either the last one or a new one behind *)
(* it, that has room and follows on what was pushed before.                *)
LEMMA PushTarget ==
  ASSUME IndInv, NEW v \in Item, push_back(v)
  PROVE  \E g \in Rings :
           /\ RingFits(g) /\ RingHolds(g, pushed)
           /\ g.start + g.mPushIdx = Len(pushed) /\ Size(g) # g.capacity
           /\ mQueues' \in Seq(Rings) /\ Len(mQueues') >= Len(mQueues)
           /\ \A i \in 1..(Len(mQueues') - 1) : mQueues'[i] = mQueues[i]
           /\ mQueues'[Len(mQueues')] = BasePush(g, v)
           /\ \/ Len(mQueues') = Len(mQueues) /\ g = Back
              \/ /\ Len(mQueues') = Len(mQueues) + 1
                 /\ g.start = Len(pushed) /\ g.mPopIdx = 0
                 /\ Back.mPopIdx < Back.mPushIdx
<1> DEFINE n == Len(mQueues)
<1>1. /\ mQueues \in Seq(Rings) /\ n \in Nat /\ n > 0 /\ DOMAIN mQueues = 1..n
      /\ Back \in Rings /\ Len(pushed) \in Nat /\ pushed \in Seq(Item)
  BY Bounds DEF IndInv
<1>2. /\ RingFits(Back) /\ RingHolds(Back, pushed)
      /\ Back.start + Back.mPushIdx = Len(pushed)
  BY <1>1 DEF IndInv, RingsInv, Chained, Back
<1>3. mQueues' = [Grown EXCEPT ![Len(Grown)] = BasePush(Grown[Len(Grown)], v)]
  BY DEF push_back
<1>4. CASE Size(Back) # Back.capacity
  <2>1. Grown = mQueues
    BY <1>4 DEF Grown
  <2>2. BasePush(Back, v) \in Rings
    BY <1>1, <1>2, <1>4, PushRing
  <2>3. mQueues' = [mQueues EXCEPT ![n] = BasePush(Back, v)]
    BY <1>3, <2>1 DEF Back
  <2>4. /\ mQueues' \in Seq(Rings) /\ Len(mQueues') = n
        /\ \A i \in 1..(n - 1) : mQueues'[i] = mQueues[i]
        /\ mQueues'[n] = BasePush(Back, v)
    <3> HIDE DEF n
    <3>1. n \in 1..n
      BY <1>1
    <3>2. Len([mQueues EXCEPT ![n] = BasePush(Back, v)]) = n
      BY <1>1, <2>2, <3>1, ExceptSeq DEF n
    <3>3. mQueues' \in Seq(Rings)
      BY <1>1, <2>2, <2>3, <3>1, ExceptSeq DEF n
    <3> QED BY <1>1, <2>3, <3>1, <3>2, <3>3
  <2>5. PICK g \in Rings : g = Back
    BY <1>1
  <2>6. /\ RingFits(g) /\ RingHolds(g, pushed)
        /\ g.start + g.mPushIdx = Len(pushed) /\ Size(g) # g.capacity
        /\ mQueues' \in Seq(Rings) /\ Len(mQueues') >= Len(mQueues)
        /\ \A i \in 1..(Len(mQueues') - 1) : mQueues'[i] = mQueues[i]
        /\ mQueues'[Len(mQueues')] = BasePush(g, v)
        /\ Len(mQueues') = Len(mQueues) /\ g = Back
    BY <1>1, <1>2, <1>4, <2>4, <2>5
  <2> QED BY <2>6, Zenon
<1>5. CASE Size(Back) = Back.capacity
  <2> DEFINE g == NewBase(Back.capacity * 4, Len(pushed))
  <2>1. Back.capacity * 4 \in Nat /\ Back.capacity * 4 > 0
    BY <1>1, <1>2, RingNumbers DEF RingFits
  <2>2. g \in Rings /\ RingFits(g) /\ RingHolds(g, pushed)
    BY <1>1, <2>1, NewRing
  <2>3. /\ g.start = Len(pushed) /\ g.mPopIdx = 0 /\ g.mPushIdx = 0
        /\ g.capacity = Back.capacity * 4
    BY DEF NewBase
  <2>4. g.start + g.mPushIdx = Len(pushed) /\ Size(g) # g.capacity
    BY <1>1, <2>1, <2>3 DEF Size
  <2>5. Grown = Append(mQueues, g)
    BY <1>5 DEF Grown
  <2> HIDE DEF g
  <2>6. /\ Grown \in Seq(Rings) /\ Len(Grown) = n + 1 /\ Grown[n + 1] = g
        /\ \A i \in 1..n : Grown[i] = mQueues[i]
    BY <1>1, <2>2, <2>5, AppendProperties
  <2>7. BasePush(g, v) \in Rings
    BY <1>1, <2>2, <2>4, PushRing
  <2>8. mQueues' = [Grown EXCEPT ![n + 1] = BasePush(g, v)]
    BY <1>3, <2>6
  <2>9. /\ mQueues' \in Seq(Rings) /\ Len(mQueues') = n + 1
        /\ \A i \in 1..n : mQueues'[i] = mQueues[i]
        /\ mQueues'[n + 1] = BasePush(g, v)
    <3>1. n + 1 \in 1..Len(Grown) /\ DOMAIN Grown = 1..(n + 1)
      BY <1>1, <2>6, LenProperties
    <3>2. mQueues' \in Seq(Rings) /\ Len(mQueues') = n + 1
      BY <2>6, <2>7, <2>8, <3>1, ExceptSeq
    <3> HIDE DEF n
    <3> QED BY <1>1, <2>6, <2>8, <3>1, <3>2
  <2>10. Back.mPopIdx < Back.mPushIdx
    BY <1>1, <1>2, <1>5, RingNumbers DEF Size, RingFits
  <2>11. Len(mQueues') >= n /\ Len(mQueues') - 1 = n
    BY <1>1, <2>9
  <2> HIDE DEF n
  <2>12. /\ RingFits(g) /\ RingHolds(g, pushed)
         /\ g.start + g.mPushIdx = Len(pushed) /\ Size(g) # g.capacity
         /\ mQueues' \in Seq(Rings) /\ Len(mQueues') >= Len(mQueues)
         /\ \A i \in 1..(Len(mQueues') - 1) : mQueues'[i] = mQueues[i]
         /\ mQueues'[Len(mQueues')] = BasePush(g, v)
         /\ Len(mQueues') = Len(mQueues) + 1
         /\ g.start = Len(pushed) /\ g.mPopIdx = 0
         /\ Back.mPopIdx < Back.mPushIdx
    BY <2>2, <2>3, <2>4, <2>9, <2>10, <2>11 DEF n
  <2> QED BY <2>2, <2>12, Zenon
<1> QED BY <1>4, <1>5

(* push_back() preserves the invariant.                                    *)
LEMMA PushInv ==
  ASSUME IndInv, NEW v \in Item, push_back(v)
  PROVE  IndInv'
<1> DEFINE n == Len(mQueues)
           m == mQueues'
           l == Len(m)
<1>1. PICK g \in Rings :
           /\ RingFits(g) /\ RingHolds(g, pushed)
           /\ g.start + g.mPushIdx = Len(pushed) /\ Size(g) # g.capacity
           /\ m \in Seq(Rings) /\ l >= n
           /\ \A i \in 1..(l - 1) : m[i] = mQueues[i]
           /\ m[l] = BasePush(g, v)
           /\ \/ l = n /\ g = Back
              \/ /\ l = n + 1 /\ g.start = Len(pushed) /\ g.mPopIdx = 0
                 /\ Back.mPopIdx < Back.mPushIdx
  BY PushTarget, Zenon
<1>2. /\ mQueues \in Seq(Rings) /\ n \in Nat /\ n > 0 /\ DOMAIN mQueues = 1..n
      /\ Len(pushed) \in Nat /\ pushed \in Seq(Item) /\ popped \in Nat
      /\ Back = mQueues[n] /\ popped <= Len(pushed)
  BY Bounds DEF IndInv, Back
<1>3. /\ pushed' = Append(pushed, v) /\ popped' = popped
      /\ answer' = answer /\ reference' = reference
      /\ pushed' \in Seq(Item) /\ Len(pushed') = Len(pushed) + 1
  BY <1>2, AppendProperties DEF push_back
<1>4. /\ BasePush(g, v) \in Rings /\ RingFits(BasePush(g, v))
      /\ RingHolds(BasePush(g, v), pushed')
  BY <1>1, <1>2, <1>3, PushRing
<1>5. /\ m[l].start = g.start /\ m[l].capacity = g.capacity
      /\ m[l].mPopIdx = g.mPopIdx /\ m[l].mPushIdx = g.mPushIdx + 1
  BY <1>1 DEF BasePush, Rings
<1>6. /\ l \in Nat /\ l > 0 /\ DOMAIN m = 1..l /\ m # <<>>
  BY <1>1, <1>2, LenProperties
<1>7. \A i \in 1..n : mQueues[i] \in Rings
  BY <1>2, ElementOfSeq
<1>8. \A i \in 1..n : RingFits(mQueues[i]) /\ RingHolds(mQueues[i], pushed)
  BY <1>2 DEF IndInv, RingsInv
<1>9. \A i \in 1..n : /\ mQueues[i].start \in Nat /\ mQueues[i].mPopIdx \in Nat
                      /\ mQueues[i].mPushIdx \in Nat
  BY <1>7, RingNumbers
<1>10. /\ g.start \in Nat /\ g.mPopIdx \in Nat /\ g.mPushIdx \in Nat
       /\ g.mPopIdx <= g.mPushIdx /\ g.start + g.mPushIdx = Len(pushed)
  BY <1>1, RingNumbers DEF RingFits
<1>11. /\ l = n \/ l = n + 1
       /\ \A i \in 1..n : i < l => m[i] = mQueues[i]
       /\ l = n => g = mQueues[n]
       /\ l = n + 1 => /\ g.start = Len(pushed) /\ g.mPopIdx = 0 /\ g.mPushIdx = 0
                      /\ mQueues[n].mPopIdx < mQueues[n].mPushIdx
  <2>1. \A i \in 1..n : i < l => i \in 1..(l - 1)
    BY <1>2, <1>6
  <2>2. g.start = Len(pushed) => g.mPushIdx = 0
    BY <1>2, <1>10
  <2> HIDE DEF n, l
  <2>3. n + 1 # n
    BY <1>2
  <2> QED BY <1>1, <1>2, <2>1, <2>2, <2>3
<1>12. /\ mQueues[1].start + mQueues[1].mPopIdx = popped
       /\ mQueues[n].start + mQueues[n].mPushIdx = Len(pushed)
       /\ \A i \in 1..n :
            /\ i # 1 => mQueues[i].mPopIdx = 0
            /\ i # 1 => mQueues[i].start = mQueues[i - 1].start + mQueues[i - 1].mPushIdx
            /\ mQueues[i].start + mQueues[i].mPushIdx <= Len(pushed)
            /\ n > 1 => mQueues[i].mPopIdx < mQueues[i].mPushIdx
            /\ \A k \in 1..n : k < i => mQueues[k].start < mQueues[i].start
  BY <1>2 DEF IndInv, Chained, Back
<1> HIDE DEF n, m, l
<1>13. RingsInv'
  <2>1. ASSUME NEW i \in 1..l PROVE RingFits(m[i]) /\ RingHolds(m[i], pushed')
    <3>1. CASE i = l
      BY <3>1, <1>1, <1>4
    <3>2. CASE i # l
      <4>1. i \in 1..n /\ i < l
        BY <3>2, <1>2, <1>6, <1>11
      <4>2. m[i] = mQueues[i] /\ mQueues[i] \in Rings
        BY <4>1, <1>7, <1>11
      <4>3. mQueues[i].start + mQueues[i].mPushIdx <= Len(pushed)
        BY <4>1, <1>12
      <4> QED BY <4>1, <4>2, <4>3, <1>2, <1>3, <1>8, HoldsLonger
    <3> QED BY <3>1, <3>2
  <2> QED BY <1>1, <1>6, <2>1 DEF RingsInv, m
<1>14. /\ m[1].start = mQueues[1].start /\ m[1].mPopIdx = mQueues[1].mPopIdx
       /\ m[1].capacity = mQueues[1].capacity
  <2>1. CASE l = 1
    <3>1. n = 1
      BY <2>1, <1>2, <1>11
    <3> QED BY <2>1, <3>1, <1>5, <1>11
  <2>2. CASE l # 1
    <3>1. 1 \in 1..n /\ 1 < l
      BY <2>2, <1>2, <1>6
    <3> QED BY <3>1, <1>11
  <2> QED BY <2>1, <2>2
<1>15. Chained'
  <2>1. m[1].start + m[1].mPopIdx = popped'
    BY <1>3, <1>12, <1>14
  <2>2. m[l].start + m[l].mPushIdx = Len(pushed')
    BY <1>2, <1>3, <1>5, <1>10
  <2>3. \A i \in 1..l : i # 1 => m[i].mPopIdx = 0
    BY <1>2, <1>5, <1>6, <1>11, <1>12
  <2>4. ASSUME NEW i \in 1..l, i # 1
        PROVE  m[i].start = m[i - 1].start + m[i - 1].mPushIdx
    <3>1. i - 1 \in 1..n /\ i - 1 < l
      BY <2>4, <1>2, <1>6, <1>11
    <3>2. m[i - 1] = mQueues[i - 1]
      BY <3>1, <1>11
    <3>3. CASE i \in 1..n
      <4>1. m[i].start = mQueues[i].start
        BY <3>3, <1>2, <1>5, <1>6, <1>11
      <4> QED BY <2>4, <3>2, <3>3, <4>1, <1>12
    <3>4. CASE i \notin 1..n
      <4>1. i = l /\ l = n + 1 /\ i - 1 = n
        BY <3>4, <1>2, <1>6, <1>11
      <4> QED BY <3>2, <4>1, <1>5, <1>11, <1>12
    <3> QED BY <3>3, <3>4
  <2>5. ASSUME NEW i \in 1..l PROVE m[i].start + m[i].mPushIdx <= Len(pushed')
    <3>1. CASE i = l
      BY <3>1, <2>2, <1>2, <1>3
    <3>2. CASE i # l
      <4>1. i \in 1..n /\ i < l
        BY <3>2, <1>2, <1>6, <1>11
      <4> QED BY <4>1, <1>2, <1>3, <1>9, <1>11, <1>12, SMTT(30)
    <3> QED BY <3>1, <3>2
  <2>6. ASSUME NEW i \in 1..l, l > 1 PROVE m[i].mPopIdx < m[i].mPushIdx
    <3>1. CASE i = l
      BY <3>1, <1>5, <1>10
    <3>2. CASE i # l
      <4>1. i \in 1..n /\ i < l
        BY <3>2, <1>2, <1>6, <1>11
      <4>2. n > 1 \/ (n = 1 /\ l = n + 1 /\ i = n)
        BY <2>6, <4>1, <1>2, <1>11
      <4> QED BY <4>1, <4>2, <1>11, <1>12
    <3> QED BY <3>1, <3>2
  <2>7. ASSUME NEW i \in 1..l, NEW k \in 1..l, k < i PROVE m[k].start < m[i].start
    <3>1. k \in 1..n /\ m[k] = mQueues[k]
      BY <2>7, <1>2, <1>6, <1>11
    <3>2. CASE i \in 1..n
      <4>1. m[i].start = mQueues[i].start
        BY <3>2, <1>2, <1>5, <1>6, <1>11
      <4> QED BY <2>7, <3>1, <3>2, <4>1, <1>12
    <3>3. CASE i \notin 1..n
      <4>1. i = l /\ l = n + 1
        BY <3>3, <1>2, <1>6, <1>11
      <4>2. mQueues[k].mPopIdx < mQueues[k].mPushIdx
        BY <3>1, <4>1, <1>2, <1>11, <1>12
      <4>3. mQueues[k].start < Len(pushed)
        <5>1. PICK a \in Nat, b \in Nat, c \in Nat, z \in Nat :
                /\ a = mQueues[k].start /\ b = mQueues[k].mPopIdx /\ c = mQueues[k].mPushIdx
                /\ z = Len(pushed)
          BY <3>1, <1>2, <1>9
        <5>2. b < c /\ a + c <= z
          BY <3>1, <4>2, <5>1, <1>12
        <5>3. a < z
          BY <5>2
        <5> QED BY <5>1, <5>3
      <4> QED BY <3>1, <4>1, <4>3, <1>5, <1>11
    <3> QED BY <3>2, <3>3
  <2> QED BY <2>1, <2>2, <2>3, <2>4, <2>5, <2>6, <2>7, <1>6 DEF Chained, Back, m, l
<1>16. ConsumerInv'
  <2>1. popped < Len(pushed) => popped' < Len(pushed')
    BY <1>2, <1>3
  <2> QED BY <2>1, <1>3, <1>14 DEF ConsumerInv, IndInv, NoReference, m
<1> QED BY <1>2, <1>3, <1>13, <1>15, <1>16 DEF IndInv

(* isEmpty() preserves the invariant.                                      *)
LEMMA AskInv ==
  ASSUME IndInv, isEmpty
  PROVE  IndInv'
<1>1. /\ mQueues' = mQueues /\ reference' = reference
      /\ pushed' = pushed /\ popped' = popped
      /\ answer' \in {"empty", "items"}
      /\ answer' = "items" <=> Size(Back) # 0
  BY DEF isEmpty
<1>2. /\ popped \in Nat /\ Len(pushed) \in Nat /\ popped <= Len(pushed)
      /\ popped = Len(pushed) <=> Size(Back) = 0
  BY Bounds DEF IndInv
<1>3. answer' = "items" <=> popped < Len(pushed)
  BY <1>1, <1>2
<1>4. ConsumerInv'
  BY <1>1, <1>3 DEF IndInv, ConsumerInv, NoReference
<1>5. RingsInv' /\ Chained'
  BY <1>1 DEF IndInv, RingsInv, Chained, Back
<1> QED BY <1>1, <1>4, <1>5 DEF IndInv

(* front() preserves the invariant.                                        *)
LEMMA LookInv ==
  ASSUME IndInv, front
  PROVE  IndInv'
<1>1. /\ mQueues' = mQueues /\ answer' = answer /\ answer = "items"
      /\ pushed' = pushed /\ popped' = popped
      /\ reference' = [start |-> mQueues[1].start,
                       slot |-> mQueues[1].mPopIdx % mQueues[1].capacity]
  BY Bounds DEF front
<1>2. ConsumerInv'
  BY <1>1 DEF IndInv, ConsumerInv
<1>3. RingsInv' /\ Chained'
  BY <1>1 DEF IndInv, RingsInv, Chained, Back
<1> QED BY <1>1, <1>2, <1>3 DEF IndInv

(* pop_front() preserves the invariant.                                    *)
LEMMA PopInv ==
  ASSUME IndInv, pop_front
  PROVE  IndInv'
<1> DEFINE n == Len(mQueues)
           q == mQueues[1]
           after == BasePop(q)
           m == mQueues'
           l == Len(m)
<1>1. /\ mQueues \in Seq(Rings) /\ n \in Nat /\ n > 0 /\ DOMAIN mQueues = 1..n
      /\ Len(pushed) \in Nat /\ pushed \in Seq(Item) /\ popped \in Nat
      /\ Head(mQueues) = q /\ Back = mQueues[n]
  BY Bounds DEF IndInv, Back
<1>2. /\ pushed' = pushed /\ popped' = popped + 1
      /\ answer' = "unknown" /\ reference' = NoReference
      /\ m = IF Size(after) = 0 /\ n > 1 THEN Tail(mQueues)
             ELSE [mQueues EXCEPT ![1] = after]
  BY <1>1 DEF pop_front
<1>3. popped < Len(pushed) /\ q.mPopIdx < q.mPushIdx
  BY Bounds DEF pop_front, IndInv, ConsumerInv
<1>4. \A i \in 1..n : mQueues[i] \in Rings
  BY <1>1, ElementOfSeq
<1>5. \A i \in 1..n : RingFits(mQueues[i]) /\ RingHolds(mQueues[i], pushed)
  BY <1>1 DEF IndInv, RingsInv
<1>6. \A i \in 1..n : /\ mQueues[i].start \in Nat /\ mQueues[i].mPopIdx \in Nat
                      /\ mQueues[i].mPushIdx \in Nat
  BY <1>4, RingNumbers
<1>7. /\ q.start + q.mPopIdx = popped
      /\ mQueues[n].start + mQueues[n].mPushIdx = Len(pushed)
      /\ \A i \in 1..n :
           /\ i # 1 => mQueues[i].mPopIdx = 0
           /\ i # 1 => mQueues[i].start = mQueues[i - 1].start + mQueues[i - 1].mPushIdx
           /\ mQueues[i].start + mQueues[i].mPushIdx <= Len(pushed)
           /\ n > 1 => mQueues[i].mPopIdx < mQueues[i].mPushIdx
           /\ \A k \in 1..n : k < i => mQueues[k].start < mQueues[i].start
  BY <1>1 DEF IndInv, Chained, Back
<1>8. after \in Rings /\ RingFits(after) /\ RingHolds(after, pushed)
  BY <1>1, <1>3, <1>4, <1>5, PopRing
<1>9. /\ after.start = q.start /\ after.mPopIdx = q.mPopIdx + 1
      /\ after.mPushIdx = q.mPushIdx
  BY <1>1, <1>4 DEF BasePop, Rings
<1>10. ConsumerInv'
  BY <1>2 DEF ConsumerInv
<1>11. CASE Size(after) = 0 /\ n > 1
  <2>1. m = Tail(mQueues)
    BY <1>2, <1>11
  <2>2. /\ m \in Seq(Rings) /\ l = n - 1 /\ l \in Nat /\ l > 0 /\ m # <<>>
        /\ DOMAIN m = 1..l
        /\ \A i \in 1..l : m[i] = mQueues[i + 1]
    BY <1>1, <1>11, <2>1, HeadTailProperties, LenProperties
  <2>3. \A i \in 1..l : i + 1 \in 1..n /\ i + 1 # 1
    BY <1>1, <2>2
  <2>4. q.mPopIdx + 1 = q.mPushIdx
    BY <1>1, <1>6, <1>9, <1>11 DEF Size
  <2>5. RingsInv'
    <3>1. \A i \in 1..l : RingFits(m[i]) /\ RingHolds(m[i], pushed')
      BY <1>2, <1>5, <2>2, <2>3
    <3> QED BY <2>2, <3>1 DEF RingsInv
  <2> HIDE DEF n, m, l, after
  <2>6. m[1].start + m[1].mPopIdx = popped'
    <3>1. m[1] = mQueues[2] /\ 2 \in 1..n /\ 1 \in 1..n
      BY <1>1, <2>2, <1>11
    <3>2. mQueues[2].start = q.start + q.mPushIdx /\ mQueues[2].mPopIdx = 0
      BY <1>7, <3>1
    <3>3. q.start \in Nat /\ q.mPopIdx \in Nat /\ q.mPushIdx \in Nat
      BY <1>6, <3>1
    <3>4. /\ popped' = popped + 1 /\ q.start + q.mPopIdx = popped
          /\ m[1].start = q.start + q.mPushIdx /\ m[1].mPopIdx = 0
      BY <1>2, <1>7, <3>1, <3>2
    <3> HIDE DEF q
    <3> QED BY <2>4, <3>3, <3>4
  <2>7. m[l].start + m[l].mPushIdx = Len(pushed')
    <3>1. m[l] = mQueues[n]
      BY <1>1, <2>2
    <3> QED BY <1>2, <1>7, <3>1
  <2>8. ASSUME NEW i \in 1..l
        PROVE  /\ m[i].mPopIdx = 0
               /\ i # 1 => m[i].start = m[i - 1].start + m[i - 1].mPushIdx
               /\ m[i].start + m[i].mPushIdx <= Len(pushed')
               /\ m[i].mPopIdx < m[i].mPushIdx
               /\ \A k \in 1..l : k < i => m[k].start < m[i].start
    <3>1. i + 1 \in 1..n /\ i + 1 # 1 /\ m[i] = mQueues[i + 1] /\ (i + 1) - 1 = i
      BY <2>2, <2>3
    <3>2. m[i].mPopIdx = 0 /\ m[i].start + m[i].mPushIdx <= Len(pushed')
      BY <1>2, <1>7, <3>1
    <3>3. m[i].mPopIdx < m[i].mPushIdx
      BY <1>7, <1>11, <3>1
    <3>4. ASSUME i # 1 PROVE m[i].start = m[i - 1].start + m[i - 1].mPushIdx
      <4>1. i - 1 \in 1..l /\ (i - 1) + 1 = i
        BY <3>4, <2>2
      <4>2. m[i - 1] = mQueues[i]
        BY <4>1, <2>2
      <4> QED BY <1>7, <3>1, <4>2
    <3>5. ASSUME NEW k \in 1..l, k < i PROVE m[k].start < m[i].start
      <4>1. m[k] = mQueues[k + 1] /\ k + 1 \in 1..n /\ k + 1 < i + 1
        BY <3>5, <2>2, <2>3
      <4> QED BY <1>7, <3>1, <4>1
    <3> QED BY <3>2, <3>3, <3>4, <3>5
  <2>9. Chained'
    BY <2>2, <2>6, <2>7, <2>8 DEF Chained, Back, m, l
  <2> QED BY <1>1, <1>2, <1>10, <2>5, <2>9 DEF IndInv
<1>12. CASE ~(Size(after) = 0 /\ n > 1)
  <2>1. m = [mQueues EXCEPT ![1] = after]
    BY <1>2, <1>12
  <2> HIDE DEF after
  <2>2. 1 \in 1..n
    BY <1>1
  <2>3. m \in Seq(Rings) /\ l = n
    BY <1>1, <1>8, <2>1, <2>2, ExceptSeq
  <2>4. /\ DOMAIN m = 1..l /\ m # <<>> /\ m[1] = after
        /\ \A i \in 1..l : i # 1 => m[i] = mQueues[i]
    BY <1>1, <2>1, <2>2, <2>3, LenProperties
  <2>5. RingsInv'
    <3>1. \A i \in 1..l : RingFits(m[i]) /\ RingHolds(m[i], pushed')
      BY <1>2, <1>5, <1>8, <2>3, <2>4
    <3> QED BY <2>3, <2>4, <3>1 DEF RingsInv
  <2> HIDE DEF n, m, l
  <2>6. m[1].start + m[1].mPopIdx = popped'
    <3>1. q.start \in Nat /\ q.mPopIdx \in Nat
      BY <1>6, <2>2
    <3>2. /\ popped' = popped + 1 /\ q.start + q.mPopIdx = popped
          /\ m[1].start = q.start /\ m[1].mPopIdx = q.mPopIdx + 1
      BY <1>2, <1>7, <1>9, <2>4
    <3> HIDE DEF q
    <3> QED BY <3>1, <3>2
  <2>7. \A i \in 1..l : m[i].start = mQueues[i].start /\ m[i].mPushIdx = mQueues[i].mPushIdx
    BY <1>9, <2>4
  <2>8. m[l].start + m[l].mPushIdx = Len(pushed')
    BY <1>1, <1>2, <1>7, <2>3, <2>7
  <2>9. ASSUME NEW i \in 1..l
        PROVE  /\ i # 1 => m[i].mPopIdx = 0
               /\ i # 1 => m[i].start = m[i - 1].start + m[i - 1].mPushIdx
               /\ m[i].start + m[i].mPushIdx <= Len(pushed')
               /\ l > 1 => m[i].mPopIdx < m[i].mPushIdx
               /\ \A k \in 1..l : k < i => m[k].start < m[i].start
    <3>1. i # 1 => m[i].mPopIdx = 0
      BY <1>7, <2>3, <2>4
    <3>2. ASSUME i # 1 PROVE m[i].start = m[i - 1].start + m[i - 1].mPushIdx
      <4>1. i - 1 \in 1..l
        BY <3>2, <1>1, <2>3
      <4> QED BY <3>2, <4>1, <1>7, <2>3, <2>7
    <3>3. m[i].start + m[i].mPushIdx <= Len(pushed')
      BY <1>2, <1>7, <2>3, <2>7
    <3>4. ASSUME l > 1 PROVE m[i].mPopIdx < m[i].mPushIdx
      <4>1. CASE i = 1
        <5>1. Size(after) # 0
          BY <3>4, <1>12, <2>3
        <5> QED BY <4>1, <5>1, <1>3, <1>6, <1>9, <2>2, <2>4 DEF Size
      <4>2. CASE i # 1
        BY <3>4, <4>2, <1>7, <2>3, <2>4
      <4> QED BY <4>1, <4>2
    <3>5. \A k \in 1..l : k < i => m[k].start < m[i].start
      BY <1>7, <2>3, <2>7
    <3> QED BY <3>1, <3>2, <3>3, <3>4, <3>5
  <2>10. Chained'
    BY <2>4, <2>6, <2>8, <2>9 DEF Chained, Back, m, l
  <2> QED BY <1>1, <1>2, <1>10, <2>5, <2>10 DEF IndInv
<1> QED BY <1>11, <1>12

-----------------------------------------------------------------------------
(* Theorems *)

(* The invariant holds in every state.                                     *)
LEMMA Invariant == Spec => []IndInv
<1>1. IndInv /\ [Next]_vars => IndInv'
  <2> SUFFICES ASSUME IndInv, [Next]_vars PROVE IndInv'
    OBVIOUS
  <2>1. ASSUME NEW v \in Item, push_back(v) PROVE IndInv'
    BY <2>1, PushInv
  <2>2. CASE isEmpty
    BY <2>2, AskInv
  <2>3. CASE front
    BY <2>3, LookInv
  <2>4. CASE pop_front
    BY <2>4, PopInv
  <2>5. CASE UNCHANGED vars
    BY <2>5 DEF vars, IndInv, RingsInv, Chained, Back, ConsumerInv
  <2> QED BY <2>1, <2>2, <2>3, <2>4, <2>5 DEF Next, Producer, Consumer
<1> QED BY <1>1, InitInv, PTL DEF Spec

(* Types, ring buffers that are never over-full, and a reference that leads*)
(* into the front one.                                                     *)
THEOREM QueueTypeCorrect == Spec => []TypeOK
<1>1. IndInv => TypeOK
  <2> SUFFICES ASSUME IndInv PROVE TypeOK
    OBVIOUS
  <2>1. /\ mQueues \in Seq(Rings) /\ Len(mQueues) \in Nat /\ Len(mQueues) > 0
        /\ DOMAIN mQueues = 1..Len(mQueues) /\ Head(mQueues) = mQueues[1]
        /\ mQueues[1] \in Rings
    BY Bounds
  <2>2. ASSUME NEW i \in DOMAIN mQueues
        PROVE  /\ mQueues[i].mPopIdx \in Nat /\ mQueues[i].mPushIdx \in Nat
               /\ Size(mQueues[i]) \in 0..mQueues[i].capacity
               /\ mQueues[i].mStorage \in [0..(mQueues[i].capacity - 1) -> Item \cup {Raw}]
    <3> DEFINE q == mQueues[i]
    <3>1. q \in Rings /\ RingFits(q)
      BY <2>1, ElementOfSeq DEF IndInv, RingsInv
    <3> HIDE DEF q
    <3>2. /\ q.mPopIdx \in Nat /\ q.mPushIdx \in Nat /\ q.capacity \in Nat
          /\ Size(q) \in 0..q.capacity
          /\ q.mStorage \in [0..(q.capacity - 1) -> Item \cup {Raw}]
      BY <3>1, RingNumbers DEF RingFits, Size
    <3> QED BY <3>2 DEF q
  <2>3. reference # NoReference =>
          /\ reference.start = Head(mQueues).start
          /\ reference.slot \in 0..(Head(mQueues).capacity - 1)
    <3> DEFINE q == mQueues[1]
    <3>1. /\ q.capacity \in Nat /\ q.capacity > 0 /\ q.mPopIdx \in Nat
      BY <2>1, RingNumbers DEF IndInv, RingsInv, RingFits
    <3>2. q.mPopIdx % q.capacity \in 0..(q.capacity - 1)
      BY <3>1, SlotInRange
    <3> QED BY <2>1, <3>2 DEF IndInv, ConsumerInv
  <2>4. mQueues # <<>> /\ answer \in {"unknown", "empty", "items"}
    BY DEF IndInv, RingsInv, ConsumerInv
  <2> QED BY <2>2, <2>3, <2>4 DEF TypeOK
<1> QED BY <1>1, Invariant, PTL

(* isEmpty() of the last ring buffer is an answer for the first one: once  *)
(* it has said that there are items, front() and pop_front() find one.     *)
THEOREM FrontCorrect == Spec => []FrontExists
<1>1. IndInv => FrontExists
  <2> SUFFICES ASSUME IndInv, answer = "items" PROVE Size(Head(mQueues)) > 0
    BY DEF FrontExists
  <2>1. /\ Head(mQueues) = mQueues[1] /\ mQueues[1] \in Rings
        /\ mQueues[1].mPopIdx < mQueues[1].mPushIdx
    BY Bounds DEF IndInv, ConsumerInv
  <2> QED BY <2>1, RingNumbers DEF Size
<1> QED BY <1>1, Invariant, PTL

(* push_back() never constructs an item over another one, for every initial*)
(* capacity and however often the indices have wrapped around.             *)
THEOREM StorageCorrect == Spec => []PushesIntoRawStorage
<1>1. IndInv => PushesIntoRawStorage
  <2> SUFFICES ASSUME IndInv, NEW i \in DOMAIN mQueues,
                      Size(mQueues[i]) < mQueues[i].capacity
               PROVE  LET q == mQueues[i]
                      IN q.mStorage[q.mPushIdx % q.capacity] = Raw
    BY DEF PushesIntoRawStorage
  <2> DEFINE q == mQueues[i]
             here == q.mPushIdx % q.capacity
  <2>1. q \in Rings /\ RingFits(q) /\ RingHolds(q, pushed)
    BY Bounds, ElementOfSeq DEF IndInv, RingsInv
  <2>2. /\ q.capacity \in Nat /\ q.mPopIdx \in Nat /\ q.mPushIdx \in Nat
        /\ q.capacity > 0 /\ q.mPushIdx < q.mPopIdx + q.capacity
    BY <2>1, RingNumbers DEF RingFits, Size
  <2> HIDE DEF q
  <2>3. here \in 0..(q.capacity - 1)
    BY <2>2, SlotInRange
  <2>4. ASSUME NEW j \in Live(q) PROVE j % q.capacity # here
    <3>1. j \in Nat /\ j < q.mPushIdx /\ q.mPushIdx < j + q.capacity
      BY <2>2 DEF Live
    <3> QED BY <3>1, <2>2, SlotsDiffer
  <2>5. q.mStorage[here] = Raw
    BY <2>1, <2>3, <2>4 DEF RingHolds
  <2> QED BY <2>5 DEF q
<1> QED BY <1>1, Invariant, PTL

(* The list of ring buffers is a FIFO queue: pushes, answers, references   *)
(* and removals are those of SpscFifo on the items not yet removed, and a  *)
(* reference leads to the first of them all the time it is used.           *)
THEOREM QueueIsFifo == Spec => ImplementsFifo
<1>1. Init => Fifo!Init
  <2> SUFFICES ASSUME Init PROVE Fifo!Init
    OBVIOUS
  <2>1. Rest(pushed, popped) = <<>>
    <3>1. /\ pushed \in Seq(Item) /\ popped \in Nat
          /\ popped <= Len(pushed) /\ popped = Len(pushed)
      BY DEF Init
    <3> QED BY <3>1, RestEmpty
  <2>2. Referenced = Raw
    BY DEF Init, Referenced
  <2> QED BY <2>1, <2>2 DEF Init, Fifo!Init, Rest
<1>2. IndInv' => ReferencedFirst'
  BY ReferencedItem, PTL
<1>3. IndInv /\ IndInv' /\ [Next]_vars => [Fifo!Next]_(Fifo!vars)
  <2> SUFFICES ASSUME IndInv, IndInv', [Next]_vars PROVE [Fifo!Next]_(Fifo!vars)
    OBVIOUS
  <2> DEFINE queue == Rest(pushed, popped)
  <2>1. Referenced = IF reference = NoReference THEN Raw ELSE pushed[popped + 1]
    BY ReferencedItem DEF ReferencedFirst
  <2>2. Referenced' = IF reference' = NoReference THEN Raw ELSE pushed'[popped' + 1]
    BY <1>2 DEF ReferencedFirst
  <2>3. /\ pushed \in Seq(Item) /\ popped \in Nat /\ popped <= Len(pushed) /\ Len(pushed) \in Nat
        /\ popped = Len(pushed) <=> Size(Back) = 0
    BY Bounds DEF IndInv
  <2>4. queue = <<>> <=> popped = Len(pushed)
    BY <2>3, RestEmpty
  <2>5. /\ answer = "items" => popped < Len(pushed)
        /\ reference # NoReference => answer = "items"
    BY DEF IndInv, ConsumerInv
  <2>6. ASSUME NEW v \in Item, push_back(v) PROVE Fifo!Push(v)
    <3>1. /\ pushed' = Append(pushed, v) /\ popped' = popped
          /\ answer' = answer /\ reference' = reference
      BY <2>6 DEF push_back
    <3>2. queue' = Append(queue, v)
      BY <2>3, <3>1, RestPush
    <3>3. Referenced' = Referenced
      <4>1. CASE reference = NoReference
        BY <4>1, <2>1, <2>2, <3>1
      <4>2. CASE reference # NoReference
        <5>1. popped + 1 \in 1..Len(pushed)
          BY <4>2, <2>3, <2>5
        <5>2. pushed'[popped + 1] = pushed[popped + 1]
          BY <5>1, <2>3, <3>1, AppendProperties
        <5> QED BY <4>2, <5>2, <2>1, <2>2, <3>1
      <4> QED BY <4>1, <4>2
    <3> QED BY <3>1, <3>2, <3>3 DEF Fifo!Push, Rest
  <2>7. CASE isEmpty
    <3>1. /\ pushed' = pushed /\ popped' = popped /\ reference' = reference
          /\ answer' = IF Size(Back) = 0 THEN "empty" ELSE "items"
      BY <2>7 DEF isEmpty
    <3>2. answer' = IF queue = <<>> THEN "empty" ELSE "items"
      BY <2>3, <2>4, <3>1
    <3>3. queue' = queue /\ Referenced' = Referenced
      BY <2>1, <2>2, <3>1 DEF Rest
    <3> QED BY <3>2, <3>3 DEF Fifo!Next, Fifo!Ask, Rest
  <2>8. CASE front
    <3>1. /\ pushed' = pushed /\ popped' = popped /\ answer' = answer /\ answer = "items"
      BY <2>8 DEF front
    <3>2. reference' # NoReference
      <4>1. mQueues[1] \in Rings /\ Head(mQueues) = mQueues[1]
        BY Bounds
      <4>2. mQueues[1].start # -1
        BY <4>1, RingNumbers
      <4> QED BY <2>8, <4>1, <4>2 DEF front, NoReference
    <3>3. popped < Len(pushed) /\ queue # <<>>
      BY <2>3, <2>4, <2>5, <3>1
    <3>4. Head(queue) = pushed[popped + 1]
      BY <2>3, <3>3, RestPop
    <3>5. Referenced' = Head(queue)
      BY <2>2, <3>1, <3>2, <3>4
    <3>6. queue' = queue
      BY <3>1 DEF Rest
    <3> QED BY <3>1, <3>3, <3>5, <3>6 DEF Fifo!Next, Fifo!Look, Rest
  <2>9. CASE pop_front
    <3>1. /\ pushed' = pushed /\ popped' = popped + 1 /\ answer' = "unknown"
          /\ reference' = NoReference /\ reference # NoReference
      BY <2>9 DEF pop_front
    <3>2. popped < Len(pushed) /\ queue # <<>>
      BY <2>3, <2>4, <2>5, <3>1
    <3>3. queue' = Tail(queue)
      BY <2>3, <3>1, <3>2, RestPop
    <3>4. Referenced' = Raw
      BY <2>2, <3>1
    <3> QED BY <3>1, <3>2, <3>3, <3>4 DEF Fifo!Next, Fifo!Remove, Rest
  <2>10. CASE UNCHANGED vars
    <3>1. UNCHANGED <<pushed, popped, answer, reference>>
      BY <2>10 DEF vars
    <3>2. queue' = queue /\ Referenced' = Referenced
      BY <2>1, <2>2, <3>1 DEF Rest
    <3> QED BY <3>1, <3>2 DEF Fifo!vars, Rest
  <2> QED BY <2>6, <2>7, <2>8, <2>9, <2>10 DEF Next, Producer, Consumer, Fifo!Next
<1> QED BY <1>1, <1>3, Invariant, PTL DEF Spec, ImplementsFifo, Fifo!Spec
=============================================================================
