----------------------------- MODULE SpscQueue ------------------------------
(***************************************************************************)
(* The queue of a channel's operations (SpscQueue in                       *)
(* cryptoTools/Network/IoBuffer.h). The user's thread pushes, the          *)
(* handlers of one strand remove. The queue is a list of ring buffers:     *)
(* when the last one is full a larger one is added behind it, and a ring   *)
(* buffer that was emptied is dropped if it is not the only one. Every     *)
(* operation holds the mutex of the queue and is one step here, but        *)
(* front() returns a reference that is used without it.                    *)
(***************************************************************************)
EXTENDS Integers, Sequences

CONSTANTS
  Item,             \* operations that can be pushed
  Raw,              \* storage without an object
  InitialCapacity,  \* of the first ring buffer (64 in the code)
  MaxPushes         \* bound on the number of pushes

ASSUME ItemAssumption == Raw \notin Item
ASSUME CapacityAssumption == InitialCapacity \in Nat \ {0}
ASSUME PushesAssumption == MaxPushes \in Nat

VARIABLES
  mQueues,    \* the ring buffers, the front one first
  answer,     \* what isEmpty() last told the consumer
  reference,  \* what front() returned: ring buffer and slot, or NoReference
  pushed,     \* history: all items pushed so far, in order
  popped      \* history: how many of them were removed

vars == <<mQueues, answer, reference, pushed, popped>>

NoReference == [start |-> -1, slot |-> -1]

(***************************************************************************)
(* A ring buffer. mPopIdx and mPushIdx only grow and are taken modulo the  *)
(* capacity. Ring buffers are told apart by start, the number of items     *)
(* pushed before they were made.                                           *)
(***************************************************************************)
NewBase(cap, start) ==
  [start |-> start, capacity |-> cap, mPopIdx |-> 0, mPushIdx |-> 0,
   mStorage |-> [s \in 0..(cap - 1) |-> Raw]]

Size(q) == q.mPushIdx - q.mPopIdx

BasePush(q, v) == [q EXCEPT !.mStorage[q.mPushIdx % q.capacity] = v,
                            !.mPushIdx = @ + 1]

(* Mutant: the item is left in its storage when it is popped. *)
BasePop_NoDestructor(q) == [q EXCEPT !.mPopIdx = @ + 1]

BasePop(q) == [q EXCEPT !.mStorage[q.mPopIdx % q.capacity] = Raw,
                        !.mPopIdx = @ + 1]

Back == mQueues[Len(mQueues)]

-----------------------------------------------------------------------------

Init ==
  /\ mQueues = <<NewBase(InitialCapacity, 0)>>
  /\ answer = "unknown"
  /\ reference = NoReference
  /\ pushed = <<>>
  /\ popped = 0

(* Mutant: a full ring buffer is not noticed. *)
Grown_Never == mQueues

(* The list a new item is appended to: with a ring buffer of four times    *)
(* the size if the last one is full.                                       *)
Grown == IF Size(Back) = Back.capacity
         THEN Append(mQueues, NewBase(Back.capacity * 4, Len(pushed)))
         ELSE mQueues

push_back(v) ==
  /\ Len(pushed) < MaxPushes
  /\ mQueues' = [Grown EXCEPT ![Len(Grown)] = BasePush(@, v)]
  /\ pushed' = Append(pushed, v)
  /\ UNCHANGED <<answer, reference, popped>>

(* Only the last ring buffer is looked at. *)
isEmpty ==
  /\ answer' = IF Size(Back) = 0 THEN "empty" ELSE "items"
  /\ UNCHANGED <<mQueues, reference, pushed, popped>>

(* The handlers of a channel call front() and pop_front() only after       *)
(* isEmpty() returned false. front() throws if there is nothing to refer   *)
(* to; FrontExists says that it never does.                                *)
front ==
  /\ answer = "items"
  /\ reference' = [start |-> Head(mQueues).start,
                   slot |-> Head(mQueues).mPopIdx % Head(mQueues).capacity]
  /\ UNCHANGED <<mQueues, answer, pushed, popped>>

(* Mutant: pop_front() keeps the ring buffer it emptied. *)
pop_front_KeepsEmptied ==
  /\ reference # NoReference
  /\ mQueues' = [mQueues EXCEPT ![1] = BasePop(@)]
  /\ popped' = popped + 1
  /\ answer' = "unknown"
  /\ reference' = NoReference
  /\ UNCHANGED pushed

(* An operation is removed after it was performed or cancelled by way of   *)
(* the reference.                                                          *)
pop_front ==
  /\ reference # NoReference
  /\ LET after == BasePop(Head(mQueues))
     IN mQueues' = IF Size(after) = 0 /\ Len(mQueues) > 1
                   THEN Tail(mQueues)
                   ELSE [mQueues EXCEPT ![1] = after]
  /\ popped' = popped + 1
  /\ answer' = "unknown"
  /\ reference' = NoReference
  /\ UNCHANGED pushed

Producer == \E v \in Item : push_back(v)
Consumer == isEmpty \/ front \/ pop_front

Next == Producer \/ Consumer

Spec == Init /\ [][Next]_vars

-----------------------------------------------------------------------------
(* Properties *)

(* The item the reference leads to. *)
Referenced ==
  IF reference = NoReference THEN Raw
  ELSE LET i == CHOOSE i \in DOMAIN mQueues : mQueues[i].start = reference.start
       IN mQueues[i].mStorage[reference.slot]

(* Types; the ring buffers are never over-full, and the reference leads    *)
(* into the front one.                                                     *)
TypeOK ==
  /\ mQueues # <<>>
  /\ \A i \in DOMAIN mQueues :
       LET q == mQueues[i]
       IN /\ q.mPopIdx \in Nat /\ q.mPushIdx \in Nat
          /\ Size(q) \in 0..q.capacity
          /\ q.mStorage \in [0..(q.capacity - 1) -> Item \cup {Raw}]
  /\ answer \in {"unknown", "empty", "items"}
  /\ reference # NoReference =>
       /\ reference.start = Head(mQueues).start
       /\ reference.slot \in 0..(Head(mQueues).capacity - 1)

(* isEmpty() looks at the last ring buffer, front() at the first: once it  *)
(* answered that there are items, front() and pop_front() find one, however*)
(* many ring buffers were added since.                                     *)
FrontExists == answer = "items" => Size(Head(mQueues)) > 0

(* push_back() constructs its item in storage without one, wherever the    *)
(* indices have wrapped around: no item is overwritten, none is left       *)
(* without its destructor.                                                 *)
PushesIntoRawStorage ==
  \A i \in DOMAIN mQueues :
    Size(mQueues[i]) < mQueues[i].capacity =>
      mQueues[i].mStorage[mQueues[i].mPushIdx % mQueues[i].capacity] = Raw

(* The queue is a FIFO queue of what was pushed, with right answers, and   *)
(* the item behind a reference stays the first one while the producer      *)
(* pushes, adds ring buffers and the mutex is not held.                    *)
Fifo == INSTANCE SpscFifo WITH
  Nothing <- Raw,
  queue <- SubSeq(pushed, popped + 1, Len(pushed)),
  item <- Referenced

ImplementsFifo == Fifo!Spec

-----------------------------------------------------------------------------
(***************************************************************************)
(* The inductive invariant: ring buffer q was given the items number       *)
(* q.start + 1 to q.start + q.mPushIdx, item j + 1 of its own lies in slot *)
(* j % capacity until it is popped, and only the front one was popped from.*)
(***************************************************************************)
Live(q) == q.mPopIdx..(q.mPushIdx - 1)

Rings ==
  [start : Nat, capacity : Nat, mPopIdx : Nat, mPushIdx : Nat,
   mStorage : UNION {[0..(n - 1) -> Item \cup {Raw}] : n \in Nat}]

RingFits(q) ==
  /\ q.capacity > 0
  /\ q.mStorage \in [0..(q.capacity - 1) -> Item \cup {Raw}]
  /\ q.mPopIdx <= q.mPushIdx /\ q.mPushIdx <= q.mPopIdx + q.capacity

RingHolds(q, items) ==
  /\ \A j \in Live(q) : q.mStorage[j % q.capacity] = items[q.start + j + 1]
  /\ \A s \in 0..(q.capacity - 1) :
       (\A j \in Live(q) : j % q.capacity # s) => q.mStorage[s] = Raw

(* The ring buffers follow one another without a gap, up to the last item  *)
(* pushed; if there are several, none is empty.                            *)
Chained ==
  /\ mQueues[1].start + mQueues[1].mPopIdx = popped
  /\ Back.start + Back.mPushIdx = Len(pushed)
  /\ \A i \in DOMAIN mQueues :
       /\ i # 1 => mQueues[i].mPopIdx = 0
       /\ i # 1 => mQueues[i].start = mQueues[i - 1].start + mQueues[i - 1].mPushIdx
       /\ mQueues[i].start + mQueues[i].mPushIdx <= Len(pushed)
       /\ Len(mQueues) > 1 => mQueues[i].mPopIdx < mQueues[i].mPushIdx
       /\ \A k \in DOMAIN mQueues : k < i => mQueues[k].start < mQueues[i].start

ConsumerInv ==
  /\ answer \in {"unknown", "empty", "items"}
  /\ answer = "items" => popped < Len(pushed)
  /\ reference # NoReference =>
       /\ answer = "items"
       /\ reference = [start |-> mQueues[1].start,
                       slot |-> mQueues[1].mPopIdx % mQueues[1].capacity]

RingsInv ==
  /\ mQueues \in Seq(Rings) /\ mQueues # <<>>
  /\ \A i \in DOMAIN mQueues : RingFits(mQueues[i]) /\ RingHolds(mQueues[i], pushed)

IndInv ==
  /\ pushed \in Seq(Item) /\ popped \in Nat
  /\ RingsInv
  /\ Chained
  /\ ConsumerInv

=============================================================================
