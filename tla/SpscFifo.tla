------------------------------ MODULE SpscFifo ------------------------------
(***************************************************************************)
(* What a queue between one producer and one consumer promises: the        *)
(* consumer sees the items in the order they were pushed, an answer of     *)
(* `not empty' can be relied upon, and the item it looks at stays the      *)
(* first one until it removes it.                                          *)
(***************************************************************************)
EXTENDS Sequences

CONSTANTS
  Item,     \* what can be pushed
  Nothing   \* no item

VARIABLES
  queue,    \* the items pushed and not yet removed
  answer,   \* what the consumer was last told: "unknown", "empty" or "items"
  item      \* the item the consumer is looking at, or Nothing

vars == <<queue, answer, item>>

Init == queue = <<>> /\ answer = "unknown" /\ item = Nothing

Push(v) ==
  /\ queue' = Append(queue, v)
  /\ UNCHANGED <<answer, item>>

Ask ==
  /\ answer' = IF queue = <<>> THEN "empty" ELSE "items"
  /\ UNCHANGED <<queue, item>>

Look ==
  /\ queue # <<>>
  /\ item' = Head(queue)
  /\ UNCHANGED <<queue, answer>>

Remove ==
  /\ queue # <<>>
  /\ queue' = Tail(queue)
  /\ answer' = "unknown" /\ item' = Nothing

Next == (\E v \in Item : Push(v)) \/ Ask \/ Look \/ Remove

Spec == Init /\ [][Next]_vars
=============================================================================
