---------------------------- MODULE ChannelProofs ----------------------------
(***************************************************************************)
(* Proofs about Channel: the safety of the two strands, for any number of  *)
(* operations and every way a channel is connected, closed, cancelled or   *)
(* broken. The argument follows one turn that each strand has at most once:*)
(* the handler that is to give the socket its next operation. Either such  *)
(* a handler waits on the strand, or the socket has an operation, or the   *)
(* socket is available, or nothing will be performed any more.             *)
(* On it rest what close() and cancel() leave behind, and that either      *)
(* direction implements Conduit.                                           *)
(***************************************************************************)
EXTENDS Channel, TLAPS

-----------------------------------------------------------------------------
(* The inductive invariant *)

Openers == {"open", "connectionString"}

(* The handlers that have the turn.                                        *)
Turns == Openers \cup {"connectionStringSent", "complete", "error"}

Handlers == Turns \cup {"enqueue", "cancelOperations", "close", "cancel"}

Promises == {"none", "unset", "value", "exception", "badSize"}

Strands ==
  [mStatus : {"Normal", "Stopped"}, mQueue : Seq(Nat), mSocketAvailable : BOOLEAN,
   mQueueEmpty : BOOLEAN, handlers : Seq(Handlers), replacing : BOOLEAN,
   inFlight : Int, result : {"none", "ok", "error"}, promise : Seq(Promises),
   wire : Seq(Nat)]

(* Handlers that wait on a strand.                                         *)
Posted(q, h) == \E i \in DOMAIN q : q[i] = h
HasTurn(q) == \E i \in DOMAIN q : q[i] \in Turns
OneTurn(q) == \A i, j \in DOMAIN q : q[i] \in Turns /\ q[j] \in Turns => i = j

(* The number of operations that left the queue.                           *)
Done(s) == Len(s.promise) - Len(s.mQueue)

(* What is to go over the wire next, if f was first.                       *)
Due(f, s) == f + Len(s.wire)

(* The queue holds the last operations that were called, in order.         *)
QueueInv(s) ==
  /\ Len(s.mQueue) <= Len(s.promise)
  /\ \A i \in 1..Len(s.mQueue) : s.mQueue[i] = Done(s) + i

(* Who has the turn.                                                       *)
TurnInv(s) ==
  /\ OneTurn(s.handlers)
  /\ HasTurn(s.handlers) => ~s.mSocketAvailable /\ s.inFlight = Idle
  /\ s.mSocketAvailable => s.inFlight = Idle
  /\ s.result # "none" => s.inFlight # Idle

(* What the socket has: what is due, until it has gone over the wire.      *)
FlightInv(f, s) ==
  /\ s.inFlight = Idle \/ s.inFlight >= 0
  /\ s.inFlight >= 1 => Len(s.mQueue) > 0 /\ s.inFlight = Done(s) + 1
  /\ s.inFlight = ConnectionString => f = 0 /\ Done(s) = 0
  /\ s.inFlight # Idle => Due(f, s) = IF s.result = "ok" THEN s.inFlight + 1 ELSE s.inFlight
  /\ s.inFlight >= 1 /\ s.result = "ok" => s.promise[s.inFlight] # "unset"

(* What is due when a handler will have the turn, and when no one has it.  *)
DueInv(f, s) ==
  /\ s.mSocketAvailable => Due(f, s) = Done(s) + 1
  /\ Posted(s.handlers, "open") => f = 1 /\ Due(f, s) = 1 /\ Done(s) = 0
  /\ Posted(s.handlers, "connectionString") => f = 0 /\ Due(f, s) = 0 /\ Done(s) = 0
  /\ Posted(s.handlers, "connectionStringSent") => Due(f, s) = Done(s) + 1
  /\ Posted(s.handlers, "complete") =>
       Len(s.mQueue) > 0 /\ Due(f, s) = Done(s) + 2 /\ s.promise[Done(s) + 1] # "unset"

(* What went over the wire, and what the promises say of it.               *)
WireInv(f, s) ==
  /\ \A i \in 1..Len(s.wire) : s.wire[i] = f + i - 1
  /\ \A i \in 1..Len(s.promise) :
       /\ s.promise[i] = "unset" => i > Done(s)
       /\ s.promise[i] = "value" => i < Due(f, s)

Good(f, s) ==
  s \in Strands /\ QueueInv(s) /\ TurnInv(s) /\ FlightInv(f, s) /\ DueInv(f, s) /\ WireInv(f, s)


(* A strand that was not started.                                          *)
Dormant(s) ==
  ~s.mSocketAvailable /\ s.inFlight = Idle /\ ~HasTurn(s.handlers) /\ s.wire = <<>>

Connected == connect = "done" /\ mOpenFut # "exception"

Started(s) == IF \E h \in Openers : Posted(s.handlers, h) THEN 0 ELSE 1

(* Before the connection is made nothing happens on the strands but what   *)
(* cancel() does; then each of them is started once.                       *)
OpenInv ==
  /\ ~Connected => mOpenCount = 0 /\ \A d \in Dir : Dormant(strand[d])
  /\ connect # "done" => \A d \in Dir : Done(strand[d]) = 0
  /\ Connected => mOpenCount = Started(strand["Send"]) + Started(strand["Recv"])
  /\ mOpenFut = "exception" => connect = "done"
  /\ \A d \in Dir : Posted(strand[d].handlers, "cancelOperations") => mOpenFut = "exception"
  /\ connect # "done" => mode = IF connect = "waiting" THEN "Server" ELSE "Client"

ControlType ==
  /\ mode \in Modes /\ open \in BOOLEAN
  /\ connect \in {"pending", "succeeded", "refused", "retry", "waiting", "done"}
  /\ mOpenFut \in {"unset", "value", "exception"}
  /\ user \in [pc : {"ready", "push", "post", "wait", "closing", "draining",
                     "cancelling", "closed"}, dir : Dir, blocks : BOOLEAN]
  /\ cancel \in {"no", "pending", "opening", "draining", "done"}
  /\ peer \in {"absent", "up", "down"}
  /\ terminated \in {"no", "socket", "promise", "handle", "expects"}

StrandsGood == strand \in [Dir -> Strands] /\ \A d \in Dir : Good(First(d), strand[d])

Inv == ControlType /\ StrandsGood /\ OpenInv /\ NoStall

-----------------------------------------------------------------------------
(* The handlers that wait on a strand.                                     *)

LEMMA AppendHandlers ==
  ASSUME NEW q \in Seq(Handlers), NEW h \in Handlers
  PROVE  /\ Append(q, h) \in Seq(Handlers)
         /\ \A g : Posted(Append(q, h), g) <=> Posted(q, g) \/ g = h
         /\ HasTurn(Append(q, h)) <=> HasTurn(q) \/ h \in Turns
         /\ OneTurn(q) /\ (h \in Turns => ~HasTurn(q)) => OneTurn(Append(q, h))
  <1> DEFINE r == Append(q, h)
  <1>1. /\ r \in Seq(Handlers) /\ Len(r) = Len(q) + 1 /\ Len(q) \in Nat
        /\ \A i \in 1..Len(q) : r[i] = q[i]
        /\ r[Len(q) + 1] = h
        /\ DOMAIN r = 1..Len(r) /\ DOMAIN q = 1..Len(q)
    OBVIOUS
  <1> HIDE DEF r
  <1>2. \A i \in DOMAIN r : i \in DOMAIN q \/ i = Len(q) + 1
    BY <1>1
  <1>3. \A g : Posted(r, g) <=> Posted(q, g) \/ g = h
    BY <1>1, <1>2 DEF Posted
  <1>4. HasTurn(r) <=> HasTurn(q) \/ h \in Turns
    BY <1>1, <1>2 DEF HasTurn
  <1>5. OneTurn(q) /\ (h \in Turns => ~HasTurn(q)) => OneTurn(r)
    BY <1>1, <1>2 DEF OneTurn, HasTurn
  <1> QED BY <1>1, <1>3, <1>4, <1>5 DEF r

LEMMA TailHandlers ==
  ASSUME NEW q \in Seq(Handlers), q # <<>>
  PROVE  /\ Tail(q) \in Seq(Handlers) /\ Head(q) \in Handlers
         /\ Posted(q, Head(q))
         /\ \A g : Posted(Tail(q), g) => Posted(q, g)
         /\ \A g : Posted(q, g) /\ g # Head(q) => Posted(Tail(q), g)
         /\ HasTurn(Tail(q)) => HasTurn(q)
         /\ OneTurn(q) => OneTurn(Tail(q))
         /\ OneTurn(q) /\ Head(q) \in Turns => ~HasTurn(Tail(q))
         /\ Head(q) \in Turns => HasTurn(q)
  <1> DEFINE r == Tail(q)
  <1>1. /\ r \in Seq(Handlers) /\ Len(q) \in Nat \ {0} /\ Len(r) = Len(q) - 1
        /\ \A i \in 1..Len(r) : r[i] = q[i + 1]
        /\ DOMAIN r = 1..Len(r) /\ DOMAIN q = 1..Len(q)
        /\ Head(q) = q[1] /\ Head(q) \in Handlers
    OBVIOUS
  <1> HIDE DEF r
  <1>2. \A i \in DOMAIN r : i + 1 \in DOMAIN q /\ i + 1 # 1 /\ r[i] = q[i + 1]
    BY <1>1
  <1>3. 1 \in DOMAIN q
    BY <1>1
  <1>4. \A i \in DOMAIN q : i = 1 \/ (i - 1 \in DOMAIN r /\ r[i - 1] = q[i])
    BY <1>1
  <1>5. \A g : Posted(r, g) => Posted(q, g)
    BY <1>2 DEF Posted
  <1>6. \A g : Posted(q, g) /\ g # Head(q) => Posted(r, g)
    BY <1>1, <1>4 DEF Posted
  <1>7. HasTurn(r) => HasTurn(q)
    BY <1>2 DEF HasTurn
  <1>8. OneTurn(q) => OneTurn(r)
    <2> SUFFICES ASSUME OneTurn(q), NEW i \in DOMAIN r, NEW j \in DOMAIN r,
                        r[i] \in Turns, r[j] \in Turns
                 PROVE  i = j
      BY DEF OneTurn
    <2>1. i + 1 = j + 1
      BY <1>2 DEF OneTurn
    <2> QED BY <1>1, <2>1
  <1>9. OneTurn(q) /\ Head(q) \in Turns => ~HasTurn(r)
    BY <1>1, <1>2, <1>3 DEF OneTurn, HasTurn
  <1>10. Posted(q, Head(q)) /\ (Head(q) \in Turns => HasTurn(q))
    BY <1>1, <1>3 DEF Posted, HasTurn
  <1> QED BY <1>1, <1>5, <1>6, <1>7, <1>8, <1>9, <1>10 DEF r

(* A handler that has the turn, and is posted, has the turn.               *)
LEMMA PostedTurn ==
  ASSUME NEW q \in Seq(Handlers), NEW h \in Turns, Posted(q, h)
  PROVE  HasTurn(q)
  BY DEF Posted, HasTurn

-----------------------------------------------------------------------------
(* What keeps a strand good.                                               *)

SameData(s, z) ==
  /\ z.mQueue = s.mQueue /\ z.promise = s.promise /\ z.wire = s.wire
  /\ z.mSocketAvailable = s.mSocketAvailable
  /\ z.inFlight = s.inFlight /\ z.result = s.result

(* Nothing but the status, the promise of close() and handlers without the *)
(* turn change.                                                            *)
LEMMA QuietChange ==
  ASSUME NEW f \in 0..1, NEW s \in Strands, NEW z \in Strands, Good(f, s), SameData(s, z),
         OneTurn(z.handlers), \A h \in Turns : Posted(z.handlers, h) => Posted(s.handlers, h)
  PROVE  Good(f, z)
  <1>1. HasTurn(z.handlers) => HasTurn(s.handlers)
    BY DEF HasTurn, Posted
  <1>2. Done(z) = Done(s) /\ Due(f, z) = Due(f, s)
    BY DEF SameData, Done, Due
  <1>3. QueueInv(z)
    BY <1>2 DEF Good, QueueInv, SameData
  <1>4. TurnInv(z)
    BY <1>1 DEF Good, TurnInv, SameData
  <1>5. FlightInv(f, z)
    BY <1>2 DEF Good, FlightInv, SameData
  <1>6. DueInv(f, z)
    BY <1>2 DEF Good, DueInv, SameData, Turns, Openers
  <1>7. WireInv(f, z)
    BY <1>2 DEF Good, WireInv, SameData
  <1> QED BY <1>3, <1>4, <1>5, <1>6, <1>7 DEF Good

(* The socket is given the next operation, or there is none.               *)
LEMMA Resume ==
  ASSUME NEW f \in 0..1, NEW z \in Strands, QueueInv(z), WireInv(f, z),
         ~HasTurn(z.handlers), Due(f, z) = Done(z) + 1, z.result = "none",
         z.mQueue = <<>> => z.mSocketAvailable /\ z.inFlight = Idle,
         z.mQueue # <<>> => ~z.mSocketAvailable /\ z.inFlight = Head(z.mQueue)
  PROVE  Good(f, z)
  <1>1. z.mQueue \in Seq(Nat) /\ z.promise \in Seq(Promises) /\ z.handlers \in Seq(Handlers)
    BY DEF Strands
  <1>2. z.mQueue # <<>> => Len(z.mQueue) \in Nat \ {0} /\ z.inFlight = z.mQueue[1]
    BY <1>1
  <1>3. z.mQueue # <<>> => z.inFlight = Done(z) + 1
    BY <1>2 DEF QueueInv
  <1>4. Done(z) \in Nat
    BY <1>1 DEF QueueInv, Done
  <1>5. TurnInv(z)
    BY DEF TurnInv, OneTurn, HasTurn
  <1>6. FlightInv(f, z)
    BY <1>2, <1>3, <1>4 DEF FlightInv, Idle, ConnectionString
  <1>7. \A h \in Turns : ~Posted(z.handlers, h)
    BY DEF HasTurn, Posted
  <1>8. DueInv(f, z)
    BY <1>7 DEF DueInv, Turns, Openers
  <1> QED BY <1>5, <1>6, <1>8 DEF Good

(* What is in the queue.                                                   *)
LEMMA QueueContents ==
  ASSUME NEW s \in Strands, QueueInv(s)
  PROVE  /\ Queued(s) = (Done(s) + 1)..Len(s.promise)
         /\ Done(s) \in Nat /\ Len(s.promise) \in Nat /\ Len(s.mQueue) \in Nat
         /\ s.mQueue # <<>> <=> Done(s) < Len(s.promise)
         /\ s.mQueue # <<>> => Head(s.mQueue) = Done(s) + 1
  <1>1. /\ Len(s.mQueue) \in Nat /\ Len(s.promise) \in Nat
        /\ s.mQueue # <<>> <=> Len(s.mQueue) # 0
        /\ s.mQueue # <<>> => Head(s.mQueue) = s.mQueue[1]
        /\ DOMAIN s.mQueue = 1..Len(s.mQueue)
    BY DEF Strands
  <1>2. PICK n \in Nat, m \in Nat : n = Len(s.promise) /\ m = Len(s.mQueue)
    BY <1>1
  <1>3. m <= n /\ Done(s) = n - m /\ \A i \in 1..m : s.mQueue[i] = Done(s) + i
    BY <1>2 DEF QueueInv, Done
  <1>4. /\ Done(s) \in Nat
        /\ m # 0 <=> Done(s) < n
        /\ m # 0 => 1 \in 1..m
        /\ \A i \in 1..m : Done(s) + i \in (Done(s) + 1)..n
        /\ \A i \in (Done(s) + 1)..n : i - Done(s) \in 1..m /\ Done(s) + (i - Done(s)) = i
    BY <1>3
  <1>5. \A i \in DOMAIN s.mQueue : s.mQueue[i] \in (Done(s) + 1)..n
    <2>1. DOMAIN s.mQueue = 1..m
      BY <1>1, <1>2
    <2> QED BY <1>3, <1>4, <2>1
  <1>6. ASSUME NEW i \in (Done(s) + 1)..n
        PROVE  i \in Queued(s)
    <2>1. i - Done(s) \in DOMAIN s.mQueue /\ s.mQueue[i - Done(s)] = i
      BY <1>1, <1>2, <1>3, <1>4
    <2> QED BY <2>1 DEF Queued
  <1>7. Queued(s) = (Done(s) + 1)..n
    BY <1>5, <1>6 DEF Queued
  <1>8. s.mQueue # <<>> => Head(s.mQueue) = Done(s) + 1
    BY <1>1, <1>2, <1>3, <1>4
  <1> QED BY <1>1, <1>2, <1>4, <1>7, <1>8

(* All that is queued is cancelled, when nothing is to be performed.       *)
LEMMA Clear ==
  ASSUME NEW f \in 0..1, NEW s \in Strands, NEW z \in Strands, Good(f, s),
         s.inFlight = Idle, ~s.mSocketAvailable, ~HasTurn(z.handlers),
         z.mSocketAvailable = s.mSocketAvailable, z.inFlight = s.inFlight,
         z.result = s.result, z.wire = s.wire,
         z.mQueue = <<>>, z.promise = Cancelled(s)
  PROVE  Good(f, z)
  <1>1. QueueInv(s) /\ WireInv(f, s) /\ s.result = "none"
    BY DEF Good, TurnInv, Strands
  <1>2. /\ z.promise \in Seq(Promises) /\ Len(z.promise) = Len(s.promise)
        /\ Len(z.promise) \in Nat
        /\ \A i \in 1..Len(s.promise) :
             z.promise[i] = IF i \in Queued(s) /\ s.promise[i] = "unset"
                            THEN "exception" ELSE s.promise[i]
    <2>1. s.promise \in Seq(Promises) /\ DOMAIN s.promise = 1..Len(s.promise)
          /\ Len(s.promise) \in Nat
      BY DEF Strands
    <2>2. PICK n \in Nat : n = Len(s.promise)
      BY <2>1
    <2> DEFINE w == [i \in 1..n |-> IF i \in Queued(s) /\ s.promise[i] = "unset"
                                    THEN "exception" ELSE s.promise[i]]
    <2>3. \A i \in 1..n : w[i] \in Promises
      BY <2>1, <2>2 DEF Promises
    <2>4. w \in Seq(Promises) /\ Len(w) = n
      BY <2>3
    <2>5. z.promise = w
      BY <2>1, <2>2 DEF Cancelled
    <2> QED BY <2>2, <2>4, <2>5
  <1>3. Done(z) = Len(z.promise) /\ Len(z.mQueue) = 0
    BY <1>2 DEF Done
  <1>4. QueueInv(z)
    BY <1>2, <1>3 DEF QueueInv
  <1>5. TurnInv(z)
    BY <1>1 DEF TurnInv, OneTurn, HasTurn
  <1>6. FlightInv(f, z)
    BY <1>1 DEF FlightInv, Idle, ConnectionString
  <1>7. \A h \in Turns : ~Posted(z.handlers, h)
    BY DEF HasTurn, Posted
  <1>8. DueInv(f, z)
    BY <1>7 DEF DueInv, Turns, Openers
  <1>9. \A i \in 1..Len(z.promise) : /\ z.promise[i] # "unset"
                                     /\ z.promise[i] = "value" => i < Due(f, z)
    <2> SUFFICES ASSUME NEW i \in 1..Len(s.promise)
                 PROVE  /\ z.promise[i] # "unset"
                        /\ z.promise[i] = "value" => i < Due(f, z)
      BY <1>2
    <2>1. s.promise[i] = "unset" => i \in Queued(s)
      BY <1>1, QueueContents DEF WireInv
    <2>2. Due(f, z) = Due(f, s)
      BY DEF Due
    <2> QED BY <1>1, <1>2, <2>1, <2>2 DEF WireInv
  <1>10. WireInv(f, z)
    BY <1>1, <1>9 DEF WireInv
  <1> QED BY <1>4, <1>5, <1>6, <1>8, <1>10 DEF Good

LEMMA AppendFacts ==
  ASSUME NEW S, NEW q \in Seq(S), NEW e \in S
  PROVE  /\ Append(q, e) # <<>> /\ Len(Append(q, e)) = Len(q) + 1
         /\ Append(q, e)[Len(q) + 1] = e
         /\ \A i \in 1..Len(q) : Append(q, e)[i] = q[i]
  OBVIOUS

(* The user's thread appends an operation.                                 *)
LEMMA Push ==
  ASSUME NEW f \in 0..1, NEW s \in Strands, Good(f, s), NEW v \in {"none", "unset"}
  PROVE  LET z == [s EXCEPT !.promise = Append(@, v),
                            !.mQueue = Append(@, Len(s.promise) + 1)]
         IN  Good(f, z) /\ z \in Strands /\ Done(z) = Done(s) /\ z.mQueue # <<>>
  <1> DEFINE z == [s EXCEPT !.promise = Append(@, v),
                            !.mQueue = Append(@, Len(s.promise) + 1)]
  <1>1. s.promise \in Seq(Promises) /\ s.mQueue \in Seq(Nat) /\ v \in Promises
    BY DEF Strands, Promises
  <1>2. PICK n \in Nat, m \in Nat : n = Len(s.promise) /\ m = Len(s.mQueue)
    BY <1>1
  <1>3. Append(s.promise, v) \in Seq(Promises) /\ Append(s.mQueue, n + 1) \in Seq(Nat)
    BY <1>1
  <1>4. /\ z \in Strands
        /\ z.promise = Append(s.promise, v) /\ z.mQueue = Append(s.mQueue, n + 1)
        /\ z.handlers = s.handlers /\ z.wire = s.wire /\ z.inFlight = s.inFlight
        /\ z.mSocketAvailable = s.mSocketAvailable /\ z.result = s.result
    BY <1>2, <1>3 DEF Strands
  <1> HIDE DEF z
  <1>5. /\ Len(z.promise) = n + 1 /\ Len(z.mQueue) = m + 1
        /\ \A i \in 1..n : z.promise[i] = s.promise[i]
        /\ z.promise[n + 1] = v
        /\ \A i \in 1..m : z.mQueue[i] = s.mQueue[i]
        /\ z.mQueue[m + 1] = n + 1
        /\ z.mQueue # <<>>
    <2>1. /\ Len(z.promise) = n + 1 /\ z.promise[n + 1] = v
          /\ \A i \in 1..n : z.promise[i] = s.promise[i]
      BY <1>1, <1>2, <1>4, AppendFacts
    <2>2. n + 1 \in Nat
      OBVIOUS
    <2>3. /\ Len(z.mQueue) = m + 1 /\ z.mQueue[m + 1] = n + 1 /\ z.mQueue # <<>>
          /\ \A i \in 1..m : z.mQueue[i] = s.mQueue[i]
      BY <1>1, <1>2, <1>4, <2>2, AppendFacts
    <2> QED BY <2>1, <2>3
  <1>6. m <= n /\ Done(s) = n - m /\ Done(z) = (n + 1) - (m + 1) /\ Due(f, z) = Due(f, s)
    BY <1>2, <1>4, <1>5 DEF Done, Due, Good, QueueInv
  <1>7. Done(z) = Done(s) /\ Done(s) \in 0..n
    BY <1>6
  <1>8. QueueInv(z)
    <2>1. \A i \in 1..m : s.mQueue[i] = Done(s) + i
      BY <1>2 DEF Good, QueueInv
    <2>2. n + 1 = Done(s) + (m + 1) /\ m + 1 <= n + 1
          /\ \A i \in 1..(m + 1) : i \in 1..m \/ i = m + 1
      BY <1>6
    <2>3. \A i \in 1..(m + 1) : z.mQueue[i] = Done(z) + i
      BY <1>5, <1>7, <2>1, <2>2
    <2> QED BY <1>5, <2>2, <2>3 DEF QueueInv
  <1>9. TurnInv(z)
    BY <1>4 DEF Good, TurnInv
  <1>10. m # 0 => m > 0 /\ 1 \in 1..m /\ Done(s) + 1 \in 1..n
    BY <1>6
  <1>11. FlightInv(f, z)
    <2>1. FlightInv(f, s) /\ m + 1 > 0
      BY DEF Good
    <2>2. s.inFlight >= 1 => s.inFlight \in 1..n
      BY <1>2, <1>10, <2>1 DEF FlightInv
    <2> QED BY <1>4, <1>5, <1>6, <1>7, <2>1, <2>2 DEF FlightInv
  <1>12. DueInv(f, z)
    <2>1. DueInv(f, s) /\ m + 1 > 0
      BY DEF Good
    <2>2. Posted(s.handlers, "complete") => Done(s) + 1 \in 1..n
      BY <1>2, <1>10, <2>1 DEF DueInv
    <2> QED BY <1>4, <1>5, <1>6, <1>7, <2>1, <2>2 DEF DueInv
  <1>13. WireInv(f, z)
    <2>1. WireInv(f, s)
      BY DEF Good
    <2>2. \A i \in 1..(n + 1) : i \in 1..n \/ (i = n + 1 /\ i > Done(s))
      BY <1>7
    <2>3. ASSUME NEW i \in 1..Len(z.promise)
          PROVE  /\ z.promise[i] = "unset" => i > Done(z)
                 /\ z.promise[i] = "value" => i < Due(f, z)
      BY <1>2, <1>5, <1>6, <1>7, <2>1, <2>2 DEF WireInv
    <2> QED BY <1>4, <2>1, <2>3 DEF WireInv
  <1> QED BY <1>4, <1>5, <1>7, <1>8, <1>9, <1>11, <1>12, <1>13 DEF Good, z

(* The socket has an answer for what it was given.                         *)
LEMMA Answer ==
  ASSUME NEW f \in 0..1, NEW s \in Strands, Good(f, s), s.inFlight # Idle, s.result = "none",
         NEW p \in Seq(Promises), Len(p) = Len(s.promise),
         NEW v \in {"value", "exception"}, NEW r \in {"ok", "error"},
         NEW w \in Seq(Nat),
         \A i \in 1..Len(s.promise) : i # s.inFlight => p[i] = s.promise[i],
         s.inFlight >= 1 =>
           \/ p[s.inFlight] = s.promise[s.inFlight] /\ (r = "ok" => p[s.inFlight] # "unset")
           \/ p[s.inFlight] = v /\ (v = "value" => r = "ok"),
         w = IF r = "ok" THEN Append(s.wire, s.inFlight) ELSE s.wire
  PROVE  LET z == [s EXCEPT !.result = r, !.promise = p, !.wire = w]
         IN  Good(f, z) /\ z \in Strands
  <1> DEFINE z == [s EXCEPT !.result = r, !.promise = p, !.wire = w]
  <1>1. s.promise \in Seq(Promises) /\ s.mQueue \in Seq(Nat) /\ s.wire \in Seq(Nat)
    BY DEF Strands
  <1>2. PICK n \in Nat, m \in Nat, k \in Nat :
          n = Len(s.promise) /\ m = Len(s.mQueue) /\ k = Len(s.wire)
    BY <1>1
  <1>3. /\ z \in Strands
        /\ z.promise = p /\ z.wire = w /\ z.result = r
        /\ z.mQueue = s.mQueue /\ z.handlers = s.handlers /\ z.inFlight = s.inFlight
        /\ z.mSocketAvailable = s.mSocketAvailable
    BY DEF Strands
  <1> HIDE DEF z
  <1>4. m <= n /\ Done(s) = n - m /\ Done(z) = n - m /\ Due(f, s) = f + k
    BY <1>2, <1>3 DEF Done, Due, Good, QueueInv
  <1>5. /\ s.inFlight \in Nat /\ Due(f, s) = s.inFlight
        /\ s.inFlight >= 1 => s.inFlight = Done(s) + 1 /\ m > 0
        /\ s.inFlight = 0 => f = 0 /\ Done(s) = 0
    BY <1>2 DEF Good, FlightInv, ConnectionString, Strands
  <1>6. s.inFlight >= 1 => s.inFlight \in 1..n
    BY <1>4, <1>5
  <1>7. r = "ok" => Len(w) = k + 1 /\ w[k + 1] = s.inFlight /\ \A i \in 1..k : w[i] = s.wire[i]
    BY <1>1, <1>2, <1>5
  <1>8. Due(f, z) = IF r = "ok" THEN s.inFlight + 1 ELSE s.inFlight
    <2>1. Due(f, z) = f + Len(w)
      BY <1>3 DEF Due
    <2>2. PICK l \in Nat : l = Len(w) /\ l = IF r = "ok" THEN k + 1 ELSE k
      BY <1>2, <1>7
    <2>3. Due(f, z) = f + l
      BY <2>1, <2>2
    <2> QED BY <1>4, <1>5, <2>2, <2>3
  <1>9. QueueInv(z)
    BY <1>2, <1>3, <1>4 DEF Good, QueueInv
  <1>10. TurnInv(z)
    BY <1>3 DEF Good, TurnInv
  <1>11. ~s.mSocketAvailable /\ ~HasTurn(s.handlers)
    BY DEF Good, TurnInv
  <1>12. DueInv(f, z)
    <2>1. \A h \in Turns : ~Posted(z.handlers, h)
      BY <1>3, <1>11, PostedTurn DEF HasTurn, Posted
    <2> QED BY <1>3, <1>11, <2>1 DEF DueInv, Turns, Openers
  <1>13. FlightInv(f, z)
    <2>1. s.inFlight >= 1 /\ r = "ok" => p[s.inFlight] # "unset"
      OBVIOUS
    <2>2. s.inFlight >= 1 => Len(z.mQueue) > 0 /\ z.inFlight = Done(z) + 1
      BY <1>2, <1>3, <1>4, <1>5
    <2>3. z.inFlight = ConnectionString => f = 0 /\ Done(z) = 0
      BY <1>3, <1>4, <1>5 DEF ConnectionString
    <2>4. Due(f, z) = IF z.result = "ok" THEN z.inFlight + 1 ELSE z.inFlight
      BY <1>3, <1>8
    <2> QED BY <1>3, <1>5, <2>1, <2>2, <2>3, <2>4 DEF FlightInv
  <1>14. WireInv(f, z)
    <2>1. \A i \in 1..Len(w) : w[i] = f + i - 1
      <3>1. \A i \in 1..k : s.wire[i] = f + i - 1
        BY <1>2 DEF Good, WireInv
      <3>2. CASE r = "ok"
        <4>1. \A i \in 1..(k + 1) : i \in 1..k \/ (i = k + 1 /\ f + i - 1 = s.inFlight)
          BY <1>4, <1>5
        <4> QED BY <1>7, <3>1, <3>2, <4>1
      <3>3. CASE r = "error"
        BY <1>2, <3>1, <3>3
      <3> QED BY <3>2, <3>3
    <2>2. ASSUME NEW i \in 1..n
          PROVE  /\ p[i] = "unset" => i > Done(z)
                 /\ p[i] = "value" => i < Due(f, z)
      <3>1. /\ s.promise[i] = "unset" => i > Done(s)
            /\ s.promise[i] = "value" => i < Due(f, s)
        BY <1>2 DEF Good, WireInv
      <3>2. CASE i # s.inFlight
        <4>1. p[i] = s.promise[i] /\ Done(z) = Done(s)
          BY <1>2, <1>4, <3>2
        <4>2. i < Due(f, s) => i < Due(f, z)
          BY <1>5, <1>8
        <4> QED BY <3>1, <4>1, <4>2
      <3>3. CASE i = s.inFlight
        <4>1. i >= 1 /\ i > Done(z) /\ (r = "ok" => i < Due(f, z))
          BY <1>4, <1>5, <1>8, <3>3
        <4>2. s.promise[i] = "value" => i < Due(f, z)
          BY <1>5, <1>8, <3>1, <3>3
        <4> QED BY <3>3, <4>1, <4>2
      <3> QED BY <3>2, <3>3
    <2> QED BY <1>2, <1>3, <2>1, <2>2 DEF WireInv
  <1> QED BY <1>3, <1>9, <1>10, <1>12, <1>13, <1>14 DEF Good, z

(* The answer is posted to the strand.                                     *)
LEMMA Dispatch ==
  ASSUME NEW f \in 0..1, NEW s \in Strands, Good(f, s), s.result # "none",
         NEW h \in {"error", "connectionStringSent", "complete"},
         h = IF s.result = "error" THEN "error"
             ELSE IF s.inFlight = ConnectionString THEN "connectionStringSent"
             ELSE "complete"
  PROVE  LET z == Post([s EXCEPT !.result = "none", !.inFlight = Idle], h)
         IN  Good(f, z) /\ z \in Strands
  <1> DEFINE z == Post([s EXCEPT !.result = "none", !.inFlight = Idle], h)
  <1>1. h \in Handlers /\ s.handlers \in Seq(Handlers) /\ h \in Turns
    BY DEF Strands, Handlers, Turns
  <1>2. /\ z \in Strands
        /\ z.handlers = Append(s.handlers, h) /\ z.result = "none" /\ z.inFlight = Idle
        /\ z.promise = s.promise /\ z.wire = s.wire /\ z.mQueue = s.mQueue
        /\ z.mSocketAvailable = s.mSocketAvailable
    <2>1. Append(s.handlers, h) \in Seq(Handlers) /\ Idle \in Int
      BY <1>1 DEF Idle
    <2> QED BY <2>1 DEF Strands, Post
  <1> HIDE DEF z
  <1>3. Done(z) = Done(s) /\ Due(f, z) = Due(f, s)
    BY <1>2 DEF Done, Due
  <1>4. s.inFlight # Idle /\ ~s.mSocketAvailable /\ ~HasTurn(s.handlers)
    BY DEF Good, TurnInv
  <1>5. /\ OneTurn(z.handlers)
        /\ \A g \in Turns : Posted(z.handlers, g) <=> g = h
    BY <1>1, <1>2, <1>4, AppendHandlers, PostedTurn DEF OneTurn, HasTurn
  <1>6. QueueInv(z) /\ WireInv(f, z)
    BY <1>2, <1>3 DEF Good, QueueInv, WireInv
  <1>7. TurnInv(z) /\ FlightInv(f, z)
    BY <1>2, <1>4, <1>5 DEF TurnInv, FlightInv, Idle, ConnectionString
  <1>8. DueInv(f, z)
    <2>1. Posted(z.handlers, "connectionStringSent") => Due(f, s) = Done(s) + 1
      BY <1>4, <1>5 DEF Turns, Good, FlightInv, ConnectionString, Strands
    <2>2. Posted(z.handlers, "complete") =>
            Len(s.mQueue) > 0 /\ Due(f, s) = Done(s) + 2 /\ s.promise[Done(s) + 1] # "unset"
      <3>1. s \in Strands /\ FlightInv(f, s) /\ QueueInv(s)
        BY DEF Good
      <3>2. Posted(z.handlers, "complete") => s.inFlight >= 1 /\ s.result = "ok"
        BY <1>4, <1>5, <3>1 DEF Turns, FlightInv, ConnectionString, Strands
      <3>3. Done(s) \in Nat
        BY <3>1, QueueContents
      <3> QED BY <1>4, <3>1, <3>2, <3>3 DEF FlightInv
    <2>3. \A g \in Openers : ~Posted(z.handlers, g)
      BY <1>5 DEF Turns, Openers
    <2> QED BY <1>2, <1>3, <1>4, <2>1, <2>2, <2>3 DEF DueInv, Openers
  <1> QED BY <1>2, <1>6, <1>7, <1>8 DEF Good, z

-----------------------------------------------------------------------------
(* The handlers of a strand: the next one is taken, after is what else it  *)
(* does.                                                                   *)

Taken(after) == [after EXCEPT !.handlers = Tail(@)]

(* A handler leaves no operation behind that no other handler will find.   *)
Took(s, z) ==
  /\ z \in Strands
  /\ z.handlers = Tail(s.handlers)
  /\ z.mSocketAvailable /\ z.mQueue # <<>> =>
       s.mSocketAvailable /\ s.mQueue # <<>> /\ Head(s.handlers) # "enqueue"

LEMMA TakenFields ==
  ASSUME NEW s \in Strands, s.handlers # <<>>, NEW after \in Strands,
         after.handlers = s.handlers
  PROVE  /\ Taken(after) \in Strands
         /\ Taken(after).handlers = Tail(s.handlers)
         /\ SameData(after, Taken(after))
  <1>1. s.handlers \in Seq(Handlers)
    BY DEF Strands
  <1>2. Tail(s.handlers) \in Seq(Handlers)
    BY <1>1, TailHandlers
  <1> QED BY <1>2 DEF Strands, Taken, SameData

(* A socket that has become available.                                     *)
LEMMA PerformFields ==
  ASSUME NEW s \in Strands, s.mSocketAvailable, s.inFlight = Idle,
         NEW y, y = PerformIfAny(s) \/ y = Continue(s)
  PROVE  /\ y \in Strands
         /\ y.handlers = s.handlers /\ y.mQueue = s.mQueue /\ y.promise = s.promise
         /\ y.wire = s.wire /\ y.result = s.result
         /\ y.mQueue = <<>> => y.mSocketAvailable /\ y.inFlight = Idle
         /\ y.mQueue # <<>> => ~y.mSocketAvailable /\ y.inFlight = Head(y.mQueue)
  <1>1. s.mQueue \in Seq(Nat) /\ (s.mQueue # <<>> => Head(s.mQueue) \in Int)
    BY DEF Strands
  <1>2. CASE s.mQueue # <<>>
    <2>1. y = [s EXCEPT !.mSocketAvailable = FALSE, !.inFlight = Head(s.mQueue)]
      BY <1>2 DEF PerformIfAny, Continue, asyncPerform
    <2> QED BY <1>1, <1>2, <2>1 DEF Strands
  <1>3. CASE s.mQueue = <<>>
    <2>1. y = s \/ y = [s EXCEPT !.mQueueEmpty = TRUE, !.replacing = TRUE]
      BY <1>3 DEF PerformIfAny, Continue
    <2> QED BY <1>3, <2>1 DEF Strands
  <1> QED BY <1>2, <1>3

(* The handler that has the turn makes the socket available.               *)
LEMMA TakesTurn ==
  ASSUME NEW f \in 0..1, NEW s \in Strands, NEW m \in Strands, NEW y,
         s.handlers # <<>>, OneTurn(s.handlers), Head(s.handlers) \in Turns,
         QueueInv(m), WireInv(f, m), Due(f, m) = Done(m) + 1,
         m.handlers = s.handlers, m.result = "none",
         m.mSocketAvailable, m.inFlight = Idle,
         y = PerformIfAny(m) \/ y = Continue(m)
  PROVE  Good(f, Taken(y)) /\ Took(s, Taken(y))
  <1> DEFINE z == Taken(y)
  <1>1. /\ y \in Strands
        /\ y.handlers = s.handlers /\ y.mQueue = m.mQueue /\ y.promise = m.promise
        /\ y.wire = m.wire /\ y.result = "none"
        /\ y.mQueue = <<>> => y.mSocketAvailable /\ y.inFlight = Idle
        /\ y.mQueue # <<>> => ~y.mSocketAvailable /\ y.inFlight = Head(y.mQueue)
    BY PerformFields
  <1>2. z \in Strands /\ z.handlers = Tail(s.handlers) /\ SameData(y, z)
    BY <1>1, TakenFields
  <1>3. ~HasTurn(z.handlers)
    BY <1>2, TailHandlers DEF Strands
  <1> HIDE DEF z
  <1>4. Done(z) = Done(m) /\ Due(f, z) = Due(f, m)
    BY <1>1, <1>2 DEF Done, Due, SameData
  <1>5. QueueInv(z) /\ WireInv(f, z)
    BY <1>1, <1>2, <1>4 DEF QueueInv, WireInv, SameData
  <1>6. Good(f, z)
    BY <1>1, <1>2, <1>3, <1>4, <1>5, Resume DEF SameData
  <1>7. Took(s, z)
    BY <1>1, <1>2 DEF Took, SameData
  <1> QED BY <1>6, <1>7 DEF z

(* A handler without the turn that leaves the queue and the socket alone.  *)
LEMMA TakesNoTurn ==
  ASSUME NEW f \in 0..1, NEW s \in Strands, NEW after \in Strands, Good(f, s),
         s.handlers # <<>>, SameData(s, after), after.handlers = s.handlers,
         Head(s.handlers) # "enqueue" \/ ~s.mSocketAvailable \/ s.mQueue = <<>>
  PROVE  /\ Good(f, Taken(after)) /\ Took(s, Taken(after))
         /\ Done(Taken(after)) = Done(s)
         /\ Dormant(s) => Dormant(Taken(after))
  <1> DEFINE z == Taken(after)
  <1>1. z \in Strands /\ z.handlers = Tail(s.handlers) /\ SameData(s, z)
    BY TakenFields DEF SameData
  <1>2. /\ OneTurn(z.handlers)
        /\ \A h : Posted(z.handlers, h) => Posted(s.handlers, h)
        /\ HasTurn(z.handlers) => HasTurn(s.handlers)
    <2>1. s.handlers \in Seq(Handlers) /\ OneTurn(s.handlers)
      BY DEF Strands, Good, TurnInv
    <2> HIDE DEF z
    <2> QED BY <1>1, <2>1, TailHandlers
  <1> HIDE DEF z
  <1>3. Good(f, z)
    BY <1>1, <1>2, QuietChange
  <1>4. Took(s, z) /\ Done(z) = Done(s) /\ (Dormant(s) => Dormant(z))
    BY <1>1, <1>2 DEF Took, Done, Dormant, SameData
  <1> QED BY <1>3, <1>4 DEF z

(* The handler at the head, when it has the turn.                          *)
LEMMA HeadHasTurn ==
  ASSUME NEW f, NEW s \in Strands, Good(f, s), s.handlers # <<>>, Head(s.handlers) \in Turns
  PROVE  /\ OneTurn(s.handlers) /\ Posted(s.handlers, Head(s.handlers))
         /\ ~s.mSocketAvailable /\ s.inFlight = Idle /\ s.result = "none"
         /\ QueueInv(s) /\ WireInv(f, s) /\ DueInv(f, s)
         /\ ~HasTurn(Tail(s.handlers))
  BY TailHandlers DEF Good, TurnInv, Strands

LEMMA OpenTurn ==
  ASSUME NEW f \in 0..1, NEW s \in Strands, Good(f, s), s.handlers # <<>>,
         Head(s.handlers) = "open"
  PROVE  LET z == Taken(PerformIfAny([s EXCEPT !.mSocketAvailable = TRUE]))
         IN  Good(f, z) /\ Took(s, z)
  <1> DEFINE m == [s EXCEPT !.mSocketAvailable = TRUE]
  <1>1. Head(s.handlers) \in Turns
    BY DEF Turns, Openers
  <1>2. Due(f, s) = Done(s) + 1
    BY <1>1, HeadHasTurn DEF DueInv
  <1>3. /\ m \in Strands /\ m.handlers = s.handlers /\ m.result = "none"
        /\ m.mSocketAvailable /\ m.inFlight = Idle
        /\ m.mQueue = s.mQueue /\ m.promise = s.promise /\ m.wire = s.wire
    BY <1>1, HeadHasTurn DEF Strands
  <1> HIDE DEF m
  <1>4. Done(m) = Done(s) /\ Due(f, m) = Due(f, s)
    BY <1>3 DEF Done, Due
  <1>5. QueueInv(m) /\ WireInv(f, m)
    BY <1>1, <1>3, <1>4, HeadHasTurn DEF QueueInv, WireInv
  <1>6. Good(f, Taken(PerformIfAny(m))) /\ Took(s, Taken(PerformIfAny(m)))
    BY <1>1, <1>2, <1>3, <1>4, <1>5, HeadHasTurn, TakesTurn
  <1> QED BY <1>6 DEF m

LEMMA ConnectionStringSentTurn ==
  ASSUME NEW f \in 0..1, NEW s \in Strands, Good(f, s), s.handlers # <<>>,
         Head(s.handlers) = "connectionStringSent"
  PROVE  LET z == Taken(Continue([s EXCEPT !.mSocketAvailable = TRUE]))
         IN  Good(f, z) /\ Took(s, z)
  <1> DEFINE m == [s EXCEPT !.mSocketAvailable = TRUE]
  <1>1. Head(s.handlers) \in Turns
    BY DEF Turns, Openers
  <1>2. Due(f, s) = Done(s) + 1
    BY <1>1, HeadHasTurn DEF DueInv
  <1>3. /\ m \in Strands /\ m.handlers = s.handlers /\ m.result = "none"
        /\ m.mSocketAvailable /\ m.inFlight = Idle
        /\ m.mQueue = s.mQueue /\ m.promise = s.promise /\ m.wire = s.wire
    BY <1>1, HeadHasTurn DEF Strands
  <1> HIDE DEF m
  <1>4. Done(m) = Done(s) /\ Due(f, m) = Due(f, s)
    BY <1>3 DEF Done, Due
  <1>5. QueueInv(m) /\ WireInv(f, m)
    BY <1>1, <1>3, <1>4, HeadHasTurn DEF QueueInv, WireInv
  <1>6. Good(f, Taken(Continue(m))) /\ Took(s, Taken(Continue(m)))
    BY <1>1, <1>2, <1>3, <1>4, <1>5, HeadHasTurn, TakesTurn
  <1> QED BY <1>6 DEF m

LEMMA CompleteTurn ==
  ASSUME NEW f \in 0..1, NEW s \in Strands, Good(f, s), s.handlers # <<>>,
         Head(s.handlers) = "complete"
  PROVE  LET z == Taken(Continue([s EXCEPT !.mSocketAvailable = TRUE, !.mQueue = Tail(@)]))
         IN  Good(f, z) /\ Took(s, z)
  <1> DEFINE m == [s EXCEPT !.mSocketAvailable = TRUE, !.mQueue = Tail(@)]
  <1>1. Head(s.handlers) \in Turns
    BY DEF Turns, Openers
  <1>2. /\ Len(s.mQueue) > 0 /\ Due(f, s) = Done(s) + 2
        /\ s.promise[Done(s) + 1] # "unset"
    BY <1>1, HeadHasTurn DEF DueInv
  <1>3. s.promise \in Seq(Promises) /\ s.mQueue \in Seq(Nat) /\ s.mQueue # <<>>
    BY <1>2 DEF Strands
  <1>4. Tail(s.mQueue) \in Seq(Nat)
    BY <1>3
  <1>5. /\ m \in Strands /\ m.handlers = s.handlers /\ m.result = "none"
        /\ m.mSocketAvailable /\ m.inFlight = Idle
        /\ m.mQueue = Tail(s.mQueue) /\ m.promise = s.promise /\ m.wire = s.wire
    BY <1>1, <1>4, HeadHasTurn DEF Strands
  <1> HIDE DEF m
  <1>6. PICK n \in Nat, k \in Nat \ {0} : n = Len(s.promise) /\ k = Len(s.mQueue)
    BY <1>3
  <1>7. Len(m.mQueue) = k - 1 /\ \A i \in 1..(k - 1) : m.mQueue[i] = s.mQueue[i + 1]
    BY <1>3, <1>5, <1>6
  <1>8. Done(s) = n - k /\ Done(m) = n - (k - 1) /\ Due(f, m) = Due(f, s) /\ k <= n
    BY <1>1, <1>5, <1>6, <1>7, HeadHasTurn DEF Done, Due, QueueInv
  <1>9. Done(m) = Done(s) + 1 /\ Done(s) \in Nat
    BY <1>8
  <1>10. QueueInv(m)
    <2>1. \A i \in 1..k : s.mQueue[i] = Done(s) + i
      BY <1>1, <1>6, HeadHasTurn DEF QueueInv
    <2>2. \A i \in 1..(k - 1) : i + 1 \in 1..k /\ Done(s) + (i + 1) = Done(m) + i
      BY <1>9
    <2>3. \A i \in 1..(k - 1) : m.mQueue[i] = Done(m) + i
      BY <1>7, <2>1, <2>2
    <2>4. k - 1 <= n
      BY <1>8
    <2> QED BY <1>5, <1>6, <1>7, <2>3, <2>4 DEF QueueInv
  <1>11. WireInv(f, m)
    <2>1. WireInv(f, s)
      BY <1>1, HeadHasTurn
    <2>2. ASSUME NEW i \in 1..n, s.promise[i] = "unset"
          PROVE  i > Done(m)
      <3>1. i > Done(s) /\ i # Done(s) + 1
        BY <1>2, <1>6, <2>1, <2>2 DEF WireInv
      <3> QED BY <1>9, <3>1
    <2> QED BY <1>5, <1>6, <1>8, <2>1, <2>2 DEF WireInv
  <1>12. Due(f, m) = Done(m) + 1
    BY <1>2, <1>8, <1>9
  <1>13. Good(f, Taken(Continue(m))) /\ Took(s, Taken(Continue(m)))
    BY <1>1, <1>5, <1>10, <1>11, <1>12, HeadHasTurn, TakesTurn
  <1> QED BY <1>13 DEF m

(* The connection string is given to the socket.                           *)
LEMMA ConnectionStringTurn ==
  ASSUME NEW f \in 0..1, NEW s \in Strands, Good(f, s), s.handlers # <<>>,
         Head(s.handlers) = "connectionString"
  PROVE  LET z == Taken([s EXCEPT !.inFlight = ConnectionString])
         IN  Good(f, z) /\ Took(s, z)
  <1> DEFINE m == [s EXCEPT !.inFlight = ConnectionString]  z == Taken(m)
  <1>1. Head(s.handlers) \in Turns
    BY DEF Turns, Openers
  <1>2. f = 0 /\ Due(f, s) = 0 /\ Done(s) = 0
    BY <1>1, HeadHasTurn DEF DueInv
  <1>3. /\ m \in Strands /\ m.handlers = s.handlers /\ m.result = "none"
        /\ ~m.mSocketAvailable /\ m.inFlight = ConnectionString
        /\ m.mQueue = s.mQueue /\ m.promise = s.promise /\ m.wire = s.wire
    <2>1. ~s.mSocketAvailable /\ s.result = "none" /\ ConnectionString \in Int
      BY <1>1, HeadHasTurn DEF ConnectionString
    <2> QED BY <2>1 DEF Strands
  <1> HIDE DEF m
  <1>4. z \in Strands /\ z.handlers = Tail(s.handlers) /\ SameData(m, z)
    BY <1>3, TakenFields
  <1> HIDE DEF z
  <1>5. Done(z) = Done(s) /\ Due(f, z) = Due(f, s)
    BY <1>3, <1>4 DEF Done, Due, SameData
  <1>6. QueueInv(z) /\ WireInv(f, z)
    BY <1>1, <1>3, <1>4, <1>5, HeadHasTurn DEF QueueInv, WireInv, SameData
  <1>7. TurnInv(z)
    BY <1>1, <1>3, <1>4, HeadHasTurn DEF TurnInv, SameData, OneTurn, HasTurn
  <1>8. FlightInv(f, z)
    BY <1>2, <1>3, <1>4, <1>5 DEF FlightInv, SameData, Idle, ConnectionString
  <1>9. DueInv(f, z)
    <2>1. \A h \in Turns : ~Posted(z.handlers, h)
      BY <1>1, <1>4, HeadHasTurn DEF HasTurn, Posted
    <2> QED BY <1>3, <1>4, <2>1 DEF DueInv, Turns, Openers, SameData
  <1>10. Good(f, z) /\ Took(s, z)
    BY <1>3, <1>4, <1>6, <1>7, <1>8, <1>9 DEF Good, Took, SameData
  <1> QED BY <1>10 DEF z, m

(* The handlers that cancel what is queued.                                *)
LEMMA CancelQueueTurn ==
  ASSUME NEW f \in 0..1, NEW s \in Strands, Good(f, s), s.handlers # <<>>,
         NEW status \in {"Normal", "Stopped"},
         Head(s.handlers) \in Turns \/ Dormant(s)
  PROVE  LET z == Taken(cancelQueuedOperations([s EXCEPT !.mStatus = status]))
         IN  Good(f, z) /\ Took(s, z) /\ (Dormant(s) => Dormant(z))
  <1> DEFINE t == [s EXCEPT !.mStatus = status]
             m == cancelQueuedOperations(t)
             z == Taken(m)
  <1>1. /\ t \in Strands /\ SameData(s, t) /\ t.handlers = s.handlers
        /\ t.mQueueEmpty = s.mQueueEmpty
    BY DEF Strands, SameData
  <1> HIDE DEF t
  <1>2. /\ s.inFlight = Idle /\ ~s.mSocketAvailable /\ ~HasTurn(Tail(s.handlers))
        /\ QueueInv(s)
    BY HeadHasTurn, TailHandlers DEF Dormant, Good, Strands
  <1>3. CASE t.mQueueEmpty
    <2>1. m = t
      BY <1>3 DEF cancelQueuedOperations
    <2>2. Good(f, Taken(t)) /\ Took(s, Taken(t)) /\ (Dormant(s) => Dormant(Taken(t)))
      BY <1>1, <1>2, TakesNoTurn
    <2> QED BY <2>1, <2>2 DEF t
  <1>4. CASE ~t.mQueueEmpty
    <2>1. m = [t EXCEPT !.promise = Cancelled(t), !.mQueue = <<>>, !.mQueueEmpty = TRUE]
      BY <1>4 DEF cancelQueuedOperations
    <2>2. Cancelled(t) = Cancelled(s)
      BY <1>1 DEF Cancelled, Queued, SameData
    <2>3. Cancelled(s) \in Seq(Promises)
      <3>1. s.promise \in Seq(Promises) /\ DOMAIN s.promise = 1..Len(s.promise)
            /\ Len(s.promise) \in Nat
        BY DEF Strands
      <3>2. PICK n \in Nat : n = Len(s.promise)
        BY <3>1
      <3> DEFINE w == [i \in 1..n |-> IF i \in Queued(s) /\ s.promise[i] = "unset"
                                      THEN "exception" ELSE s.promise[i]]
      <3>3. \A i \in 1..n : w[i] \in Promises
        BY <3>1, <3>2 DEF Promises
      <3>4. w \in Seq(Promises)
        BY <3>3
      <3>5. Cancelled(s) = w
        BY <3>1, <3>2 DEF Cancelled
      <3> QED BY <3>4, <3>5
    <2>4. /\ m \in Strands /\ m.handlers = s.handlers
          /\ m.mSocketAvailable = s.mSocketAvailable /\ m.inFlight = s.inFlight
          /\ m.result = s.result /\ m.wire = s.wire
          /\ m.mQueue = <<>> /\ m.promise = Cancelled(s)
      <3>1. <<>> \in Seq(Nat)
        OBVIOUS
      <3>2. /\ m \in Strands /\ m.handlers = t.handlers
            /\ m.mSocketAvailable = t.mSocketAvailable /\ m.inFlight = t.inFlight
            /\ m.result = t.result /\ m.wire = t.wire
            /\ m.mQueue = <<>> /\ m.promise = Cancelled(t)
        <4> DEFINE p == Cancelled(t)  e == <<>>
        <4>1. /\ m = [t EXCEPT !.promise = p, !.mQueue = e, !.mQueueEmpty = TRUE]
              /\ p \in Seq(Promises) /\ e \in Seq(Nat) /\ t \in Strands
          BY <1>1, <2>1, <2>2, <2>3, <3>1
        <4> HIDE DEF p, e, m
        <4>2. /\ m \in Strands /\ m.handlers = t.handlers
              /\ m.mSocketAvailable = t.mSocketAvailable /\ m.inFlight = t.inFlight
              /\ m.result = t.result /\ m.wire = t.wire
              /\ m.mQueue = e /\ m.promise = p
          BY <4>1 DEF Strands
        <4> QED BY <4>2 DEF p, e
      <3> QED BY <1>1, <2>2, <3>2 DEF SameData
    <2> HIDE DEF m
    <2>5. z \in Strands /\ z.handlers = Tail(s.handlers) /\ SameData(m, z)
      BY <2>4, TakenFields
    <2> HIDE DEF z
    <2>6. Good(f, z)
      BY <1>2, <2>4, <2>5, Clear DEF SameData
    <2>7. Took(s, z) /\ (Dormant(s) => Dormant(z))
      BY <1>2, <2>4, <2>5 DEF Took, Dormant, SameData
    <2> QED BY <2>6, <2>7 DEF z, m, t
  <1> QED BY <1>3, <1>4

(* The handler of an operation that was queued.                            *)
LEMMA EnqueueTurn ==
  ASSUME NEW f \in 0..1, NEW s \in Strands, Good(f, s), s.handlers # <<>>,
         Head(s.handlers) = "enqueue"
  PROVE  LET starts == s.mSocketAvailable /\ s.mQueue # <<>>
             z == Taken(IF starts THEN asyncPerform(s) ELSE s)
         IN  /\ Good(f, z) /\ Took(s, z) /\ Done(z) = Done(s)
             /\ Dormant(s) => Dormant(z)
  <1>1. CASE s.mSocketAvailable /\ s.mQueue # <<>>
    <2> DEFINE m == asyncPerform(s)  z == Taken(m)
    <2>1. s.mQueue \in Seq(Nat) /\ Head(s.mQueue) \in Int
      BY <1>1 DEF Strands
    <2>2. /\ m \in Strands /\ m.handlers = s.handlers
          /\ ~m.mSocketAvailable /\ m.inFlight = Head(s.mQueue)
          /\ m.result = s.result /\ m.wire = s.wire
          /\ m.mQueue = s.mQueue /\ m.promise = s.promise
      BY <2>1 DEF asyncPerform, Strands
    <2> HIDE DEF m
    <2>3. z \in Strands /\ z.handlers = Tail(s.handlers) /\ SameData(m, z)
      BY <2>2, TakenFields
    <2> HIDE DEF z
    <2>4. /\ s.inFlight = Idle /\ ~HasTurn(s.handlers) /\ s.result = "none"
          /\ Due(f, s) = Done(s) + 1 /\ QueueInv(s) /\ WireInv(f, s)
      BY <1>1 DEF Good, TurnInv, DueInv, Strands
    <2>5. ~HasTurn(z.handlers)
      BY <2>3, <2>4, TailHandlers DEF Strands
    <2>6. Done(z) = Done(s) /\ Due(f, z) = Due(f, s)
      BY <2>2, <2>3 DEF Done, Due, SameData
    <2>7. QueueInv(z) /\ WireInv(f, z)
      BY <2>2, <2>3, <2>4, <2>6 DEF QueueInv, WireInv, SameData
    <2>8. Good(f, z)
      BY <1>1, <2>2, <2>3, <2>4, <2>5, <2>6, <2>7, Resume DEF SameData
    <2>9. Took(s, z) /\ ~Dormant(s)
      BY <1>1, <2>2, <2>3 DEF Took, SameData, Dormant
    <2> QED BY <1>1, <2>6, <2>8, <2>9 DEF z, m
  <1>2. CASE ~(s.mSocketAvailable /\ s.mQueue # <<>>)
    <2>1. /\ Good(f, Taken(s)) /\ Took(s, Taken(s)) /\ Done(Taken(s)) = Done(s)
          /\ Dormant(s) => Dormant(Taken(s))
      BY <1>2, TakesNoTurn DEF SameData
    <2> QED BY <1>2, <2>1
  <1> QED BY <1>1, <1>2

-----------------------------------------------------------------------------
(* A step of one strand, seen from the channel.                            *)

LEMMA FirstType == \A d \in Dir : First(d) \in 0..1
  BY DEF First, ConnectionString

LEMMA HandlerFrame ==
  ASSUME Inv, NEW d \in Dir, NEW h, NEW after, Handle(d, h, after),
         Good(First(d), Taken(after)), Took(strand[d], Taken(after))
  PROVE  /\ StrandsGood' /\ NoStall'
         /\ strand[d].handlers # <<>> /\ Head(strand[d].handlers) = h
         /\ strand'[d] = Taken(after)
         /\ \A e \in Dir : e # d => strand'[e] = strand[e]
         /\ \A e \in Dir : \A g :
              Posted(strand'[e].handlers, g) => Posted(strand[e].handlers, g)
         /\ \A e \in Dir : \A g : g # h \/ e # d =>
              (Posted(strand[e].handlers, g) => Posted(strand'[e].handlers, g))
  <1> DEFINE s == strand[d]
  <1>1. /\ strand \in [Dir -> Strands] /\ \A e \in Dir : Good(First(e), strand[e])
        /\ NoStall
    BY DEF Inv, StrandsGood
  <1>2. /\ s.handlers # <<>> /\ Head(s.handlers) = h
        /\ strand' = [strand EXCEPT ![d] = Taken(after)]
        /\ UNCHANGED <<mode, user>>
    BY DEF Handle, Taken
  <1>3. Taken(after) \in Strands /\ s \in Strands
    BY <1>1 DEF Took
  <1>4. /\ strand' \in [Dir -> Strands] /\ strand'[d] = Taken(after)
        /\ \A e \in Dir : e # d => strand'[e] = strand[e]
    BY <1>1, <1>2, <1>3
  <1>5. strand'[d].handlers = Tail(s.handlers)
    BY <1>4 DEF Took
  <1>6. /\ \A g : Posted(strand'[d].handlers, g) => Posted(s.handlers, g)
        /\ \A g : g # h => (Posted(s.handlers, g) => Posted(strand'[d].handlers, g))
    BY <1>2, <1>3, <1>5, TailHandlers DEF Strands
  <1>7. StrandsGood'
    <2>1. \A e \in Dir : First(e)' = First(e)
      BY <1>2 DEF First
    <2> QED BY <1>1, <1>4, <2>1 DEF StrandsGood
  <1>8. NoStall'
    <2> SUFFICES ASSUME NEW e \in Dir,
                        strand'[e].mSocketAvailable, strand'[e].mQueue # <<>>
                 PROVE  \/ user.pc = "post" /\ user.dir = e
                        \/ Posted(strand'[e].handlers, "enqueue")
      BY <1>2 DEF NoStall, Posted
    <2>1. \/ user.pc = "post" /\ user.dir = e
          \/ Posted(strand[e].handlers, "enqueue")
      BY <1>1, <1>4 DEF NoStall, Posted, Took
    <2>2. e = d => h # "enqueue"
      BY <1>2, <1>4 DEF Took
    <2> QED BY <1>4, <1>6, <2>1, <2>2
  <1> QED BY <1>2, <1>4, <1>6, <1>7, <1>8

(* What OpenInv says of a strand that a step leaves as it was.             *)
LEMMA StartedKept ==
  ASSUME NEW s, NEW z,
         \A g \in Openers : Posted(z.handlers, g) <=> Posted(s.handlers, g)
  PROVE  Started(z) = Started(s)
  BY DEF Started

(* Handlers that start nothing.                                            *)
LEMMA HandlerStep ==
  ASSUME Inv, NEW d \in Dir, NEW h \in Handlers, NEW after, Handle(d, h, after),
         Good(First(d), Taken(after)), Took(strand[d], Taken(after)),
         UNCHANGED <<mOpenCount, mOpenFut>>,
         terminated' \in {"no", "socket", "promise", "handle", "expects"},
         h \notin Openers,
         Dormant(strand[d]) => Dormant(Taken(after)),
         connect = "done" \/ Done(Taken(after)) = Done(strand[d])
  PROVE  Inv'
  <1>1. /\ StrandsGood' /\ NoStall'
        /\ strand'[d] = Taken(after)
        /\ \A e \in Dir : e # d => strand'[e] = strand[e]
        /\ \A e \in Dir : \A g :
              Posted(strand'[e].handlers, g) => Posted(strand[e].handlers, g)
        /\ \A e \in Dir : \A g : g # h \/ e # d =>
              (Posted(strand[e].handlers, g) => Posted(strand'[e].handlers, g))
    BY HandlerFrame
  <1>2. UNCHANGED <<mode, connect, open, user, cancel, peer>> /\ OpenInv /\ ControlType
    BY DEF Handle, Inv
  <1>3. ControlType'
    BY <1>2 DEF ControlType
  <1>4. \A e \in Dir : Started(strand'[e]) = Started(strand[e])
    BY <1>1, StartedKept
  <1>5. \A e \in Dir : Dormant(strand[e]) => Dormant(strand'[e])
    BY <1>1
  <1>6. connect # "done" => \A e \in Dir : Done(strand'[e]) = Done(strand[e])
    BY <1>1
  <1>7. Connected' <=> Connected
    BY <1>2 DEF Connected
  <1>8. "Send" \in Dir /\ "Recv" \in Dir
    BY DEF Dir
  <1>9. OpenInv'
    BY <1>1, <1>2, <1>4, <1>5, <1>6, <1>7, <1>8 DEF OpenInv
  <1> QED BY <1>1, <1>3, <1>9 DEF Inv

(* A handler that has the turn runs only on a channel that is connected.   *)
LEMMA TurnConnected ==
  ASSUME Inv, NEW d \in Dir, HasTurn(strand[d].handlers)
  PROVE  Connected /\ connect = "done" /\ ~Dormant(strand[d])
  BY DEF Inv, OpenInv, Dormant, Connected

LEMMA HeadConnected ==
  ASSUME Inv, NEW d \in Dir, strand[d].handlers # <<>>, Head(strand[d].handlers) \in Turns
  PROVE  Connected /\ connect = "done" /\ ~Dormant(strand[d])
  <1>1. strand[d].handlers \in Seq(Handlers)
    BY DEF Inv, StrandsGood, Strands
  <1>2. HasTurn(strand[d].handlers)
    BY <1>1, TailHandlers
  <1> QED BY <1>2, TurnConnected

(* Either strand is started once.                                          *)
LEMMA OpenerStep ==
  ASSUME Inv, NEW d \in Dir, NEW h \in Openers, NEW after, Handle(d, h, after),
         Good(First(d), Taken(after)), Took(strand[d], Taken(after)),
         Count, UNCHANGED terminated
  PROVE  Inv'
  <1>1. /\ StrandsGood' /\ NoStall'
        /\ strand[d].handlers # <<>> /\ Head(strand[d].handlers) = h
        /\ strand'[d] = Taken(after)
        /\ \A e \in Dir : e # d => strand'[e] = strand[e]
        /\ \A e \in Dir : \A g :
              Posted(strand'[e].handlers, g) => Posted(strand[e].handlers, g)
    BY HandlerFrame
  <1>2. UNCHANGED <<mode, connect, open, user, cancel, peer>> /\ OpenInv /\ ControlType
    BY DEF Handle, Inv
  <1>3. h \in Turns
    BY DEF Turns
  <1>4. Connected /\ connect = "done" /\ mOpenFut # "exception"
    BY <1>1, <1>3, HeadConnected DEF Connected
  <1>5. /\ mOpenCount' = mOpenCount + 1
        /\ mOpenFut' = IF mOpenCount' = 2 THEN "value" ELSE mOpenFut
    BY DEF Count
  <1>6. Connected' /\ mOpenFut' # "exception"
    BY <1>2, <1>4, <1>5 DEF Connected
  <1>7. ControlType'
    BY <1>2, <1>5 DEF ControlType
  <1>8. strand[d] \in Strands /\ Good(First(d), strand[d])
    BY DEF Inv, StrandsGood
  <1>9. Started(strand[d]) = 0
    <2>1. Posted(strand[d].handlers, h)
      BY <1>1, <1>8, TailHandlers DEF Strands
    <2> QED BY <2>1 DEF Started
  <1>10. Started(strand'[d]) = 1
    <2>1. ~HasTurn(Tail(strand[d].handlers))
      BY <1>1, <1>3, <1>8, HeadHasTurn
    <2>2. strand'[d].handlers = Tail(strand[d].handlers)
      BY <1>1 DEF Took
    <2> QED BY <2>1, <2>2 DEF Started, Posted, HasTurn, Turns
  <1>11. mOpenCount' = Started(strand'["Send"]) + Started(strand'["Recv"])
    <2>1. mOpenCount = Started(strand["Send"]) + Started(strand["Recv"])
      BY <1>2, <1>4 DEF OpenInv
    <2>2. /\ d = "Send" \/ d = "Recv"
          /\ "Send" # "Recv" /\ "Send" \in Dir /\ "Recv" \in Dir
      BY DEF Dir
    <2>3. \A e \in Dir : Started(strand[e]) \in Int
      BY DEF Started
    <2>4. CASE d = "Send"
      <3>1. strand'["Recv"] = strand["Recv"]
        BY <1>1, <2>2, <2>4
      <3> QED BY <1>5, <1>9, <1>10, <2>1, <2>2, <2>3, <2>4, <3>1
    <2>5. CASE d = "Recv"
      <3>1. strand'["Send"] = strand["Send"]
        BY <1>1, <2>2, <2>5
      <3> QED BY <1>5, <1>9, <1>10, <2>1, <2>2, <2>3, <2>5, <3>1
    <2> QED BY <2>2, <2>4, <2>5
  <1>12. \A e \in Dir : ~Posted(strand'[e].handlers, "cancelOperations")
    BY <1>1, <1>2, <1>4 DEF OpenInv
  <1>13. OpenInv'
    BY <1>2, <1>4, <1>6, <1>11, <1>12 DEF OpenInv
  <1> QED BY <1>1, <1>7, <1>13 DEF Inv

-----------------------------------------------------------------------------
(* The handlers                                                            *)

LEMMA HandleOf ==
  ASSUME Inv, NEW d \in Dir, NEW h, NEW after, Handle(d, h, after)
  PROVE  /\ strand[d] \in Strands /\ Good(First(d), strand[d]) /\ First(d) \in 0..1
         /\ strand[d].handlers # <<>> /\ Head(strand[d].handlers) = h
         /\ terminated \in {"no", "socket", "promise", "handle", "expects"}
  BY FirstType DEF Inv, StrandsGood, Handle, ControlType

LEMMA HandleEnqueueStep ==
  ASSUME Inv, NEW d \in Dir, HandleEnqueue(d)
  PROVE  Inv'
  <1> DEFINE s == strand[d]
             after == IF s.mSocketAvailable /\ s.mQueue # <<>> THEN asyncPerform(s) ELSE s
  <1>1. /\ Handle(d, "enqueue", after) /\ UNCHANGED <<mOpenCount, mOpenFut>>
        /\ terminated' \in {terminated, "handle"}
    BY DEF HandleEnqueue
  <1>2. /\ Good(First(d), Taken(after)) /\ Took(s, Taken(after))
        /\ Done(Taken(after)) = Done(s)
        /\ Dormant(s) => Dormant(Taken(after))
    BY <1>1, HandleOf, EnqueueTurn
  <1>3. "enqueue" \in Handlers /\ "enqueue" \notin Openers
    BY DEF Handlers, Openers
  <1> HIDE DEF after
  <1> QED BY <1>1, <1>2, <1>3, HandleOf, HandlerStep

LEMMA HandleOpenStep ==
  ASSUME Inv, NEW d \in Dir, HandleOpen(d)
  PROVE  Inv'
  <1> DEFINE after == PerformIfAny([strand[d] EXCEPT !.mSocketAvailable = TRUE])
  <1>1. Handle(d, "open", after) /\ Count /\ UNCHANGED terminated
    BY DEF HandleOpen
  <1>2. Good(First(d), Taken(after)) /\ Took(strand[d], Taken(after))
    BY <1>1, HandleOf, OpenTurn
  <1>3. "open" \in Openers
    BY DEF Openers
  <1> HIDE DEF after
  <1> QED BY <1>1, <1>2, <1>3, OpenerStep

LEMMA HandleConnectionStringStep ==
  ASSUME Inv, HandleConnectionString
  PROVE  Inv'
  <1> DEFINE after == [strand["Send"] EXCEPT !.inFlight = ConnectionString]
  <1>1. Handle("Send", "connectionString", after) /\ Count /\ UNCHANGED terminated
    BY DEF HandleConnectionString
  <1>2. "Send" \in Dir /\ "connectionString" \in Openers
    BY DEF Openers, Dir
  <1>3. Good(First("Send"), Taken(after)) /\ Took(strand["Send"], Taken(after))
    BY <1>1, <1>2, HandleOf, ConnectionStringTurn
  <1> HIDE DEF after
  <1> QED BY <1>1, <1>2, <1>3, OpenerStep

(* A handler with the turn that starts nothing.                            *)
LEMMA TurnStep ==
  ASSUME Inv, NEW d \in Dir, NEW h \in Turns \ Openers, NEW after, Handle(d, h, after),
         Good(First(d), Taken(after)), Took(strand[d], Taken(after)),
         UNCHANGED <<mOpenCount, mOpenFut>>,
         terminated' \in {"no", "socket", "promise", "handle", "expects"}
  PROVE  Inv'
  <1>1. connect = "done" /\ ~Dormant(strand[d])
    BY HandleOf, HeadConnected
  <1>2. h \in Handlers
    BY DEF Handlers
  <1> QED BY <1>1, <1>2, HandlerStep

LEMMA HandleConnectionStringSentStep ==
  ASSUME Inv, HandleConnectionStringSent
  PROVE  Inv'
  <1> DEFINE after == Continue([strand["Send"] EXCEPT !.mSocketAvailable = TRUE])
  <1>1. /\ Handle("Send", "connectionStringSent", after)
        /\ UNCHANGED <<mOpenCount, mOpenFut, terminated>>
    BY DEF HandleConnectionStringSent
  <1>2. "Send" \in Dir /\ "connectionStringSent" \in Turns \ Openers
    BY DEF Turns, Openers, Dir
  <1>3. Good(First("Send"), Taken(after)) /\ Took(strand["Send"], Taken(after))
    BY <1>1, <1>2, HandleOf, ConnectionStringSentTurn
  <1> HIDE DEF after
  <1> QED BY <1>1, <1>2, <1>3, HandleOf, TurnStep

LEMMA HandleCompleteStep ==
  ASSUME Inv, NEW d \in Dir, HandleComplete(d)
  PROVE  Inv'
  <1> DEFINE after == Continue([strand[d] EXCEPT !.mSocketAvailable = TRUE,
                                                 !.mQueue = Tail(@)])
  <1>1. Handle(d, "complete", after) /\ UNCHANGED <<mOpenCount, mOpenFut, terminated>>
    BY DEF HandleComplete
  <1>2. "complete" \in Turns \ Openers
    BY DEF Turns, Openers
  <1>3. Good(First(d), Taken(after)) /\ Took(strand[d], Taken(after))
    BY <1>1, HandleOf, CompleteTurn
  <1> HIDE DEF after
  <1> QED BY <1>1, <1>2, <1>3, HandleOf, TurnStep

LEMMA HandleErrorStep ==
  ASSUME Inv, NEW d \in Dir, HandleError(d)
  PROVE  Inv'
  <1> DEFINE after == cancelQueuedOperations([strand[d] EXCEPT !.mStatus = "Stopped"])
  <1>1. /\ Handle(d, "error", after) /\ UNCHANGED <<mOpenCount, mOpenFut>>
        /\ terminated' \in {terminated, "promise"}
    BY DEF HandleError, CancelQueue
  <1>2. "error" \in Turns \ Openers
    BY DEF Turns, Openers
  <1>3. Good(First(d), Taken(after)) /\ Took(strand[d], Taken(after))
    BY <1>1, <1>2, HandleOf, CancelQueueTurn
  <1> HIDE DEF after
  <1> QED BY <1>1, <1>2, <1>3, HandleOf, TurnStep

LEMMA HandleCancelOperationsStep ==
  ASSUME Inv, NEW d \in Dir, HandleCancelOperations(d)
  PROVE  Inv'
  <1> DEFINE s == strand[d]
             after == cancelQueuedOperations([s EXCEPT !.mStatus = s.mStatus])
  <1>1. /\ Handle(d, "cancelOperations", after) /\ UNCHANGED <<mOpenCount, mOpenFut>>
        /\ terminated' \in {terminated, "promise"}
    BY DEF HandleCancelOperations, CancelQueue
  <1>2. s \in Strands /\ s.mStatus \in {"Normal", "Stopped"}
    BY <1>1, HandleOf DEF Strands
  <1>3. Posted(s.handlers, "cancelOperations")
    <2>1. s.handlers \in Seq(Handlers) /\ s.handlers # <<>>
          /\ Head(s.handlers) = "cancelOperations"
      BY <1>1, <1>2, HandleOf DEF Strands
    <2> QED BY <2>1, TailHandlers
  <1>4. mOpenFut = "exception" /\ connect = "done" /\ Dormant(s)
    BY <1>3 DEF Inv, OpenInv, Connected
  <1>5. /\ Good(First(d), Taken(after)) /\ Took(s, Taken(after))
        /\ Dormant(s) => Dormant(Taken(after))
    BY <1>1, <1>2, <1>4, HandleOf, CancelQueueTurn
  <1>6. "cancelOperations" \in Handlers /\ "cancelOperations" \notin Openers
    BY DEF Handlers, Openers
  <1> HIDE DEF after
  <1> QED BY <1>1, <1>4, <1>5, <1>6, HandleOf, HandlerStep

(* A handler that only looks whether its queue is empty.                   *)
LEMMA LookStep ==
  ASSUME Inv, NEW d \in Dir, NEW h \in {"close", "cancel"}, NEW after \in Strands,
         Handle(d, h, after), SameData(strand[d], after),
         after.handlers = strand[d].handlers,
         UNCHANGED <<mOpenCount, mOpenFut, terminated>>
  PROVE  Inv'
  <1>1. h \in Handlers /\ h \notin Openers /\ h # "enqueue"
    BY DEF Handlers, Openers
  <1>2. /\ Good(First(d), Taken(after)) /\ Took(strand[d], Taken(after))
        /\ Done(Taken(after)) = Done(strand[d])
        /\ Dormant(strand[d]) => Dormant(Taken(after))
    BY <1>1, HandleOf, TakesNoTurn
  <1> QED BY <1>1, <1>2, HandleOf, HandlerStep

LEMMA HandleCloseStep ==
  ASSUME Inv, NEW d \in Dir, HandleClose(d)
  PROVE  Inv'
  <1> DEFINE after == EmptyIfNoItems([strand[d] EXCEPT !.mStatus = "Stopped"])
  <1>1. Handle(d, "close", after) /\ UNCHANGED <<mOpenCount, mOpenFut, terminated>>
    BY DEF HandleClose, activeRecvSizeError
  <1>2. strand[d] \in Strands
    BY <1>1, HandleOf
  <1>3. /\ after \in Strands /\ SameData(strand[d], after)
        /\ after.handlers = strand[d].handlers
    BY <1>2 DEF EmptyIfNoItems, Strands, SameData
  <1> HIDE DEF after
  <1> QED BY <1>1, <1>3, LookStep

LEMMA HandleCancelStep ==
  ASSUME Inv, NEW d \in Dir, HandleCancel(d)
  PROVE  Inv'
  <1> DEFINE after == EmptyIfNoItems(strand[d])
  <1>1. Handle(d, "cancel", after) /\ UNCHANGED <<mOpenCount, mOpenFut, terminated>>
    BY DEF HandleCancel, activeRecvSizeError
  <1>2. strand[d] \in Strands
    BY <1>1, HandleOf
  <1>3. /\ after \in Strands /\ SameData(strand[d], after)
        /\ after.handlers = strand[d].handlers
    BY <1>2 DEF EmptyIfNoItems, Strands, SameData
  <1> HIDE DEF after
  <1> QED BY <1>1, <1>3, LookStep

-----------------------------------------------------------------------------
(* Steps that are no handler's                                             *)

(* What a step may do to a strand that it does not start.                  *)
Quiet(s, z) ==
  /\ Started(z) = Started(s)
  /\ Dormant(s) => Dormant(z)
  /\ Done(z) = Done(s)
  /\ Posted(z.handlers, "cancelOperations") =>
       Posted(s.handlers, "cancelOperations") \/ mOpenFut = "exception"

LEMMA QuietOpen ==
  ASSUME Inv, UNCHANGED <<mode, connect, mOpenCount, mOpenFut>>,
         \A d \in Dir : Quiet(strand[d], strand'[d])
  PROVE  OpenInv'
  <1>1. OpenInv /\ "Send" \in Dir /\ "Recv" \in Dir
    BY DEF Inv, Dir
  <1>2. Connected' <=> Connected
    BY DEF Connected
  <1> QED BY <1>1, <1>2 DEF OpenInv, Quiet

LEMMA NoStallKept ==
  ASSUME Inv, user.pc = "post" => UNCHANGED user,
         \A d \in Dir :
           /\ strand'[d].mSocketAvailable /\ strand'[d].mQueue # <<>> =>
                strand[d].mSocketAvailable /\ strand[d].mQueue # <<>>
           /\ Posted(strand[d].handlers, "enqueue") => Posted(strand'[d].handlers, "enqueue")
  PROVE  NoStall'
  BY DEF Inv, NoStall, Posted

LEMMA SameQuiet ==
  ASSUME NEW s, NEW z, SameData(s, z), z.handlers = s.handlers
  PROVE  Quiet(s, z)
  BY DEF Quiet, Started, Dormant, Done, SameData

LEMMA ReflexiveQuiet == ASSUME NEW s PROVE Quiet(s, s)
  BY DEF Quiet

(* A step of one strand that starts nothing.                               *)
LEMMA OneStrand ==
  ASSUME Inv, NEW d \in Dir, NEW z \in Strands, strand' = [strand EXCEPT ![d] = z],
         Good(First(d), z), Quiet(strand[d], z),
         UNCHANGED <<mode, connect, mOpenCount, mOpenFut>>
  PROVE  /\ StrandsGood' /\ OpenInv'
         /\ strand'[d] = z /\ \A e \in Dir : e # d => strand'[e] = strand[e]
  <1>1. strand \in [Dir -> Strands] /\ \A e \in Dir : Good(First(e), strand[e])
    BY DEF Inv, StrandsGood
  <1>2. /\ strand' \in [Dir -> Strands] /\ strand'[d] = z
        /\ \A e \in Dir : e # d => strand'[e] = strand[e]
    BY <1>1
  <1>3. \A e \in Dir : First(e)' = First(e)
    BY DEF First
  <1>4. StrandsGood'
    BY <1>1, <1>2, <1>3 DEF StrandsGood
  <1>5. \A e \in Dir : Quiet(strand[e], strand'[e])
    BY <1>2, ReflexiveQuiet
  <1>6. OpenInv'
    BY <1>5, QuietOpen
  <1> QED BY <1>2, <1>4, <1>6

LEMMA GoodStrand ==
  ASSUME Inv, NEW d \in Dir
  PROVE  strand[d] \in Strands /\ Good(First(d), strand[d]) /\ First(d) \in 0..1
  BY FirstType DEF Inv, StrandsGood

LEMMA ReplacePromiseStep ==
  ASSUME Inv, NEW d \in Dir, ReplacePromise(d)
  PROVE  Inv'
  <1> DEFINE s == strand[d]  z == [s EXCEPT !.replacing = FALSE]
  <1>1. /\ strand' = [strand EXCEPT ![d] = z]
        /\ UNCHANGED <<mode, connect, open, mOpenCount, mOpenFut, user, cancel, peer,
                       terminated>>
    BY DEF ReplacePromise, Inv, StrandsGood
  <1>2. z \in Strands /\ SameData(s, z) /\ z.handlers = s.handlers
    BY GoodStrand DEF Strands, SameData
  <1> HIDE DEF z
  <1>3. Good(First(d), z)
    <2>1. OneTurn(z.handlers)
      BY <1>2, GoodStrand DEF Good, TurnInv
    <2> QED BY <1>2, <2>1, GoodStrand, QuietChange
  <1>4. /\ StrandsGood' /\ OpenInv'
        /\ strand'[d] = z /\ \A e \in Dir : e # d => strand'[e] = strand[e]
    BY <1>1, <1>2, <1>3, SameQuiet, OneStrand
  <1>5. NoStall'
    BY <1>1, <1>2, <1>4, NoStallKept DEF SameData
  <1>6. ControlType'
    BY <1>1 DEF Inv, ControlType
  <1> QED BY <1>4, <1>5, <1>6 DEF Inv

(* A step that gives the socket's answer.                                  *)
LEMMA AnswerStep ==
  ASSUME Inv, NEW d \in Dir, strand[d].inFlight # Idle, strand[d].result = "none",
         NEW p \in Seq(Promises), Len(p) = Len(strand[d].promise),
         NEW v \in {"value", "exception"}, NEW r \in {"ok", "error"}, NEW w \in Seq(Nat),
         \A i \in 1..Len(strand[d].promise) :
           i # strand[d].inFlight => p[i] = strand[d].promise[i],
         strand[d].inFlight >= 1 =>
           \/ /\ p[strand[d].inFlight] = strand[d].promise[strand[d].inFlight]
              /\ r = "ok" => p[strand[d].inFlight] # "unset"
           \/ p[strand[d].inFlight] = v /\ (v = "value" => r = "ok"),
         w = IF r = "ok" THEN Append(strand[d].wire, strand[d].inFlight) ELSE strand[d].wire,
         strand' = [strand EXCEPT ![d] =
                      [strand[d] EXCEPT !.result = r, !.promise = p, !.wire = w]],
         UNCHANGED <<mode, connect, open, mOpenCount, mOpenFut, user, cancel, peer,
                     terminated>>
  PROVE  Inv'
  <1> DEFINE s == strand[d]  z == [s EXCEPT !.result = r, !.promise = p, !.wire = w]
  <1>1. Good(First(d), z) /\ z \in Strands
    <2>1. s \in Strands /\ Good(First(d), s) /\ First(d) \in 0..1
      BY GoodStrand
    <2> QED BY <2>1, Answer, ZenonT(60)
  <1>2. /\ z.handlers = s.handlers /\ z.promise = p /\ z.mQueue = s.mQueue
        /\ z.mSocketAvailable = s.mSocketAvailable
    BY GoodStrand DEF Strands
  <1> HIDE DEF z
  <1>3. ~Dormant(s) /\ Started(z) = Started(s) /\ Done(z) = Done(s)
    BY <1>2 DEF Dormant, Started, Done
  <1>4. Quiet(s, z)
    BY <1>2, <1>3 DEF Quiet
  <1>5. /\ StrandsGood' /\ OpenInv'
        /\ strand'[d] = z /\ \A e \in Dir : e # d => strand'[e] = strand[e]
    <2>1. strand' = [strand EXCEPT ![d] = z]
      BY DEF z
    <2> QED BY <1>1, <1>4, <2>1, OneStrand
  <1>6. NoStall'
    BY <1>2, <1>5, NoStallKept
  <1>7. ControlType'
    BY DEF Inv, ControlType
  <1> QED BY <1>5, <1>6, <1>7 DEF Inv

(* What is in flight is the connection string or an operation.             *)
LEMMA InFlightType ==
  ASSUME Inv, NEW d \in Dir
  PROVE  /\ strand[d].inFlight = Idle \/ strand[d].inFlight \in Nat
         /\ strand[d].inFlight # Idle /\ strand[d].inFlight # ConnectionString =>
              /\ strand[d].inFlight >= 1
              /\ strand[d].inFlight \in 1..Len(strand[d].promise)
              /\ strand[d].mQueue # <<>>
              /\ strand[d].inFlight = Head(strand[d].mQueue)
         /\ strand[d].inFlight >= 1 =>
              strand[d].inFlight # Idle /\ strand[d].inFlight # ConnectionString
  <1>1. /\ strand[d] \in Strands /\ QueueInv(strand[d])
        /\ FlightInv(First(d), strand[d])
    BY GoodStrand DEF Good
  <1>2. strand[d].inFlight \in Int /\ strand[d].mQueue \in Seq(Nat)
    BY <1>1 DEF Strands
  <1>3. strand[d].inFlight >= 1 => strand[d].mQueue # <<>> /\ strand[d].inFlight = Done(strand[d]) + 1
    BY <1>1, <1>2 DEF FlightInv
  <1>4. strand[d].inFlight >= 1 => strand[d].inFlight \in 1..Len(strand[d].promise)
    <2>1. PICK n \in Nat : n = Len(strand[d].promise)
      BY <1>1, QueueContents
    <2>2. strand[d].inFlight >= 1 => Done(strand[d]) < n
      BY <1>1, <1>3, <2>1, QueueContents
    <2> QED BY <1>1, <1>2, <1>3, <2>1, <2>2, QueueContents
  <1>5. strand[d].inFlight = Idle \/ strand[d].inFlight >= 0
    BY <1>1 DEF FlightInv
  <1>6. strand[d].inFlight >= 1 => strand[d].inFlight = Head(strand[d].mQueue)
    BY <1>1, <1>3, QueueContents
  <1>7. strand[d].inFlight # Idle /\ strand[d].inFlight # ConnectionString =>
          strand[d].inFlight >= 1
    BY <1>2, <1>5 DEF ConnectionString
  <1>8. strand[d].inFlight >= 1 =>
          strand[d].inFlight # Idle /\ strand[d].inFlight # ConnectionString
    BY DEF Idle, ConnectionString
  <1>9. strand[d].inFlight = Idle \/ strand[d].inFlight \in Nat
    BY <1>2, <1>5
  <1> QED BY <1>3, <1>4, <1>6, <1>7, <1>8, <1>9

LEMMA IOResultStep ==
  ASSUME Inv, NEW d \in Dir, IOResult(d)
  PROVE  Inv'
  <1> DEFINE s == strand[d]
             op == s.inFlight
             settled(v) == IF op # ConnectionString /\ s.promise[op] # "none"
                           THEN [s.promise EXCEPT ![op] = v] ELSE s.promise
  <1>1. op # Idle /\ s.result = "none"
    BY DEF IOResult
  <1>2. s \in Strands /\ s.promise \in Seq(Promises) /\ s.wire \in Seq(Nat) /\ op \in Nat
    BY <1>1, GoodStrand, InFlightType DEF Strands
  <1>3. ASSUME NEW v \in {"value", "exception"}
        PROVE  /\ settled(v) \in Seq(Promises) /\ Len(settled(v)) = Len(s.promise)
               /\ \A i \in 1..Len(s.promise) : i # op => settled(v)[i] = s.promise[i]
               /\ op >= 1 => \/ settled(v)[op] = v
                             \/ settled(v)[op] = s.promise[op] /\ s.promise[op] = "none"
    <2>1. CASE op # ConnectionString /\ s.promise[op] # "none"
      <3>1. op \in 1..Len(s.promise) /\ v \in Promises
        BY <1>1, <2>1, InFlightType DEF Promises
      <3>2. /\ [s.promise EXCEPT ![op] = v] \in Seq(Promises)
            /\ Len([s.promise EXCEPT ![op] = v]) = Len(s.promise)
            /\ \A i \in 1..Len(s.promise) : i # op => [s.promise EXCEPT ![op] = v][i] = s.promise[i]
            /\ [s.promise EXCEPT ![op] = v][op] = v
        BY <1>2, <3>1
      <3> QED BY <2>1, <3>2
    <2>2. CASE ~(op # ConnectionString /\ s.promise[op] # "none")
      BY <1>2, <2>2, InFlightType
    <2> QED BY <2>1, <2>2
  <1>4. Append(s.wire, op) \in Seq(Nat)
    BY <1>2
  <1>5. UNCHANGED <<mode, connect, open, mOpenCount, mOpenFut, user, cancel, peer, terminated>>
    BY DEF IOResult
  <1>6. \/ strand' = [strand EXCEPT ![d] = [s EXCEPT
             !.result = "ok", !.wire = Append(@, op), !.promise = settled("value")]]
        \/ strand' = [strand EXCEPT ![d] = [s EXCEPT
             !.result = "error",
             !.promise = IF d = "Send" THEN settled("exception") ELSE @]]
    BY DEF IOResult
  <1> HIDE DEF settled
  <1>7. CASE strand' = [strand EXCEPT ![d] = [s EXCEPT
               !.result = "ok", !.wire = Append(@, op), !.promise = settled("value")]]
    <2> DEFINE p == settled("value")  w == Append(s.wire, op)
    <2>1. strand' = [strand EXCEPT ![d] = [s EXCEPT !.result = "ok", !.promise = p, !.wire = w]]
      BY <1>2, <1>7 DEF Strands
    <2>2. /\ p \in Seq(Promises) /\ Len(p) = Len(s.promise) /\ w \in Seq(Nat)
          /\ \A i \in 1..Len(s.promise) : i # op => p[i] = s.promise[i]
          /\ op >= 1 => p[op] = "value" \/ (p[op] = s.promise[op] /\ p[op] = "none")
      BY <1>3, <1>4
    <2> HIDE DEF p
    <2> QED BY <1>1, <1>5, <2>1, <2>2, AnswerStep
  <1>8. CASE strand' = [strand EXCEPT ![d] = [s EXCEPT
               !.result = "error",
               !.promise = IF d = "Send" THEN settled("exception") ELSE @]]
    <2> DEFINE p == IF d = "Send" THEN settled("exception") ELSE s.promise  w == s.wire
    <2>1. strand' = [strand EXCEPT ![d] =
                       [s EXCEPT !.result = "error", !.promise = p, !.wire = w]]
      BY <1>2, <1>8 DEF Strands
    <2>2. /\ p \in Seq(Promises) /\ Len(p) = Len(s.promise) /\ w \in Seq(Nat)
          /\ \A i \in 1..Len(s.promise) : i # op => p[i] = s.promise[i]
          /\ op >= 1 => p[op] = "exception" \/ p[op] = s.promise[op]
      BY <1>2, <1>3
    <2> HIDE DEF p
    <2> QED BY <1>1, <1>5, <2>1, <2>2, AnswerStep
  <1> QED BY <1>6, <1>7, <1>8

(* The read into the other buffer has an outcome like the socket's own.    *)
LEMMA RescheduledStrand ==
  ASSUME Inv, UserReschedules
  PROVE  LET s == strand["Recv"]
         IN \E r \in {"ok", "error"}, w \in Seq(Nat) :
              /\ r = "error" => ~open \/ peer = "down"
              /\ w = IF r = "ok" THEN Append(s.wire, s.inFlight) ELSE s.wire
              /\ strand' = [strand EXCEPT !["Recv"] =
                              [s EXCEPT !.result = r, !.promise = s.promise, !.wire = w]]
  <1> DEFINE s == strand["Recv"]
  <1>1. /\ s \in Strands /\ s.wire \in Seq(Nat) /\ s.inFlight \in Nat
        /\ "Recv" \in Dir /\ strand \in [Dir -> Strands]
    BY GoodStrand, InFlightType DEF Dir, Inv, StrandsGood, Strands, UserReschedules
  <1>2. CASE strand' = [strand EXCEPT !["Recv"] = [s EXCEPT
               !.wire = Append(@, s.inFlight), !.result = "ok"]]
    <2> DEFINE w == Append(s.wire, s.inFlight)
    <2>1. strand' = [strand EXCEPT !["Recv"] =
                       [s EXCEPT !.result = "ok", !.promise = s.promise, !.wire = w]]
      BY <1>1, <1>2 DEF Strands
    <2>2. w \in Seq(Nat)
      BY <1>1
    <2> QED BY <2>1, <2>2
  <1>3. CASE /\ ~open \/ peer = "down"
             /\ strand' = [strand EXCEPT !["Recv"].result = "error"]
    <2>1. strand' = [strand EXCEPT !["Recv"] =
                       [s EXCEPT !.result = "error", !.promise = s.promise, !.wire = s.wire]]
      BY <1>1, <1>3 DEF Strands
    <2> QED BY <1>1, <1>3, <2>1
  <1> QED BY <1>2, <1>3 DEF UserReschedules

LEMMA UserReschedulesStep ==
  ASSUME Inv, UserReschedules
  PROVE  Inv'
  <1> DEFINE s == strand["Recv"]  op == s.inFlight
  <1>1. /\ "Recv" \in Dir /\ op # Idle /\ s.result = "none" /\ s.promise[op] = "badSize"
        /\ UNCHANGED <<mode, connect, open, mOpenCount, mOpenFut, user, cancel, peer,
                       terminated>>
    BY DEF UserReschedules, Dir
  <1>2. s \in Strands /\ s.promise \in Seq(Promises) /\ s.wire \in Seq(Nat) /\ op \in Nat
    BY <1>1, GoodStrand, InFlightType DEF Strands
  <1> DEFINE p == s.promise
  <1>3. PICK r \in {"ok", "error"}, w \in Seq(Nat) :
          /\ w = IF r = "ok" THEN Append(s.wire, op) ELSE s.wire
          /\ strand' = [strand EXCEPT !["Recv"] = [s EXCEPT !.result = r, !.promise = p, !.wire = w]]
    BY <1>1, RescheduledStrand
  <1>4. w \in Seq(Nat)
    BY <1>2, <1>3
  <1> QED BY <1>1, <1>2, <1>3, <1>4, AnswerStep

LEMMA IODispatchStep ==
  ASSUME Inv, NEW d \in Dir, IODispatch(d)
  PROVE  Inv'
  <1> DEFINE s == strand[d]
             h == IF s.result = "error" THEN "error"
                  ELSE IF s.inFlight = ConnectionString THEN "connectionStringSent"
                  ELSE "complete"
             z == Post([s EXCEPT !.result = "none", !.inFlight = Idle], h)
  <1>1. /\ s.result # "none"
        /\ strand' = [strand EXCEPT ![d] = z]
        /\ UNCHANGED <<mode, connect, open, mOpenCount, mOpenFut, user, cancel, peer,
                       terminated>>
    BY DEF IODispatch
  <1>2. h \in {"error", "connectionStringSent", "complete"}
    OBVIOUS
  <1>3. Good(First(d), z) /\ z \in Strands
    BY <1>1, <1>2, GoodStrand, Dispatch
  <1>4. h \in Handlers /\ h \notin Openers /\ h # "cancelOperations" /\ h # "enqueue"
    BY <1>2 DEF Handlers, Turns, Openers
  <1> HIDE DEF h
  <1>5. /\ z.handlers = Append(s.handlers, h) /\ z.promise = s.promise
        /\ z.mQueue = s.mQueue /\ z.mSocketAvailable = s.mSocketAvailable
        /\ s.handlers \in Seq(Handlers)
    BY GoodStrand DEF Strands, Post
  <1> HIDE DEF z
  <1>6. \A g : g # h => (Posted(z.handlers, g) <=> Posted(s.handlers, g))
    BY <1>4, <1>5, AppendHandlers
  <1>7. Quiet(s, z)
    <2>1. s.inFlight # Idle
      BY <1>1, GoodStrand DEF Good, TurnInv
    <2>2. Started(z) = Started(s)
      BY <1>4, <1>6 DEF Started
    <2> QED BY <1>4, <1>5, <1>6, <2>1, <2>2 DEF Quiet, Dormant, Done
  <1>8. /\ StrandsGood' /\ OpenInv'
        /\ strand'[d] = z /\ \A e \in Dir : e # d => strand'[e] = strand[e]
    BY <1>1, <1>3, <1>7, OneStrand
  <1>9. NoStall'
    BY <1>1, <1>4, <1>5, <1>6, <1>8, NoStallKept
  <1>10. ControlType'
    BY <1>1 DEF Inv, ControlType
  <1> QED BY <1>8, <1>9, <1>10 DEF Inv

LEMMA BadSizeStep ==
  ASSUME Inv, BadSize
  PROVE  Inv'
  <1> DEFINE s == strand["Recv"]  op == s.inFlight
             z == [s EXCEPT !.promise[op] = "badSize"]  f == First("Recv")
  <1>1. /\ "Recv" \in Dir /\ op # Idle /\ s.result = "none" /\ s.promise[op] = "unset"
        /\ strand' = [strand EXCEPT !["Recv"] = z]
        /\ UNCHANGED <<mode, connect, open, mOpenCount, mOpenFut, user, cancel, peer,
                       terminated>>
    BY DEF BadSize, Dir, Inv, StrandsGood
  <1>2. s \in Strands /\ Good(f, s) /\ f = 1 /\ s.promise \in Seq(Promises)
    BY <1>1, GoodStrand DEF Strands, First, ConnectionString
  <1>3. op \in 1..Len(s.promise)
    BY <1>1, <1>2, InFlightType DEF Good, FlightInv
  <1> DEFINE p == [s.promise EXCEPT ![op] = "badSize"]
  <1>4. /\ p \in Seq(Promises) /\ Len(p) = Len(s.promise)
        /\ \A i \in 1..Len(s.promise) : p[i] = IF i = op THEN "badSize" ELSE s.promise[i]
    <2>1. "badSize" \in Promises
      BY DEF Promises
    <2> QED BY <1>2, <1>3, <2>1
  <1> HIDE DEF p
  <1>5. /\ z \in Strands /\ z.promise = p
        /\ z.mQueue = s.mQueue /\ z.handlers = s.handlers /\ z.inFlight = op
        /\ z.mSocketAvailable = s.mSocketAvailable /\ z.wire = s.wire
        /\ z.result = s.result
    <2>1. z = [s EXCEPT !.promise = p]
      BY <1>2 DEF p, Strands
    <2> QED BY <1>2, <1>4, <2>1 DEF Strands
  <1> HIDE DEF z
  <1>6. Done(z) = Done(s) /\ Due(f, z) = Due(f, s)
    BY <1>4, <1>5 DEF Done, Due
  <1>7. QueueInv(z) /\ TurnInv(z)
    BY <1>2, <1>4, <1>5, <1>6 DEF Good, QueueInv, TurnInv
  <1>8. FlightInv(f, z)
    BY <1>1, <1>2, <1>5, <1>6 DEF Good, FlightInv
  <1>9. DueInv(f, z)
    <2>1. ~HasTurn(s.handlers) /\ ~s.mSocketAvailable
      BY <1>1, <1>2 DEF Good, TurnInv
    <2>2. \A h \in Turns : ~Posted(s.handlers, h)
      BY <2>1 DEF HasTurn, Posted
    <2> QED BY <1>5, <2>1, <2>2 DEF DueInv, Turns, Openers
  <1>10. WireInv(f, z)
    BY <1>2, <1>4, <1>5, <1>6 DEF Good, WireInv
  <1>11. Good(f, z)
    BY <1>5, <1>7, <1>8, <1>9, <1>10 DEF Good
  <1>12. Quiet(s, z)
    BY <1>1, <1>5, <1>6 DEF Quiet, Started, Dormant
  <1>13. /\ StrandsGood' /\ OpenInv'
         /\ strand'["Recv"] = z /\ \A e \in Dir : e # "Recv" => strand'[e] = strand[e]
    BY <1>1, <1>5, <1>11, <1>12, OneStrand
  <1>14. NoStall'
    BY <1>1, <1>5, <1>13, NoStallKept
  <1>15. ControlType'
    BY <1>1 DEF Inv, ControlType
  <1> QED BY <1>13, <1>14, <1>15 DEF Inv

-----------------------------------------------------------------------------
(* The user's thread                                                       *)

LEMMA UserPushStep ==
  ASSUME Inv, UserPush
  PROVE  Inv'
  <1> DEFINE d == user.dir  s == strand[d]
             v == IF d = "Send" /\ ~user.blocks THEN "none" ELSE "unset"
             z == [s EXCEPT !.promise = Append(@, v), !.mQueue = Append(@, Len(s.promise) + 1)]
  <1>1. /\ user.pc = "push" /\ d \in Dir
        /\ user' = [user EXCEPT !.pc = "post"]
        /\ UNCHANGED <<mode, connect, open, mOpenCount, mOpenFut, cancel, peer, terminated>>
    BY DEF UserPush, Inv, ControlType
  <1>2. s \in Strands /\ Good(First(d), s) /\ First(d) \in 0..1
    BY <1>1, GoodStrand
  <1>3. strand' = [strand EXCEPT ![d] = z]
    BY <1>1, <1>2 DEF UserPush, Inv, StrandsGood, Strands
  <1>4. Good(First(d), z) /\ z \in Strands /\ Done(z) = Done(s)
    BY <1>2, Push
  <1>5. z.handlers = s.handlers /\ z.mSocketAvailable = s.mSocketAvailable
        /\ z.inFlight = s.inFlight /\ z.wire = s.wire
    BY <1>2 DEF Strands
  <1> HIDE DEF z
  <1>6. Quiet(s, z)
    BY <1>4, <1>5 DEF Quiet, Started, Dormant
  <1>7. /\ StrandsGood' /\ OpenInv'
        /\ strand'[d] = z /\ \A e \in Dir : e # d => strand'[e] = strand[e]
    BY <1>1, <1>3, <1>4, <1>6, OneStrand
  <1>8. user'.pc = "post" /\ user'.dir = d
    BY <1>1 DEF Inv, ControlType
  <1>9. NoStall'
    BY <1>1, <1>7, <1>8 DEF Inv, NoStall
  <1>10. ControlType'
    BY <1>1 DEF Inv, ControlType
  <1> QED BY <1>7, <1>9, <1>10 DEF Inv

(* A handler without the turn is posted.                                   *)
LEMMA PostQuiet ==
  ASSUME NEW f \in 0..1, NEW s \in Strands, Good(f, s), NEW h \in Handlers \ Turns
  PROVE  /\ Post(s, h) \in Strands /\ Good(f, Post(s, h)) /\ SameData(s, Post(s, h))
         /\ \A g : Posted(Post(s, h).handlers, g) <=> Posted(s.handlers, g) \/ g = h
         /\ HasTurn(Post(s, h).handlers) <=> HasTurn(s.handlers)
         /\ Done(Post(s, h)) = Done(s)
         /\ Started(Post(s, h)) = Started(s)
         /\ Dormant(s) => Dormant(Post(s, h))
         /\ h # "cancelOperations" \/ mOpenFut = "exception" => Quiet(s, Post(s, h))
  <1> DEFINE z == Post(s, h)
  <1>1. s.handlers \in Seq(Handlers)
    BY DEF Strands
  <1>2. Append(s.handlers, h) \in Seq(Handlers)
    BY <1>1
  <1>3. z \in Strands /\ z.handlers = Append(s.handlers, h) /\ SameData(s, z)
    BY <1>2 DEF Post, Strands, SameData
  <1> HIDE DEF z
  <1>4. /\ \A g : Posted(z.handlers, g) <=> Posted(s.handlers, g) \/ g = h
        /\ HasTurn(z.handlers) <=> HasTurn(s.handlers)
        /\ OneTurn(z.handlers)
    BY <1>1, <1>3, AppendHandlers DEF Good, TurnInv
  <1>5. Good(f, z)
    BY <1>3, <1>4, QuietChange
  <1>6. /\ Done(z) = Done(s) /\ Started(z) = Started(s)
        /\ Dormant(s) => Dormant(z)
    BY <1>3, <1>4 DEF Done, Started, Dormant, SameData, Turns
  <1>7. h # "cancelOperations" \/ mOpenFut = "exception" => Quiet(s, z)
    BY <1>4, <1>6 DEF Quiet
  <1> QED BY <1>3, <1>4, <1>5, <1>6, <1>7 DEF z

LEMMA UserPostStep ==
  ASSUME Inv, UserPost
  PROVE  Inv'
  <1> DEFINE d == user.dir  s == strand[d]  z == Post(s, "enqueue")
  <1>1. /\ user.pc = "post" /\ d \in Dir
        /\ user' = [user EXCEPT !.pc = IF user.blocks THEN "wait" ELSE "ready"]
        /\ UNCHANGED <<mode, connect, open, mOpenCount, mOpenFut, cancel, peer, terminated>>
        /\ strand' = [strand EXCEPT ![d] = z]
    BY DEF UserPost, Inv, ControlType, StrandsGood
  <1>2. "enqueue" \in Handlers \ Turns
    BY DEF Handlers, Turns, Openers
  <1>3. /\ Good(First(d), z) /\ z \in Strands /\ Quiet(s, z) /\ SameData(s, z)
        /\ \A g : Posted(z.handlers, g) <=> Posted(s.handlers, g) \/ g = "enqueue"
    <2>1. s \in Strands /\ Good(First(d), s) /\ First(d) \in 0..1
      BY <1>1, GoodStrand
    <2>2. "enqueue" # "cancelOperations"
      OBVIOUS
    <2> QED BY <1>2, <2>1, <2>2, PostQuiet
  <1> HIDE DEF z
  <1>4. /\ StrandsGood' /\ OpenInv'
        /\ strand'[d] = z /\ \A e \in Dir : e # d => strand'[e] = strand[e]
    BY <1>1, <1>3, OneStrand
  <1>5. NoStall'
    <2> SUFFICES ASSUME NEW e \in Dir,
                        strand'[e].mSocketAvailable, strand'[e].mQueue # <<>>
                 PROVE  Posted(strand'[e].handlers, "enqueue")
      BY DEF NoStall, Posted
    <2>1. CASE e = d
      BY <1>3, <1>4, <2>1
    <2>2. CASE e # d
      BY <1>4, <2>2 DEF Inv, NoStall, Posted
    <2> QED BY <2>1, <2>2
  <1>6. ControlType'
    BY <1>1 DEF Inv, ControlType
  <1> QED BY <1>4, <1>5, <1>6 DEF Inv

(* Both strands change, neither is started.                                *)
LEMMA BothStrands ==
  ASSUME Inv, DOMAIN strand' = Dir, strand' = [d \in Dir |-> strand'[d]],
         \A d \in Dir : /\ strand'[d] \in Strands /\ Good(First(d), strand'[d])
                        /\ Quiet(strand[d], strand'[d])
                        /\ SameData(strand[d], strand'[d])
                        /\ Posted(strand[d].handlers, "enqueue") =>
                             Posted(strand'[d].handlers, "enqueue"),
         user.pc = "post" => UNCHANGED user,
         UNCHANGED <<mode, connect, mOpenCount, mOpenFut>>
  PROVE  StrandsGood' /\ OpenInv' /\ NoStall'
  <1>1. strand' \in [Dir -> Strands] /\ \A e \in Dir : First(e)' = First(e)
    BY DEF First
  <1>2. StrandsGood'
    BY <1>1 DEF StrandsGood
  <1>3. OpenInv'
    BY QuietOpen
  <1>4. NoStall'
    BY NoStallKept DEF SameData
  <1> QED BY <1>2, <1>3, <1>4

LEMMA ClosePostStep ==
  ASSUME Inv, ClosePost
  PROVE  Inv'
  <1> DEFINE z(d) == Post(strand[d], "close")
  <1>1. /\ user.pc = "closing" /\ user' = [user EXCEPT !.pc = "draining"]
        /\ strand' = [d \in Dir |-> z(d)]
        /\ UNCHANGED <<mode, connect, open, mOpenCount, mOpenFut, cancel, peer, terminated>>
    BY DEF ClosePost
  <1>2. "close" \in Handlers \ Turns
    BY DEF Handlers, Turns, Openers
  <1>3. \A d \in Dir : strand'[d] = z(d)
    BY <1>1
  <1>4. ASSUME NEW d \in Dir
        PROVE  /\ z(d) \in Strands /\ Good(First(d), z(d))
               /\ Quiet(strand[d], z(d)) /\ SameData(strand[d], z(d))
               /\ Posted(strand[d].handlers, "enqueue") => Posted(z(d).handlers, "enqueue")
    BY <1>2, GoodStrand, PostQuiet
  <1>5. DOMAIN strand' = Dir /\ strand' = [d \in Dir |-> strand'[d]]
    BY <1>1
  <1> HIDE DEF z
  <1>6. StrandsGood' /\ OpenInv' /\ NoStall'
    <2>1. user.pc = "post" => UNCHANGED user
      BY <1>1
    <2> QED BY <1>1, <1>3, <1>4, <1>5, <2>1, BothStrands
  <1>7. ControlType'
    BY <1>1 DEF Inv, ControlType
  <1> QED BY <1>6, <1>7 DEF Inv

-----------------------------------------------------------------------------
(* cancel()                                                                *)

LEMMA CancelStartStep ==
  ASSUME Inv, NEW who \in {"user", "other"}, CancelStart(who)
  PROVE  Inv'
  <1>1. /\ UNCHANGED <<mode, connect, mOpenCount, mOpenFut, peer, terminated>>
        /\ cancel' \in {"done", "pending"}
        /\ user' = user \/ (user.pc = "ready" /\ user' = [user EXCEPT !.pc = "cancelling"])
        /\ open' \in BOOLEAN
        /\ \/ strand' = strand
           \/ strand' = [d \in Dir |-> [strand[d] EXCEPT !.mStatus = "Stopped"]]
    BY DEF CancelStart, MayCancel, Inv, ControlType
  <1>2. \A d \in Dir : /\ strand'[d] \in Strands /\ SameData(strand[d], strand'[d])
                        /\ strand'[d].handlers = strand[d].handlers
    <2> SUFFICES ASSUME NEW d \in Dir
                 PROVE  /\ strand'[d] \in Strands /\ SameData(strand[d], strand'[d])
                        /\ strand'[d].handlers = strand[d].handlers
      OBVIOUS
    <2>1. strand'[d] = strand[d] \/ strand'[d] = [strand[d] EXCEPT !.mStatus = "Stopped"]
      BY <1>1
    <2>2. strand[d] \in Strands
      BY GoodStrand
    <2> QED BY <2>1, <2>2 DEF Strands, SameData
  <1>3. ASSUME NEW d \in Dir PROVE Good(First(d), strand'[d])
    <2>1. OneTurn(strand'[d].handlers)
      BY <1>2, GoodStrand DEF Good, TurnInv
    <2> QED BY <1>2, <2>1, GoodStrand, QuietChange
  <1>4. DOMAIN strand' = Dir /\ strand' = [d \in Dir |-> strand'[d]]
    BY <1>1 DEF Inv, StrandsGood
  <1>5. user.pc = "post" => UNCHANGED user
    BY <1>1
  <1>6. \A d \in Dir : Quiet(strand[d], strand'[d])
    BY <1>2, SameQuiet
  <1>7. StrandsGood' /\ OpenInv' /\ NoStall'
    BY <1>1, <1>2, <1>3, <1>4, <1>5, <1>6, BothStrands
  <1>8. ControlType'
    BY <1>1 DEF Inv, ControlType
  <1> QED BY <1>7, <1>8 DEF Inv

LEMMA CancelPostStep ==
  ASSUME Inv, CancelPost
  PROVE  Inv'
  <1> DEFINE t(d) == Post(strand[d], "cancelOperations")
             z(d) == IF mOpenFut = "exception" THEN Post(t(d), "cancel")
                     ELSE Post(strand[d], "cancel")
  <1>1. /\ strand' = [d \in Dir |-> z(d)] /\ cancel' = "draining"
        /\ UNCHANGED <<mode, connect, open, mOpenCount, mOpenFut, user, peer, terminated>>
    BY DEF CancelPost
  <1>2. "cancel" \in Handlers \ Turns /\ "cancelOperations" \in Handlers \ Turns
    BY DEF Handlers, Turns, Openers
  <1>3. ASSUME NEW d \in Dir
        PROVE  /\ z(d) \in Strands /\ Good(First(d), z(d))
               /\ Quiet(strand[d], z(d)) /\ SameData(strand[d], z(d))
               /\ Posted(strand[d].handlers, "enqueue") => Posted(z(d).handlers, "enqueue")
    <2>1. CASE mOpenFut = "exception"
      <3>1. /\ t(d) \in Strands /\ Good(First(d), t(d))
            /\ Quiet(strand[d], t(d)) /\ SameData(strand[d], t(d))
            /\ Posted(strand[d].handlers, "enqueue") => Posted(t(d).handlers, "enqueue")
        BY <1>2, <2>1, GoodStrand, PostQuiet
      <3> HIDE DEF t
      <3>2. /\ Post(t(d), "cancel") \in Strands /\ Good(First(d), Post(t(d), "cancel"))
            /\ Quiet(t(d), Post(t(d), "cancel")) /\ SameData(t(d), Post(t(d), "cancel"))
            /\ Posted(t(d).handlers, "enqueue") => Posted(Post(t(d), "cancel").handlers, "enqueue")
        BY <1>2, <2>1, <3>1, GoodStrand, PostQuiet
      <3>3. z(d) = Post(t(d), "cancel")
        BY <2>1
      <3> HIDE DEF z
      <3> QED BY <2>1, <3>1, <3>2, <3>3 DEF Quiet, SameData
    <2>2. CASE mOpenFut # "exception"
      <3>1. z(d) = Post(strand[d], "cancel")
        BY <2>2
      <3> HIDE DEF z
      <3>2. /\ strand[d] \in Strands /\ Good(First(d), strand[d]) /\ First(d) \in 0..1
            /\ "cancel" # "cancelOperations"
        BY GoodStrand
      <3>3. /\ Post(strand[d], "cancel") \in Strands
            /\ Good(First(d), Post(strand[d], "cancel"))
            /\ Quiet(strand[d], Post(strand[d], "cancel"))
            /\ SameData(strand[d], Post(strand[d], "cancel"))
            /\ Posted(strand[d].handlers, "enqueue") =>
                 Posted(Post(strand[d], "cancel").handlers, "enqueue")
        BY <1>2, <3>2, PostQuiet
      <3> QED BY <3>1, <3>3
    <2> QED BY <2>1, <2>2
  <1>4. \A d \in Dir : strand'[d] = z(d)
    BY <1>1
  <1>5. DOMAIN strand' = Dir /\ strand' = [d \in Dir |-> strand'[d]]
    BY <1>1
  <1> HIDE DEF z
  <1>6. StrandsGood' /\ OpenInv' /\ NoStall'
    BY <1>1, <1>3, <1>4, <1>5, BothStrands
  <1>7. ControlType'
    BY <1>1 DEF Inv, ControlType
  <1> QED BY <1>6, <1>7 DEF Inv


-----------------------------------------------------------------------------
(* Connecting                                                              *)

LEMMA cancelPendingChannelStep ==
  ASSUME Inv, cancelPendingChannel
  PROVE  Inv'
  <1>1. /\ UNCHANGED <<mode, open, mOpenCount, strand, user, peer, terminated>>
        /\ cancel' = "opening"
        /\ \/ connect = "waiting" /\ connect' = "done" /\ mOpenFut' = "exception"
           \/ UNCHANGED <<connect, mOpenFut>>
    BY DEF cancelPendingChannel
  <1>2. StrandsGood'
    <2>1. \A d \in Dir : First(d)' = First(d)
      BY <1>1 DEF First
    <2> QED BY <1>1, <2>1 DEF Inv, StrandsGood
  <1>3. OpenInv'
    BY <1>1 DEF Inv, OpenInv, Connected
  <1>4. NoStall' /\ ControlType'
    BY <1>1 DEF Inv, NoStall, ControlType
  <1> QED BY <1>2, <1>3, <1>4 DEF Inv

(* A strand that is started: it is dormant and nothing was performed.      *)
LEMMA PostOpener ==
  ASSUME NEW f \in 0..1, NEW s \in Strands, Good(f, s), Dormant(s), Done(s) = 0,
         NEW h \in Openers, h = IF f = 0 THEN "connectionString" ELSE "open"
  PROVE  /\ Post(s, h) \in Strands /\ Good(f, Post(s, h))
         /\ Started(Post(s, h)) = 0
         /\ \A g : Posted(Post(s, h).handlers, g) <=> Posted(s.handlers, g) \/ g = h
         /\ ~Post(s, h).mSocketAvailable
  <1> DEFINE z == Post(s, h)
  <1>1. s.handlers \in Seq(Handlers) /\ h \in Handlers /\ h \in Turns
    BY DEF Strands, Handlers, Turns
  <1>2. Append(s.handlers, h) \in Seq(Handlers)
    BY <1>1
  <1>3. z \in Strands /\ z.handlers = Append(s.handlers, h) /\ SameData(s, z)
    BY <1>2 DEF Post, Strands, SameData
  <1> HIDE DEF z
  <1>4. /\ \A g : Posted(z.handlers, g) <=> Posted(s.handlers, g) \/ g = h
        /\ OneTurn(z.handlers)
        /\ \A g \in Turns : Posted(z.handlers, g) <=> g = h
    <2>1. ~HasTurn(s.handlers)
      BY DEF Dormant
    <2>2. /\ \A g : Posted(z.handlers, g) <=> Posted(s.handlers, g) \/ g = h
          /\ OneTurn(s.handlers) => OneTurn(z.handlers)
      BY <1>1, <1>3, <2>1, AppendHandlers
    <2>3. OneTurn(s.handlers) /\ \A g \in Turns : ~Posted(s.handlers, g)
      BY <2>1 DEF OneTurn, HasTurn, Posted
    <2> QED BY <1>1, <2>2, <2>3
  <1>5. ~z.mSocketAvailable /\ z.inFlight = Idle /\ z.result = "none" /\ Done(z) = 0
        /\ Due(f, z) = f
    <2>1. Len(s.wire) = 0
      BY DEF Dormant
    <2> QED BY <1>3, <2>1 DEF Dormant, SameData, Done, Due, Good, TurnInv
  <1>6. QueueInv(z) /\ WireInv(f, z)
    <2>1. Done(s) = Done(z) /\ Due(f, s) = Due(f, z)
      BY <1>3 DEF SameData, Done, Due
    <2> QED BY <1>3, <2>1 DEF Good, QueueInv, WireInv, SameData
  <1>7. TurnInv(z) /\ FlightInv(f, z)
    BY <1>4, <1>5 DEF TurnInv, FlightInv, Idle, ConnectionString
  <1>8. DueInv(f, z)
    BY <1>4, <1>5 DEF DueInv, Turns, Openers
  <1>9. Started(z) = 0
    BY <1>4 DEF Started
  <1> QED BY <1>3, <1>4, <1>5, <1>6, <1>7, <1>8, <1>9 DEF Good, z

(* The connection is made.                                                 *)
LEMMA ConnectStep ==
  ASSUME Inv, connect # "done", connect' = "done",
         strand' = [d \in Dir |->
           Post(strand[d], IF First(d) = 0 THEN "connectionString" ELSE "open")],
         open' \in BOOLEAN, UNCHANGED <<mode, mOpenCount, mOpenFut, user, cancel, peer, terminated>>
  PROVE  Inv'
  <1> DEFINE h(d) == IF First(d) = 0 THEN "connectionString" ELSE "open"
  <1>1. ~Connected /\ mOpenFut # "exception"
    BY DEF Connected, Inv, OpenInv
  <1>2. /\ mOpenCount = 0
        /\ \A d \in Dir : /\ Dormant(strand[d]) /\ Done(strand[d]) = 0
                          /\ ~Posted(strand[d].handlers, "cancelOperations")
    BY <1>1 DEF Inv, OpenInv
  <1>3. \A d \in Dir : /\ strand[d] \in Strands /\ Good(First(d), strand[d])
                        /\ First(d) \in 0..1
    BY GoodStrand
  <1>4. \A d \in Dir : h(d) \in Openers
    BY DEF Openers
  <1>5. \A d \in Dir : strand'[d] = Post(strand[d], h(d))
    OBVIOUS
  <1>6. \A d \in Dir : h(d) # "cancelOperations" /\ h(d) # "enqueue"
    OBVIOUS
  <1>7. \A d \in Dir :
          /\ strand'[d] \in Strands /\ Good(First(d), strand'[d])
          /\ Started(strand'[d]) = 0 /\ ~strand'[d].mSocketAvailable
          /\ ~Posted(strand'[d].handlers, "cancelOperations")
    <2> SUFFICES ASSUME NEW d \in Dir
                 PROVE  /\ strand'[d] \in Strands /\ Good(First(d), strand'[d])
                        /\ Started(strand'[d]) = 0 /\ ~strand'[d].mSocketAvailable
                        /\ ~Posted(strand'[d].handlers, "cancelOperations")
      OBVIOUS
    <2> DEFINE k == h(d)
    <2>1. /\ k = IF First(d) = 0 THEN "connectionString" ELSE "open"
          /\ k \in Openers /\ k # "cancelOperations" /\ strand'[d] = Post(strand[d], k)
      BY <1>4, <1>5, <1>6
    <2> HIDE DEF k
    <2> QED BY <1>2, <1>3, <2>1, PostOpener
  <1>8. strand' \in [Dir -> Strands]
    <2>1. strand' = [d \in Dir |-> strand'[d]]
      OBVIOUS
    <2> QED BY <1>7, <2>1
  <1>9. StrandsGood'
    <2>1. \A d \in Dir : First(d)' = First(d)
      BY DEF First
    <2> QED BY <1>7, <1>8, <2>1 DEF StrandsGood
  <1>10. OpenInv'
    <2>1. Connected' /\ mOpenFut' # "exception" /\ mOpenCount' = 0
      BY <1>1, <1>2 DEF Connected
    <2>2. Started(strand'["Send"]) = 0 /\ Started(strand'["Recv"]) = 0
      BY <1>7 DEF Dir
    <2>3. \A d \in Dir : ~Posted(strand'[d].handlers, "cancelOperations")
      BY <1>7
    <2>4. mOpenCount' = Started(strand'["Send"]) + Started(strand'["Recv"])
      BY <2>1, <2>2
    <2> QED BY <2>1, <2>3, <2>4 DEF OpenInv
  <1>11. NoStall'
    BY <1>7 DEF NoStall
  <1>12. ControlType'
    BY DEF Inv, ControlType
  <1> QED BY <1>9, <1>10, <1>11, <1>12 DEF Inv

LEMMA startSocketStep ==
  ASSUME Inv, startSocket
  PROVE  Inv'
  <1>1. mode = "Server" /\ connect = "waiting"
    BY DEF startSocket, Inv, OpenInv
  <1>2. \A d \in Dir : (IF First(d) = 0 THEN "connectionString" ELSE "open") = "open"
    BY <1>1 DEF First
  <1>3. strand' = [d \in Dir |->
          Post(strand[d], IF First(d) = 0 THEN "connectionString" ELSE "open")]
    BY <1>2 DEF startSocket
  <1> QED BY <1>1, <1>3, ConnectStep DEF startSocket

LEMMA ConnectCallbackStep ==
  ASSUME Inv, ConnectCallback
  PROVE  Inv'
  <1>1. UNCHANGED <<mode, open, mOpenCount, user, cancel, peer>>
    BY DEF ConnectCallback
  <1>2. CASE connect = "succeeded" /\ open
    <2>1. /\ connect' = "done" /\ UNCHANGED <<mOpenFut, terminated>>
          /\ strand' = [strand EXCEPT !["Send"] = Post(@, "connectionString"),
                                      !["Recv"] = Post(@, "open")]
      BY <1>2 DEF ConnectCallback
    <2>2. mode = "Client" /\ strand \in [Dir -> Strands]
      BY <1>2 DEF Inv, OpenInv, StrandsGood
    <2>3. First("Send") = 0 /\ First("Recv") = 1
      BY <2>2 DEF First, ConnectionString
    <2>4. strand' = [d \in Dir |->
            Post(strand[d], IF First(d) = 0 THEN "connectionString" ELSE "open")]
      <3>1. \A d \in Dir : d = "Send" \/ d = "Recv"
        BY DEF Dir
      <3>2. /\ strand'["Send"] = Post(strand["Send"], "connectionString")
            /\ strand'["Recv"] = Post(strand["Recv"], "open")
            /\ strand' = [d \in Dir |-> strand'[d]]
        BY <2>1, <2>2 DEF Dir
      <3>3. \A d \in Dir : strand'[d] =
              Post(strand[d], IF First(d) = 0 THEN "connectionString" ELSE "open")
        BY <2>3, <3>1, <3>2
      <3> QED BY <3>2, <3>3
    <2> QED BY <1>1, <1>2, <2>1, <2>4, ConnectStep DEF Inv, ControlType
  <1>3. CASE ~(connect = "succeeded" /\ open)
    <2>1. /\ UNCHANGED strand
          /\ \/ connect = "refused" /\ connect' = "retry" /\ UNCHANGED <<mOpenFut, terminated>>
             \/ /\ connect = "refused" /\ connect' = "done" /\ mOpenFut' = "exception"
                /\ UNCHANGED terminated
             \/ terminated' = "socket" /\ UNCHANGED <<connect, mOpenFut>>
      BY <1>3 DEF ConnectCallback
    <2>2. StrandsGood'
      <3>1. \A d \in Dir : First(d)' = First(d)
        BY <1>1 DEF First
      <3> QED BY <2>1, <3>1 DEF Inv, StrandsGood
    <2>3. OpenInv'
      BY <1>1, <2>1 DEF Inv, OpenInv, Connected
    <2>4. NoStall' /\ ControlType'
      BY <1>1, <2>1 DEF Inv, NoStall, ControlType
    <2> QED BY <2>2, <2>3, <2>4 DEF Inv
  <1> QED BY <1>2, <1>3

(* Steps that leave the strands alone and start nothing.                   *)
LEMMA ControlStep ==
  ASSUME Inv, UNCHANGED <<mode, strand, mOpenCount, mOpenFut>>,
         ControlType', user.pc = "post" => UNCHANGED user,
         \/ UNCHANGED connect
         \/ /\ connect \in {"pending", "succeeded", "refused", "retry"}
            /\ connect' \in {"pending", "succeeded", "refused", "retry"}
  PROVE  Inv'
  <1>1. StrandsGood'
    <2>1. \A d \in Dir : First(d)' = First(d)
      BY DEF First
    <2> QED BY <2>1 DEF Inv, StrandsGood
  <1>2. OpenInv'
    BY DEF Inv, OpenInv, Connected
  <1>3. NoStall'
    BY DEF Inv, NoStall
  <1> QED BY <1>1, <1>2, <1>3 DEF Inv

LEMMA ConnectingStep ==
  ASSUME Inv, ConnectOutcome \/ RetryTimer
  PROVE  Inv'
  <1>1. ControlType'
    <2>1. CASE ConnectOutcome
      BY <2>1 DEF Inv, ControlType, ConnectOutcome
    <2>2. CASE RetryTimer
      BY <2>2 DEF Inv, ControlType, RetryTimer
    <2> QED BY <2>1, <2>2
  <1> QED BY <1>1, ControlStep DEF ConnectOutcome, RetryTimer

LEMMA UserControlStep ==
  ASSUME Inv, (\E d \in Dir : UserCalls(d)) \/ UserReturns \/ CloseStart \/ CloseReturn
  PROVE  Inv'
  <1>1. CASE \E d \in Dir : UserCalls(d)
    <2>1. /\ UNCHANGED <<mode, connect, open, mOpenCount, mOpenFut, strand, cancel, peer>>
          /\ user.pc = "ready"
          /\ \/ /\ \E d \in Dir : \E b \in BOOLEAN : user' = [pc |-> "push", dir |-> d, blocks |-> b]
                /\ UNCHANGED terminated
             \/ terminated' = "expects" /\ UNCHANGED user
      BY <1>1 DEF UserCalls
    <2>2. ControlType'
      BY <2>1 DEF Inv, ControlType
    <2> QED BY <2>1, <2>2, ControlStep
  <1>2. CASE UserReturns \/ CloseStart \/ CloseReturn
    <2>1. /\ UNCHANGED <<mode, connect, mOpenCount, mOpenFut, strand, cancel, peer, terminated>>
          /\ user.pc # "post" /\ open' \in BOOLEAN
          /\ \E q \in {"ready", "closed", "closing"} : user' = [user EXCEPT !.pc = q]
      BY <1>2 DEF UserReturns, CloseStart, CloseReturn, Inv, ControlType
    <2>2. ControlType'
      BY <2>1 DEF Inv, ControlType
    <2> QED BY <2>1, <2>2, ControlStep
  <1> QED BY <1>1, <1>2

LEMMA OtherControlStep ==
  ASSUME Inv, CancelReturn \/ PeerStarts \/ PeerGoes
  PROVE  Inv'
  <1>1. ControlType'
    <2>1. CASE CancelReturn
      BY <2>1 DEF Inv, ControlType, CancelReturn
    <2>2. CASE PeerStarts \/ PeerGoes
      BY <2>2 DEF Inv, ControlType, PeerStarts, PeerGoes
    <2> QED BY <2>1, <2>2
  <1> QED BY <1>1, ControlStep DEF CancelReturn, PeerStarts, PeerGoes


-----------------------------------------------------------------------------
(* The theorems                                                            *)

LEMMA InitInv == Init => Inv
  <1> SUFFICES ASSUME Init PROVE Inv
    OBVIOUS
  <1>1. Cancellers \subseteq {"user", "other"} /\ Modes \subseteq {"Client", "Server"}
    BY CancellersAssumption, ModesAssumption
  <1>2. ControlType
    BY <1>1 DEF Init, ControlType, Dir
  <1>3. \A d \in Dir : strand[d] = NewStrand
    BY DEF Init
  <1>4. NewStrand \in Strands
    BY DEF NewStrand, Strands, Idle
  <1>5. /\ NewStrand.handlers = <<>> /\ NewStrand.wire = <<>> /\ NewStrand.mQueue = <<>>
        /\ NewStrand.promise = <<>> /\ ~NewStrand.mSocketAvailable
        /\ NewStrand.inFlight = Idle /\ NewStrand.result = "none"
    BY DEF NewStrand
  <1>6. /\ ~HasTurn(NewStrand.handlers) /\ \A h : ~Posted(NewStrand.handlers, h)
        /\ Dormant(NewStrand) /\ Done(NewStrand) = 0
    BY <1>5 DEF HasTurn, Posted, Dormant, Done
  <1>7. ASSUME NEW f \in 0..1 PROVE Good(f, NewStrand)
    <2>1. QueueInv(NewStrand) /\ WireInv(f, NewStrand)
      BY <1>5 DEF QueueInv, WireInv
    <2>2. TurnInv(NewStrand) /\ FlightInv(f, NewStrand) /\ DueInv(f, NewStrand)
      BY <1>5, <1>6 DEF TurnInv, FlightInv, DueInv, OneTurn, Idle, ConnectionString
    <2> QED BY <1>4, <2>1, <2>2 DEF Good
  <1>8. StrandsGood
    BY <1>3, <1>4, <1>7, FirstType DEF StrandsGood, Init
  <1>9. OpenInv
    BY <1>1, <1>3, <1>6 DEF OpenInv, Connected, Init
  <1>10. NoStall
    BY <1>3, <1>5 DEF NoStall
  <1> QED BY <1>2, <1>8, <1>9, <1>10 DEF Inv

LEMMA RunStrandStep ==
  ASSUME Inv, NEW d \in Dir, RunStrand(d)
  PROVE  Inv'
  BY HandleEnqueueStep, HandleOpenStep, HandleCompleteStep, HandleErrorStep,
     HandleCancelOperationsStep, HandleCloseStep, HandleCancelStep,
     HandleConnectionStringStep, HandleConnectionStringSentStep, ReplacePromiseStep
     DEF RunStrand

LEMMA NextInv == Inv /\ [Next]_vars => Inv'
  <1> SUFFICES ASSUME Inv, [Next]_vars PROVE Inv'
    OBVIOUS
  <1>1. CASE IO
    <2>1. CASE ConnectOutcome \/ ConnectCallback \/ RetryTimer \/ startSocket
      BY <2>1, ConnectingStep, ConnectCallbackStep, startSocketStep
    <2>2. CASE \E d \in Dir : RunStrand(d) \/ IOResult(d) \/ IODispatch(d)
      BY <2>2, RunStrandStep, IOResultStep, IODispatchStep
    <2> QED BY <1>1, <2>1, <2>2 DEF IO
  <1>2. CASE BadSize
    BY <1>2, BadSizeStep
  <1>3. CASE Users
    BY <1>3, UserControlStep, UserPushStep, UserPostStep, UserReschedulesStep, ClosePostStep
       DEF Users
  <1>4. CASE Cancels
    <2>1. CASE \E who \in Cancellers : CancelStart(who)
      BY <2>1, CancellersAssumption, CancelStartStep
    <2>2. CASE cancelPendingChannel \/ CancelPost \/ CancelReturn
      BY <2>2, cancelPendingChannelStep, CancelPostStep, OtherControlStep
    <2> QED BY <1>4, <2>1, <2>2 DEF Cancels
  <1>5. CASE PeerStarts \/ PeerGoes
    BY <1>5, OtherControlStep
  <1>6. CASE UNCHANGED vars
    <2>1. UNCHANGED <<mode, connect, open, mOpenCount, mOpenFut, strand, user, cancel, peer,
                      terminated>>
      BY <1>6 DEF vars
    <2>2. ControlType'
      BY <2>1 DEF Inv, ControlType
    <2> QED BY <2>1, <2>2, ControlStep
  <1> QED BY <1>1, <1>2, <1>3, <1>4, <1>5, <1>6 DEF Next, Over

(* The invariant of the two strands holds of every channel.                *)
THEOREM Invariance == Spec => []Inv
  BY InitInv, NextInv, PTL DEF Spec

(* Either strand counts itself once in mOpenCount, so the open promise,    *)
(* which throws if it is set again, is set once; and every variable has its*)
(* type.                                                                   *)
THEOREM Types == Spec => []TypeOK
  <1>1. Inv => TypeOK
    <2> SUFFICES ASSUME Inv PROVE TypeOK
      OBVIOUS
    <2>1. mOpenCount \in 0..2
      <3>1. \A d \in Dir : Started(strand[d]) \in 0..1
        BY DEF Started
      <3>2. Started(strand["Send"]) \in 0..1 /\ Started(strand["Recv"]) \in 0..1
        BY <3>1 DEF Dir
      <3> QED BY <3>2 DEF Inv, OpenInv
    <2>2. ASSUME NEW d \in Dir
          PROVE  /\ strand[d].mStatus \in {"Normal", "Stopped"}
                 /\ {strand[d].mSocketAvailable, strand[d].mQueueEmpty, strand[d].replacing}
                       \subseteq BOOLEAN
                 /\ Queued(strand[d]) \subseteq Ops(d)
                 /\ strand[d].inFlight \in {Idle, ConnectionString} \cup Ops(d)
                 /\ strand[d].result \in {"none", "ok", "error"}
                 /\ \A i \in Ops(d) :
                      strand[d].promise[i] \in {"none", "unset", "value", "exception", "badSize"}
      <3>1. strand[d] \in Strands /\ QueueInv(strand[d])
        BY GoodStrand DEF Good
      <3>2. Queued(strand[d]) \subseteq Ops(d)
        <4>1. PICK n \in Nat, k \in Nat : n = Len(strand[d].promise) /\ k = Done(strand[d])
          BY <3>1, QueueContents
        <4>2. (k + 1)..n \subseteq 1..n
          BY <4>1
        <4> QED BY <3>1, <4>1, <4>2, QueueContents DEF Ops
      <3>3. strand[d].inFlight \in {Idle, ConnectionString} \cup Ops(d)
        BY InFlightType DEF Ops
      <3>4. strand[d].promise \in Seq(Promises)
        BY <3>1 DEF Strands
      <3>5. \A i \in Ops(d) : strand[d].promise[i] \in Promises
        BY <3>4 DEF Ops
      <3> QED BY <3>1, <3>2, <3>3, <3>5 DEF Strands, Promises
    <2> QED BY <2>1, <2>2 DEF TypeOK, Inv, ControlType
  <1> QED BY <1>1, Invariance, PTL

(* A socket has one operation of a direction at a time: whoever begins the *)
(* next one holds the only turn there is, whatever the user, the peer and  *)
(* cancel() do meanwhile.                                                  *)
THEOREM OneOperation == Spec => []OneAtATime
  <1>1. Inv => OneAtATime
    <2> SUFFICES ASSUME Inv, NEW d \in Dir
                 PROVE  /\ strand[d].inFlight # Idle => ~strand[d].mSocketAvailable
                        /\ strand[d].inFlight \in Ops(d) =>
                             strand[d].mQueue # <<>> /\ strand[d].inFlight = Head(strand[d].mQueue)
                        /\ Posted(strand[d].handlers, "complete") =>
                             /\ strand[d].inFlight = Idle /\ ~strand[d].mSocketAvailable
                             /\ strand[d].mQueue # <<>>
      BY DEF OneAtATime, Posted
    <2>1. /\ strand[d] \in Strands /\ TurnInv(strand[d]) /\ DueInv(First(d), strand[d])
      BY GoodStrand DEF Good
    <2>2. strand[d].inFlight \in Ops(d) => strand[d].inFlight >= 1
      <3>1. PICK n \in Nat : n = Len(strand[d].promise)
        BY <2>1 DEF Strands
      <3> QED BY <3>1 DEF Ops
    <2>3. Posted(strand[d].handlers, "complete") => HasTurn(strand[d].handlers)
      BY DEF Posted, HasTurn, Turns
    <2>4. Len(strand[d].mQueue) > 0 => strand[d].mQueue # <<>>
      OBVIOUS
    <2>5. Posted(strand[d].handlers, "complete") =>
            /\ strand[d].inFlight = Idle /\ ~strand[d].mSocketAvailable
            /\ strand[d].mQueue # <<>>
      BY <2>1, <2>3, <2>4 DEF TurnInv, DueInv
    <2> QED BY <2>1, <2>2, <2>5, InFlightType DEF TurnInv
  <1> QED BY <1>1, Invariance, PTL

(* A client's connection string is the first thing on its stream, and the  *)
(* operations follow in the order of the calls.                            *)
THEOREM WireOrder == Spec => []InOrder
  <1>1. Inv => InOrder
    <2> SUFFICES ASSUME Inv, NEW d \in Dir, NEW i \in DOMAIN strand[d].wire
                 PROVE  strand[d].wire[i] = First(d) + i - 1
      BY DEF InOrder, First
    <2>1. strand[d] \in Strands /\ WireInv(First(d), strand[d])
      BY GoodStrand DEF Good
    <2>2. i \in 1..Len(strand[d].wire)
      BY <2>1 DEF Strands
    <2> QED BY <2>1, <2>2 DEF WireInv
  <1> QED BY <1>1, Invariance, PTL

(* An operation that is queued while the socket is available has a handler *)
(* to come, although the user's thread appends to the queue unlocked.      *)
THEOREM NothingStalls == Spec => []NoStall
  BY Invariance, PTL DEF Inv

(* An operation with a promise is settled or still queued, and what was    *)
(* settled with a value went over the wire.                                *)
THEOREM PromisesAreKept == Spec => []PromisesKept
  <1>1. Inv => PromisesKept
    <2> SUFFICES ASSUME Inv, NEW d \in Dir, NEW i \in Ops(d)
                 PROVE  /\ strand[d].promise[i] = "unset" => i \in Queued(strand[d])
                        /\ strand[d].promise[i] = "value" =>
                             \E j \in DOMAIN strand[d].wire : strand[d].wire[j] = i
      BY DEF PromisesKept
    <2>1. /\ strand[d] \in Strands /\ QueueInv(strand[d]) /\ WireInv(First(d), strand[d])
          /\ First(d) \in 0..1
      BY GoodStrand DEF Good
    <2>2. PICK n \in Nat, k \in Nat : n = Len(strand[d].promise) /\ k = Len(strand[d].wire)
      <3>1. strand[d].promise \in Seq(Promises) /\ strand[d].wire \in Seq(Nat)
        BY <2>1 DEF Strands
      <3>2. Len(strand[d].promise) \in Nat /\ Len(strand[d].wire) \in Nat
        BY <3>1
      <3> QED BY <3>2
    <2>3. /\ i \in 1..n
          /\ strand[d].promise[i] = "unset" => i > Done(strand[d])
          /\ strand[d].promise[i] = "value" => i < First(d) + k
          /\ \A j \in 1..k : strand[d].wire[j] = First(d) + j - 1
      BY <2>1, <2>2 DEF WireInv, Due, Ops
    <2>4. strand[d].promise[i] = "unset" => i \in Queued(strand[d])
      <3>1. PICK m \in Nat : m = Done(strand[d])
        BY <2>1, QueueContents
      <3>2. i > m => i \in (m + 1)..n
        BY <2>3
      <3> QED BY <2>1, <2>2, <2>3, <3>1, <3>2, QueueContents
    <2>5. ASSUME strand[d].promise[i] = "value"
          PROVE  \E j \in DOMAIN strand[d].wire : strand[d].wire[j] = i
      <3>1. i < First(d) + k
        BY <2>3, <2>5
      <3> DEFINE j == i - First(d) + 1
      <3>2. j \in 1..k /\ First(d) + j - 1 = i
        BY <2>1, <2>3, <3>1
      <3>3. j \in DOMAIN strand[d].wire
        BY <2>1, <2>2, <3>2 DEF Strands
      <3> QED BY <2>3, <3>2, <3>3
    <2> QED BY <2>4, <2>5
  <1> QED BY <1>1, Invariance, PTL

-----------------------------------------------------------------------------
(* close(), while the connection holds and nobody cancels: a strand stops  *)
(* when it hears of close(), which is after all that was queued, and from  *)
(* then on its queue only shrinks, by operations that went over the wire.  *)

(* close() has told the strands.                                           *)
Asked == user.pc \in {"draining", "closed"}

(* A strand hears of close() once, after all that the user has queued.     *)
CloseLast(q) ==
  \A i, j \in DOMAIN q : i < j /\ q[i] = "close" => q[j] \notin {"close", "enqueue"}

(* What ends operations without performing them.                           *)
Harms == {"error", "cancel", "cancelOperations"}

(* All that left the queue went over the wire.                             *)
Unharmed(f, s) ==
  /\ s.result # "error" /\ \A h \in Harms : ~Posted(s.handlers, h)
  /\ Done(s) = 0 \/ Done(s) < Due(f, s)

(* A strand stops when it hears of close(), and its promise is set when    *)
(* nothing is left.                                                        *)
ClosesOnce(s, asked) ==
  /\ s.mStatus = "Stopped" \/ Posted(s.handlers, "close") => asked
  /\ s.mStatus = "Stopped" =>
       ~Posted(s.handlers, "close") /\ ~Posted(s.handlers, "enqueue")
  /\ s.mQueueEmpty => s.mStatus = "Stopped" /\ s.mQueue = <<>>
  /\ CloseLast(s.handlers)

Drains(f, s, asked) == Unharmed(f, s) /\ ClosesOnce(s, asked)

DrainInv ==
  Healthy =>
    /\ mOpenFut # "exception" /\ (mOpenFut = "value" => mOpenCount = 2)
    /\ connect = "waiting" \/ open \/ user.pc = "closed"
    /\ Asked => mOpenFut = "value"
    /\ \A d \in Dir : Drains(First(d), strand[d], Asked)
    /\ user.pc = "closed" => \A d \in Dir : strand[d].mQueueEmpty

(* What a handler that is none of the Harms does to its strand.            *)
Handles(s, h, z) ==
  /\ z.result = s.result /\ z.wire = s.wire /\ z.promise = s.promise
  /\ z.mQueue = IF h = "complete" THEN Tail(s.mQueue) ELSE s.mQueue
  /\ z.mStatus = IF h = "close" THEN "Stopped" ELSE s.mStatus
  /\ z.mQueueEmpty => s.mQueueEmpty \/ (z.mStatus = "Stopped" /\ z.mQueue = <<>>)
  /\ s.mQueueEmpty => z.mQueueEmpty

(* What a strand keeps when only its socket becomes available.             *)
SameBut(s, m) ==
  /\ m.mQueue = s.mQueue /\ m.promise = s.promise /\ m.wire = s.wire
  /\ m.result = s.result /\ m.mStatus = s.mStatus /\ m.mQueueEmpty = s.mQueueEmpty

LEMMA CloseLastTail ==
  ASSUME NEW q \in Seq(Handlers), q # <<>>, CloseLast(q)
  PROVE  /\ CloseLast(Tail(q))
         /\ Head(q) = "close" => /\ ~Posted(Tail(q), "close")
                                 /\ ~Posted(Tail(q), "enqueue")
  <1> DEFINE r == Tail(q)
  <1>1. /\ Len(q) \in Nat \ {0} /\ Len(r) = Len(q) - 1
        /\ \A i \in 1..Len(r) : r[i] = q[i + 1]
        /\ DOMAIN r = 1..Len(r) /\ DOMAIN q = 1..Len(q) /\ Head(q) = q[1]
    OBVIOUS
  <1> HIDE DEF r
  <1>2. PICK n \in Nat \ {0} : n = Len(q)
    BY <1>1
  <1>3. \A i \in DOMAIN r : /\ i \in Int /\ i + 1 \in DOMAIN q /\ 1 < i + 1
                            /\ r[i] = q[i + 1]
    BY <1>1, <1>2
  <1>4. \A i, j \in DOMAIN r : i < j => i + 1 < j + 1
    BY <1>3
  <1>5. CloseLast(r)
    BY <1>3, <1>4 DEF CloseLast
  <1>6. 1 \in DOMAIN q
    BY <1>1, <1>2
  <1>7. Head(q) = "close" => \A i \in DOMAIN r : r[i] \notin {"close", "enqueue"}
    BY <1>1, <1>3, <1>6 DEF CloseLast
  <1> QED BY <1>5, <1>7 DEF Posted, r

LEMMA CloseLastAppend ==
  ASSUME NEW q \in Seq(Handlers), CloseLast(q), NEW h \in Handlers,
         h \in {"close", "enqueue"} => ~Posted(q, "close")
  PROVE  CloseLast(Append(q, h))
  <1> DEFINE r == Append(q, h)
  <1>1. /\ Len(q) \in Nat /\ Len(r) = Len(q) + 1
        /\ \A i \in 1..Len(q) : r[i] = q[i]
        /\ r[Len(q) + 1] = h
        /\ DOMAIN r = 1..Len(r) /\ DOMAIN q = 1..Len(q)
    OBVIOUS
  <1> HIDE DEF r
  <1>2. PICK n \in Nat : n = Len(q)
    BY <1>1
  <1> SUFFICES ASSUME NEW i \in DOMAIN r, NEW j \in DOMAIN r, i < j, r[i] = "close"
               PROVE  r[j] \notin {"close", "enqueue"}
    BY DEF CloseLast, r
  <1>3. i \in DOMAIN q /\ q[i] = "close"
    BY <1>1, <1>2
  <1>4. CASE j \in DOMAIN q
    BY <1>1, <1>3, <1>4 DEF CloseLast
  <1>5. CASE j \notin DOMAIN q
    <2>1. r[j] = h
      BY <1>1, <1>2, <1>5
    <2> QED BY <1>3, <2>1 DEF Posted
  <1> QED BY <1>4, <1>5

(* A strand goes on draining when a handler has run.                       *)
LEMMA Handled ==
  ASSUME NEW f \in 0..1, NEW s \in Strands, Good(f, s), s.handlers # <<>>,
         NEW h, h = Head(s.handlers), NEW z \in Strands, z.handlers = Tail(s.handlers),
         Handles(s, h, z), NEW asked, Drains(f, s, asked)
  PROVE  Drains(f, z, asked)
  <1>1. /\ s.handlers \in Seq(Handlers) /\ Posted(s.handlers, h)
        /\ \A g : Posted(z.handlers, g) => Posted(s.handlers, g)
        /\ CloseLast(z.handlers)
        /\ h = "close" => /\ ~Posted(z.handlers, "close")
                          /\ ~Posted(z.handlers, "enqueue")
    <2>1. s.handlers \in Seq(Handlers)
      BY DEF Strands
    <2> QED BY <2>1, TailHandlers, CloseLastTail DEF Drains, ClosesOnce
  <1>2. h = "complete" => s.mQueue # <<>> /\ Due(f, s) = Done(s) + 2
    BY <1>1 DEF Good, DueInv
  <1>3. QueueInv(s) /\ s.mQueue \in Seq(Nat)
    BY DEF Good, Strands
  <1>4. Due(f, z) = Due(f, s) /\ Done(s) \in Nat
    BY <1>3, QueueContents DEF Handles, Due
  <1>5. Done(z) = IF h = "complete" THEN Done(s) + 1 ELSE Done(s)
    <2>1. CASE h = "complete"
      <3>1. PICK n \in Nat, m \in Nat : n = Len(s.promise) /\ m = Len(s.mQueue)
        BY <1>3, QueueContents
      <3>2. Len(Tail(s.mQueue)) = m - 1
        BY <1>2, <1>3, <2>1, <3>1
      <3>3. Done(s) = n - m /\ Done(z) = n - (m - 1)
        BY <2>1, <3>1, <3>2 DEF Handles, Done
      <3> QED BY <2>1, <3>3
    <2>2. CASE h # "complete"
      BY <2>2 DEF Handles, Done
    <2> QED BY <2>1, <2>2
  <1>6. Unharmed(f, z)
    <2>1. Done(z) = 0 \/ Done(z) < Due(f, z)
      BY <1>2, <1>4, <1>5 DEF Drains, Unharmed
    <2> QED BY <1>1, <2>1 DEF Drains, Unharmed, Handles
  <1>7. z.mQueueEmpty => z.mStatus = "Stopped" /\ z.mQueue = <<>>
    BY <1>2 DEF Drains, ClosesOnce, Handles
  <1>8. ClosesOnce(z, asked)
    BY <1>1, <1>7 DEF Drains, ClosesOnce, Handles
  <1> QED BY <1>6, <1>8 DEF Drains

LEMMA OpenersLeft ==
  ASSUME Inv, NEW d \in Dir, strand[d].handlers # <<>>, Head(strand[d].handlers) \in Openers
  PROVE  mOpenCount \in 0..1
  <1>1. Head(strand[d].handlers) \in Turns /\ strand[d].handlers \in Seq(Handlers)
    BY GoodStrand DEF Turns, Strands
  <1>2. Posted(strand[d].handlers, Head(strand[d].handlers))
    BY <1>1, TailHandlers
  <1>3. Started(strand[d]) = 0
    BY <1>2 DEF Started
  <1>4. mOpenCount = Started(strand["Send"]) + Started(strand["Recv"])
    BY <1>1, HeadConnected DEF Inv, OpenInv
  <1>5. /\ Started(strand["Send"]) \in 0..1 /\ Started(strand["Recv"]) \in 0..1
        /\ d = "Send" \/ d = "Recv"
    BY DEF Started, Dir
  <1> QED BY <1>3, <1>4, <1>5

LEMMA DrainHandle ==
  ASSUME Inv, DrainInv, user.pc # "closed", NEW d \in Dir, NEW h, NEW after \in Strands,
         Handle(d, h, after), after.handlers = strand[d].handlers,
         Handles(strand[d], h, after),
         UNCHANGED <<mOpenCount, mOpenFut>> \/ (h \in Openers /\ Count)
  PROVE  DrainInv'
  <1> SUFFICES ASSUME Healthy'
               PROVE  /\ mOpenFut' # "exception" /\ (mOpenFut' = "value" => mOpenCount' = 2)
                      /\ connect' = "waiting" \/ open'
                      /\ Asked' => mOpenFut' = "value"
                      /\ \A e \in Dir : Drains(First(e)', strand'[e], Asked')
                      /\ user.pc' # "closed"
    BY DEF DrainInv, Handle
  <1> DEFINE s == strand[d]  z == Taken(after)
  <1>1. /\ strand' = [strand EXCEPT ![d] = z] /\ s.handlers # <<>> /\ Head(s.handlers) = h
        /\ UNCHANGED <<mode, connect, open, user, cancel, peer>>
    BY DEF Handle, Taken
  <1>2. Healthy /\ Asked' = Asked
    BY <1>1 DEF Healthy, Asked
  <1>3. /\ mOpenFut # "exception" /\ (mOpenFut = "value" => mOpenCount = 2)
        /\ connect = "waiting" \/ open
        /\ Asked => mOpenFut = "value"
        /\ \A e \in Dir : Drains(First(e), strand[e], Asked)
    BY <1>2 DEF DrainInv
  <1>4. /\ s \in Strands /\ Good(First(d), s) /\ First(d) \in 0..1
        /\ strand \in [Dir -> Strands]
    BY GoodStrand DEF Inv, StrandsGood
  <1>5. z \in Strands /\ z.handlers = Tail(s.handlers) /\ Handles(s, h, z)
    <2>1. /\ z \in Strands /\ z.handlers = Tail(s.handlers) /\ SameData(after, z)
          /\ z.mStatus = after.mStatus /\ z.mQueueEmpty = after.mQueueEmpty
      BY <1>1, <1>4, TakenFields DEF Taken, Strands
    <2> HIDE DEF z
    <2> QED BY <2>1 DEF Handles, SameData
  <1> HIDE DEF z
  <1>6. Drains(First(d), z, Asked)
    BY <1>1, <1>3, <1>4, <1>5, Handled
  <1>7. \A e \in Dir : Drains(First(e)', strand'[e], Asked')
    <2>1. \A e \in Dir : First(e)' = First(e) /\ strand'[e] = IF e = d THEN z ELSE strand[e]
      BY <1>1, <1>4 DEF First
    <2> QED BY <1>2, <1>3, <1>6, <2>1
  <1>8. /\ mOpenFut' # "exception" /\ (mOpenFut' = "value" => mOpenCount' = 2)
        /\ Asked => mOpenFut' = "value"
    <2>1. CASE UNCHANGED <<mOpenCount, mOpenFut>>
      BY <1>3, <2>1
    <2>2. CASE h \in Openers /\ Count
      <3>1. mOpenCount \in 0..1
        BY <1>1, <2>2, OpenersLeft
      <3>2. mOpenFut # "value" /\ ~Asked
        BY <1>3, <3>1
      <3> QED BY <1>3, <2>2, <3>2 DEF Count
    <2> QED BY <2>1, <2>2
  <1> QED BY <1>1, <1>2, <1>3, <1>7, <1>8

(* While nothing disturbs the channel no handler waits that ends operations*)
(* without performing them.                                                *)
LEMMA NoHarm ==
  ASSUME Inv, DrainInv, NEW d \in Dir, NEW h \in Harms, NEW after, Handle(d, h, after)
  PROVE  DrainInv'
  <1>1. Healthy' => Healthy
    BY DEF Handle, Healthy
  <1>2. Posted(strand[d].handlers, h)
    <2>1. strand[d].handlers \in Seq(Handlers)
      BY GoodStrand DEF Strands
    <2> QED BY <2>1, TailHandlers DEF Handle
  <1>3. ~Healthy
    BY <1>2 DEF DrainInv, Drains, Unharmed
  <1> QED BY <1>1, <1>3 DEF DrainInv

LEMMA PerformHandles ==
  ASSUME NEW s \in Strands, s.mSocketAvailable, s.inFlight = Idle,
         NEW y, y = PerformIfAny(s) \/ y = Continue(s)
  PROVE  /\ y.mStatus = s.mStatus
         /\ y.mQueueEmpty => s.mQueueEmpty \/ (s.mStatus = "Stopped" /\ s.mQueue = <<>>)
         /\ s.mQueueEmpty => y.mQueueEmpty
  <1>1. CASE s.mQueue # <<>>
    <2>1. y = [s EXCEPT !.mSocketAvailable = FALSE, !.inFlight = Head(s.mQueue)]
      BY <1>1 DEF PerformIfAny, Continue, asyncPerform
    <2> QED BY <2>1 DEF Strands
  <1>2. CASE s.mQueue = <<>>
    <2>1. \/ y = s
          \/ y = [s EXCEPT !.mQueueEmpty = TRUE, !.replacing = TRUE] /\ s.mStatus = "Stopped"
      BY <1>2 DEF PerformIfAny, Continue
    <2> QED BY <1>2, <2>1 DEF Strands
  <1> QED BY <1>1, <1>2

(* How such a handler uses the socket: only one that has the turn, or finds*)
(* the socket available, changes what the socket has.                      *)
Uses(s, h, z) ==
  /\ h \in Turns \/ s.mSocketAvailable \/
       (z.mSocketAvailable = s.mSocketAvailable /\ z.inFlight = s.inFlight)
  /\ s.inFlight # Idle => z.inFlight = s.inFlight

(* What the other handlers do to their strand.                             *)
Working(d) ==
  \E h \in Handlers \ Harms : \E after \in Strands :
    /\ Handle(d, h, after) /\ after.handlers = strand[d].handlers
    /\ Handles(strand[d], h, after) /\ Uses(strand[d], h, after)
    /\ UNCHANGED <<mOpenCount, mOpenFut>> \/ (h \in Openers /\ Count)

Ending(d) == HandleError(d) \/ HandleCancelOperations(d) \/ HandleCancel(d)

LEMMA StrandWorks ==
  ASSUME Inv, NEW d \in Dir, RunStrand(d), ~ReplacePromise(d), ~Ending(d)
  PROVE  Working(d)
  <1> DEFINE s == strand[d]
  <1>1. s \in Strands /\ Good(First(d), s)
    BY GoodStrand
  <1>2. {"enqueue", "open", "complete", "close", "connectionString", "connectionStringSent"}
          \subseteq Handlers \ Harms
    BY DEF Handlers, Turns, Openers, Harms
  <1>3. CASE HandleEnqueue(d)
    <2> DEFINE starts == s.mSocketAvailable /\ s.mQueue # <<>>
               y == IF starts THEN asyncPerform(s) ELSE s
    <2>1. Handle(d, "enqueue", y) /\ UNCHANGED <<mOpenCount, mOpenFut>>
      BY <1>3 DEF HandleEnqueue
    <2>2. s.mQueue # <<>> => Head(s.mQueue) \in Int
      BY <1>1 DEF Strands
    <2>3. y \in Strands /\ y.handlers = s.handlers /\ Handles(s, "enqueue", y)
      BY <1>1, <2>2 DEF asyncPerform, Handles, Strands
    <2>4. s.mSocketAvailable => s.inFlight = Idle
      BY <1>1 DEF Good, TurnInv
    <2>5. Uses(s, "enqueue", y)
      BY <2>4 DEF Uses
    <2> HIDE DEF y
    <2> QED BY <1>2, <2>1, <2>3, <2>5 DEF Working
  <1>4. CASE HandleOpen(d)
    <2> DEFINE m == [s EXCEPT !.mSocketAvailable = TRUE]  y == PerformIfAny(m)
    <2>1. Handle(d, "open", y) /\ Count
      BY <1>4 DEF HandleOpen
    <2>2. s.inFlight = Idle
      BY <1>1, <2>1, HeadHasTurn DEF Handle, Turns, Openers
    <2>3. /\ m \in Strands /\ m.mSocketAvailable /\ m.inFlight = Idle
          /\ m.handlers = s.handlers /\ SameBut(s, m)
      BY <1>1, <2>2 DEF Strands, SameBut
    <2> HIDE DEF m
    <2>4. y \in Strands /\ y.handlers = s.handlers /\ Handles(s, "open", y)
      BY <2>3, PerformFields, PerformHandles DEF Handles, SameBut
    <2>5. "open" \in Openers /\ Uses(s, "open", y)
      BY <2>2 DEF Openers, Turns, Uses
    <2> HIDE DEF y
    <2> QED BY <1>2, <2>1, <2>4, <2>5 DEF Working
  <1>5. CASE HandleComplete(d)
    <2> DEFINE m == [s EXCEPT !.mSocketAvailable = TRUE, !.mQueue = Tail(@)]
               y == Continue(m)
    <2>1. Handle(d, "complete", y) /\ UNCHANGED <<mOpenCount, mOpenFut>>
      BY <1>5 DEF HandleComplete
    <2>2. s.inFlight = Idle /\ Posted(s.handlers, "complete")
      BY <1>1, <2>1, HeadHasTurn DEF Handle, Turns
    <2>3. s.mQueue \in Seq(Nat) /\ s.mQueue # <<>>
      BY <1>1, <2>2 DEF Good, DueInv, Strands
    <2>4. Tail(s.mQueue) \in Seq(Nat)
      BY <2>3
    <2>5. /\ m \in Strands /\ m.mSocketAvailable /\ m.inFlight = Idle
          /\ m.handlers = s.handlers /\ m.mQueue = Tail(s.mQueue)
          /\ m.result = s.result /\ m.wire = s.wire /\ m.promise = s.promise
          /\ m.mStatus = s.mStatus /\ m.mQueueEmpty = s.mQueueEmpty
      BY <1>1, <2>2, <2>4 DEF Strands
    <2> HIDE DEF m
    <2>6. y \in Strands /\ y.handlers = s.handlers /\ Handles(s, "complete", y)
      BY <2>5, PerformFields, PerformHandles DEF Handles
    <2>7. Uses(s, "complete", y)
      BY <2>2 DEF Uses, Turns
    <2> HIDE DEF y
    <2> QED BY <1>2, <2>1, <2>6, <2>7 DEF Working
  <1>6. CASE HandleClose(d)
    <2> DEFINE y == EmptyIfNoItems([s EXCEPT !.mStatus = "Stopped"])
    <2>1. Handle(d, "close", y) /\ UNCHANGED <<mOpenCount, mOpenFut>>
      BY <1>6 DEF HandleClose, activeRecvSizeError
    <2>2. y \in Strands /\ y.handlers = s.handlers /\ Handles(s, "close", y)
      BY <1>1 DEF EmptyIfNoItems, Strands, Handles
    <2>3. Uses(s, "close", y)
      BY <1>1 DEF EmptyIfNoItems, Strands, Uses
    <2> HIDE DEF y
    <2> QED BY <1>2, <2>1, <2>2, <2>3 DEF Working
  <1>7. CASE d = "Send" /\ HandleConnectionString
    <2> DEFINE y == [s EXCEPT !.inFlight = ConnectionString]
    <2>1. Handle(d, "connectionString", y) /\ Count /\ "connectionString" \in Openers
      BY <1>7 DEF HandleConnectionString, Openers
    <2>2. ConnectionString \in Int
      BY DEF ConnectionString
    <2>3. y \in Strands /\ y.handlers = s.handlers /\ SameBut(s, y)
      BY <1>1, <2>2 DEF Strands, SameBut
    <2> HIDE DEF y
    <2>4. Handles(s, "connectionString", y)
      BY <2>3 DEF Handles, SameBut
    <2>5. s.inFlight = Idle
      BY <1>1, <2>1, HeadHasTurn DEF Handle, Turns, Openers
    <2>6. Uses(s, "connectionString", y)
      BY <2>5 DEF Uses, Turns, Openers
    <2> QED BY <1>2, <2>1, <2>3, <2>4, <2>6 DEF Working
  <1>8. CASE d = "Send" /\ HandleConnectionStringSent
    <2> DEFINE m == [s EXCEPT !.mSocketAvailable = TRUE]  y == Continue(m)
    <2>1. Handle(d, "connectionStringSent", y) /\ UNCHANGED <<mOpenCount, mOpenFut>>
      BY <1>8 DEF HandleConnectionStringSent
    <2>2. s.inFlight = Idle
      BY <1>1, <2>1, HeadHasTurn DEF Handle, Turns
    <2>3. /\ m \in Strands /\ m.mSocketAvailable /\ m.inFlight = Idle
          /\ m.handlers = s.handlers /\ SameBut(s, m)
      BY <1>1, <2>2 DEF Strands, SameBut
    <2> HIDE DEF m
    <2>4. y \in Strands /\ y.handlers = s.handlers /\ Handles(s, "connectionStringSent", y)
      BY <2>3, PerformFields, PerformHandles DEF Handles, SameBut
    <2>5. Uses(s, "connectionStringSent", y)
      BY <2>2 DEF Uses, Turns
    <2> HIDE DEF y
    <2> QED BY <1>2, <2>1, <2>4, <2>5 DEF Working
  <1> QED BY <1>3, <1>4, <1>5, <1>6, <1>7, <1>8 DEF RunStrand, Ending

LEMMA DrainStrand ==
  ASSUME Inv, DrainInv, user.pc # "closed", NEW d \in Dir, RunStrand(d), ~ReplacePromise(d)
  PROVE  DrainInv'
  <1>1. CASE Ending(d)
    BY <1>1, NoHarm DEF Ending, Harms, HandleError, HandleCancelOperations, HandleCancel,
                        CancelQueue
  <1>2. CASE ~Ending(d)
    BY <1>2, StrandWorks, DrainHandle DEF Working
  <1> QED BY <1>1, <1>2

(* Steps that are no handler's.                                            *)
LEMMA DrainOne ==
  ASSUME Inv, DrainInv, user.pc # "closed", user.pc' # "closed", Asked' = Asked,
         NEW d \in Dir, NEW z \in Strands, strand' = [strand EXCEPT ![d] = z],
         UNCHANGED <<mode, connect, open, mOpenCount, mOpenFut, cancel, peer>>,
         Healthy => Drains(First(d), z, Asked)
  PROVE  DrainInv'
  <1> SUFFICES ASSUME Healthy' PROVE DrainInv'
    BY DEF DrainInv
  <1>1. Healthy
    BY DEF Healthy
  <1>2. \A e \in Dir : First(e)' = First(e) /\ strand'[e] = IF e = d THEN z ELSE strand[e]
    BY DEF First, Inv, StrandsGood
  <1>3. \A e \in Dir : Drains(First(e)', strand'[e], Asked')
    BY <1>1, <1>2 DEF DrainInv
  <1> QED BY <1>1, <1>3 DEF DrainInv

LEMMA DrainControl ==
  ASSUME Inv, DrainInv, user.pc # "closed", Healthy' => Healthy, Asked' = Asked,
         UNCHANGED <<mode, strand, mOpenCount, mOpenFut>>,
         connect = "waiting" \/ open => connect' = "waiting" \/ open' \/ user.pc' = "closed",
         user.pc' = "closed" => \A d \in Dir : strand[d].mQueueEmpty
  PROVE  DrainInv'
  <1> SUFFICES ASSUME Healthy' PROVE DrainInv'
    BY DEF DrainInv
  <1>1. \A e \in Dir : First(e)' = First(e)
    BY DEF First
  <1>2. \A e \in Dir : Drains(First(e)', strand'[e], Asked')
    BY <1>1 DEF DrainInv
  <1> QED BY <1>2 DEF DrainInv

LEMMA SameDrains ==
  ASSUME NEW f \in 0..1, NEW s \in Strands, NEW z \in Strands, NEW asked, Good(f, s),
         Drains(f, s, asked),
         z.handlers = s.handlers, z.mStatus = s.mStatus, z.mQueueEmpty = s.mQueueEmpty,
         z.mQueue = s.mQueue \/ ~s.mQueueEmpty, z.result # "error",
         Done(z) = Done(s), z.wire = s.wire \/ Len(z.wire) = Len(s.wire) + 1
  PROVE  Drains(f, z, asked)
  <1>1. PICK n \in Nat : n = Len(s.wire)
    <2>1. s.wire \in Seq(Nat)
      BY DEF Strands
    <2> QED BY <2>1
  <1>2. PICK k \in Nat : k = Done(s)
    BY QueueContents DEF Good
  <1>3. Due(f, s) = f + n /\ Due(f, z) \in {f + n, f + n + 1}
    BY <1>1 DEF Due
  <1>4. k = 0 \/ k < f + n
    BY <1>2, <1>3 DEF Drains, Unharmed
  <1>5. Done(z) = 0 \/ Done(z) < Due(f, z)
    BY <1>2, <1>3, <1>4
  <1> QED BY <1>5 DEF Drains, Unharmed, ClosesOnce

LEMMA PostDrains ==
  ASSUME NEW f, NEW s \in Strands, NEW asked, Drains(f, s, asked), NEW h \in Handlers \ Harms,
         h \in {"close", "enqueue"} => s.mStatus # "Stopped" /\ ~Posted(s.handlers, "close"),
         h = "close" => asked
  PROVE  Drains(f, Post(s, h), asked)
  <1> DEFINE z == Post(s, h)
  <1>1. /\ z.handlers = Append(s.handlers, h) /\ s.handlers \in Seq(Handlers)
        /\ z.mQueue = s.mQueue /\ z.promise = s.promise /\ z.wire = s.wire
        /\ z.result = s.result /\ z.mStatus = s.mStatus /\ z.mQueueEmpty = s.mQueueEmpty
    BY DEF Post, Strands
  <1> HIDE DEF z
  <1>2. /\ \A g : Posted(z.handlers, g) <=> Posted(s.handlers, g) \/ g = h
        /\ CloseLast(z.handlers)
    BY <1>1, AppendHandlers, CloseLastAppend DEF Drains, ClosesOnce
  <1>3. Done(z) = Done(s) /\ Due(f, z) = Due(f, s)
    BY <1>1 DEF Done, Due
  <1>4. Unharmed(f, z)
    BY <1>1, <1>2, <1>3 DEF Drains, Unharmed
  <1>5. ClosesOnce(z, asked)
    BY <1>1, <1>2 DEF Drains, ClosesOnce
  <1> QED BY <1>4, <1>5 DEF Drains, z

LEMMA DrainReplace ==
  ASSUME Inv, DrainInv, user.pc # "closed", NEW d \in Dir, ReplacePromise(d)
  PROVE  DrainInv'
  <1> DEFINE s == strand[d]  z == [s EXCEPT !.replacing = FALSE]
  <1>1. /\ strand' = [strand EXCEPT ![d] = z]
        /\ UNCHANGED <<mode, connect, open, mOpenCount, mOpenFut, user, cancel, peer>>
    BY DEF ReplacePromise, Inv, StrandsGood
  <1>2. Asked' = Asked /\ s \in Strands /\ Good(First(d), s) /\ First(d) \in 0..1
    BY <1>1, GoodStrand DEF Asked
  <1>3. /\ z \in Strands /\ SameData(s, z) /\ z.handlers = s.handlers
        /\ z.mStatus = s.mStatus /\ z.mQueueEmpty = s.mQueueEmpty
    BY <1>2 DEF Strands, SameData
  <1> HIDE DEF z
  <1>4. Healthy => Drains(First(d), z, Asked)
    <2> SUFFICES ASSUME Healthy PROVE Drains(First(d), z, Asked)
      OBVIOUS
    <2>1. Drains(First(d), s, Asked) /\ s.result # "error"
      BY DEF DrainInv, Drains, Unharmed
    <2>2. Done(z) = Done(s)
      BY <1>3 DEF SameData, Done
    <2> QED BY <1>2, <1>3, <2>1, <2>2, SameDrains DEF SameData
  <1> QED BY <1>1, <1>2, <1>3, <1>4, DrainOne

(* The socket, or for it the user with another buffer, gives its answer.   *)
LEMMA DrainAnswer ==
  ASSUME Inv, Inv', DrainInv, user.pc # "closed", NEW d \in Dir, NEW r \in {"ok", "error"},
         NEW w, NEW p, Len(p) = Len(strand[d].promise),
         strand' = [strand EXCEPT ![d] =
                      [strand[d] EXCEPT !.result = r, !.promise = p, !.wire = w]],
         UNCHANGED <<mode, connect, open, mOpenCount, mOpenFut, user, cancel, peer>>,
         Healthy => r = "ok" /\ Len(w) = Len(strand[d].wire) + 1
  PROVE  DrainInv'
  <1> DEFINE s == strand[d]  z == [s EXCEPT !.result = r, !.promise = p, !.wire = w]
  <1>1. Asked' = Asked /\ s \in Strands /\ Good(First(d), s) /\ First(d) \in 0..1
    BY GoodStrand DEF Asked
  <1>2. strand'[d] = z /\ strand' \in [Dir -> Strands]
    BY DEF Inv, StrandsGood
  <1>3. /\ z \in Strands /\ z.handlers = s.handlers /\ z.mStatus = s.mStatus
        /\ z.mQueueEmpty = s.mQueueEmpty /\ z.mQueue = s.mQueue /\ z.result = r
        /\ z.wire = w /\ z.promise = p
    BY <1>1, <1>2 DEF Strands
  <1>4. strand' = [strand EXCEPT ![d] = z]
    OBVIOUS
  <1> HIDE DEF z
  <1>5. Healthy => Drains(First(d), z, Asked)
    <2> SUFFICES ASSUME Healthy PROVE Drains(First(d), z, Asked)
      OBVIOUS
    <2>1. Drains(First(d), s, Asked) /\ z.result # "error"
      BY <1>3 DEF DrainInv
    <2>2. Done(z) = Done(s)
      BY <1>3 DEF Done
    <2> QED BY <1>1, <1>3, <2>1, <2>2, SameDrains
  <1> QED BY <1>1, <1>3, <1>4, <1>5, DrainOne

LEMMA FlightConnected ==
  ASSUME Inv, NEW d \in Dir, strand[d].inFlight # Idle
  PROVE  connect = "done"
  BY DEF Inv, OpenInv, Dormant, Connected

LEMMA DrainIOResult ==
  ASSUME Inv, Inv', DrainInv, user.pc # "closed", NEW d \in Dir, IOResult(d)
  PROVE  DrainInv'
  <1> DEFINE s == strand[d]
             op == s.inFlight
             settled(v) == IF op # ConnectionString /\ s.promise[op] # "none"
                           THEN [s.promise EXCEPT ![op] = v] ELSE s.promise
  <1>1. s \in Strands /\ s.promise \in Seq(Promises) /\ s.wire \in Seq(Nat)
    BY GoodStrand DEF Strands
  <1>2. ASSUME NEW v PROVE Len(settled(v)) = Len(s.promise)
    BY <1>1
  <1>3. op # Idle /\ UNCHANGED <<mode, connect, open, mOpenCount, mOpenFut, user, cancel, peer>>
    BY DEF IOResult
  <1>4. \/ strand' = [strand EXCEPT ![d] = [s EXCEPT
             !.result = "ok", !.wire = Append(@, op), !.promise = settled("value")]]
        \/ /\ ~open \/ peer = "down"
           /\ strand' = [strand EXCEPT ![d] = [s EXCEPT
             !.result = "error",
             !.promise = IF d = "Send" THEN settled("exception") ELSE @]]
    BY DEF IOResult
  <1> HIDE DEF settled
  <1>5. CASE strand' = [strand EXCEPT ![d] = [s EXCEPT
               !.result = "ok", !.wire = Append(@, op), !.promise = settled("value")]]
    <2> DEFINE p == settled("value")  w == Append(s.wire, op)
    <2>1. strand' = [strand EXCEPT ![d] = [s EXCEPT !.result = "ok", !.promise = p, !.wire = w]]
      BY <1>1, <1>5 DEF Strands
    <2>2. Len(w) = Len(s.wire) + 1 /\ Len(p) = Len(s.promise)
      BY <1>1, <1>2
    <2> HIDE DEF p, w
    <2> QED BY <1>3, <2>1, <2>2, DrainAnswer
  <1>6. CASE /\ ~open \/ peer = "down"
             /\ strand' = [strand EXCEPT ![d] = [s EXCEPT
                  !.result = "error",
                  !.promise = IF d = "Send" THEN settled("exception") ELSE @]]
    <2> DEFINE p == IF d = "Send" THEN settled("exception") ELSE s.promise  w == s.wire
    <2>1. strand' = [strand EXCEPT ![d] =
                       [s EXCEPT !.result = "error", !.promise = p, !.wire = w]]
      BY <1>1, <1>6 DEF Strands
    <2>2. Len(p) = Len(s.promise)
      BY <1>2
    <2>3. ~Healthy
      BY <1>3, <1>6, FlightConnected DEF DrainInv, Healthy
    <2> HIDE DEF p
    <2> QED BY <1>3, <2>1, <2>2, <2>3, DrainAnswer
  <1> QED BY <1>4, <1>5, <1>6

LEMMA DrainReschedules ==
  ASSUME Inv, Inv', DrainInv, UserReschedules
  PROVE  DrainInv'
  <1> DEFINE s == strand["Recv"]  op == s.inFlight
  <1>1. /\ "Recv" \in Dir /\ user.pc # "closed"
        /\ UNCHANGED <<mode, connect, open, mOpenCount, mOpenFut, user, cancel, peer>>
        /\ op # Idle
    BY DEF UserReschedules, Dir
  <1>2. s \in Strands /\ s.wire \in Seq(Nat)
    BY <1>1, GoodStrand DEF Strands
  <1> DEFINE p == s.promise
  <1>3. PICK r \in {"ok", "error"}, w \in Seq(Nat) :
          /\ r = "error" => ~open \/ peer = "down"
          /\ w = IF r = "ok" THEN Append(s.wire, op) ELSE s.wire
          /\ strand' = [strand EXCEPT !["Recv"] = [s EXCEPT !.result = r, !.promise = p, !.wire = w]]
    BY RescheduledStrand
  <1>4. r = "ok" => Len(w) = Len(s.wire) + 1
    BY <1>2, <1>3
  <1>5. Healthy => r = "ok"
    BY <1>1, <1>3, FlightConnected DEF DrainInv, Healthy
  <1> QED BY <1>1, <1>3, <1>4, <1>5, DrainAnswer

LEMMA DrainDispatch ==
  ASSUME Inv, DrainInv, user.pc # "closed", NEW d \in Dir, IODispatch(d)
  PROVE  DrainInv'
  <1> DEFINE s == strand[d]
             m == [s EXCEPT !.result = "none", !.inFlight = Idle]
             h == IF s.result = "error" THEN "error"
                  ELSE IF s.inFlight = ConnectionString THEN "connectionStringSent"
                  ELSE "complete"
             z == Post(m, h)
  <1>1. /\ s.result # "none" /\ strand' = [strand EXCEPT ![d] = z]
        /\ UNCHANGED <<mode, connect, open, mOpenCount, mOpenFut, user, cancel, peer>>
    BY DEF IODispatch
  <1>2. Asked' = Asked /\ s \in Strands /\ Good(First(d), s) /\ First(d) \in 0..1
    BY <1>1, GoodStrand DEF Asked
  <1>3. z \in Strands
    BY <1>1, <1>2, Dispatch
  <1>4. Idle \in Int
    BY DEF Idle
  <1>5. /\ m \in Strands /\ m.handlers = s.handlers /\ m.result = "none"
        /\ m.mQueue = s.mQueue /\ m.promise = s.promise /\ m.wire = s.wire
        /\ m.mStatus = s.mStatus /\ m.mQueueEmpty = s.mQueueEmpty
    BY <1>2, <1>4 DEF Strands
  <1>6. Healthy => Drains(First(d), z, Asked)
    <2> SUFFICES ASSUME Healthy PROVE Drains(First(d), z, Asked)
      OBVIOUS
    <2>1. Drains(First(d), s, Asked) /\ s.result # "error"
      BY DEF DrainInv, Drains, Unharmed
    <2>2. h \in Handlers \ Harms /\ h \notin {"close", "enqueue"}
      BY <2>1 DEF Handlers, Turns, Harms
    <2>3. Done(m) = Done(s)
      BY <1>5 DEF Done
    <2> HIDE DEF m, h
    <2>4. Drains(First(d), m, Asked)
      BY <1>2, <1>5, <2>1, <2>3, SameDrains
    <2> QED BY <1>5, <2>2, <2>4, PostDrains
  <1> HIDE DEF z
  <1> QED BY <1>1, <1>2, <1>3, <1>6, DrainOne

LEMMA DrainBadSize ==
  ASSUME Inv, Inv', DrainInv, user.pc # "closed", BadSize
  PROVE  DrainInv'
  <1> DEFINE s == strand["Recv"]
             p == [s.promise EXCEPT ![s.inFlight] = "badSize"]
             z == [s EXCEPT !.promise = p]
  <1>1. /\ "Recv" \in Dir /\ strand \in [Dir -> Strands]
        /\ strand' = [strand EXCEPT !["Recv"] = z]
        /\ UNCHANGED <<mode, connect, open, mOpenCount, mOpenFut, user, cancel, peer>>
    BY DEF BadSize, Dir, Inv, StrandsGood
  <1>2. /\ Asked' = Asked /\ s \in Strands /\ s.promise \in Seq(Promises)
        /\ Good(First("Recv"), s) /\ First("Recv") \in 0..1
    BY <1>1, GoodStrand DEF Asked, Strands
  <1>3. Len(p) = Len(s.promise)
    BY <1>2
  <1> HIDE DEF p
  <1>4. z \in Strands
    BY <1>1 DEF Inv, StrandsGood
  <1>5. /\ z.handlers = s.handlers /\ z.mStatus = s.mStatus /\ z.result = s.result
        /\ z.mQueueEmpty = s.mQueueEmpty /\ z.mQueue = s.mQueue /\ z.wire = s.wire
        /\ z.promise = p
    BY <1>2 DEF Strands
  <1> HIDE DEF z
  <1>6. Healthy => Drains(First("Recv"), z, Asked)
    <2> SUFFICES ASSUME Healthy PROVE Drains(First("Recv"), z, Asked)
      OBVIOUS
    <2>1. Drains(First("Recv"), s, Asked) /\ s.result # "error"
      BY <1>1 DEF DrainInv, Drains, Unharmed
    <2>2. Done(z) = Done(s)
      BY <1>3, <1>5 DEF Done
    <2> QED BY <1>2, <1>4, <1>5, <2>1, <2>2, SameDrains
  <1> QED BY <1>1, <1>2, <1>4, <1>6, DrainOne

(* The user's thread queues an operation: close() was not called yet.      *)
LEMMA DrainPush ==
  ASSUME Inv, DrainInv, UserPush
  PROVE  DrainInv'
  <1> DEFINE d == user.dir
             s == strand[d]
             v == IF d = "Send" /\ ~user.blocks THEN "none" ELSE "unset"
             z == [s EXCEPT !.promise = Append(@, v),
                            !.mQueue = Append(@, Len(s.promise) + 1)]
  <1>1. /\ d \in Dir /\ strand \in [Dir -> Strands] /\ v \in {"none", "unset"}
        /\ user.pc = "push" /\ user' = [user EXCEPT !.pc = "post"]
        /\ strand' = [strand EXCEPT ![d].promise = Append(@, v),
                                    ![d].mQueue = Append(@, Len(s.promise) + 1)]
        /\ UNCHANGED <<mode, connect, open, mOpenCount, mOpenFut, cancel, peer>>
    BY DEF UserPush, Inv, ControlType, StrandsGood
  <1>2. user.pc' = "post" /\ Asked' = Asked /\ ~Asked
    BY <1>1 DEF Asked, Inv, ControlType
  <1>3. s \in Strands /\ Good(First(d), s) /\ First(d) \in 0..1
    BY <1>1, GoodStrand
  <1>4. z \in Strands /\ Done(z) = Done(s)
    BY <1>1, <1>3, Push
  <1>5. strand' = [strand EXCEPT ![d] = z]
    BY <1>1, <1>3 DEF Strands
  <1>6. /\ z.handlers = s.handlers /\ z.mStatus = s.mStatus /\ z.result = s.result
        /\ z.mQueueEmpty = s.mQueueEmpty /\ z.wire = s.wire
    BY <1>3 DEF Strands
  <1> HIDE DEF z
  <1>7. Healthy => Drains(First(d), z, Asked)
    <2> SUFFICES ASSUME Healthy PROVE Drains(First(d), z, Asked)
      OBVIOUS
    <2>1. Drains(First(d), s, Asked) /\ s.result # "error"
      BY <1>1 DEF DrainInv, Drains, Unharmed
    <2>2. ~s.mQueueEmpty
      BY <1>2, <2>1 DEF Drains, ClosesOnce
    <2> QED BY <1>3, <1>4, <1>6, <2>1, <2>2, SameDrains
  <1> HIDE DEF d
  <1> QED BY <1>1, <1>2, <1>4, <1>5, <1>7, DrainOne

LEMMA DrainPost ==
  ASSUME Inv, DrainInv, UserPost
  PROVE  DrainInv'
  <1> DEFINE d == user.dir  s == strand[d]  z == Post(s, "enqueue")
  <1>1. /\ d \in Dir /\ user.pc = "post"
        /\ user' = [user EXCEPT !.pc = IF user.blocks THEN "wait" ELSE "ready"]
        /\ strand' = [strand EXCEPT ![d] = z]
        /\ UNCHANGED <<mode, connect, open, mOpenCount, mOpenFut, cancel, peer>>
    BY DEF UserPost, Inv, ControlType
  <1>2. user.pc' \in {"wait", "ready"} /\ Asked' = Asked /\ ~Asked
    BY <1>1 DEF Asked, Inv, ControlType
  <1>3. s \in Strands /\ Good(First(d), s) /\ First(d) \in 0..1
    BY <1>1, GoodStrand
  <1>4. "enqueue" \in Handlers \ Turns /\ "enqueue" \in Handlers \ Harms
    BY DEF Handlers, Turns, Openers, Harms
  <1>5. z \in Strands
    BY <1>3, <1>4, PostQuiet
  <1>6. Healthy => Drains(First(d), z, Asked)
    <2> SUFFICES ASSUME Healthy PROVE Drains(First(d), z, Asked)
      OBVIOUS
    <2>1. Drains(First(d), s, Asked)
      BY <1>1 DEF DrainInv
    <2>2. s.mStatus # "Stopped" /\ ~Posted(s.handlers, "close")
      BY <1>2, <2>1 DEF Drains, ClosesOnce
    <2> HIDE DEF s
    <2> QED BY <1>3, <1>4, <2>1, <2>2, PostDrains
  <1> HIDE DEF z, d
  <1> QED BY <1>1, <1>2, <1>5, <1>6, DrainOne

(* close() tells both strands.                                             *)
LEMMA DrainClosePost ==
  ASSUME Inv, DrainInv, ClosePost
  PROVE  DrainInv'
  <1> SUFFICES ASSUME Healthy' PROVE DrainInv'
    BY DEF DrainInv
  <1>1. /\ user.pc = "closing" /\ mOpenFut = "value"
        /\ strand' = [d \in Dir |-> Post(strand[d], "close")]
        /\ user' = [user EXCEPT !.pc = "draining"]
        /\ UNCHANGED <<mode, connect, open, mOpenCount, mOpenFut, cancel, peer>>
    BY DEF ClosePost
  <1>2. Healthy /\ user.pc' = "draining" /\ Asked' = TRUE /\ ~Asked
    BY <1>1 DEF Healthy, Asked, Inv, ControlType
  <1>3. ASSUME NEW d \in Dir
        PROVE  Drains(First(d)', strand'[d], Asked')
    <2> DEFINE s == strand[d]
    <2>1. s \in Strands /\ Drains(First(d), s, Asked)
      BY <1>2, GoodStrand DEF DrainInv
    <2>2. s.mStatus # "Stopped" /\ ~Posted(s.handlers, "close")
      BY <1>2, <2>1 DEF Drains, ClosesOnce
    <2>3. Drains(First(d), s, TRUE)
      BY <2>1 DEF Drains, ClosesOnce
    <2>4. "close" \in Handlers \ Harms
      BY DEF Handlers, Harms
    <2> HIDE DEF s
    <2>5. Drains(First(d), Post(s, "close"), TRUE)
      BY <2>1, <2>2, <2>3, <2>4, PostDrains
    <2>6. First(d)' = First(d) /\ strand'[d] = Post(s, "close")
      BY <1>1 DEF First, s
    <2> QED BY <1>2, <2>5, <2>6
  <1> QED BY <1>1, <1>2, <1>3 DEF DrainInv

(* The connection is made.                                                 *)
LEMMA DrainConnect ==
  ASSUME Inv, DrainInv, user.pc # "closed", open',
         strand' = [d \in Dir |->
           Post(strand[d], IF First(d) = 0 THEN "connectionString" ELSE "open")],
         UNCHANGED <<mode, mOpenCount, mOpenFut, user, cancel, peer>>
  PROVE  DrainInv'
  <1> SUFFICES ASSUME Healthy' PROVE DrainInv'
    BY DEF DrainInv
  <1>1. Healthy /\ Asked' = Asked
    BY DEF Healthy, Asked
  <1>2. ASSUME NEW d \in Dir
        PROVE  Drains(First(d)', strand'[d], Asked')
    <2> DEFINE s == strand[d]
               h == IF First(d) = 0 THEN "connectionString" ELSE "open"
    <2>1. s \in Strands /\ Drains(First(d), s, Asked)
      BY <1>1, GoodStrand DEF DrainInv
    <2>2. h \in Handlers \ Harms /\ h \notin {"close", "enqueue"}
      BY DEF Handlers, Turns, Openers, Harms
    <2>3. First(d)' = First(d) /\ strand'[d] = Post(s, h)
      BY DEF First
    <2> HIDE DEF s, h
    <2> QED BY <1>1, <2>1, <2>2, <2>3, PostDrains
  <1> QED BY <1>1, <1>2 DEF DrainInv

LEMMA ConnectedCallback ==
  ASSUME Inv, ConnectCallback, connect = "succeeded", open
  PROVE  /\ strand' = [d \in Dir |->
              Post(strand[d], IF First(d) = 0 THEN "connectionString" ELSE "open")]
         /\ UNCHANGED <<mode, open, mOpenCount, mOpenFut, user, cancel, peer>>
  <1>1. /\ strand' = [strand EXCEPT !["Send"] = Post(@, "connectionString"),
                                    !["Recv"] = Post(@, "open")]
        /\ UNCHANGED <<mode, open, mOpenCount, mOpenFut, user, cancel, peer>>
    BY DEF ConnectCallback
  <1>2. mode = "Client" /\ strand \in [Dir -> Strands]
    BY DEF Inv, OpenInv, StrandsGood
  <1>3. First("Send") = 0 /\ First("Recv") = 1
    BY <1>2 DEF First, ConnectionString
  <1>4. \A d \in Dir : d = "Send" \/ d = "Recv"
    BY DEF Dir
  <1>5. /\ strand'["Send"] = Post(strand["Send"], "connectionString")
        /\ strand'["Recv"] = Post(strand["Recv"], "open")
        /\ strand' = [d \in Dir |-> strand'[d]]
    BY <1>1, <1>2 DEF Dir
  <1>6. \A d \in Dir : strand'[d] =
          Post(strand[d], IF First(d) = 0 THEN "connectionString" ELSE "open")
    BY <1>3, <1>4, <1>5
  <1> QED BY <1>1, <1>5, <1>6

(* As long as nothing disturbs the channel, it is stopped by close() only. *)
LEMMA StoppedAsked ==
  ASSUME Inv, DrainInv, Healthy, stopped
  PROVE  Asked /\ connect = "done"
  <1>1. Asked
    BY DEF DrainInv, Drains, ClosesOnce, stopped, Dir
  <1>2. mOpenFut = "value" /\ mOpenCount = 2
    BY <1>1 DEF DrainInv
  <1> QED BY <1>1, <1>2 DEF Inv, OpenInv, Connected

LEMMA DrainConnecting ==
  ASSUME Inv, DrainInv, user.pc # "closed",
         ConnectOutcome \/ ConnectCallback \/ RetryTimer \/ startSocket
  PROVE  DrainInv'
  <1>1. CASE ConnectOutcome \/ RetryTimer
    <2>1. /\ UNCHANGED <<mode, strand, mOpenCount, mOpenFut, user, cancel, peer>>
          /\ connect # "waiting" /\ (open => open')
      BY <1>1 DEF ConnectOutcome, RetryTimer
    <2>2. (Healthy' => Healthy) /\ Asked' = Asked
      BY <2>1 DEF Healthy, Asked
    <2> QED BY <2>1, <2>2, DrainControl
  <1>2. CASE startSocket
    <2>1. mode = "Server" /\ connect = "waiting"
      BY <1>2 DEF startSocket, Inv, OpenInv
    <2>2. \A d \in Dir : (IF First(d) = 0 THEN "connectionString" ELSE "open") = "open"
      BY <2>1 DEF First
    <2>3. /\ strand' = [d \in Dir |->
               Post(strand[d], IF First(d) = 0 THEN "connectionString" ELSE "open")]
          /\ open' /\ UNCHANGED <<mode, mOpenCount, mOpenFut, user, cancel, peer>>
      BY <1>2, <2>2 DEF startSocket
    <2> QED BY <2>3, DrainConnect
  <1>3. CASE ConnectCallback /\ connect = "succeeded" /\ open
    BY <1>3, ConnectedCallback, DrainConnect
  <1>4. CASE ConnectCallback /\ ~(connect = "succeeded" /\ open)
    <2>1. /\ UNCHANGED <<mode, open, strand, mOpenCount, user, cancel, peer>>
          /\ connect # "waiting" /\ connect # "done"
          /\ mOpenFut' # mOpenFut => stopped
      BY <1>4 DEF ConnectCallback
    <2>2. Healthy' => Healthy /\ ~stopped
      BY <2>1, StoppedAsked DEF Healthy
    <2>3. CASE stopped
      BY <2>2, <2>3 DEF DrainInv
    <2>4. CASE ~stopped
      <3>1. mOpenFut' = mOpenFut /\ Asked' = Asked
        BY <2>1, <2>4 DEF Asked
      <3> QED BY <2>1, <2>2, <3>1, DrainControl
    <2> QED BY <2>3, <2>4
  <1> QED BY <1>1, <1>2, <1>3, <1>4

LEMMA DrainUser ==
  ASSUME Inv, DrainInv, user.pc # "closed",
         (\E d \in Dir : UserCalls(d)) \/ UserReturns \/ CloseStart \/ CloseReturn
  PROVE  DrainInv'
  <1>1. /\ UNCHANGED <<mode, connect, mOpenCount, mOpenFut, strand, cancel, peer>>
        /\ Healthy' = Healthy
    BY DEF UserCalls, UserReturns, CloseStart, CloseReturn, Healthy
  <1>2. CASE (\E d \in Dir : UserCalls(d)) \/ UserReturns
    <2>1. /\ user.pc \notin {"draining", "closed"}
          /\ user'.pc \notin {"draining", "closed"} /\ UNCHANGED open
      BY <1>2 DEF UserCalls, UserReturns, Inv, ControlType
    <2> QED BY <1>1, <2>1, DrainControl DEF Asked
  <1>3. CASE CloseStart
    <2>1. /\ user.pc = "ready" /\ UNCHANGED open
          /\ user' = [user EXCEPT !.pc = IF stopped THEN "closed" ELSE "closing"]
      BY <1>3 DEF CloseStart
    <2>2. CASE stopped
      <3>1. ~Healthy
        BY <2>1, <2>2, StoppedAsked DEF Asked
      <3> QED BY <1>1, <3>1 DEF DrainInv
    <2>3. CASE ~stopped
      <3>1. user.pc' = "closing"
        BY <2>1, <2>3 DEF Inv, ControlType
      <3> QED BY <1>1, <2>1, <3>1, DrainControl DEF Asked
    <2> QED BY <2>2, <2>3
  <1>4. CASE CloseReturn
    <2>1. user.pc = "draining" /\ user.pc' = "closed" /\ \A d \in Dir : strand[d].mQueueEmpty
      BY <1>4 DEF CloseReturn, Inv, ControlType
    <2> QED BY <1>1, <2>1, DrainControl DEF Asked
  <1> QED BY <1>2, <1>3, <1>4

LEMMA DrainNext == Inv /\ DrainInv /\ [Next]_vars => DrainInv'
  <1> SUFFICES ASSUME Inv, DrainInv, [Next]_vars PROVE DrainInv'
    OBVIOUS
  <1> USE NextInv
  <1>1. CASE UNCHANGED vars
    <2>1. /\ UNCHANGED <<mode, connect, open, mOpenCount, mOpenFut, strand, user, cancel, peer>>
          /\ Healthy' = Healthy /\ Asked' = Asked
      BY <1>1 DEF vars, Healthy, Asked
    <2>2. \A d \in Dir : First(d)' = First(d)
      BY <2>1 DEF First
    <2> QED BY <2>1, <2>2 DEF DrainInv
  <1>2. CASE Running /\ IO
    <2>1. user.pc # "closed"
      BY <1>2 DEF Running
    <2>2. CASE ConnectOutcome \/ ConnectCallback \/ RetryTimer \/ startSocket
      BY <2>1, <2>2, DrainConnecting
    <2>3. CASE \E d \in Dir : RunStrand(d) \/ IOResult(d) \/ IODispatch(d)
      BY <2>1, <2>3, DrainReplace, DrainStrand, DrainIOResult, DrainDispatch
    <2> QED BY <1>2, <2>2, <2>3 DEF IO
  <1>3. CASE Running /\ BadSize
    BY <1>3, DrainBadSize DEF Running
  <1>4. CASE Running /\ Users
    BY <1>4, DrainUser, DrainPush, DrainPost, DrainReschedules, DrainClosePost
       DEF Running, Users
  <1>5. CASE Running /\ (Cancels \/ PeerGoes)
    <2>1. ~Healthy'
      BY <1>5 DEF Cancels, CancelStart, cancelPendingChannel, CancelPost, CancelReturn,
                  PeerGoes, Healthy
    <2> QED BY <2>1 DEF DrainInv
  <1>6. CASE Running /\ PeerStarts
    <2>1. /\ UNCHANGED <<mode, connect, open, mOpenCount, mOpenFut, strand, user, cancel>>
          /\ user.pc # "closed" /\ peer = "absent"
      BY <1>6 DEF PeerStarts, Running
    <2> QED BY <2>1, DrainControl DEF Healthy, Asked
  <1> QED BY <1>1, <1>2, <1>3, <1>4, <1>5, <1>6 DEF Next, Over

LEMMA InitDrain == Init => DrainInv
  <1> SUFFICES ASSUME Init PROVE DrainInv
    OBVIOUS
  <1>1. \A d \in Dir : strand[d] = NewStrand
    BY DEF Init
  <1>2. /\ NewStrand.handlers = <<>> /\ NewStrand.mQueue = <<>> /\ NewStrand.promise = <<>>
        /\ NewStrand.result = "none" /\ NewStrand.mStatus = "Normal" /\ ~NewStrand.mQueueEmpty
    BY DEF NewStrand
  <1>3. \A f, asked : Drains(f, NewStrand, asked)
    BY <1>2 DEF Drains, Unharmed, ClosesOnce, CloseLast, Posted, Done
  <1>4. connect = "waiting" \/ open
    BY ModesAssumption DEF Init
  <1> QED BY <1>1, <1>3, <1>4 DEF DrainInv, Init, Asked

(* The invariant of close() holds of every channel.                        *)
THEOREM DrainInvariance == Spec => []DrainInv
  BY Invariance, InitDrain, DrainNext, PTL DEF Spec

(* close() returns when every operation that was called went over the wire,*)
(* and no handler that could touch the channel is left, as long as the     *)
(* connection holds and nobody cancels: the string of a client is sent     *)
(* after the operations were counted, so its handler may be the last.      *)
THEOREM CloseHasDrained == Spec => []CloseDrains
  <1>1. Inv /\ DrainInv => CloseDrains
    <2> SUFFICES ASSUME Inv, DrainInv, user.pc = "closed", cancel = "no", peer # "down",
                        NEW d \in Dir
                 PROVE  /\ \A i \in Ops(d) : \E j \in DOMAIN strand[d].wire : strand[d].wire[j] = i
                        /\ \A i \in DOMAIN strand[d].handlers :
                             strand[d].handlers[i] = "connectionStringSent"
      BY DEF CloseDrains
    <2> DEFINE s == strand[d]  f == First(d)
    <2>1. /\ Unharmed(f, s) /\ ClosesOnce(s, Asked) /\ s.mQueueEmpty
          /\ mOpenFut = "value" /\ mOpenCount = 2
      BY DEF DrainInv, Healthy, Drains, Asked
    <2>2. s \in Strands /\ Good(f, s) /\ f \in 0..1
      BY GoodStrand
    <2>3. s.mQueue = <<>> /\ ~Posted(s.handlers, "close") /\ ~Posted(s.handlers, "enqueue")
      BY <2>1 DEF ClosesOnce
    <2>4. \A h \in Openers : ~Posted(s.handlers, h)
      <3>1. mOpenCount = Started(strand["Send"]) + Started(strand["Recv"])
        BY <2>1 DEF Inv, OpenInv
      <3>2. /\ Started(strand["Send"]) \in 0..1 /\ Started(strand["Recv"]) \in 0..1
            /\ d = "Send" \/ d = "Recv"
        BY DEF Started, Dir
      <3>3. Started(s) = 1
        BY <2>1, <3>1, <3>2
      <3> QED BY <3>3 DEF Started
    <2>5. ~Posted(s.handlers, "complete")
      BY <2>2, <2>3 DEF Good, DueInv
    <2>6. ASSUME NEW i \in DOMAIN s.handlers
          PROVE  s.handlers[i] = "connectionStringSent"
      <3>1. s.handlers[i] \in Handlers /\ Posted(s.handlers, s.handlers[i])
        BY <2>2 DEF Strands, Posted
      <3> QED BY <2>1, <2>3, <2>4, <2>5, <3>1
              DEF Handlers, Turns, Openers, Unharmed, Harms
    <2>7. ASSUME NEW i \in Ops(d)
          PROVE  \E j \in DOMAIN s.wire : s.wire[j] = i
      <3>1. s.promise \in Seq(Promises) /\ s.wire \in Seq(Nat)
        BY <2>2 DEF Strands
      <3>2. PICK n \in Nat, k \in Nat : n = Len(s.promise) /\ k = Len(s.wire)
        BY <3>1
      <3>3. Done(s) = n
        BY <2>3, <3>2 DEF Done
      <3>4. n = 0 \/ n < f + k
        BY <2>1, <3>2, <3>3 DEF Unharmed, Due
      <3>5. i \in 1..n
        BY <3>2 DEF Ops
      <3>6. i - f + 1 \in 1..k /\ f + (i - f + 1) - 1 = i
        BY <2>2, <3>4, <3>5
      <3>7. s.wire[i - f + 1] = i
        BY <2>2, <3>2, <3>6 DEF Good, WireInv
      <3>8. i - f + 1 \in DOMAIN s.wire
        BY <3>1, <3>2, <3>6
      <3> QED BY <3>7, <3>8
    <2> QED BY <2>6, <2>7
  <1> QED BY <1>1, Invariance, DrainInvariance, PTL

-----------------------------------------------------------------------------
(* A channel that only the thread of its user cancels.                     *)

SettleInv ==
  /\ peer # "down"
  /\ \A d \in Dir : strand[d].mQueueEmpty => strand[d].mQueue = <<>>
  /\ cancel # "no" => user.pc \notin {"push", "post", "wait"} /\ stopped
  /\ cancel = "done" => \A d \in Dir : strand[d].mQueueEmpty

(* What every step but those of the user does to a strand.                 *)
Ends(s, z) ==
  /\ s.mStatus = "Stopped" => z.mStatus = "Stopped"
  /\ s.mQueueEmpty => z.mQueueEmpty
  /\ (s.mQueueEmpty => s.mQueue = <<>>) => (z.mQueueEmpty => z.mQueue = <<>>)

LEMMA SettleStep ==
  ASSUME SettleInv, \A d \in Dir : Ends(strand[d], strand'[d]), UNCHANGED cancel,
         peer' # "down", user.pc' \in {"push", "post", "wait"} => cancel = "no"
  PROVE  SettleInv'
  BY DEF SettleInv, Ends, stopped

SameQueues ==
  \A d \in Dir : /\ strand'[d].mStatus = strand[d].mStatus
                 /\ strand'[d].mQueue = strand[d].mQueue
                 /\ strand'[d].mQueueEmpty = strand[d].mQueueEmpty

LEMMA SettleSame ==
  ASSUME SettleInv, SameQueues, UNCHANGED cancel, peer' # "down",
         user.pc' \in {"push", "post", "wait"} => user.pc \in {"push", "post", "wait"}
  PROVE  SettleInv'
  <1>1. \A d \in Dir : Ends(strand[d], strand'[d])
    BY DEF Ends, SameQueues
  <1> QED BY <1>1, SettleStep DEF SettleInv

LEMMA OneChanged ==
  ASSUME Inv, NEW d \in Dir, NEW z, strand' = [strand EXCEPT ![d] = z]
  PROVE  \A e \in Dir : strand'[e] = IF e = d THEN z ELSE strand[e]
  BY DEF Inv, StrandsGood

(* A handler that ends what is queued.                                     *)
LEMMA EndingEnds ==
  ASSUME Inv, NEW d \in Dir, Ending(d)
  PROVE  /\ \A e \in Dir : Ends(strand[e], strand'[e])
         /\ UNCHANGED <<user, cancel, peer>>
  <1> DEFINE s == strand[d]
  <1>1. s \in Strands
    BY GoodStrand
  <1>2. \A e \in Dir : Ends(strand[e], strand[e])
    BY DEF Ends
  <1>3. CASE HandleCancel(d)
    <2> DEFINE after == EmptyIfNoItems(s)  z == [after EXCEPT !.handlers = Tail(@)]
    <2>1. strand' = [strand EXCEPT ![d] = z] /\ UNCHANGED <<user, cancel, peer>>
      BY <1>3 DEF HandleCancel, activeRecvSizeError, Handle
    <2>2. /\ z.mStatus = s.mStatus /\ z.mQueue = s.mQueue
          /\ z.mQueueEmpty = (s.mQueueEmpty \/ s.mQueue = <<>>)
      BY <1>1 DEF EmptyIfNoItems, Strands
    <2> HIDE DEF z
    <2>3. Ends(s, z)
      BY <2>2 DEF Ends
    <2> QED BY <1>2, <2>1, <2>3, OneChanged
  <1>4. ASSUME NEW h, NEW status \in {"Stopped", s.mStatus}, CancelQueue(d, h, status)
        PROVE  /\ \A e \in Dir : Ends(strand[e], strand'[e])
               /\ UNCHANGED <<user, cancel, peer>>
    <2> DEFINE m == [s EXCEPT !.mStatus = status]
               after == cancelQueuedOperations(m)
               z == [after EXCEPT !.handlers = Tail(@)]
    <2>1. strand' = [strand EXCEPT ![d] = z] /\ UNCHANGED <<user, cancel, peer>>
      BY <1>4 DEF CancelQueue, Handle
    <2>2. /\ z.mStatus = status
          /\ IF s.mQueueEmpty THEN z.mQueue = s.mQueue ELSE z.mQueue = <<>>
          /\ z.mQueueEmpty
      BY <1>1 DEF cancelQueuedOperations, Strands
    <2> HIDE DEF z
    <2>3. Ends(s, z)
      BY <2>2 DEF Ends
    <2> QED BY <1>2, <2>1, <2>3, OneChanged
  <1> QED BY <1>3, <1>4 DEF Ending, HandleError, HandleCancelOperations

LEMMA WorkingEnds ==
  ASSUME Inv, NEW d \in Dir, Working(d)
  PROVE  /\ \A e \in Dir : Ends(strand[e], strand'[e])
         /\ UNCHANGED <<user, cancel, peer>>
  <1> DEFINE s == strand[d]
  <1>1. PICK h \in Handlers, after \in Strands :
          /\ Handle(d, h, after) /\ after.handlers = s.handlers /\ Handles(s, h, after)
    BY DEF Working
  <1> DEFINE z == Taken(after)
  <1>2. s \in Strands /\ Good(First(d), s)
    BY GoodStrand
  <1>3. /\ strand' = [strand EXCEPT ![d] = z] /\ UNCHANGED <<user, cancel, peer>>
        /\ s.handlers # <<>> /\ h = Head(s.handlers)
    BY <1>1 DEF Handle, Taken
  <1>4. /\ z.mStatus = after.mStatus /\ z.mQueue = after.mQueue
        /\ z.mQueueEmpty = after.mQueueEmpty
    BY DEF Taken, Strands
  <1>5. h = "complete" => s.mQueue # <<>>
    <2>1. h = "complete" => Posted(s.handlers, "complete")
      BY <1>2, <1>3, TailHandlers DEF Strands
    <2> QED BY <1>2, <2>1 DEF Good, DueInv
  <1> HIDE DEF z
  <1>6. Ends(s, z)
    BY <1>1, <1>4, <1>5 DEF Ends, Handles
  <1>7. \A e \in Dir : Ends(strand[e], strand[e])
    BY DEF Ends
  <1> QED BY <1>3, <1>6, <1>7, OneChanged

LEMMA ReplaceQueues ==
  ASSUME Inv, NEW d \in Dir, ReplacePromise(d)
  PROVE  SameQueues /\ UNCHANGED <<user, cancel, peer>>
  <1> DEFINE s == strand[d]  z == [s EXCEPT !.replacing = FALSE]
  <1>1. strand' = [strand EXCEPT ![d] = z] /\ UNCHANGED <<user, cancel, peer>>
    BY DEF ReplacePromise, Inv, StrandsGood
  <1>2. z.mStatus = s.mStatus /\ z.mQueue = s.mQueue /\ z.mQueueEmpty = s.mQueueEmpty
    BY GoodStrand DEF Strands
  <1> HIDE DEF z
  <1> QED BY <1>1, <1>2, OneChanged DEF SameQueues

LEMMA OneQueue ==
  ASSUME Inv, NEW d \in Dir, NEW z, strand' = [strand EXCEPT ![d] = z],
         z.mStatus = strand[d].mStatus, z.mQueue = strand[d].mQueue,
         z.mQueueEmpty = strand[d].mQueueEmpty
  PROVE  SameQueues
  BY OneChanged DEF SameQueues

LEMMA PostQueues ==
  ASSUME NEW s \in Strands, NEW h
  PROVE  LET z == Post(s, h) IN
         z.mStatus = s.mStatus /\ z.mQueue = s.mQueue /\ z.mQueueEmpty = s.mQueueEmpty
  BY DEF Post, Strands

LEMMA IOQueues ==
  ASSUME Inv, NEW d \in Dir, IOResult(d) \/ IODispatch(d)
  PROVE  SameQueues /\ UNCHANGED <<user, cancel, peer>>
  <1> DEFINE s == strand[d]
  <1>1. s \in Strands
    BY GoodStrand
  <1>2. Idle \in Int
    BY DEF Idle
  <1>3. CASE IOResult(d)
    <2>1. /\ UNCHANGED <<user, cancel, peer>>
          /\ \/ \E w, p : strand' = [strand EXCEPT ![d] = [s EXCEPT
                             !.result = "ok", !.wire = w, !.promise = p]]
             \/ \E p : strand' = [strand EXCEPT ![d] = [s EXCEPT
                             !.result = "error", !.promise = p]]
      BY <1>3 DEF IOResult
    <2>2. CASE \E w, p : strand' = [strand EXCEPT ![d] = [s EXCEPT
                             !.result = "ok", !.wire = w, !.promise = p]]
      <3>1. PICK w, p : strand' = [strand EXCEPT ![d] = [s EXCEPT
                             !.result = "ok", !.wire = w, !.promise = p]]
        BY <2>2
      <3> DEFINE z == [s EXCEPT !.result = "ok", !.wire = w, !.promise = p]
      <3>2. z.mStatus = s.mStatus /\ z.mQueue = s.mQueue /\ z.mQueueEmpty = s.mQueueEmpty
        BY <1>1 DEF Strands
      <3>3. strand' = [strand EXCEPT ![d] = z]
        BY <3>1
      <3> HIDE DEF z
      <3> QED BY <2>1, <3>2, <3>3, OneQueue
    <2>3. CASE \E p : strand' = [strand EXCEPT ![d] = [s EXCEPT
                             !.result = "error", !.promise = p]]
      <3>1. PICK p : strand' = [strand EXCEPT ![d] = [s EXCEPT
                             !.result = "error", !.promise = p]]
        BY <2>3
      <3> DEFINE z == [s EXCEPT !.result = "error", !.promise = p]
      <3>2. z.mStatus = s.mStatus /\ z.mQueue = s.mQueue /\ z.mQueueEmpty = s.mQueueEmpty
        BY <1>1 DEF Strands
      <3>3. strand' = [strand EXCEPT ![d] = z]
        BY <3>1
      <3> HIDE DEF z
      <3> QED BY <2>1, <3>2, <3>3, OneQueue
    <2> QED BY <2>1, <2>2, <2>3
  <1>4. CASE IODispatch(d)
    <2> DEFINE m == [s EXCEPT !.result = "none", !.inFlight = Idle]
    <2>1. /\ UNCHANGED <<user, cancel, peer>>
          /\ \E h : strand' = [strand EXCEPT ![d] = Post(m, h)]
      BY <1>4 DEF IODispatch
    <2>2. /\ m \in Strands /\ m.mStatus = s.mStatus /\ m.mQueue = s.mQueue
          /\ m.mQueueEmpty = s.mQueueEmpty
      BY <1>1, <1>2 DEF Strands
    <2> HIDE DEF m
    <2>3. PICK h : strand' = [strand EXCEPT ![d] = Post(m, h)]
      BY <2>1
    <2> QED BY <2>1, <2>2, <2>3, PostQueues, OneChanged DEF SameQueues
  <1> QED BY <1>3, <1>4

LEMMA BufferQueues ==
  ASSUME Inv, BadSize \/ UserReschedules
  PROVE  SameQueues /\ UNCHANGED <<cancel, peer>> /\ user' = user
  <1> DEFINE s == strand["Recv"]
  <1>1. s \in Strands /\ "Recv" \in Dir
    BY GoodStrand DEF Dir
  <1>2. CASE UserReschedules
    <2>0. PICK r \in {"ok", "error"}, w \in Seq(Nat) : strand' = [strand EXCEPT !["Recv"] =
                   [s EXCEPT !.result = r, !.promise = s.promise, !.wire = w]]
      BY <1>2, RescheduledStrand
    <2> DEFINE z == [s EXCEPT !.result = r, !.promise = s.promise, !.wire = w]
    <2>1. UNCHANGED <<user, cancel, peer>> /\ strand' = [strand EXCEPT !["Recv"] = z]
      BY <1>2, <2>0 DEF UserReschedules
    <2>2. z.mStatus = s.mStatus /\ z.mQueue = s.mQueue /\ z.mQueueEmpty = s.mQueueEmpty
      BY <1>1 DEF Strands
    <2> HIDE DEF z
    <2> QED BY <1>1, <2>1, <2>2, OneQueue
  <1>3. CASE BadSize
    <2> DEFINE p == [s.promise EXCEPT ![s.inFlight] = "badSize"]
               z == [s EXCEPT !.promise = p]
    <2>1. UNCHANGED <<user, cancel, peer>> /\ strand' = [strand EXCEPT !["Recv"] = z]
      BY <1>3 DEF BadSize
    <2>2. z.mStatus = s.mStatus /\ z.mQueue = s.mQueue /\ z.mQueueEmpty = s.mQueueEmpty
      BY <1>1 DEF Strands
    <2> HIDE DEF z
    <2> QED BY <1>1, <2>1, <2>2, OneQueue
  <1> QED BY <1>2, <1>3

LEMMA ConnectingQueues ==
  ASSUME Inv, ConnectOutcome \/ ConnectCallback \/ RetryTimer \/ startSocket
  PROVE  SameQueues /\ UNCHANGED <<user, cancel, peer>>
  <1>1. \A d \in Dir : strand[d] \in Strands
    BY GoodStrand
  <1>2. CASE startSocket
    <2>1. /\ \A d \in Dir : strand'[d] = Post(strand[d], "open")
          /\ UNCHANGED <<user, cancel, peer>>
      BY <1>2 DEF startSocket
    <2> QED BY <1>1, <2>1, PostQueues DEF SameQueues
  <1>3. CASE ConnectCallback /\ connect = "succeeded" /\ open
    <2>1. /\ \A d \in Dir : strand'[d] =
               Post(strand[d], IF First(d) = 0 THEN "connectionString" ELSE "open")
          /\ UNCHANGED <<user, cancel, peer>>
      BY <1>3, ConnectedCallback
    <2> QED BY <1>1, <2>1, PostQueues DEF SameQueues
  <1>4. CASE \/ ConnectOutcome \/ RetryTimer
             \/ ConnectCallback /\ ~(connect = "succeeded" /\ open)
    BY <1>4 DEF ConnectOutcome, RetryTimer, ConnectCallback, SameQueues
  <1> QED BY <1>2, <1>3, <1>4

LEMMA SettleUser ==
  ASSUME Inv, DrainInv, SettleInv, Users
  PROVE  SettleInv'
  <1>1. \A d \in Dir : strand[d] \in Strands
    BY GoodStrand
  <1>2. CASE \E d \in Dir : UserCalls(d)
    <2>1. PICK d \in Dir : UserCalls(d)
      BY <1>2
    <2>2. UNCHANGED <<strand, cancel, peer>> /\ (user' = user \/ strand[d].mStatus = "Normal")
      BY <2>1 DEF UserCalls
    <2>3. strand[d].mStatus = "Normal" => cancel = "no"
      BY DEF SettleInv, stopped
    <2> QED BY <2>2, <2>3 DEF SettleInv, stopped
  <1>3. CASE UserReturns \/ CloseStart \/ CloseReturn
    <2>1. /\ UNCHANGED <<strand, cancel, peer>>
          /\ user.pc' \notin {"push", "post", "wait"}
      BY <1>3 DEF UserReturns, CloseStart, CloseReturn, Inv, ControlType
    <2> QED BY <2>1 DEF SettleInv, stopped
  <1>4. CASE UserPush
    <2> DEFINE d == user.dir
               s == strand[d]
               v == IF d = "Send" /\ ~user.blocks THEN "none" ELSE "unset"
               z == [s EXCEPT !.promise = Append(@, v),
                              !.mQueue = Append(@, Len(s.promise) + 1)]
    <2>1. /\ d \in Dir /\ user.pc = "push" /\ UNCHANGED <<cancel, peer>>
          /\ strand' = [strand EXCEPT ![d].promise = Append(@, v),
                                      ![d].mQueue = Append(@, Len(s.promise) + 1)]
      BY <1>4 DEF UserPush, Inv, ControlType
    <2>2. cancel = "no" /\ Healthy /\ ~Asked
      BY <2>1 DEF SettleInv, Healthy, Asked
    <2>3. ~s.mQueueEmpty
      BY <2>1, <2>2 DEF DrainInv, Drains, ClosesOnce
    <2>4. strand' = [strand EXCEPT ![d] = z]
      BY <1>1, <2>1 DEF Strands, Inv, StrandsGood
    <2>5. z.mQueueEmpty = s.mQueueEmpty
      BY <1>1, <2>1 DEF Strands
    <2> HIDE DEF z, d
    <2>6. \A e \in Dir : strand'[e] = IF e = d THEN z ELSE strand[e]
      BY <2>1, <2>4, OneChanged
    <2> QED BY <2>1, <2>2, <2>3, <2>5, <2>6 DEF SettleInv
  <1>5. CASE UserPost
    <2> DEFINE d == user.dir  z == Post(strand[d], "enqueue")
    <2>1. /\ d \in Dir /\ user.pc = "post" /\ UNCHANGED <<cancel, peer>>
          /\ strand' = [strand EXCEPT ![d] = z]
      BY <1>5 DEF UserPost, Inv, ControlType
    <2>2. /\ z.mStatus = strand[d].mStatus /\ z.mQueue = strand[d].mQueue
          /\ z.mQueueEmpty = strand[d].mQueueEmpty
      BY <1>1, <2>1, PostQueues
    <2> HIDE DEF z, d
    <2>3. \A e \in Dir : strand'[e] = IF e = d THEN z ELSE strand[e]
      BY <2>1, OneChanged
    <2>4. SameQueues
      BY <2>2, <2>3 DEF SameQueues
    <2> QED BY <2>1, <2>4, SettleSame DEF SettleInv
  <1>6. CASE UserReschedules
    BY <1>6, BufferQueues, SettleSame DEF SettleInv
  <1>7. CASE ClosePost
    <2>1. /\ \A d \in Dir : strand'[d] = Post(strand[d], "close")
          /\ UNCHANGED <<cancel, peer>> /\ user.pc' = "draining"
      BY <1>7 DEF ClosePost, Inv, ControlType
    <2>2. SameQueues
      BY <1>1, <2>1, PostQueues DEF SameQueues
    <2> QED BY <2>1, <2>2, SettleSame DEF SettleInv
  <1> QED BY <1>2, <1>3, <1>4, <1>5, <1>6, <1>7 DEF Users

LEMMA SettleCancel ==
  ASSUME Inv, DrainInv, SettleInv, Cancellers \subseteq {"user"}, Cancels
  PROVE  SettleInv'
  <1>1. \A d \in Dir : strand[d] \in Strands
    BY GoodStrand
  <1>2. CASE CancelStart("user")
    <2>1. cancel = "no" /\ user.pc = "ready" /\ UNCHANGED peer
      BY <1>2 DEF CancelStart, MayCancel
    <2>2. ~stopped
      BY <2>1, StoppedAsked DEF SettleInv, Healthy, Asked
    <2>3. /\ strand' = [d \in Dir |-> [strand[d] EXCEPT !.mStatus = "Stopped"]]
          /\ cancel' = "pending" /\ user' = [user EXCEPT !.pc = "cancelling"]
      BY <1>2, <2>2 DEF CancelStart
    <2>4. user.pc' = "cancelling"
      BY <2>3 DEF Inv, ControlType
    <2>5. \A d \in Dir : /\ strand'[d].mStatus = "Stopped"
                         /\ strand'[d].mQueueEmpty = strand[d].mQueueEmpty
                         /\ strand'[d].mQueue = strand[d].mQueue
      BY <1>1, <2>3 DEF Strands
    <2> QED BY <2>1, <2>3, <2>4, <2>5 DEF SettleInv, stopped
  <1>3. CASE cancelPendingChannel
    BY <1>3 DEF cancelPendingChannel, SettleInv, stopped
  <1>4. CASE CancelPost
    <2>1. cancel = "opening" /\ cancel' = "draining" /\ UNCHANGED <<user, peer>>
      BY <1>4 DEF CancelPost
    <2>2. ASSUME NEW d \in Dir
          PROVE  /\ strand'[d].mStatus = strand[d].mStatus
                 /\ strand'[d].mQueue = strand[d].mQueue
                 /\ strand'[d].mQueueEmpty = strand[d].mQueueEmpty
      <3>1. \/ strand'[d] = Post(Post(strand[d], "cancelOperations"), "cancel")
            \/ strand'[d] = Post(strand[d], "cancel")
        BY <1>4 DEF CancelPost
      <3>2. "cancelOperations" \in Handlers \ Turns
        BY DEF Handlers, Turns, Openers
      <3>3. Post(strand[d], "cancelOperations") \in Strands
        BY <3>2, GoodStrand, PostQuiet
      <3> QED BY <1>1, <3>1, <3>3, PostQueues
    <2> QED BY <2>1, <2>2 DEF SettleInv, stopped
  <1>5. CASE CancelReturn
    <2>1. /\ \A d \in Dir : strand[d].mQueueEmpty
          /\ cancel = "draining" /\ UNCHANGED <<strand, peer>>
          /\ user.pc' \notin {"push", "post", "wait"}
      BY <1>5 DEF CancelReturn, SettleInv, Inv, ControlType
    <2> QED BY <2>1 DEF SettleInv, stopped
  <1> QED BY <1>2, <1>3, <1>4, <1>5 DEF Cancels

LEMMA SettleNext ==
  ASSUME Cancellers \subseteq {"user"}, Inv, DrainInv, SettleInv, [Next]_vars, peer' # "down"
  PROVE  SettleInv'
  <1>1. CASE UNCHANGED vars
    BY <1>1 DEF vars, SettleInv, stopped
  <1>2. CASE IO
    <2>1. CASE ConnectOutcome \/ ConnectCallback \/ RetryTimer \/ startSocket
      BY <2>1, ConnectingQueues, SettleSame DEF SettleInv
    <2>2. CASE \E d \in Dir : IOResult(d) \/ IODispatch(d) \/ ReplacePromise(d)
      BY <2>2, IOQueues, ReplaceQueues, SettleSame DEF SettleInv
    <2>3. CASE \E d \in Dir : RunStrand(d) /\ ~ReplacePromise(d)
      <3>1. /\ \A e \in Dir : Ends(strand[e], strand'[e])
            /\ UNCHANGED <<user, cancel, peer>>
        BY <2>3, StrandWorks, EndingEnds, WorkingEnds
      <3> QED BY <3>1, SettleStep DEF SettleInv
    <2> QED BY <1>2, <2>1, <2>2, <2>3 DEF IO
  <1>3. CASE BadSize
    BY <1>3, BufferQueues, SettleSame DEF SettleInv
  <1>4. CASE Users
    BY <1>4, SettleUser
  <1>5. CASE Cancels
    BY <1>5, SettleCancel
  <1>6. CASE PeerStarts \/ PeerGoes
    BY <1>6 DEF PeerStarts, PeerGoes, SettleInv, stopped
  <1> QED BY <1>1, <1>2, <1>3, <1>4, <1>5, <1>6 DEF Next, Over

LEMMA StaysDown ==
  ASSUME peer = "down", [Next]_vars
  PROVE  peer' = "down"
  BY DEF vars, Next, Over, IO, Users, Cancels, ConnectOutcome, ConnectCallback, RetryTimer,
         startSocket, RunStrand, HandleEnqueue, HandleOpen, HandleComplete, HandleClose,
         HandleCancel, HandleConnectionString, HandleConnectionStringSent, ReplacePromise,
         HandleError, HandleCancelOperations, CancelQueue, Handle, IOResult, IODispatch,
         BadSize, UserCalls, UserPush, UserPost, UserReturns, UserReschedules, CloseStart,
         ClosePost, CloseReturn, CancelStart, cancelPendingChannel, CancelPost, CancelReturn,
         PeerStarts, PeerGoes

(* When only the thread that uses the channel cancels it and the peer is   *)
(* still there, cancel() leaves no operation in a queue and no promise     *)
(* without an answer, whatever was under way: connecting, sending,         *)
(* receiving.                                                              *)
THEOREM CancelHasSettled ==
  ASSUME Cancellers \subseteq {"user"}
  PROVE  Spec => []CancelSettles
  <1> DEFINE Settled == peer = "down" \/ SettleInv
  <1>1. Init => Settled
    <2>1. ~NewStrand.mQueueEmpty
      BY DEF NewStrand
    <2> QED BY <2>1 DEF Init, SettleInv
  <1>2. Inv /\ DrainInv /\ Settled /\ [Next]_vars => Settled'
    BY SettleNext, StaysDown
  <1>3. Inv /\ Settled => CancelSettles
    <2> SUFFICES ASSUME Inv, SettleInv, cancel = "done", NEW d \in Dir
                 PROVE  /\ strand[d].mQueue = <<>>
                        /\ \A i \in Ops(d) : strand[d].promise[i] # "unset"
      BY DEF CancelSettles
    <2> DEFINE s == strand[d]
    <2>1. s.mQueue = <<>>
      BY DEF SettleInv
    <2>2. s \in Strands /\ WireInv(First(d), s)
      BY GoodStrand DEF Good
    <2>3. PICK n \in Nat : n = Len(s.promise)
      <3>1. s.promise \in Seq(Promises)
        BY <2>2 DEF Strands
      <3> QED BY <3>1
    <2>4. Done(s) = n
      BY <2>1, <2>3 DEF Done
    <2>5. \A i \in 1..n : s.promise[i] = "unset" => i > n
      BY <2>2, <2>3, <2>4 DEF WireInv
    <2> QED BY <2>1, <2>3, <2>5 DEF Ops
  <1> QED BY <1>1, <1>2, <1>3, Invariance, DrainInvariance, PTL DEF Spec

-----------------------------------------------------------------------------
(* Either direction is a conduit: what is carried and answered             *)

(* A strand that will still perform an operation.                          *)
Going(s) ==
  \/ s.mSocketAvailable
  \/ s.inFlight # Idle /\ s.result # "error"
  \/ \E h \in Turns \ {"error"} : Posted(s.handlers, h)

(* An operation that failed is out of the queue, unless nothing will be    *)
(* performed any more.                                                     *)
AnswerInv(f, s) ==
  /\ Posted(s.handlers, "error") => Due(f, s) <= Done(s) + 1
  /\ \A i \in 1..Len(s.promise) : s.promise[i] = "exception" => i <= Done(s) \/ ~Going(s)

NoneFailed(s) == \A i \in 1..Len(s.promise) : s.promise[i] # "exception"

ConduitInv ==
  /\ \A d \in Dir : AnswerInv(First(d), strand[d])
  /\ connect # "done" => \A d \in Dir : NoneFailed(strand[d])

(* Nothing is called or answered.                                          *)
KeepsPromises(s, z) == z.promise = s.promise /\ Done(s) <= Done(z)

(* A strand carries nothing and answers nothing.                           *)
Kept(s, z) ==
  /\ z.promise = s.promise /\ z.wire = s.wire /\ Done(s) <= Done(z)
  /\ Going(z) => Going(s)
  /\ s.inFlight # Idle /\ s.result = "none" => z.inFlight = s.inFlight /\ z.result = "none"
  /\ Posted(z.handlers, "error") => Posted(s.handlers, "error")

LEMMA KeptAnswers ==
  ASSUME NEW f \in 0..1, NEW s \in Strands, NEW z \in Strands, Good(f, s), Good(f, z),
         AnswerInv(f, s), Kept(s, z)
  PROVE  AnswerInv(f, z)
  <1>1. /\ Done(s) \in Nat /\ Done(z) \in Nat /\ Len(s.promise) \in Nat
        /\ Len(s.wire) \in Nat
    BY QueueContents DEF Good, Strands
  <1>2. Due(f, z) = Due(f, s) /\ Due(f, s) \in Nat
    BY <1>1 DEF Kept, Due
  <1>3. Posted(z.handlers, "error") => Due(f, z) <= Done(z) + 1
    BY <1>1, <1>2 DEF AnswerInv, Kept
  <1>4. ASSUME NEW i \in 1..Len(z.promise)
        PROVE  z.promise[i] = "exception" => i <= Done(z) \/ ~Going(z)
    <2>1. i \in 1..Len(s.promise) /\ z.promise[i] = s.promise[i] /\ i \in Nat /\ i # Idle
      BY <1>1 DEF Kept, Idle
    <2>2. s.promise[i] = "exception" => i <= Done(s) \/ ~Going(s)
      BY <2>1 DEF AnswerInv
    <2>3. i <= Done(s) => i <= Done(z)
      BY <1>1, <2>1 DEF Kept
    <2> QED BY <2>1, <2>2, <2>3 DEF Kept
  <1> QED BY <1>3, <1>4 DEF AnswerInv

(* Steps that carry nothing and answer nothing.                            *)
KeepsAll ==
  /\ UNCHANGED mode
  /\ connect = "done" => connect' = "done"
  /\ \A d \in Dir : Kept(strand[d], strand'[d])

LEMMA GoodStrandNext ==
  ASSUME Inv', UNCHANGED mode, NEW d \in Dir
  PROVE  strand'[d] \in Strands /\ Good(First(d), strand'[d])
  <1>1. First(d)' = First(d)
    BY DEF First
  <1> QED BY <1>1 DEF Inv, StrandsGood

LEMMA ConduitKept ==
  ASSUME Inv, Inv', ConduitInv, KeepsAll
  PROVE  ConduitInv'
  <1>1. ASSUME NEW d \in Dir
        PROVE  AnswerInv(First(d)', strand'[d])
    <2>1. First(d)' = First(d)
      BY DEF KeepsAll, First
    <2>2. Kept(strand[d], strand'[d]) /\ AnswerInv(First(d), strand[d])
      BY DEF KeepsAll, ConduitInv
    <2>3. strand'[d] \in Strands /\ Good(First(d), strand'[d])
      BY GoodStrandNext DEF KeepsAll
    <2> QED BY <2>1, <2>2, <2>3, GoodStrand, KeptAnswers
  <1>2. connect' # "done" => \A d \in Dir : NoneFailed(strand'[d])
    BY DEF KeepsAll, ConduitInv, NoneFailed, Kept
  <1> QED BY <1>1, <1>2 DEF ConduitInv

LEMMA SameDataKept ==
  ASSUME NEW f, NEW s \in Strands, Good(f, s), NEW z, SameData(s, z),
         \A h \in Turns : Posted(z.handlers, h) => Posted(s.handlers, h)
  PROVE  Kept(s, z)
  <1>1. Done(z) = Done(s) /\ Done(s) <= Done(s)
    <2>1. Done(s) \in Nat
      BY QueueContents DEF Good
    <2> QED BY <2>1 DEF Done, SameData
  <1>2. "error" \in Turns
    BY DEF Turns
  <1> QED BY <1>1, <1>2 DEF Kept, SameData, Going

LEMMA SelfKept ==
  ASSUME Inv, NEW d \in Dir
  PROVE  Kept(strand[d], strand[d])
  BY GoodStrand, SameDataKept DEF SameData

LEMMA OneKept ==
  ASSUME Inv, NEW d \in Dir, NEW z, strand' = [strand EXCEPT ![d] = z],
         Kept(strand[d], z), UNCHANGED <<mode, connect>>
  PROVE  KeepsAll
  BY OneChanged, SelfKept DEF KeepsAll

LEMMA UnchangedKept ==
  ASSUME Inv, UNCHANGED <<mode, strand>>, connect = "done" => connect' = "done"
  PROVE  KeepsAll
  BY SelfKept DEF KeepsAll

LEMMA PostKept ==
  ASSUME NEW f \in 0..1, NEW s \in Strands, Good(f, s), NEW h \in Handlers \ Turns
  PROVE  Kept(s, Post(s, h))
  BY PostQuiet, SameDataKept

(* The handlers that work on what is queued.                               *)
LEMMA WorkingKept ==
  ASSUME Inv, NEW d \in Dir, Working(d)
  PROVE  KeepsAll
  <1> DEFINE s == strand[d]
  <1>1. PICK h \in Handlers \ Harms, after \in Strands :
          /\ Handle(d, h, after) /\ after.handlers = s.handlers
          /\ Handles(s, h, after) /\ Uses(s, h, after)
    BY DEF Working
  <1> DEFINE z == Taken(after)
  <1>2. s \in Strands /\ Good(First(d), s) /\ s.handlers \in Seq(Handlers)
    BY GoodStrand DEF Strands
  <1>3. /\ strand' = [strand EXCEPT ![d] = z] /\ UNCHANGED <<mode, connect>>
        /\ s.handlers # <<>> /\ h = Head(s.handlers)
    BY <1>1 DEF Handle, Taken
  <1>4. z \in Strands /\ z.handlers = Tail(s.handlers) /\ SameData(after, z)
    BY <1>1, <1>2, <1>3, TakenFields
  <1> HIDE DEF z
  <1>5. /\ z.promise = s.promise /\ z.wire = s.wire /\ z.result = s.result
        /\ z.mQueue = IF h = "complete" THEN Tail(s.mQueue) ELSE s.mQueue
    BY <1>1, <1>4 DEF Handles, SameData
  <1>6. /\ Posted(s.handlers, h)
        /\ \A g : Posted(z.handlers, g) => Posted(s.handlers, g)
    BY <1>2, <1>3, <1>4, TailHandlers
  <1>7. Done(s) <= Done(z)
    <2>1. PICK n \in Nat, m \in Nat : n = Len(s.promise) /\ m = Len(s.mQueue)
      BY <1>2, QueueContents DEF Good
    <2>2. CASE h = "complete"
      <3>1. m > 0 /\ s.mQueue \in Seq(Nat)
        BY <1>2, <1>6, <2>1, <2>2 DEF Good, DueInv, Strands
      <3>2. Len(z.mQueue) = m - 1
        BY <1>5, <2>1, <2>2, <3>1
      <3> QED BY <1>5, <2>1, <3>2 DEF Done
    <2>3. CASE h # "complete"
      BY <1>5, <2>1, <2>3 DEF Done
    <2> QED BY <2>2, <2>3
  <1>8. Going(z) => Going(s)
    <2>1. CASE h \in Turns
      <3>1. h \in Turns \ {"error"}
        BY <1>1, <2>1 DEF Harms
      <3> QED BY <1>6, <3>1 DEF Going
    <2>2. CASE s.mSocketAvailable
      BY <2>2 DEF Going
    <2>3. CASE z.mSocketAvailable = s.mSocketAvailable /\ z.inFlight = s.inFlight
      BY <1>5, <1>6, <2>3 DEF Going
    <2> QED BY <1>1, <1>4, <2>1, <2>2, <2>3 DEF Uses, SameData
  <1>9. s.inFlight # Idle => z.inFlight = s.inFlight
    BY <1>1, <1>4 DEF Uses, SameData
  <1>10. Kept(s, z)
    BY <1>5, <1>6, <1>7, <1>8, <1>9 DEF Kept
  <1> QED BY <1>3, <1>10, OneKept

-----------------------------------------------------------------------------
(* The steps that carry or answer something                                *)

LEMMA OneAnswers ==
  ASSUME Inv, ConduitInv, NEW d \in Dir, NEW z, strand' = [strand EXCEPT ![d] = z],
         AnswerInv(First(d), z), UNCHANGED <<mode, connect>>,
         connect # "done" => NoneFailed(z)
  PROVE  ConduitInv'
  <1>1. \A e \in Dir : First(e)' = First(e) /\ strand'[e] = IF e = d THEN z ELSE strand[e]
    BY OneChanged DEF First
  <1> QED BY <1>1 DEF ConduitInv

(* The next operation of a strand is carried; it gets its value.           *)
Answered(s, n, a) ==
  [i \in DOMAIN s.promise |->
     IF i = n /\ s.promise[i] = "unset" THEN a ELSE s.promise[i]]

InSocket(f, s) ==
  /\ s.inFlight # Idle /\ s.result = "none" /\ s.inFlight = Due(f, s)
  /\ s.inFlight \in Nat /\ (s.inFlight # 0 => s.inFlight \in DOMAIN s.promise)
  /\ ~Posted(s.handlers, "error")

Carries(f, s, z) ==
  /\ InSocket(f, s)
  /\ z.wire = Append(s.wire, Due(f, s)) /\ z.promise = Answered(s, Due(f, s), "value")
  /\ z.handlers = s.handlers

(* It is not, and a send with a promise fails.                             *)
Breaks(f, s, z) ==
  /\ InSocket(f, s)
  /\ z.promise \in {s.promise, Answered(s, Due(f, s), "exception")}
  /\ z.wire = s.wire /\ z.mQueue = s.mQueue /\ z.handlers = s.handlers
  /\ z.inFlight = s.inFlight /\ z.mSocketAvailable = s.mSocketAvailable
  /\ z.result = "error"

LEMMA SocketHas ==
  ASSUME Inv, NEW d \in Dir, strand[d].inFlight # Idle, strand[d].result = "none"
  PROVE  InSocket(First(d), strand[d])
  <1> DEFINE s == strand[d]
  <1>1. s \in Strands /\ Good(First(d), s)
    BY GoodStrand
  <1>2. s.inFlight = Due(First(d), s)
    BY <1>1 DEF Good, FlightInv
  <1>3. s.inFlight \in Nat /\ (s.inFlight # 0 => s.inFlight \in 1..Len(s.promise))
    BY InFlightType DEF ConnectionString
  <1>4. DOMAIN s.promise = 1..Len(s.promise)
    BY <1>1 DEF Strands
  <1>5. ~Posted(s.handlers, "error")
    <2>1. s.handlers \in Seq(Handlers) /\ "error" \in Turns
      BY <1>1 DEF Strands, Turns
    <2> QED BY <1>1, <2>1, PostedTurn DEF Good, TurnInv
  <1> QED BY <1>2, <1>3, <1>4, <1>5 DEF InSocket

LEMMA AnsweredFacts ==
  ASSUME NEW s \in Strands, NEW n, NEW a
  PROVE  /\ DOMAIN Answered(s, n, a) = DOMAIN s.promise
         /\ Len(Answered(s, n, a)) = Len(s.promise) /\ Len(s.promise) \in Nat
         /\ \A i \in 1..Len(s.promise) :
              Answered(s, n, a)[i] =
                IF i = n /\ s.promise[i] = "unset" THEN a ELSE s.promise[i]
  <1>1. s.promise \in Seq(Promises) /\ DOMAIN s.promise = 1..Len(s.promise)
        /\ Len(s.promise) \in Nat
    BY DEF Strands
  <1>2. PICK k \in Nat : k = Len(s.promise)
    BY <1>1
  <1> DEFINE p == [i \in 1..k |-> IF i = n /\ s.promise[i] = "unset" THEN a ELSE s.promise[i]]
  <1>3. Answered(s, n, a) = p
    BY <1>1, <1>2 DEF Answered
  <1>4. DOMAIN p = 1..k /\ Len(p) = k
    OBVIOUS
  <1> QED BY <1>1, <1>2, <1>3, <1>4

LEMMA CarriesAnswers ==
  ASSUME NEW f \in 0..1, NEW s \in Strands, NEW z \in Strands, Good(f, s),
         AnswerInv(f, s), Carries(f, s, z), Done(z) = Done(s)
  PROVE  AnswerInv(f, z)
  <1>1. Len(s.wire) \in Nat /\ Len(z.wire) = Len(s.wire) + 1
    BY DEF Strands, Carries, InSocket
  <1>2. Due(f, s) \in Nat /\ Due(f, z) = Due(f, s) + 1
    BY <1>1 DEF Due
  <1>3. s.inFlight = Due(f, s) /\ Going(s) /\ ~Posted(z.handlers, "error")
    BY DEF Carries, InSocket, Going
  <1>4. /\ Len(z.promise) = Len(s.promise) /\ Len(s.promise) \in Nat
        /\ \A i \in 1..Len(s.promise) :
             z.promise[i] = IF i = Due(f, s) /\ s.promise[i] = "unset"
                            THEN "value" ELSE s.promise[i]
    BY AnsweredFacts DEF Carries
  <1>5. ASSUME NEW i \in 1..Len(s.promise)
        PROVE  z.promise[i] = "exception" => i <= Done(z)
    <2>1. s.promise[i] = "exception" => i <= Done(s)
      BY <1>3 DEF AnswerInv
    <2> QED BY <1>4, <2>1
  <1> QED BY <1>3, <1>4, <1>5 DEF AnswerInv

LEMMA BreaksAnswers ==
  ASSUME NEW f \in 0..1, NEW s \in Strands, NEW z \in Strands, Good(f, s),
         AnswerInv(f, s), Breaks(f, s, z)
  PROVE  AnswerInv(f, z)
  <1>1. ~Going(z)
    <2>1. ~s.mSocketAvailable /\ ~HasTurn(s.handlers)
      BY DEF Breaks, InSocket, Good, TurnInv
    <2>2. \A h \in Turns : ~Posted(s.handlers, h)
      BY <2>1 DEF HasTurn, Posted
    <2> QED BY <2>1, <2>2 DEF Going, Breaks
  <1>2. ~Posted(z.handlers, "error")
    BY DEF Breaks, InSocket
  <1> QED BY <1>1, <1>2 DEF AnswerInv

(* What an operation in the socket was answered so far.                    *)
LEMMA SocketPromise ==
  ASSUME Inv, ConduitInv, NEW d \in Dir, strand[d].inFlight # Idle, strand[d].result = "none",
         strand[d].inFlight # ConnectionString
  PROVE  /\ strand[d].inFlight \in DOMAIN strand[d].promise
         /\ strand[d].promise[strand[d].inFlight] \in {"none", "unset", "badSize"}
  <1> DEFINE s == strand[d]  op == s.inFlight  f == First(d)
  <1>1. s \in Strands /\ Good(f, s) /\ AnswerInv(f, s) /\ InSocket(f, s)
    BY GoodStrand, SocketHas DEF ConduitInv
  <1>2. op \in 1..Len(s.promise) /\ op \in Nat /\ op >= 1 /\ op \in DOMAIN s.promise
    BY <1>1, InFlightType DEF InSocket, ConnectionString
  <1>3. s.promise[op] \in Promises
    BY <1>1, <1>2 DEF Strands
  <1>4. s.promise[op] # "value"
    <2>1. s.promise[op] = "value" => op < Due(f, s)
      BY <1>1, <1>2 DEF Good, WireInv
    <2> QED BY <1>1, <1>2, <2>1 DEF InSocket
  <1>5. s.promise[op] # "exception"
    <2>1. Going(s)
      BY <1>1 DEF Going, InSocket
    <2>2. op = Done(s) + 1 /\ Done(s) \in Nat
      BY <1>1, <1>2, QueueContents DEF Good, FlightInv
    <2>3. ~(op <= Done(s))
      BY <2>2
    <2> QED BY <1>1, <1>2, <2>1, <2>3 DEF AnswerInv
  <1> QED BY <1>2, <1>3, <1>4, <1>5 DEF Promises

LEMMA IOAnswers ==
  ASSUME Inv, Inv', ConduitInv, NEW d \in Dir, IOResult(d)
  PROVE  /\ UNCHANGED <<mode, connect, user, cancel, peer, terminated>>
         /\ \E z \in Strands :
              /\ strand' = [strand EXCEPT ![d] = z] /\ Done(z) = Done(strand[d])
              /\ \/ Carries(First(d), strand[d], z)
                 \/ /\ Breaks(First(d), strand[d], z) /\ (~open \/ peer = "down")
                    /\ d = "Send" \/ z.promise = strand[d].promise
  <1> DEFINE s == strand[d]
             op == s.inFlight
             f == First(d)
             settled(v) == IF op # ConnectionString /\ s.promise[op] # "none"
                           THEN [s.promise EXCEPT ![op] = v] ELSE s.promise
  <1>1. /\ s.inFlight # Idle /\ s.result = "none"
        /\ op # ConnectionString => s.promise[op] # "badSize"
        /\ UNCHANGED <<mode, connect, user, cancel, peer, terminated>>
    BY DEF IOResult
  <1>2. s \in Strands /\ InSocket(f, s) /\ s.promise \in Seq(Promises) /\ op \in Nat
    BY <1>1, GoodStrand, SocketHas DEF Strands, InSocket
  <1>3. op # ConnectionString => op \in DOMAIN s.promise /\ s.promise[op] \in {"none", "unset"}
    BY <1>1, SocketPromise
  <1>4. ASSUME NEW v PROVE settled(v) = Answered(s, Due(f, s), v)
    <2>1. op = Due(f, s) /\ (op = ConnectionString => op \notin DOMAIN s.promise)
      BY <1>2 DEF InSocket, ConnectionString
    <2>2. CASE op # ConnectionString /\ s.promise[op] # "none"
      <3>1. s.promise[op] = "unset"
        BY <1>3, <2>2
      <3>2. settled(v) = [i \in DOMAIN s.promise |-> IF i = op THEN v ELSE s.promise[i]]
        BY <1>2, <2>2
      <3> QED BY <2>1, <3>1, <3>2 DEF Answered
    <2>3. CASE ~(op # ConnectionString /\ s.promise[op] # "none")
      <3>1. \A i \in DOMAIN s.promise : ~(i = op /\ s.promise[i] = "unset")
        BY <2>1, <2>3
      <3>2. s.promise = [i \in DOMAIN s.promise |-> s.promise[i]]
        BY <1>2
      <3> QED BY <2>1, <2>3, <3>1, <3>2 DEF Answered
    <2> QED BY <2>2, <2>3
  <1>5. \/ strand' = [strand EXCEPT ![d] = [s EXCEPT
             !.result = "ok", !.wire = Append(@, op), !.promise = settled("value")]]
        \/ /\ ~open \/ peer = "down"
           /\ strand' = [strand EXCEPT ![d] = [s EXCEPT
             !.result = "error",
             !.promise = IF d = "Send" THEN settled("exception") ELSE @]]
    BY DEF IOResult
  <1>6. strand'[d] \in Strands /\ strand \in [Dir -> Strands]
    BY <1>1, GoodStrandNext DEF Inv, StrandsGood
  <1>7. ASSUME NEW v PROVE Len(settled(v)) = Len(s.promise)
    BY <1>2
  <1> HIDE DEF settled
  <1>8. CASE strand' = [strand EXCEPT ![d] = [s EXCEPT
               !.result = "ok", !.wire = Append(@, op), !.promise = settled("value")]]
    <2> DEFINE p == settled("value")  w == Append(s.wire, op)
               z == [s EXCEPT !.result = "ok", !.promise = p, !.wire = w]
    <2>1. strand' = [strand EXCEPT ![d] = z]
      BY <1>2, <1>8 DEF Strands
    <2>2. z \in Strands
      BY <1>6, <2>1
    <2>3. p = Answered(s, Due(f, s), "value") /\ Len(p) = Len(s.promise)
      BY <1>4, <1>7
    <2>4. w = Append(s.wire, Due(f, s))
      BY <1>2 DEF InSocket
    <2> HIDE DEF p, w
    <2>5. z.wire = w /\ z.promise = p /\ z.handlers = s.handlers /\ z.mQueue = s.mQueue
      BY <1>2 DEF Strands
    <2> HIDE DEF z
    <2>6. Carries(f, s, z) /\ Done(z) = Done(s)
      BY <1>2, <2>3, <2>4, <2>5 DEF Carries, Done
    <2> QED BY <1>1, <2>1, <2>2, <2>6
  <1>9. CASE /\ ~open \/ peer = "down"
             /\ strand' = [strand EXCEPT ![d] = [s EXCEPT
                  !.result = "error",
                  !.promise = IF d = "Send" THEN settled("exception") ELSE @]]
    <2> DEFINE p == IF d = "Send" THEN settled("exception") ELSE s.promise
               z == [s EXCEPT !.result = "error", !.promise = p]
    <2>1. strand' = [strand EXCEPT ![d] = z]
      BY <1>2, <1>9 DEF Strands
    <2>2. z \in Strands
      BY <1>6, <2>1
    <2>3. /\ p \in {s.promise, Answered(s, Due(f, s), "exception")} /\ Len(p) = Len(s.promise)
          /\ d = "Send" \/ p = s.promise
      BY <1>4, <1>7
    <2> HIDE DEF p
    <2>4. /\ z.wire = s.wire /\ z.promise = p /\ z.handlers = s.handlers
          /\ z.mQueue = s.mQueue /\ z.inFlight = s.inFlight /\ z.result = "error"
          /\ z.mSocketAvailable = s.mSocketAvailable
      BY <1>2 DEF Strands
    <2> HIDE DEF z
    <2>5. Breaks(f, s, z) /\ Done(z) = Done(s)
      BY <1>1, <1>2, <2>3, <2>4 DEF Breaks, Done, ConnectionString
    <2> QED BY <1>1, <1>9, <2>1, <2>2, <2>3, <2>4, <2>5
  <1> QED BY <1>5, <1>8, <1>9

LEMMA ReschedulesAnswers ==
  ASSUME Inv, Inv', ConduitInv, UserReschedules
  PROVE  /\ UNCHANGED <<mode, connect, user, cancel, peer, terminated>>
         /\ \E z \in Strands :
              /\ strand' = [strand EXCEPT !["Recv"] = z] /\ Done(z) = Done(strand["Recv"])
              /\ z.promise = strand["Recv"].promise
              /\ \/ Carries(First("Recv"), strand["Recv"], z)
                 \/ Breaks(First("Recv"), strand["Recv"], z) /\ (~open \/ peer = "down")
  <1> DEFINE s == strand["Recv"]  op == s.inFlight  f == First("Recv")
  <1>1. /\ "Recv" \in Dir /\ op # Idle /\ s.result = "none" /\ s.promise[op] = "badSize"
        /\ UNCHANGED <<mode, connect, user, cancel, peer, terminated>>
    BY DEF UserReschedules, Dir
  <1>2. PICK r \in {"ok", "error"}, w \in Seq(Nat) :
          /\ r = "error" => ~open \/ peer = "down"
          /\ w = IF r = "ok" THEN Append(s.wire, op) ELSE s.wire
          /\ strand' = [strand EXCEPT !["Recv"] =
                          [s EXCEPT !.result = r, !.promise = s.promise, !.wire = w]]
    BY RescheduledStrand
  <1> DEFINE z == [s EXCEPT !.result = r, !.promise = s.promise, !.wire = w]
  <1>3. s \in Strands /\ InSocket(f, s) /\ op = Due(f, s)
        /\ strand \in [Dir -> Strands] /\ strand'["Recv"] \in Strands
    BY <1>1, GoodStrand, GoodStrandNext, SocketHas DEF InSocket, Inv, StrandsGood
  <1>4. z \in Strands
    BY <1>1, <1>2, <1>3
  <1>5. /\ z.wire = w /\ z.promise = s.promise /\ z.handlers = s.handlers
        /\ z.mQueue = s.mQueue /\ z.inFlight = op /\ z.result = r
        /\ z.mSocketAvailable = s.mSocketAvailable
    BY <1>3 DEF Strands
  <1>6. strand' = [strand EXCEPT !["Recv"] = z]
    BY <1>2
  <1> HIDE DEF z
  <1>7. s.promise = Answered(s, Due(f, s), "value")
    <2>1. s.promise = [i \in DOMAIN s.promise |-> s.promise[i]]
      BY <1>3 DEF Strands
    <2>2. \A i \in DOMAIN s.promise : ~(i = Due(f, s) /\ s.promise[i] = "unset")
      BY <1>1, <1>3
    <2> QED BY <2>1, <2>2 DEF Answered
  <1>8. Done(z) = Done(s)
    BY <1>5 DEF Done
  <1>9. CASE r = "ok"
    <2>1. Carries(f, s, z)
      BY <1>2, <1>3, <1>5, <1>7, <1>9 DEF Carries
    <2> QED BY <1>1, <1>4, <1>5, <1>6, <1>8, <2>1
  <1>10. CASE r = "error"
    <2>1. Breaks(f, s, z)
      BY <1>2, <1>3, <1>5, <1>10 DEF Breaks
    <2> QED BY <1>1, <1>2, <1>4, <1>5, <1>6, <1>8, <1>10, <2>1
  <1> QED BY <1>9, <1>10

(* An operation is told that its message has another size.                 *)
LEMMA BadSizeAnswers ==
  ASSUME Inv, Inv', ConduitInv, BadSize
  PROVE  /\ UNCHANGED <<mode, connect, user, cancel, peer, terminated>>
         /\ strand["Recv"].inFlight # ConnectionString
         /\ InSocket(First("Recv"), strand["Recv"])
         /\ \E z \in Strands :
              /\ strand' = [strand EXCEPT !["Recv"] = z] /\ z.wire = strand["Recv"].wire
              /\ z.promise = Answered(strand["Recv"], Due(First("Recv"), strand["Recv"]), "badSize")
              /\ AnswerInv(First("Recv"), z) /\ Done(z) = Done(strand["Recv"])
  <1> DEFINE s == strand["Recv"]  op == s.inFlight  f == First("Recv")
             p == [s.promise EXCEPT ![op] = "badSize"]  z == [s EXCEPT !.promise = p]
  <1>1. /\ "Recv" \in Dir /\ op # Idle /\ s.result = "none" /\ s.promise[op] = "unset"
        /\ UNCHANGED <<mode, connect, user, cancel, peer, terminated>>
        /\ strand' = [strand EXCEPT !["Recv"] = z]
    BY DEF BadSize, Dir, Inv, StrandsGood
  <1>2. /\ s \in Strands /\ Good(f, s) /\ InSocket(f, s) /\ s.promise \in Seq(Promises)
        /\ strand \in [Dir -> Strands] /\ strand'["Recv"] \in Strands /\ AnswerInv(f, s)
    BY <1>1, GoodStrand, GoodStrandNext, SocketHas DEF Inv, StrandsGood, Strands, ConduitInv
  <1>3. z \in Strands
    BY <1>1, <1>2
  <1>4. f = 1 /\ op # ConnectionString
    <2>1. f = 1
      BY DEF First
    <2>2. Len(s.wire) \in Nat /\ op = Due(f, s)
      BY <1>2 DEF Strands, InSocket
    <2> QED BY <2>1, <2>2 DEF Due, ConnectionString
  <1>5. p = Answered(s, Due(f, s), "badSize")
    <2>1. op = Due(f, s)
      BY <1>2 DEF InSocket
    <2>2. p = [i \in DOMAIN s.promise |-> IF i = op THEN "badSize" ELSE s.promise[i]]
      BY <1>2
    <2> QED BY <1>1, <2>1, <2>2 DEF Answered
  <1> HIDE DEF p
  <1>6. /\ z.promise = p /\ z.wire = s.wire /\ z.handlers = s.handlers /\ z.mQueue = s.mQueue
        /\ z.inFlight = op /\ z.result = s.result /\ z.mSocketAvailable = s.mSocketAvailable
    BY <1>2 DEF Strands
  <1> HIDE DEF z
  <1>7. AnswerInv(f, z) /\ Done(z) = Done(s)
    <2>1. /\ Len(p) = Len(s.promise)
          /\ \A i \in 1..Len(s.promise) :
               p[i] = IF i = Due(f, s) /\ s.promise[i] = "unset" THEN "badSize" ELSE s.promise[i]
      BY <1>2, <1>5, AnsweredFacts
    <2>2. /\ Due(f, z) = Due(f, s) /\ Done(z) = Done(s) /\ op = Due(f, s)
          /\ Going(z) <=> Going(s)
      BY <1>2, <1>6, <2>1 DEF Due, Done, Going, InSocket
    <2> QED BY <1>1, <1>2, <1>6, <2>1, <2>2 DEF AnswerInv
  <1> QED BY <1>1, <1>2, <1>3, <1>4, <1>5, <1>6, <1>7

Unset(s) == {i \in DOMAIN s.promise : s.promise[i] = "unset"}

Failing(s, failed) ==
  [i \in DOMAIN s.promise |-> IF i \in failed THEN "exception" ELSE s.promise[i]]

LEMMA NoneFailing ==
  ASSUME NEW s \in Strands
  PROVE  s.promise = Failing(s, {}) /\ {} \in SUBSET Unset(s)
  <1>1. s.promise = [i \in DOMAIN s.promise |-> s.promise[i]]
    BY DEF Strands
  <1> QED BY <1>1 DEF Failing

(* Operations that are cancelled in the queue waited for an answer.        *)
LEMMA ClearedAnswers ==
  ASSUME NEW s \in Strands
  PROVE  /\ \E failed \in SUBSET Unset(s) : Cancelled(s) = Failing(s, failed)
         /\ Len(Cancelled(s)) = Len(s.promise)
  <1> DEFINE failed == {i \in Unset(s) : i \in Queued(s)}
  <1>1. s.promise \in Seq(Promises) /\ DOMAIN s.promise = 1..Len(s.promise)
        /\ Len(s.promise) \in Nat
    BY DEF Strands
  <1>2. Cancelled(s) = Failing(s, failed)
    BY DEF Cancelled, Failing, Unset
  <1>3. failed \in SUBSET Unset(s)
    OBVIOUS
  <1>4. PICK n \in Nat : n = Len(s.promise)
    BY <1>1
  <1> DEFINE w == [i \in 1..n |-> IF i \in Queued(s) /\ s.promise[i] = "unset"
                                  THEN "exception" ELSE s.promise[i]]
  <1>5. Cancelled(s) = w
    BY <1>1, <1>4 DEF Cancelled
  <1>6. Len(w) = n
    OBVIOUS
  <1> HIDE DEF w, failed
  <1> QED BY <1>2, <1>3, <1>4, <1>5, <1>6

LEMMA QueueAnswers ==
  ASSUME NEW f \in 0..1, NEW s \in Strands, Good(f, s), AnswerInv(f, s), s.handlers # <<>>,
         NEW status \in {"Normal", "Stopped"},
         Head(s.handlers) = "error" \/ Dormant(s)
  PROVE  LET z == Taken(cancelQueuedOperations([s EXCEPT !.mStatus = status]))
         IN  /\ z \in Strands /\ z.wire = s.wire /\ AnswerInv(f, z)
             /\ \E failed \in SUBSET Unset(s) : z.promise = Failing(s, failed)
             /\ KeepsPromises(s, z) \/ Done(z) = Len(s.promise)
  <1> DEFINE t == [s EXCEPT !.mStatus = status]
             m == cancelQueuedOperations(t)
             z == Taken(m)
  <1>1. /\ t \in Strands /\ SameData(s, t) /\ t.handlers = s.handlers
        /\ t.mQueueEmpty = s.mQueueEmpty
    BY DEF Strands, SameData
  <1> HIDE DEF t
  <1>2. "error" \in Turns /\ s.handlers \in Seq(Handlers)
    BY DEF Turns, Strands
  <1>3. /\ s.inFlight = Idle /\ ~HasTurn(Tail(s.handlers))
        /\ Posted(s.handlers, "error") \/ Dormant(s)
    BY <1>2, HeadHasTurn, TailHandlers DEF Dormant
  <1>4. z \in Strands
    <2>1. Head(s.handlers) \in Turns \/ Dormant(s)
      BY <1>2
    <2> QED BY <2>1, CancelQueueTurn DEF Took, z, m, t
  <1>5. CASE t.mQueueEmpty
    <2>1. m = t
      BY <1>5 DEF cancelQueuedOperations
    <2>2. z.handlers = Tail(s.handlers) /\ SameData(s, z)
      BY <1>1, <2>1, TakenFields DEF SameData
    <2> HIDE DEF z
    <2>3. \A h \in Turns : Posted(z.handlers, h) => Posted(s.handlers, h)
      BY <1>2, <2>2, TailHandlers
    <2>4. Kept(s, z)
      BY <2>2, <2>3, SameDataKept
    <2>5. Good(f, z)
      <3>1. OneTurn(z.handlers)
        BY <1>3, <2>2 DEF OneTurn, HasTurn
      <3> QED BY <1>4, <2>2, <2>3, <3>1, QuietChange
    <2>6. AnswerInv(f, z)
      BY <1>4, <2>4, <2>5, KeptAnswers
    <2> QED BY <1>4, <2>2, <2>4, <2>6, NoneFailing DEF SameData, Kept, KeepsPromises, z, m, t
  <1>6. CASE ~t.mQueueEmpty
    <2> DEFINE p == Cancelled(s)  e == <<>>  q == Tail(s.handlers)
    <2>1. Cancelled(t) = p
      BY <1>1 DEF Cancelled, Queued, SameData
    <2>2. m = [t EXCEPT !.promise = p, !.mQueue = e, !.mQueueEmpty = TRUE]
      BY <1>6, <2>1 DEF cancelQueuedOperations
    <2>3. z = [m EXCEPT !.handlers = q]
      <3>1. m.handlers = s.handlers
        BY <1>1, <2>2 DEF Strands
      <3> QED BY <3>1 DEF Taken
    <2> HIDE DEF p, e, q
    <2>4. /\ z.promise = p /\ z.mQueue = e /\ z.handlers = q /\ z.wire = t.wire
          /\ z.inFlight = t.inFlight
      BY <1>1, <2>2, <2>3 DEF Strands
    <2>5. z.wire = s.wire /\ z.inFlight = Idle
      BY <1>1, <1>3, <2>4 DEF SameData
    <2> HIDE DEF z, m
    <2>6. /\ \E failed \in SUBSET Unset(s) : p = Failing(s, failed)
          /\ Len(p) = Len(s.promise) /\ Len(s.promise) \in Nat
      BY ClearedAnswers, QueueContents DEF p, Good
    <2>7. Due(f, z) = Due(f, s) /\ Done(z) = Len(s.promise)
      <3>1. Len(e) = 0
        BY DEF e
      <3> QED BY <2>4, <2>5, <2>6, <3>1 DEF Due, Done
    <2>8. ~Posted(z.handlers, "error")
      BY <1>2, <1>3, <2>4 DEF Posted, HasTurn, q
    <2>9. AnswerInv(f, z)
      BY <2>4, <2>6, <2>7, <2>8 DEF AnswerInv
    <2> QED BY <1>4, <2>4, <2>5, <2>6, <2>7, <2>9 DEF z, m, t
  <1> QED BY <1>5, <1>6

(* Only a connection that broke or a cancel ends what is queued.           *)
LEMMA EndingAnswers ==
  ASSUME Inv, ConduitInv, DrainInv, NEW d \in Dir, HandleError(d) \/ HandleCancelOperations(d)
  PROVE  /\ UNCHANGED <<mode, connect, user, cancel, peer>> /\ connect = "done" /\ ~Healthy
         /\ terminated' \in {terminated, "promise"}
         /\ \E z \in Strands :
              /\ strand' = [strand EXCEPT ![d] = z] /\ z.wire = strand[d].wire
              /\ AnswerInv(First(d), z)
              /\ \E failed \in SUBSET Unset(strand[d]) : z.promise = Failing(strand[d], failed)
              /\ KeepsPromises(strand[d], z) \/ Done(z) = Len(strand[d].promise)
  <1> DEFINE s == strand[d]  f == First(d)
  <1>1. PICK h \in {"error", "cancelOperations"}, status \in {"Stopped", s.mStatus} :
          /\ Handle(d, h, cancelQueuedOperations([s EXCEPT !.mStatus = status]))
          /\ terminated' \in {terminated, "promise"}
    BY DEF HandleError, HandleCancelOperations, CancelQueue
  <1> DEFINE z == Taken(cancelQueuedOperations([s EXCEPT !.mStatus = status]))
  <1>2. /\ s \in Strands /\ Good(f, s) /\ f \in 0..1 /\ AnswerInv(f, s)
        /\ s.handlers # <<>> /\ Head(s.handlers) = h /\ s.handlers \in Seq(Handlers)
        /\ status \in {"Normal", "Stopped"}
    BY <1>1, HandleOf DEF ConduitInv, Strands
  <1>3. /\ strand' = [strand EXCEPT ![d] = z]
        /\ UNCHANGED <<mode, connect, user, cancel, peer>>
    BY <1>1 DEF Handle, Taken
  <1>4. Posted(s.handlers, h)
    BY <1>2, TailHandlers
  <1>5. ~Healthy
    BY <1>4 DEF DrainInv, Drains, Unharmed, Harms
  <1>6. connect = "done" /\ (h = "error" \/ Dormant(s))
    <2>1. CASE h = "error"
      <3>1. h \in Turns
        BY <2>1 DEF Turns
      <3> QED BY <1>2, <2>1, <3>1, HeadConnected DEF Connected
    <2>2. CASE h = "cancelOperations"
      BY <1>4, <2>2 DEF Inv, OpenInv, Connected
    <2> QED BY <2>1, <2>2
  <1>7. /\ z \in Strands /\ z.wire = s.wire /\ AnswerInv(f, z)
        /\ \E failed \in SUBSET Unset(s) : z.promise = Failing(s, failed)
        /\ KeepsPromises(s, z) \/ Done(z) = Len(s.promise)
    BY <1>2, <1>6, QueueAnswers
  <1> QED BY <1>1, <1>3, <1>5, <1>6, <1>7

-----------------------------------------------------------------------------
(* Either direction is a conduit: its steps                                *)

Direction(d) == INSTANCE Conduit WITH
  first <- First(d), answer <- strand[d].promise, carried <- strand[d].wire,
  healthy <- Healthy, phase <- Phase

ConduitStep(d) == [Direction(d)!Next]_(Direction(d)!vars)

(* What a direction shows besides its strand.                              *)
SameControl == UNCHANGED <<mode, user, cancel, peer, terminated>>

LEMMA SameShown ==
  ASSUME SameControl, Running
  PROVE  Healthy' = Healthy /\ Phase' = Phase /\ Phase = "open"
         /\ \A d \in Dir : First(d)' = First(d)
  BY DEF SameControl, Healthy, Phase, First, Running

LEMMA Stutters ==
  ASSUME NEW d \in Dir, First(d)' = First(d), Healthy' = Healthy, Phase' = Phase,
         strand'[d].promise = strand[d].promise, strand'[d].wire = strand[d].wire
  PROVE  ConduitStep(d)
  BY DEF ConduitStep, Direction!vars

LEMMA KeptStutters ==
  ASSUME KeepsAll, Healthy' = Healthy, Phase' = Phase
  PROVE  \A d \in Dir : ConduitStep(d)
  <1>1. \A d \in Dir : First(d)' = First(d)
    BY DEF KeepsAll, First
  <1> QED BY <1>1, Stutters DEF KeepsAll, Kept

LEMMA Fails ==
  ASSUME NEW d \in Dir, First(d)' = First(d), Phase = "open", ~Healthy, ~Healthy',
         Phase' \in {"open", "over"}, strand'[d].wire = strand[d].wire,
         NEW failed \in SUBSET Unset(strand[d]),
         strand'[d].promise = Failing(strand[d], failed)
  PROVE  ConduitStep(d)
  <1>1. Healthy' = Healthy
    BY DEF Healthy
  <1>2. Direction(d)!Fail
    BY <1>1 DEF Direction!Fail, Unset, Failing
  <1> QED BY <1>2 DEF ConduitStep, Direction!Next

(* The process ends.                                                       *)
LEMMA KeptFails ==
  ASSUME Inv, KeepsAll, Phase = "open", ~Healthy, ~Healthy', Phase' \in {"open", "over"}
  PROVE  \A d \in Dir : ConduitStep(d)
  <1> SUFFICES ASSUME NEW d \in Dir PROVE ConduitStep(d)
    OBVIOUS
  <1>1. First(d)' = First(d)
    BY DEF KeepsAll, First
  <1>2. strand'[d].promise = strand[d].promise /\ strand'[d].wire = strand[d].wire
    BY DEF KeepsAll, Kept
  <1>3. strand[d].promise = Failing(strand[d], {}) /\ {} \in SUBSET Unset(strand[d])
    BY GoodStrand, NoneFailing
  <1> QED BY <1>1, <1>2, <1>3, Fails

LEMMA CarrySteps ==
  ASSUME NEW d \in Dir, First(d)' = First(d), Phase = "open", Phase' = Phase,
         Healthy' = Healthy, Carries(First(d), strand[d], strand'[d]),
         strand[d].inFlight # ConnectionString =>
           strand[d].promise[strand[d].inFlight] \in {"none", "unset", "badSize"}
  PROVE  ConduitStep(d)
  <1>1. /\ strand[d].inFlight = Due(First(d), strand[d])
        /\ Due(First(d), strand[d]) # 0 => Due(First(d), strand[d]) \in DOMAIN strand[d].promise
    BY DEF Carries, InSocket
  <1>2. Direction(d)!MayBeCarried
    BY <1>1 DEF Direction!MayBeCarried, Direction!Due, Due, ConnectionString
  <1>3. Direction(d)!Carry
    BY <1>2 DEF Direction!Carry, Direction!Due, Direction!Answered, Due, Carries, Answered
  <1> QED BY <1>3 DEF ConduitStep, Direction!Next

LEMMA MisfitSteps ==
  ASSUME NEW d \in Dir, First(d)' = First(d), Phase = "open", Phase' = Phase,
         Healthy' = Healthy, InSocket(First(d), strand[d]),
         strand[d].inFlight # ConnectionString,
         strand[d].promise[strand[d].inFlight] \in {"none", "unset", "badSize"},
         strand'[d].wire = strand[d].wire,
         strand'[d].promise = Answered(strand[d], Due(First(d), strand[d]), "badSize")
  PROVE  ConduitStep(d)
  <1>1. /\ strand[d].inFlight = Due(First(d), strand[d])
        /\ Due(First(d), strand[d]) # 0 => Due(First(d), strand[d]) \in DOMAIN strand[d].promise
    BY DEF InSocket
  <1>2. Direction(d)!MayBeCarried
    BY <1>1 DEF Direction!MayBeCarried, Direction!Due, Due, ConnectionString
  <1>3. Direction(d)!Misfit
    BY <1>2 DEF Direction!Misfit, Direction!Due, Direction!Answered, Due, Answered
  <1> QED BY <1>3 DEF ConduitStep, Direction!Next

(* The connection breaks, or somebody cancels.                             *)
LEMMA BreakSteps ==
  ASSUME KeepsAll, Phase = "open", Phase' = Phase, ~Healthy'
  PROVE  \A d \in Dir : ConduitStep(d)
  <1> SUFFICES ASSUME NEW d \in Dir PROVE ConduitStep(d)
    OBVIOUS
  <1>1. First(d)' = First(d)
    BY DEF KeepsAll, First
  <1>2. strand'[d].promise = strand[d].promise /\ strand'[d].wire = strand[d].wire
    BY DEF KeepsAll, Kept
  <1>3. Healthy' = FALSE
    BY DEF Healthy
  <1>4. Direction(d)!Break
    BY <1>2, <1>3 DEF Direction!Break
  <1> QED BY <1>1, <1>4 DEF ConduitStep, Direction!Next

LEMMA CloseSteps ==
  ASSUME NEW d \in Dir, First(d)' = First(d), Phase = "open", Phase' = "closed",
         Healthy' = Healthy, UNCHANGED strand,
         Healthy => \A i \in DOMAIN strand[d].promise : i < Due(First(d), strand[d])
  PROVE  ConduitStep(d)
  <1>1. Direction(d)!Close
    BY DEF Direction!Close, Direction!Due, Due
  <1> QED BY <1>1 DEF ConduitStep, Direction!Next

LEMMA CallSteps ==
  ASSUME NEW d \in Dir, First(d)' = First(d), Phase = "open", Phase' = Phase,
         Healthy' = Healthy, strand'[d].wire = strand[d].wire,
         NEW v \in {"none", "unset"}, strand'[d].promise = Append(strand[d].promise, v)
  PROVE  ConduitStep(d)
  <1>1. Direction(d)!Call
    BY DEF Direction!Call
  <1> QED BY <1>1 DEF ConduitStep, Direction!Next

Refines == ConduitInv' /\ \A d \in Dir : ConduitStep(d)

LEMMA KeptRefines ==
  ASSUME Inv, Inv', ConduitInv, KeepsAll, Running,
         \/ Healthy' = Healthy /\ Phase' = Phase
         \/ ~Healthy /\ ~Healthy' /\ Phase' \in {"open", "over"}
  PROVE  Refines
  <1>1. Phase = "open"
    BY DEF Running, Phase
  <1> QED BY <1>1, ConduitKept, KeptStutters, KeptFails DEF Refines

LEMMA KeptSame ==
  ASSUME Inv, Inv', ConduitInv, KeepsAll, Running, UNCHANGED <<cancel, peer>>,
         terminated' = terminated, user.pc' = "closed" <=> user.pc = "closed"
  PROVE  Refines
  <1>1. Healthy' = Healthy /\ Phase' = Phase
    BY DEF Healthy, Phase
  <1> QED BY <1>1, KeptRefines

LEMMA KeptEnds ==
  ASSUME Inv, Inv', ConduitInv, KeepsAll, Running, UNCHANGED <<cancel, peer>>,
         terminated' # "no", ~Healthy
  PROVE  Refines
  <1>1. ~Healthy' /\ Phase' = "over"
    BY DEF Healthy, Phase
  <1> QED BY <1>1, KeptRefines

(* Strands are started.                                                    *)
LEMMA OpenerAnswers ==
  ASSUME NEW f \in 0..1, NEW s \in Strands, AnswerInv(f, s), Dormant(s), NoneFailed(s),
         NEW h \in Openers
  PROVE  AnswerInv(f, Post(s, h))
  <1> DEFINE z == Post(s, h)
  <1>1. s.handlers \in Seq(Handlers) /\ h \in Handlers /\ h # "error" /\ "error" \in Turns
    BY DEF Strands, Handlers, Turns, Openers
  <1>2. z.handlers = Append(s.handlers, h) /\ SameData(s, z)
    BY DEF Post, Strands, SameData
  <1> HIDE DEF z
  <1>3. ~Posted(z.handlers, "error")
    <2>1. ~Posted(s.handlers, "error")
      BY <1>1, PostedTurn DEF Dormant
    <2> QED BY <1>1, <1>2, <2>1, AppendHandlers
  <1>4. Due(f, z) = Due(f, s) /\ z.promise = s.promise /\ z.inFlight = s.inFlight
        /\ z.result = s.result
    BY <1>2 DEF SameData, Due
  <1>5. AnswerInv(f, z)
    BY <1>3, <1>4 DEF AnswerInv, NoneFailed
  <1> QED BY <1>5 DEF z

LEMMA ConnectRefines ==
  ASSUME Inv, Inv', ConduitInv, Running, connect # "done", connect' = "done",
         strand' = [d \in Dir |->
           Post(strand[d], IF First(d) = 0 THEN "connectionString" ELSE "open")],
         SameControl
  PROVE  Refines
  <1>1. ASSUME NEW d \in Dir
        PROVE  AnswerInv(First(d)', strand'[d]) /\ ConduitStep(d)
    <2> DEFINE s == strand[d]  h == IF First(d) = 0 THEN "connectionString" ELSE "open"
    <2>1. /\ s \in Strands /\ First(d) \in 0..1 /\ AnswerInv(First(d), s)
          /\ Dormant(s) /\ NoneFailed(s)
      BY GoodStrand DEF ConduitInv, Inv, OpenInv, Connected
    <2>2. h \in Openers
      BY DEF Openers
    <2>3. strand'[d] = Post(s, h) /\ First(d)' = First(d)
      BY DEF SameControl, First
    <2> HIDE DEF h
    <2>4. AnswerInv(First(d)', strand'[d])
      BY <2>1, <2>2, <2>3, OpenerAnswers
    <2>5. strand'[d].promise = s.promise /\ strand'[d].wire = s.wire
      BY <2>1, <2>3 DEF Post, Strands
    <2> QED BY <2>3, <2>4, <2>5, SameShown, Stutters
  <1> QED BY <1>1 DEF Refines, ConduitInv

LEMMA ConnectingRefines ==
  ASSUME Inv, Inv', ConduitInv, DrainInv, Running,
         ConnectOutcome \/ ConnectCallback \/ RetryTimer \/ startSocket
  PROVE  Refines
  <1>1. CASE ConnectOutcome \/ RetryTimer
    <2>1. /\ UNCHANGED <<mode, strand, user, cancel, peer, terminated>> /\ connect # "done"
      BY <1>1 DEF ConnectOutcome, RetryTimer
    <2> QED BY <2>1, UnchangedKept, KeptSame
  <1>2. CASE startSocket
    <2>1. /\ mode = "Server" /\ connect = "waiting" /\ connect' = "done" /\ SameControl
      BY <1>2 DEF startSocket, Inv, OpenInv, SameControl
    <2>2. \A d \in Dir : (IF First(d) = 0 THEN "connectionString" ELSE "open") = "open"
      BY <2>1 DEF First
    <2>3. strand' = [d \in Dir |->
               Post(strand[d], IF First(d) = 0 THEN "connectionString" ELSE "open")]
      BY <1>2, <2>2 DEF startSocket
    <2> QED BY <2>1, <2>3, ConnectRefines
  <1>3. CASE ConnectCallback /\ connect = "succeeded" /\ open
    <2>1. connect' = "done" /\ SameControl
      BY <1>3 DEF ConnectCallback, SameControl
    <2> QED BY <1>3, <2>1, ConnectedCallback, ConnectRefines
  <1>4. CASE ConnectCallback /\ connect = "succeeded" /\ ~open
    <2>1. UNCHANGED <<mode, strand, connect, user, cancel, peer>> /\ terminated' = "socket"
      BY <1>4 DEF ConnectCallback
    <2>2. ~Healthy
      BY <1>4 DEF DrainInv, Running
    <2> QED BY <2>1, <2>2, UnchangedKept, KeptEnds
  <1>5. CASE ConnectCallback /\ connect # "succeeded"
    <2>1. UNCHANGED <<mode, strand, user, cancel, peer, terminated>> /\ connect # "done"
      BY <1>5 DEF ConnectCallback
    <2> QED BY <2>1, UnchangedKept, KeptSame
  <1> QED BY <1>1, <1>2, <1>3, <1>4, <1>5

LEMMA HandledControl ==
  ASSUME NEW d \in Dir, RunStrand(d), ~HandleError(d), ~HandleCancelOperations(d)
  PROVE  /\ UNCHANGED <<mode, user, cancel, peer>>
         /\ terminated' = terminated \/ (cancel = "done" /\ terminated' = "handle")
  BY DEF RunStrand, HandleEnqueue, HandleOpen, HandleComplete, HandleClose, HandleCancel,
         HandleConnectionString, HandleConnectionStringSent, ReplacePromise, Handle

LEMMA HandlersKeep ==
  ASSUME Inv, NEW d \in Dir, RunStrand(d), ~(HandleError(d) \/ HandleCancelOperations(d))
  PROVE  KeepsAll
  <1> DEFINE s == strand[d]
  <1>1. s \in Strands /\ Good(First(d), s) /\ First(d) \in 0..1
    BY GoodStrand
  <1>2. CASE ReplacePromise(d)
    <2> DEFINE z == [s EXCEPT !.replacing = FALSE]
    <2>1. strand' = [strand EXCEPT ![d] = z] /\ UNCHANGED <<mode, connect>>
      BY <1>2 DEF ReplacePromise, Inv, StrandsGood
    <2>2. SameData(s, z) /\ z.handlers = s.handlers
      BY <1>1 DEF Strands, SameData
    <2> HIDE DEF z
    <2> QED BY <1>1, <2>1, <2>2, SameDataKept, OneKept
  <1>3. CASE HandleCancel(d)
    <2> DEFINE m == EmptyIfNoItems(s)  z == Taken(m)
    <2>1. /\ strand' = [strand EXCEPT ![d] = z] /\ UNCHANGED <<mode, connect>>
          /\ s.handlers # <<>>
      BY <1>3 DEF HandleCancel, Handle, activeRecvSizeError, Taken
    <2>2. m \in Strands /\ SameData(s, m) /\ m.handlers = s.handlers
      BY <1>1 DEF EmptyIfNoItems, Strands, SameData
    <2> HIDE DEF m
    <2>3. z.handlers = Tail(s.handlers) /\ SameData(s, z) /\ s.handlers \in Seq(Handlers)
      BY <1>1, <2>1, <2>2, TakenFields DEF SameData, Strands
    <2> HIDE DEF z
    <2>4. \A h \in Turns : Posted(z.handlers, h) => Posted(s.handlers, h)
      BY <2>1, <2>3, TailHandlers
    <2> QED BY <1>1, <2>1, <2>3, <2>4, SameDataKept, OneKept
  <1>4. CASE ~ReplacePromise(d) /\ ~HandleCancel(d)
    BY <1>4, StrandWorks, WorkingKept DEF Ending
  <1> QED BY <1>2, <1>3, <1>4

LEMMA RunStrandRefines ==
  ASSUME Inv, Inv', ConduitInv, DrainInv, Running, NEW d \in Dir, RunStrand(d)
  PROVE  Refines
  <1> DEFINE s == strand[d]
  <1>1. s \in Strands /\ Good(First(d), s) /\ First(d) \in 0..1
    BY GoodStrand
  <1>2. CASE HandleError(d) \/ HandleCancelOperations(d)
    <2>1. /\ UNCHANGED <<mode, connect, user, cancel, peer>> /\ connect = "done" /\ ~Healthy
          /\ terminated' \in {terminated, "promise"}
      BY <1>2, EndingAnswers
    <2>2. PICK z \in Strands :
            /\ strand' = [strand EXCEPT ![d] = z] /\ z.wire = s.wire
            /\ AnswerInv(First(d), z)
            /\ \E failed \in SUBSET Unset(s) : z.promise = Failing(s, failed)
      BY <1>2, EndingAnswers
    <2>3. ConduitInv'
      BY <2>1, <2>2, OneAnswers
    <2>4. Phase = "open" /\ Phase' \in {"open", "over"} /\ ~Healthy'
      BY <2>1 DEF Running, Phase, Healthy
    <2>5. ASSUME NEW e \in Dir PROVE ConduitStep(e)
      <3>1. First(e)' = First(e) /\ strand'[e] = IF e = d THEN z ELSE strand[e]
        BY <2>1, <2>2, OneChanged DEF First
      <3>2. strand[e].promise = Failing(strand[e], {}) /\ {} \in SUBSET Unset(strand[e])
        BY GoodStrand, NoneFailing
      <3>3. PICK failed \in SUBSET Unset(strand[e]) :
              strand'[e].promise = Failing(strand[e], failed)
        BY <2>2, <3>1, <3>2
      <3>4. strand'[e].wire = strand[e].wire
        BY <2>2, <3>1
      <3> QED BY <2>1, <2>4, <3>1, <3>3, <3>4, Fails
    <2> QED BY <2>3, <2>5 DEF Refines
  <1>3. CASE ~(HandleError(d) \/ HandleCancelOperations(d))
    <2>1. KeepsAll
      BY <1>3, HandlersKeep
    <2>2. /\ UNCHANGED <<mode, user, cancel, peer>>
          /\ terminated' = terminated \/ (cancel = "done" /\ terminated' = "handle")
      BY <1>3, HandledControl
    <2>3. CASE terminated' = terminated
      BY <2>1, <2>2, <2>3, KeptSame
    <2>4. CASE cancel = "done" /\ terminated' = "handle"
      <3>1. ~Healthy
        BY <2>4 DEF Healthy
      <3> QED BY <2>1, <2>2, <2>4, <3>1, KeptEnds
    <2> QED BY <2>2, <2>3, <2>4
  <1> QED BY <1>2, <1>3

(* The other strand of a step of one.                                      *)
LEMMA OtherStutters ==
  ASSUME Inv, Running, SameControl, NEW d \in Dir, NEW z, strand' = [strand EXCEPT ![d] = z],
         ConduitStep(d)
  PROVE  \A e \in Dir : ConduitStep(e)
  <1> SUFFICES ASSUME NEW e \in Dir, e # d PROVE ConduitStep(e)
    OBVIOUS
  <1>1. strand'[e] = strand[e]
    BY OneChanged
  <1> QED BY <1>1, SameShown, Stutters

LEMMA CarriesRefines ==
  ASSUME Inv, ConduitInv, Running, SameControl, UNCHANGED connect, NEW d \in Dir,
         NEW z \in Strands, strand' = [strand EXCEPT ![d] = z],
         Carries(First(d), strand[d], z), Done(z) = Done(strand[d])
  PROVE  Refines
  <1> DEFINE s == strand[d]
  <1>1. s \in Strands /\ Good(First(d), s) /\ First(d) \in 0..1 /\ AnswerInv(First(d), s)
    BY GoodStrand DEF ConduitInv
  <1>2. s.inFlight # Idle /\ s.result = "none" /\ strand'[d] = z
    <2>1. \A e \in Dir : strand'[e] = IF e = d THEN z ELSE strand[e]
      BY OneChanged
    <2> QED BY <2>1 DEF Carries, InSocket
  <1>3. AnswerInv(First(d), z) /\ connect = "done"
    BY <1>1, <1>2, CarriesAnswers, FlightConnected
  <1>4. ConduitInv'
    BY <1>3, OneAnswers DEF SameControl
  <1>5. ConduitStep(d)
    BY <1>2, SocketPromise, SameShown, CarrySteps
  <1> QED BY <1>4, <1>5, OtherStutters DEF Refines

(* A broken connection, or one that cancel() closed.                       *)
LEMMA Unhealthy ==
  ASSUME Inv, DrainInv, Running, NEW d \in Dir, strand[d].inFlight # Idle,
         ~open \/ peer = "down"
  PROVE  ~Healthy
  BY FlightConnected DEF DrainInv, Healthy, Running

LEMMA BreaksRefines ==
  ASSUME Inv, ConduitInv, DrainInv, Running, SameControl, UNCHANGED connect, NEW d \in Dir,
         NEW z \in Strands, strand' = [strand EXCEPT ![d] = z],
         Breaks(First(d), strand[d], z), ~open \/ peer = "down"
  PROVE  Refines
  <1> DEFINE s == strand[d]
  <1>1. s \in Strands /\ Good(First(d), s) /\ First(d) \in 0..1 /\ AnswerInv(First(d), s)
    BY GoodStrand DEF ConduitInv
  <1>2. s.inFlight # Idle /\ strand'[d] = z /\ z.wire = s.wire
    <2>1. \A e \in Dir : strand'[e] = IF e = d THEN z ELSE strand[e]
      BY OneChanged
    <2> QED BY <2>1 DEF Breaks, InSocket
  <1>3. AnswerInv(First(d), z) /\ connect = "done"
    BY <1>1, <1>2, BreaksAnswers, FlightConnected
  <1>4. ConduitInv'
    BY <1>3, OneAnswers DEF SameControl
  <1>5. PICK failed \in SUBSET Unset(s) : z.promise = Failing(s, failed)
    <2>1. CASE z.promise = s.promise
      BY <1>1, <2>1, NoneFailing
    <2>2. CASE z.promise = Answered(s, Due(First(d), s), "exception")
      <3> DEFINE failed == {i \in Unset(s) : i = Due(First(d), s)}
      <3>1. Answered(s, Due(First(d), s), "exception") = Failing(s, failed)
        BY DEF Answered, Failing, Unset
      <3> QED BY <2>2, <3>1
    <2> QED BY <2>1, <2>2 DEF Breaks
  <1>6. ~Healthy /\ ~Healthy' /\ Phase = "open" /\ Phase' = "open" /\ First(d)' = First(d)
    BY <1>2, Unhealthy, SameShown
  <1>7. ConduitStep(d)
    BY <1>2, <1>5, <1>6, Fails
  <1> QED BY <1>4, <1>7, OtherStutters DEF Refines

LEMMA IOResultRefines ==
  ASSUME Inv, Inv', ConduitInv, DrainInv, Running, NEW d \in Dir, IOResult(d)
  PROVE  Refines
  <1>1. SameControl /\ UNCHANGED connect
    BY DEF IOResult, SameControl
  <1>2. PICK z \in Strands :
          /\ strand' = [strand EXCEPT ![d] = z] /\ Done(z) = Done(strand[d])
          /\ \/ Carries(First(d), strand[d], z)
             \/ Breaks(First(d), strand[d], z) /\ (~open \/ peer = "down")
    BY IOAnswers
  <1> QED BY <1>1, <1>2, CarriesRefines, BreaksRefines

LEMMA ReschedulesRefines ==
  ASSUME Inv, Inv', ConduitInv, DrainInv, Running, UserReschedules
  PROVE  Refines
  <1>1. SameControl /\ UNCHANGED connect /\ "Recv" \in Dir
    BY DEF UserReschedules, SameControl, Dir
  <1>2. PICK z \in Strands :
          /\ strand' = [strand EXCEPT !["Recv"] = z] /\ Done(z) = Done(strand["Recv"])
          /\ \/ Carries(First("Recv"), strand["Recv"], z)
             \/ Breaks(First("Recv"), strand["Recv"], z) /\ (~open \/ peer = "down")
    BY ReschedulesAnswers
  <1> QED BY <1>1, <1>2, CarriesRefines, BreaksRefines

LEMMA BadSizeRefines ==
  ASSUME Inv, Inv', ConduitInv, Running, BadSize
  PROVE  Refines
  <1> DEFINE s == strand["Recv"]  f == First("Recv")
  <1>1. SameControl /\ UNCHANGED connect /\ "Recv" \in Dir
    BY DEF BadSize, SameControl, Dir
  <1>2. PICK z \in Strands :
          /\ strand' = [strand EXCEPT !["Recv"] = z] /\ z.wire = s.wire
          /\ z.promise = Answered(s, Due(f, s), "badSize") /\ AnswerInv(f, z)
    BY BadSizeAnswers
  <1>3. s.inFlight # Idle /\ s.result = "none" /\ s.inFlight # ConnectionString
        /\ InSocket(f, s) /\ connect = "done" /\ strand'["Recv"] = z
    BY <1>1, <1>2, BadSizeAnswers, FlightConnected, OneChanged DEF BadSize
  <1>4. ConduitInv'
    BY <1>1, <1>2, <1>3, OneAnswers DEF SameControl
  <1>5. ConduitStep("Recv")
    BY <1>1, <1>2, <1>3, SocketPromise, SameShown, MisfitSteps
  <1> QED BY <1>1, <1>2, <1>4, <1>5, OtherStutters DEF Refines

(* The strand will hear of the answer.                                     *)
LEMMA DispatchRefines ==
  ASSUME Inv, Inv', ConduitInv, Running, NEW d \in Dir, IODispatch(d)
  PROVE  Refines
  <1> DEFINE s == strand[d]
             f == First(d)
             h == IF s.result = "error" THEN "error"
                  ELSE IF s.inFlight = ConnectionString THEN "connectionStringSent"
                  ELSE "complete"
             z == Post([s EXCEPT !.result = "none", !.inFlight = Idle], h)
  <1>1. /\ s.result # "none" /\ strand' = [strand EXCEPT ![d] = z]
        /\ SameControl /\ UNCHANGED connect
    BY DEF IODispatch, SameControl
  <1>2. s \in Strands /\ Good(f, s) /\ f \in 0..1 /\ AnswerInv(f, s)
    BY GoodStrand DEF ConduitInv
  <1>3. h \in {"error", "connectionStringSent", "complete"} /\ (h = "error" <=> s.result = "error")
    OBVIOUS
  <1> HIDE DEF h
  <1>4. Idle \in Int
    BY DEF Idle
  <1>5. /\ z.handlers = Append(s.handlers, h) /\ z.promise = s.promise /\ z.wire = s.wire
        /\ z.mQueue = s.mQueue /\ z.mSocketAvailable = s.mSocketAvailable
        /\ z.result = "none" /\ z.inFlight = Idle /\ s.handlers \in Seq(Handlers)
    BY <1>2, <1>4 DEF Strands, Post
  <1> HIDE DEF z
  <1>6. /\ s.inFlight # Idle /\ ~s.mSocketAvailable /\ ~HasTurn(s.handlers)
        /\ h \in Handlers /\ h \in Turns /\ "error" \in Turns
    BY <1>1, <1>2, <1>3 DEF Good, TurnInv, Handlers, Turns
  <1>7. /\ \A g \in Turns : ~Posted(s.handlers, g)
        /\ \A g : Posted(z.handlers, g) <=> Posted(s.handlers, g) \/ g = h
    <2>1. \A g \in Turns : ~Posted(s.handlers, g)
      BY <1>6 DEF HasTurn, Posted
    <2>2. \A g : Posted(z.handlers, g) <=> Posted(s.handlers, g) \/ g = h
      BY <1>5, <1>6, AppendHandlers
    <2> QED BY <2>1, <2>2
  <1>8. Going(z) => Going(s)
    BY <1>3, <1>5, <1>6, <1>7 DEF Going
  <1>9. Due(f, z) = Due(f, s) /\ Done(z) = Done(s)
    BY <1>5 DEF Due, Done
  <1>10. s.result = "error" => Due(f, s) <= Done(s) + 1
    <2> SUFFICES ASSUME s.result = "error" PROVE Due(f, s) <= Done(s) + 1
      OBVIOUS
    <2>1. Due(f, s) = s.inFlight /\ Done(s) \in Nat
      BY <1>2, <1>6, QueueContents DEF Good, FlightInv
    <2>2. s.inFlight \in Nat /\ (s.inFlight = 0 \/ s.inFlight = Done(s) + 1)
      BY <1>2, <1>6, InFlightType DEF Good, FlightInv
    <2> QED BY <2>1, <2>2
  <1>11. AnswerInv(f, z)
    <2>1. Posted(z.handlers, "error") => Due(f, z) <= Done(z) + 1
      BY <1>3, <1>6, <1>7, <1>9, <1>10
    <2> QED BY <1>1, <1>2, <1>5, <1>8, <1>9, <2>1 DEF AnswerInv
  <1>12. ConduitInv'
    BY <1>1, <1>6, <1>11, FlightConnected, OneAnswers DEF SameControl
  <1>13. ConduitStep(d)
    <2>1. strand' = [strand EXCEPT ![d] = z]
      BY <1>1
    <2>2. \A e \in Dir : strand'[e] = IF e = d THEN z ELSE strand[e]
      BY <2>1, OneChanged
    <2>3. strand'[d] = z
      BY <2>2
    <2> QED BY <1>1, <1>5, <2>3, SameShown, Stutters
  <1> QED BY <1>1, <1>12, <1>13, OtherStutters DEF Refines

-----------------------------------------------------------------------------
(* The steps of the threads                                                *)

LEMMA PushAnswers ==
  ASSUME NEW f \in 0..1, NEW s \in Strands, Good(f, s), AnswerInv(f, s),
         NEW v \in {"none", "unset"}
  PROVE  LET z == [s EXCEPT !.promise = Append(@, v),
                            !.mQueue = Append(@, Len(s.promise) + 1)]
         IN  /\ AnswerInv(f, z) /\ z.promise = Append(s.promise, v) /\ z.wire = s.wire
             /\ NoneFailed(s) => NoneFailed(z)
  <1> DEFINE z == [s EXCEPT !.promise = Append(@, v),
                            !.mQueue = Append(@, Len(s.promise) + 1)]
  <1>1. s.promise \in Seq(Promises) /\ v \in Promises
    BY DEF Strands, Promises
  <1>2. Done(z) = Done(s)
    BY Push
  <1>3. /\ z.promise = Append(s.promise, v) /\ z.wire = s.wire /\ z.handlers = s.handlers
        /\ z.inFlight = s.inFlight /\ z.result = s.result
        /\ z.mSocketAvailable = s.mSocketAvailable
    BY DEF Strands
  <1> HIDE DEF z
  <1>4. PICK n \in Nat : n = Len(s.promise)
    BY <1>1
  <1>5. /\ Len(z.promise) = n + 1 /\ z.promise[n + 1] = v
        /\ \A i \in 1..n : z.promise[i] = s.promise[i]
    BY <1>1, <1>3, <1>4, AppendFacts
  <1>6. Due(f, z) = Due(f, s) /\ (Going(z) <=> Going(s))
    BY <1>3 DEF Due, Going
  <1>7. \A i \in 1..(n + 1) : i \in 1..n \/ i = n + 1
    OBVIOUS
  <1>8. AnswerInv(f, z)
    BY <1>2, <1>3, <1>4, <1>5, <1>6, <1>7 DEF AnswerInv
  <1>9. NoneFailed(s) => NoneFailed(z)
    BY <1>4, <1>5, <1>7 DEF NoneFailed
  <1> QED BY <1>3, <1>8, <1>9 DEF z

LEMMA PushRefines ==
  ASSUME Inv, ConduitInv, Running, UserPush
  PROVE  Refines
  <1> DEFINE d == user.dir  s == strand[d]  f == First(d)
             v == IF d = "Send" /\ ~user.blocks THEN "none" ELSE "unset"
             z == [s EXCEPT !.promise = Append(@, v), !.mQueue = Append(@, Len(s.promise) + 1)]
  <1>1. /\ user.pc = "push" /\ d \in Dir /\ v \in {"none", "unset"}
        /\ user' = [user EXCEPT !.pc = "post"]
        /\ UNCHANGED <<mode, connect, cancel, peer, terminated>>
    BY DEF UserPush, Inv, ControlType
  <1>2. /\ s \in Strands /\ Good(f, s) /\ f \in 0..1 /\ AnswerInv(f, s)
        /\ connect # "done" => NoneFailed(s)
    BY <1>1, GoodStrand DEF ConduitInv
  <1>3. strand' = [strand EXCEPT ![d] = z]
    BY <1>1, <1>2 DEF UserPush, Inv, StrandsGood, Strands
  <1> HIDE DEF v
  <1>4. /\ AnswerInv(f, z) /\ z.promise = Append(s.promise, v) /\ z.wire = s.wire
        /\ NoneFailed(s) => NoneFailed(z)
    BY <1>1, <1>2, PushAnswers
  <1> HIDE DEF z
  <1>5. ConduitInv'
    BY <1>1, <1>2, <1>3, <1>4, OneAnswers
  <1>6. /\ Healthy' = Healthy /\ Phase' = Phase /\ Phase = "open"
        /\ \A e \in Dir : First(e)' = First(e)
    <2>1. user.pc' = "post"
      BY <1>1 DEF Inv, ControlType
    <2> QED BY <1>1, <2>1 DEF Healthy, Phase, Running, First
  <1>7. \A e \in Dir : strand'[e] = IF e = d THEN z ELSE strand[e]
    BY <1>1, <1>3, OneChanged
  <1>8. ASSUME NEW e \in Dir PROVE ConduitStep(e)
    <2>1. CASE e = d
      <3>1. strand'[e].promise = Append(strand[e].promise, v) /\ strand'[e].wire = strand[e].wire
        BY <1>4, <1>7, <2>1
      <3> QED BY <1>1, <1>6, <3>1, CallSteps
    <2>2. CASE e # d
      BY <1>6, <1>7, <2>2, Stutters
    <2> QED BY <2>1, <2>2
  <1> QED BY <1>5, <1>8 DEF Refines

LEMMA PostingRefines ==
  ASSUME Inv, Inv', ConduitInv, Running, UserPost \/ ClosePost
  PROVE  Refines
  <1>1. /\ UNCHANGED <<mode, connect, cancel, peer, terminated>>
        /\ user.pc # "closed" /\ user.pc' # "closed"
    BY DEF UserPost, ClosePost, Inv, ControlType
  <1>2. {"enqueue", "close"} \subseteq Handlers \ Turns
    BY DEF Handlers, Turns, Openers
  <1>3. \A d \in Dir : \A h \in {"enqueue", "close"} : Kept(strand[d], Post(strand[d], h))
    BY <1>2, GoodStrand, PostKept
  <1>4. KeepsAll
    <2>1. CASE UserPost
      <3>1. user.dir \in Dir /\ strand' = [strand EXCEPT ![user.dir] = Post(strand[user.dir], "enqueue")]
        BY <2>1 DEF UserPost, Inv, ControlType, StrandsGood
      <3> QED BY <1>1, <1>3, <3>1, OneKept
    <2>2. CASE ClosePost
      <3>1. \A d \in Dir : strand'[d] = Post(strand[d], "close")
        BY <2>2 DEF ClosePost
      <3> QED BY <1>1, <1>3, <3>1 DEF KeepsAll
    <2> QED BY <2>1, <2>2
  <1> QED BY <1>1, <1>4, KeptSame

LEMMA UserRefines ==
  ASSUME Inv, Inv', ConduitInv, DrainInv, Running, (\E d \in Dir : UserCalls(d)) \/ UserReturns
  PROVE  Refines
  <1>1. /\ UNCHANGED <<mode, strand, connect, cancel, peer>>
        /\ user.pc # "closed" /\ user.pc' # "closed"
    BY DEF UserCalls, UserReturns, Inv, ControlType
  <1>2. KeepsAll
    BY <1>1, UnchangedKept
  <1>3. CASE terminated' = terminated
    BY <1>1, <1>2, <1>3, KeptSame
  <1>4. CASE terminated' # terminated
    <2>1. PICK d \in Dir : UserCalls(d)
      BY <1>4 DEF UserReturns
    <2>2. /\ user.pc = "ready" /\ strand[d].mStatus = "Stopped" /\ terminated' = "expects"
      <3>1. strand[d].mStatus \in {"Normal", "Stopped"}
        BY GoodStrand DEF Strands
      <3> QED BY <1>4, <2>1, <3>1 DEF UserCalls
    <2>3. ~Healthy
      BY <2>2 DEF DrainInv, Drains, ClosesOnce, Asked
    <2> QED BY <1>1, <1>2, <2>2, <2>3, KeptEnds
  <1> QED BY <1>3, <1>4

(* A drained direction has carried all that was called.                    *)
LEMMA DrainedCarried ==
  ASSUME Inv, DrainInv, Healthy, NEW d \in Dir, strand[d].mQueueEmpty
  PROVE  \A i \in DOMAIN strand[d].promise : i < Due(First(d), strand[d])
  <1> DEFINE s == strand[d]  f == First(d)
  <1>1. s \in Strands /\ s.mQueue = <<>> /\ (Done(s) = 0 \/ Done(s) < Due(f, s))
    BY GoodStrand DEF DrainInv, Drains, ClosesOnce, Unharmed
  <1>2. PICK n \in Nat : n = Len(s.promise) /\ DOMAIN s.promise = 1..n
    BY <1>1 DEF Strands
  <1>3. Done(s) = n
    BY <1>1, <1>2 DEF Done
  <1>4. PICK k \in Int : k = Due(f, s)
    <2>1. Len(s.wire) \in Nat /\ f \in Int
      BY <1>1, FirstType DEF Strands
    <2> QED BY <2>1 DEF Due
  <1>5. n = 0 \/ n < k
    BY <1>1, <1>3, <1>4
  <1> QED BY <1>2, <1>4, <1>5

LEMMA ClosingRefines ==
  ASSUME Inv, Inv', ConduitInv, DrainInv, Running, CloseStart \/ CloseReturn
  PROVE  Refines
  <1>1. /\ UNCHANGED <<mode, connect, strand, cancel, peer, terminated>>
        /\ user.pc # "closed" /\ terminated = "no"
        /\ user'.pc \in {"closed", "closing"}
    BY DEF CloseStart, CloseReturn, Running, Inv, ControlType
  <1>2. KeepsAll
    BY <1>1, UnchangedKept
  <1>3. CASE user'.pc = "closing"
    BY <1>1, <1>2, <1>3, KeptSame
  <1>4. CASE user'.pc = "closed"
    <2>1. ASSUME Healthy, NEW d \in Dir
          PROVE  \A i \in DOMAIN strand[d].promise : i < Due(First(d), strand[d])
      <3>1. CASE CloseStart
        <4>1. user.pc = "ready" /\ stopped
          BY <1>4, <3>1 DEF CloseStart, Inv, ControlType
        <4> QED BY <2>1, <4>1, StoppedAsked DEF Asked
      <3>2. CASE CloseReturn
        BY <2>1, <3>2, DrainedCarried DEF CloseReturn
      <3> QED BY <3>1, <3>2
    <2>2. /\ Phase = "open" /\ Phase' = "closed" /\ Healthy' = Healthy
          /\ \A d \in Dir : First(d)' = First(d)
      BY <1>1, <1>4 DEF Phase, Healthy, First
    <2>3. \A d \in Dir : ConduitStep(d)
      BY <1>1, <2>1, <2>2, CloseSteps
    <2>4. ConduitInv'
      BY <1>2, ConduitKept
    <2> QED BY <2>3, <2>4 DEF Refines
  <1> QED BY <1>1, <1>3, <1>4

LEMMA CancelStartKept ==
  ASSUME Inv, NEW who \in {"user", "other"}, CancelStart(who)
  PROVE  KeepsAll
  <1>1. /\ UNCHANGED <<mode, connect>>
        /\ \/ strand' = strand
           \/ strand' = [d \in Dir |-> [strand[d] EXCEPT !.mStatus = "Stopped"]]
    BY DEF CancelStart
  <1>2. ASSUME NEW d \in Dir PROVE Kept(strand[d], strand'[d])
    <2>1. strand'[d] = strand[d] \/ strand'[d] = [strand[d] EXCEPT !.mStatus = "Stopped"]
      BY <1>1
    <2>2. strand[d] \in Strands /\ Good(First(d), strand[d])
      BY GoodStrand
    <2>3. SameData(strand[d], strand'[d]) /\ strand'[d].handlers = strand[d].handlers
      BY <2>1, <2>2 DEF Strands, SameData
    <2> QED BY <2>2, <2>3, SameDataKept
  <1> QED BY <1>1, <1>2 DEF KeepsAll

LEMMA CancelPostKept ==
  ASSUME Inv, CancelPost
  PROVE  KeepsAll
  <1>1. UNCHANGED <<mode, connect>>
    BY DEF CancelPost
  <1>2. {"cancel", "cancelOperations"} \subseteq Handlers \ Turns
    BY DEF Handlers, Turns, Openers
  <1>3. ASSUME NEW d \in Dir PROVE Kept(strand[d], strand'[d])
    <2> DEFINE s == strand[d]  t == Post(s, "cancelOperations")
    <2>1. s \in Strands /\ Good(First(d), s) /\ First(d) \in 0..1
      BY GoodStrand
    <2>2. t \in Strands /\ Good(First(d), t) /\ SameData(s, t)
          /\ \A g : Posted(t.handlers, g) <=> Posted(s.handlers, g) \/ g = "cancelOperations"
      BY <1>2, <2>1, PostQuiet
    <2>3. strand'[d] = Post(t, "cancel") \/ strand'[d] = Post(s, "cancel")
      BY DEF CancelPost
    <2> HIDE DEF t
    <2>4. CASE strand'[d] = Post(t, "cancel")
      <3> DEFINE z == Post(t, "cancel")
      <3>1. /\ SameData(t, z)
            /\ \A g : Posted(z.handlers, g) <=> Posted(t.handlers, g) \/ g = "cancel"
        BY <1>2, <2>1, <2>2, PostQuiet
      <3> HIDE DEF z
      <3>2. SameData(s, z)
        BY <2>2, <3>1 DEF SameData
      <3>3. \A g \in Turns : Posted(z.handlers, g) => Posted(s.handlers, g)
        BY <1>2, <2>2, <3>1
      <3>4. Kept(s, z)
        BY <2>1, <3>2, <3>3, SameDataKept
      <3> QED BY <2>4, <3>4 DEF z
    <2>5. CASE strand'[d] = Post(s, "cancel")
      BY <1>2, <2>1, <2>5, PostKept
    <2> QED BY <2>3, <2>4, <2>5
  <1> QED BY <1>1, <1>3 DEF KeepsAll

LEMMA CancelsKeep ==
  ASSUME Inv, Cancels
  PROVE  KeepsAll
  <1>1. CASE \E who \in Cancellers : CancelStart(who)
    BY <1>1, CancelStartKept, CancellersAssumption
  <1>2. CASE CancelPost
    BY <1>2, CancelPostKept
  <1>3. CASE cancelPendingChannel \/ CancelReturn
    <2>1. UNCHANGED <<mode, strand>> /\ (connect = "done" => connect' = "done")
      BY <1>3 DEF cancelPendingChannel, CancelReturn
    <2> QED BY <2>1, UnchangedKept
  <1> QED BY <1>1, <1>2, <1>3 DEF Cancels

LEMMA CancelRefines ==
  ASSUME Inv, Inv', ConduitInv, Running, Cancels
  PROVE  Refines
  <1>1. KeepsAll
    BY CancelsKeep
  <1>2. cancel' # "no" /\ terminated' = terminated /\ user.pc # "closed" /\ user.pc' # "closed"
    BY DEF Cancels, CancelStart, cancelPendingChannel, CancelPost, CancelReturn, Running,
           Inv, ControlType
  <1>3. ~Healthy' /\ Phase = "open" /\ Phase' = Phase
    BY <1>2 DEF Healthy, Phase, Running
  <1>4. ConduitInv' /\ \A d \in Dir : ConduitStep(d)
    BY <1>1, <1>3, ConduitKept, BreakSteps
  <1> QED BY <1>4 DEF Refines

LEMMA PeerRefines ==
  ASSUME Inv, Inv', ConduitInv, Running, PeerStarts \/ PeerGoes
  PROVE  Refines
  <1>1. UNCHANGED <<mode, strand, connect, user, cancel, terminated>>
    BY DEF PeerStarts, PeerGoes
  <1>2. KeepsAll /\ Phase' = Phase /\ Phase = "open"
    BY <1>1, UnchangedKept DEF Phase, Running
  <1>3. CASE PeerStarts
    <2>1. Healthy' = Healthy
      BY <1>1, <1>3 DEF PeerStarts, Healthy
    <2> QED BY <1>2, <2>1, KeptRefines
  <1>4. CASE PeerGoes
    <2>1. ~Healthy'
      BY <1>4 DEF PeerGoes, Healthy
    <2>2. ConduitInv' /\ \A d \in Dir : ConduitStep(d)
      BY <1>2, <2>1, ConduitKept, BreakSteps
    <2> QED BY <2>2 DEF Refines
  <1> QED BY <1>3, <1>4

LEMMA ConduitNext == Inv /\ Inv' /\ DrainInv /\ ConduitInv /\ [Next]_vars => Refines
  <1> SUFFICES ASSUME Inv, Inv', DrainInv, ConduitInv, [Next]_vars PROVE Refines
    OBVIOUS
  <1>1. CASE UNCHANGED vars
    <2>1. UNCHANGED <<mode, connect, strand, user, cancel, peer, terminated>>
      BY <1>1 DEF vars
    <2>2. KeepsAll /\ Healthy' = Healthy /\ Phase' = Phase
      BY <2>1, UnchangedKept DEF Healthy, Phase
    <2>3. ConduitInv' /\ \A d \in Dir : ConduitStep(d)
      BY <2>2, ConduitKept, KeptStutters
    <2> QED BY <2>3 DEF Refines
  <1>2. CASE Running /\ IO
    <2>1. CASE ConnectOutcome \/ ConnectCallback \/ RetryTimer \/ startSocket
      BY <1>2, <2>1, ConnectingRefines
    <2>2. CASE \E d \in Dir : RunStrand(d) \/ IOResult(d) \/ IODispatch(d)
      BY <1>2, <2>2, RunStrandRefines, IOResultRefines, DispatchRefines
    <2> QED BY <1>2, <2>1, <2>2 DEF IO
  <1>3. CASE Running /\ BadSize
    BY <1>3, BadSizeRefines
  <1>4. CASE Running /\ Users
    BY <1>4, UserRefines, PushRefines, PostingRefines, ReschedulesRefines, ClosingRefines
       DEF Users
  <1>5. CASE Running /\ Cancels
    BY <1>5, CancelRefines
  <1>6. CASE Running /\ (PeerStarts \/ PeerGoes)
    BY <1>6, PeerRefines
  <1> QED BY <1>1, <1>2, <1>3, <1>4, <1>5, <1>6 DEF Next, Over

LEMMA NewAnswers ==
  ASSUME NEW f \in 0..1
  PROVE  AnswerInv(f, NewStrand) /\ NoneFailed(NewStrand)
  <1>1. /\ NewStrand.handlers = <<>> /\ NewStrand.promise = <<>>
    BY DEF NewStrand
  <1> QED BY <1>1 DEF AnswerInv, NoneFailed, Posted

LEMMA InitConduit == Init => ConduitInv /\ \A d \in Dir : Direction(d)!Init
  <1> SUFFICES ASSUME Init PROVE ConduitInv /\ \A d \in Dir : Direction(d)!Init
    OBVIOUS
  <1>1. \A d \in Dir : strand[d] = NewStrand
    BY DEF Init
  <1>2. ConduitInv
    BY <1>1, FirstType, NewAnswers DEF ConduitInv
  <1>3. ASSUME NEW d \in Dir PROVE Direction(d)!Init
    <2>1. First(d) \in {0, 1} /\ Healthy /\ Phase = "open"
      BY DEF First, ConnectionString, Init, Healthy, Phase
    <2>2. NewStrand.promise = <<>> /\ NewStrand.wire = <<>>
      BY DEF NewStrand
    <2> QED BY <1>1, <2>1, <2>2 DEF Direction!Init, Healthy
  <1> QED BY <1>2, <1>3

(* The two directions.                                                     *)
LEMMA BothInit ==
  ASSUME \A d \in Dir : Direction(d)!Init
  PROVE  Sending!Init /\ Receiving!Init
  <1>1. "Send" \in Dir /\ "Recv" \in Dir
    BY DEF Dir
  <1> QED BY <1>1 DEF Direction!Init, Sending!Init, Receiving!Init

LEMMA BothStep ==
  ASSUME \A d \in Dir : ConduitStep(d)
  PROVE  [Sending!Next]_(Sending!vars) /\ [Receiving!Next]_(Receiving!vars)
  <1>1. ConduitStep("Send") /\ ConduitStep("Recv")
    BY DEF Dir
  <1>2. [Sending!Next]_(Sending!vars)
    BY <1>1 DEF ConduitStep, Direction!Next, Direction!vars, Direction!Call, Direction!Carry,
         Direction!Misfit, Direction!Break, Direction!Fail, Direction!Close, Direction!Due,
         Direction!MayBeCarried, Direction!Answered, Sending!Next, Sending!vars,
         Sending!Call, Sending!Carry, Sending!Misfit, Sending!Break, Sending!Fail,
         Sending!Close, Sending!Due, Sending!MayBeCarried, Sending!Answered
  <1>3. [Receiving!Next]_(Receiving!vars)
    BY <1>1 DEF ConduitStep, Direction!Next, Direction!vars, Direction!Call, Direction!Carry,
         Direction!Misfit, Direction!Break, Direction!Fail, Direction!Close, Direction!Due,
         Direction!MayBeCarried, Direction!Answered, Receiving!Next, Receiving!vars,
         Receiving!Call, Receiving!Carry, Receiving!Misfit, Receiving!Break, Receiving!Fail,
         Receiving!Close, Receiving!Due, Receiving!MayBeCarried, Receiving!Answered
  <1> QED BY <1>2, <1>3

(* What was answered and what was carried agree in every state: it is the  *)
(* part of the refinement that the steps themselves need.                  *)
THEOREM ConduitInvariance == Spec => []ConduitInv
  <1>1. Inv /\ Inv' /\ DrainInv /\ ConduitInv /\ [Next]_vars => ConduitInv'
    BY ConduitNext DEF Refines
  <1>2. Init => ConduitInv
    BY InitConduit
  <1> QED BY <1>1, <1>2, Invariance, DrainInvariance, PTL DEF Spec

(* Either direction of a channel implements Conduit, for every number of   *)
(* operations and however the channel is connected, closed, cancelled or   *)
(* broken: operations are carried in the order of their calls, an answer   *)
(* is given once, an operation fails and the process ends only after the   *)
(* connection broke or somebody cancelled, and otherwise close() returns   *)
(* when everything was carried.                                            *)
THEOREM ConduitImplemented == Spec => ImplementsConduit
  <1>1. Init => Sending!Init /\ Receiving!Init
    BY InitConduit, BothInit
  <1>2. Inv /\ Inv' /\ DrainInv /\ ConduitInv /\ [Next]_vars =>
          [Sending!Next]_(Sending!vars) /\ [Receiving!Next]_(Receiving!vars)
    BY ConduitNext, BothStep DEF Refines
  <1> QED BY <1>1, <1>2, Invariance, DrainInvariance, ConduitInvariance, PTL
          DEF Spec, ImplementsConduit, Sending!Spec, Receiving!Spec

-----------------------------------------------------------------------------
(* How the process may end                                                 *)

(* The process is ended, by an exception in one of its threads, only after *)
(* the connection broke or somebody called cancel().                       *)
THEOREM EndsWhenDisturbed == Spec => [](terminated # "no" => ~Healthy)
  <1> DEFINE Disturbed == Phase = "over" => ~Healthy
  <1>1. Sending!Init => Disturbed
    BY DEF Sending!Init
  <1>2. Disturbed /\ [Sending!Next]_(Sending!vars) => Disturbed'
    BY DEF Sending!Next, Sending!vars, Sending!Call, Sending!Carry, Sending!Misfit,
           Sending!Break, Sending!Fail, Sending!Close
  <1>3. Disturbed => (terminated # "no" => ~Healthy)
    BY DEF Phase
  <1> QED BY <1>1, <1>2, <1>3, ConduitImplemented, PTL DEF ImplementsConduit, Sending!Spec

(* What keeps a promise from being set twice: sends have none, and a       *)
(* receive that failed is out of the queue.                                *)
Single(d, s) ==
  \A i \in 1..Len(s.promise) :
    IF d = "Send" THEN s.promise[i] = "none" ELSE s.promise[i] = "exception" => i <= Done(s)

AsyncInv ==
  /\ \A d \in Dir : Single(d, strand[d])
  /\ user.pc = "push" /\ user.dir = "Send" => ~user.blocks

LEMMA KeepsSingle ==
  ASSUME NEW f, NEW s \in Strands, Good(f, s), NEW z \in Strands, Good(f, z),
         KeepsPromises(s, z), NEW d \in Dir, Single(d, s)
  PROVE  Single(d, z)
  <1>1. PICK a \in Nat, b \in Nat, n \in Nat : a = Done(s) /\ b = Done(z) /\ n = Len(s.promise)
    BY QueueContents DEF Good
  <1>2. a <= b /\ z.promise = s.promise
    BY <1>1 DEF KeepsPromises
  <1>3. ASSUME NEW i \in 1..n, i <= a PROVE i <= b
    BY <1>2, <1>3
  <1> QED BY <1>1, <1>2, <1>3 DEF Single

LEMMA AnsweredSingle ==
  ASSUME NEW s \in Strands, NEW z \in Strands, Done(z) = Done(s), NEW d \in Dir, Single(d, s),
         NEW n, NEW a, z.promise = Answered(s, n, a), d = "Send" \/ a # "exception"
  PROVE  Single(d, z)
  BY AnsweredFacts DEF Single

LEMMA FailingSingle ==
  ASSUME NEW f, NEW s \in Strands, Good(f, s), NEW z \in Strands, Good(f, z),
         NEW d \in Dir, Single(d, s),
         NEW failed \in SUBSET Unset(s), z.promise = Failing(s, failed),
         KeepsPromises(s, z) \/ Done(z) = Len(s.promise)
  PROVE  Single(d, z)
  <1>0. s.promise \in Seq(Promises) /\ DOMAIN s.promise = 1..Len(s.promise)
    BY DEF Strands
  <1>1. CASE KeepsPromises(s, z)
    BY <1>1, KeepsSingle
  <1>2. CASE d = "Send"
    <2>1. Unset(s) = {}
      BY <1>0, <1>2 DEF Single, Unset
    <2>2. z.promise = s.promise
      BY <2>1, NoneFailing
    <2> QED BY <1>2, <2>2 DEF Single
  <1>3. CASE Done(z) = Len(s.promise) /\ d # "Send"
    <2>1. PICK n \in Nat : n = Len(s.promise) /\ DOMAIN s.promise = 1..n
      BY <1>0
    <2>2. DOMAIN z.promise = 1..n
      BY <2>1 DEF Failing
    <2>3. Len(z.promise) = n
      <3>1. z.promise \in Seq(Promises)
        BY DEF Strands
      <3>2. PICK m \in Nat : m = Len(z.promise) /\ 1..m = 1..n
        BY <2>2, <3>1
      <3> QED BY <3>2
    <2>4. \A i \in 1..n : i <= n
      OBVIOUS
    <2> QED BY <1>3, <2>1, <2>3, <2>4 DEF Single
  <1> QED BY <1>1, <1>2, <1>3

LEMMA PushSingle ==
  ASSUME NEW f \in 0..1, NEW s \in Strands, Good(f, s), NEW d \in Dir, Single(d, s),
         NEW v \in {"none", "unset"}, d = "Send" => v = "none"
  PROVE  Single(d, [s EXCEPT !.promise = Append(@, v),
                             !.mQueue = Append(@, Len(s.promise) + 1)])
  <1> DEFINE z == [s EXCEPT !.promise = Append(@, v),
                            !.mQueue = Append(@, Len(s.promise) + 1)]
  <1>1. s.promise \in Seq(Promises) /\ v \in Promises
    BY DEF Strands, Promises
  <1>2. Done(z) = Done(s)
    BY Push
  <1>3. z.promise = Append(s.promise, v)
    BY DEF Strands
  <1> HIDE DEF z
  <1>4. PICK n \in Nat : n = Len(s.promise)
    BY <1>1
  <1>5. /\ Len(z.promise) = n + 1 /\ z.promise[n + 1] = v
        /\ \A i \in 1..n : z.promise[i] = s.promise[i]
    BY <1>1, <1>3, <1>4, AppendFacts
  <1>6. \A i \in 1..(n + 1) : i \in 1..n \/ i = n + 1
    OBVIOUS
  <1>7. Single(d, z)
    BY <1>2, <1>4, <1>5, <1>6 DEF Single
  <1> QED BY <1>7 DEF z

LEMMA PostKeeps ==
  ASSUME NEW s \in Strands, Done(s) \in Nat, NEW h
  PROVE  KeepsPromises(s, Post(s, h))
  <1>1. Post(s, h).promise = s.promise /\ Post(s, h).mQueue = s.mQueue
    BY DEF Post, Strands
  <1>2. Done(Post(s, h)) = Done(s) /\ Done(s) <= Done(s)
    BY <1>1 DEF Done
  <1> QED BY <1>1, <1>2 DEF KeepsPromises

NoBlockingPush == user'.pc = "push" /\ user'.dir = "Send" => ~user'.blocks

LEMMA KeepsAsync ==
  ASSUME Inv, Inv', AsyncInv, UNCHANGED mode, NoBlockingPush,
         \A d \in Dir : KeepsPromises(strand[d], strand'[d])
  PROVE  AsyncInv'
  <1>1. ASSUME NEW d \in Dir PROVE Single(d, strand'[d])
    BY GoodStrand, GoodStrandNext, KeepsSingle DEF AsyncInv
  <1> QED BY <1>1 DEF AsyncInv, NoBlockingPush

LEMMA KeptAsync ==
  ASSUME Inv, Inv', AsyncInv, KeepsAll, NoBlockingPush
  PROVE  AsyncInv'
  BY KeepsAsync DEF KeepsAll, Kept, KeepsPromises

(* A step of one strand.                                                   *)
LEMMA OneAsync ==
  ASSUME Inv, AsyncInv, NEW d \in Dir, NEW z, strand' = [strand EXCEPT ![d] = z],
         Single(d, z), NoBlockingPush
  PROVE  AsyncInv'
  <1>1. \A e \in Dir : strand'[e] = IF e = d THEN z ELSE strand[e]
    BY OneChanged
  <1> QED BY <1>1 DEF AsyncInv, NoBlockingPush

LEMMA ConnectingAsync ==
  ASSUME Inv, Inv', AsyncInv, ConnectOutcome \/ ConnectCallback \/ RetryTimer \/ startSocket
  PROVE  AsyncInv'
  <1>1. UNCHANGED <<mode, user>>
    BY DEF ConnectOutcome, ConnectCallback, RetryTimer, startSocket
  <1>2. ASSUME NEW d \in Dir PROVE KeepsPromises(strand[d], strand'[d])
    <2>1. strand'[d] = strand[d] \/ \E h : strand'[d] = Post(strand[d], h)
      BY DEF ConnectOutcome, ConnectCallback, RetryTimer, startSocket, Inv, StrandsGood, Dir
    <2>2. strand[d] \in Strands /\ Done(strand[d]) \in Nat
      BY GoodStrand, QueueContents DEF Good
    <2>3. KeepsPromises(strand[d], strand[d])
      BY SelfKept DEF Kept, KeepsPromises
    <2> QED BY <2>1, <2>2, <2>3, PostKeeps
  <1>3. NoBlockingPush
    BY <1>1 DEF AsyncInv, NoBlockingPush
  <1> QED BY <1>1, <1>2, <1>3, KeepsAsync

LEMMA StrandAsync ==
  ASSUME Inv, Inv', DrainInv, ConduitInv, AsyncInv, NEW d \in Dir, RunStrand(d)
  PROVE  AsyncInv'
  <1>1. UNCHANGED user
    BY DEF RunStrand, HandleEnqueue, HandleOpen, HandleComplete, HandleClose, HandleCancel,
           HandleConnectionString, HandleConnectionStringSent, ReplacePromise, HandleError,
           HandleCancelOperations, CancelQueue, Handle
  <1>2. NoBlockingPush
    BY <1>1 DEF AsyncInv, NoBlockingPush
  <1>3. CASE HandleError(d) \/ HandleCancelOperations(d)
    <2>1. UNCHANGED mode
      BY <1>3, EndingAnswers
    <2>2. PICK z \in Strands :
            /\ strand' = [strand EXCEPT ![d] = z]
            /\ \E failed \in SUBSET Unset(strand[d]) : z.promise = Failing(strand[d], failed)
            /\ KeepsPromises(strand[d], z) \/ Done(z) = Len(strand[d].promise)
      BY <1>3, EndingAnswers
    <2>3. \A e \in Dir : strand'[e] = IF e = d THEN z ELSE strand[e]
      BY <2>2, OneChanged
    <2>4. Good(First(d), z)
      <3>1. strand'[d] = z
        BY <2>3
      <3> QED BY <2>1, <3>1, GoodStrandNext
    <2>5. Single(d, z)
      BY <2>2, <2>4, GoodStrand, FailingSingle DEF AsyncInv
    <2> QED BY <1>2, <2>2, <2>5, OneAsync
  <1>4. CASE ~(HandleError(d) \/ HandleCancelOperations(d))
    BY <1>2, <1>4, HandlersKeep, KeptAsync
  <1> QED BY <1>3, <1>4

LEMMA SocketAsync ==
  ASSUME Inv, Inv', ConduitInv, AsyncInv, NEW d \in Dir, IOResult(d) \/ IODispatch(d)
  PROVE  AsyncInv'
  <1>1. UNCHANGED <<mode, user>>
    BY DEF IOResult, IODispatch
  <1>2. NoBlockingPush
    BY <1>1 DEF AsyncInv, NoBlockingPush
  <1>3. CASE IOResult(d)
    <2>1. PICK z \in Strands :
            /\ strand' = [strand EXCEPT ![d] = z] /\ Done(z) = Done(strand[d])
            /\ \/ Carries(First(d), strand[d], z)
               \/ /\ Breaks(First(d), strand[d], z)
                  /\ d = "Send" \/ z.promise = strand[d].promise
      BY <1>3, IOAnswers
    <2>2. strand[d] \in Strands /\ Single(d, strand[d])
      BY GoodStrand DEF AsyncInv
    <2>3. Single(d, z)
      <3>1. \/ z.promise = Answered(strand[d], Due(First(d), strand[d]), "value")
            \/ d = "Send" /\ z.promise = Answered(strand[d], Due(First(d), strand[d]), "exception")
            \/ z.promise = strand[d].promise
        BY <2>1 DEF Carries, Breaks
      <3>2. CASE z.promise = strand[d].promise
        BY <2>1, <2>2, <3>2 DEF Single
      <3> QED BY <2>1, <2>2, <3>1, <3>2, AnsweredSingle
    <2> QED BY <1>2, <2>1, <2>3, OneAsync
  <1>4. CASE IODispatch(d)
    <2> DEFINE s == strand[d]  t == [s EXCEPT !.result = "none", !.inFlight = Idle]
    <2>1. PICK h : strand' = [strand EXCEPT ![d] = Post(t, h)]
      BY <1>4 DEF IODispatch
    <2>2. strand[d] \in Strands /\ Single(d, strand[d])
      BY GoodStrand DEF AsyncInv
    <2>3. t \in Strands /\ t.promise = s.promise /\ t.mQueue = s.mQueue
      <3>1. Idle \in Int
        BY DEF Idle
      <3> QED BY <2>2, <3>1 DEF Strands
    <2> HIDE DEF t
    <2>4. Post(t, h).promise = strand[d].promise /\ Post(t, h).mQueue = strand[d].mQueue
      BY <2>3 DEF Post, Strands
    <2>5. Single(d, Post(t, h))
      BY <2>2, <2>4 DEF Single, Done
    <2> QED BY <1>2, <2>1, <2>5, OneAsync
  <1> QED BY <1>3, <1>4

LEMMA BufferAsync ==
  ASSUME Inv, Inv', ConduitInv, AsyncInv, BadSize \/ UserReschedules
  PROVE  AsyncInv'
  <1>1. UNCHANGED user /\ "Recv" \in Dir
    BY DEF BadSize, UserReschedules, Dir
  <1>2. NoBlockingPush
    BY <1>1 DEF AsyncInv, NoBlockingPush
  <1> DEFINE s == strand["Recv"]  f == First("Recv")
  <1>3. s \in Strands /\ Single("Recv", s)
    BY <1>1, GoodStrand DEF AsyncInv
  <1>4. CASE BadSize
    <2>1. PICK z \in Strands :
            /\ strand' = [strand EXCEPT !["Recv"] = z] /\ Done(z) = Done(s)
            /\ z.promise = Answered(s, Due(f, s), "badSize")
      BY <1>4, BadSizeAnswers
    <2>2. Single("Recv", z)
      BY <1>1, <1>3, <2>1, AnsweredSingle
    <2> QED BY <1>1, <1>2, <2>1, <2>2, OneAsync
  <1>5. CASE UserReschedules
    <2>1. PICK z \in Strands :
            /\ strand' = [strand EXCEPT !["Recv"] = z] /\ Done(z) = Done(s)
            /\ z.promise = s.promise
      BY <1>5, ReschedulesAnswers
    <2>2. Single("Recv", z)
      BY <1>3, <2>1 DEF Single
    <2> QED BY <1>1, <1>2, <2>1, <2>2, OneAsync
  <1> QED BY <1>4, <1>5

LEMMA UserAsync ==
  ASSUME BlockingSends = FALSE, Inv, Inv', ConduitInv, AsyncInv, Users
  PROVE  AsyncInv'
  <1>1. UNCHANGED <<mode, peer, cancel>>
    BY DEF Users, UserCalls, UserPush, UserPost, UserReturns, UserReschedules, CloseStart,
           ClosePost, CloseReturn
  <1>2. NoBlockingPush
    BY DEF Users, UserCalls, UserPush, UserPost, UserReturns, UserReschedules, CloseStart,
           ClosePost, CloseReturn, NoBlockingPush, AsyncInv, Inv, ControlType
  <1>3. CASE (\E d \in Dir : UserCalls(d)) \/ UserReturns \/ CloseStart \/ CloseReturn
    <2>1. UNCHANGED <<strand, connect>>
      BY <1>3 DEF UserCalls, UserReturns, CloseStart, CloseReturn
    <2> QED BY <1>1, <1>2, <2>1, UnchangedKept, KeptAsync
  <1>4. CASE UserPost \/ ClosePost
    <2>1. ASSUME NEW d \in Dir PROVE KeepsPromises(strand[d], strand'[d])
      <3>1. strand'[d] = strand[d] \/ \E h : strand'[d] = Post(strand[d], h)
        BY <1>4 DEF UserPost, ClosePost, Inv, StrandsGood
      <3>2. strand[d] \in Strands /\ Done(strand[d]) \in Nat
        BY GoodStrand, QueueContents DEF Good
      <3>3. KeepsPromises(strand[d], strand[d])
        BY SelfKept DEF Kept, KeepsPromises
      <3> QED BY <3>1, <3>2, <3>3, PostKeeps
    <2> QED BY <1>1, <1>2, <2>1, KeepsAsync
  <1>5. CASE UserPush
    <2> DEFINE d == user.dir  s == strand[d]
               v == IF d = "Send" /\ ~user.blocks THEN "none" ELSE "unset"
               z == [s EXCEPT !.promise = Append(@, v), !.mQueue = Append(@, Len(s.promise) + 1)]
    <2>1. user.pc = "push" /\ d \in Dir /\ v \in {"none", "unset"} /\ (d = "Send" => v = "none")
      BY <1>5 DEF UserPush, AsyncInv, Inv, ControlType
    <2>2. s \in Strands /\ Good(First(d), s) /\ First(d) \in 0..1 /\ Single(d, s)
      BY <2>1, GoodStrand DEF AsyncInv
    <2>3. strand' = [strand EXCEPT ![d] = z]
      BY <1>5, <2>1, <2>2 DEF UserPush, Inv, StrandsGood, Strands
    <2> HIDE DEF v
    <2>4. Single(d, z)
      BY <2>1, <2>2, PushSingle
    <2> HIDE DEF z
    <2> QED BY <1>2, <2>1, <2>3, <2>4, OneAsync
  <1>6. CASE UserReschedules
    BY <1>6, BufferAsync
  <1> QED BY <1>3, <1>4, <1>5, <1>6 DEF Users

LEMMA AsyncNext ==
  ASSUME BlockingSends = FALSE
  PROVE  Inv /\ Inv' /\ DrainInv /\ ConduitInv /\ AsyncInv /\ [Next]_vars => AsyncInv'
  <1> SUFFICES ASSUME Inv, Inv', DrainInv, ConduitInv, AsyncInv, [Next]_vars PROVE AsyncInv'
    OBVIOUS
  <1>1. CASE UNCHANGED vars
    BY <1>1 DEF vars, AsyncInv
  <1>2. CASE IO
    BY <1>2, ConnectingAsync, StrandAsync, SocketAsync DEF IO
  <1>3. CASE BadSize
    BY <1>3, BufferAsync
  <1>4. CASE Users
    BY <1>4, UserAsync
  <1>5. CASE Cancels
    <2>1. user' = user \/ user'.pc # "push"
      BY <1>5 DEF Cancels, CancelStart, cancelPendingChannel, CancelPost, CancelReturn,
                  Inv, ControlType
    <2> QED BY <1>5, <2>1, CancelsKeep, KeptAsync DEF AsyncInv, NoBlockingPush
  <1>6. CASE PeerStarts \/ PeerGoes
    BY <1>6 DEF PeerStarts, PeerGoes, AsyncInv
  <1> QED BY <1>1, <1>2, <1>3, <1>4, <1>5, <1>6 DEF Next, Over

(* What is still queued when the queue is cancelled has no answer, unless  *)
(* its message had another size.                                           *)
LEMMA QueuedUnset ==
  ASSUME Inv, ConduitInv, AsyncInv, NEW d \in Dir,
         Posted(strand[d].handlers, "error") \/ Dormant(strand[d]),
         NEW i \in Queued(strand[d])
  PROVE  /\ strand[d].promise[i] \in {"none", "unset", "badSize"}
         /\ d = "Send" => strand[d].promise[i] = "none"
         /\ i \in Ops(d)
  <1> DEFINE s == strand[d]  f == First(d)
  <1>1. /\ s \in Strands /\ Good(f, s) /\ f \in 0..1 /\ AnswerInv(f, s) /\ Single(d, s)
        /\ s.handlers \in Seq(Handlers)
    BY GoodStrand DEF ConduitInv, AsyncInv, Strands
  <1>2. PICK a \in Nat, n \in Nat, k \in Nat :
          a = Done(s) /\ n = Len(s.promise) /\ k = Due(f, s) /\ k <= a + 1
    <2>1. Done(s) \in Nat /\ Len(s.promise) \in Nat /\ Len(s.wire) \in Nat
      BY <1>1, QueueContents DEF Good, Strands
    <2>2. Due(f, s) \in Nat
      BY <1>1, <2>1 DEF Due
    <2>3. Due(f, s) <= Done(s) + 1
      <3>1. CASE Posted(s.handlers, "error")
        BY <1>1, <3>1 DEF AnswerInv
      <3>2. CASE Dormant(s)
        <4>1. Len(s.wire) = 0
          BY <3>2 DEF Dormant
        <4> QED BY <1>1, <2>1, <4>1 DEF Due
      <3> QED BY <3>1, <3>2
    <2> QED BY <2>1, <2>2, <2>3
  <1>3. Queued(s) = (a + 1)..n
    BY <1>1, <1>2, QueueContents DEF Good
  <1>4. i \in 1..n /\ ~(i <= a) /\ ~(i < k)
    BY <1>2, <1>3
  <1>5. s.promise[i] \in Promises
    BY <1>1, <1>2, <1>4 DEF Strands
  <1>6. s.promise[i] # "value"
    BY <1>1, <1>2, <1>4 DEF Good, WireInv
  <1>7. s.promise[i] # "exception" /\ (d = "Send" => s.promise[i] = "none")
    BY <1>1, <1>2, <1>4 DEF Single
  <1> QED BY <1>2, <1>4, <1>5, <1>6, <1>7 DEF Promises, Ops

(* A receive was told that its message has another size.                   *)
Misfit == \E i \in Ops("Recv") : strand["Recv"].promise[i] = "badSize"

(* An error handler that meets a promise already set.                      *)
LEMMA SetTwiceMisfit ==
  ASSUME Inv, ConduitInv, AsyncInv, NEW d \in Dir, SetTwice(strand[d]),
         HandleError(d) \/ HandleCancelOperations(d)
  PROVE  Misfit'
  <1> DEFINE s == strand[d]
  <1>1. PICK h \in {"error", "cancelOperations"}, status \in {"Stopped", s.mStatus} :
          Handle(d, h, cancelQueuedOperations([s EXCEPT !.mStatus = status]))
    BY DEF HandleError, HandleCancelOperations, CancelQueue
  <1>2. s \in Strands /\ s.handlers \in Seq(Handlers) /\ s.handlers # <<>>
        /\ Head(s.handlers) = h
    BY <1>1, GoodStrand DEF Handle, Strands
  <1>3. Posted(s.handlers, h)
    BY <1>2, TailHandlers
  <1>4. Posted(s.handlers, "error") \/ Dormant(s)
    BY <1>3 DEF Inv, OpenInv, Connected
  <1>5. PICK i \in Queued(s) : s.promise[i] \notin {"none", "unset"}
    BY DEF SetTwice
  <1>6. d = "Recv" /\ s.promise[i] = "badSize" /\ i \in Ops(d)
    BY <1>4, <1>5, QueuedUnset DEF Dir
  <1> DEFINE t == [s EXCEPT !.mStatus = status]  q == Tail(s.handlers)
  <1>7. /\ t \in Strands /\ t.promise = s.promise /\ t.mQueue = s.mQueue
        /\ t.handlers = s.handlers /\ ~t.mQueueEmpty
    BY <1>2 DEF Strands, SetTwice
  <1>8. strand'[d].promise = Cancelled(s)
    <2> DEFINE p == Cancelled(s)  e == <<>>
    <2>1. Cancelled(t) = p
      BY <1>7 DEF Cancelled, Queued
    <2> HIDE DEF t, p
    <2>2. cancelQueuedOperations(t) = [t EXCEPT !.promise = p, !.mQueue = e, !.mQueueEmpty = TRUE]
      BY <1>7, <2>1 DEF cancelQueuedOperations
    <2>3. strand' = [strand EXCEPT ![d] = [cancelQueuedOperations(t) EXCEPT !.handlers = Tail(@)]]
      BY <1>1 DEF Handle, t
    <2>4. strand'[d] = [cancelQueuedOperations(t) EXCEPT !.handlers = Tail(@)]
      BY <2>3 DEF Inv, StrandsGood
    <2>5. strand'[d].promise = p
      BY <1>7, <2>2, <2>4 DEF Strands
    <2> QED BY <2>5 DEF p
  <1>9. /\ DOMAIN Cancelled(s) = DOMAIN s.promise /\ Len(Cancelled(s)) = Len(s.promise)
        /\ \A j \in DOMAIN s.promise : s.promise[j] # "unset" => Cancelled(s)[j] = s.promise[j]
    BY <1>2, ClearedAnswers DEF Cancelled
  <1>10. i \in DOMAIN s.promise
    BY <1>2, <1>6 DEF Ops, Strands
  <1>11. strand'["Recv"].promise[i] = "badSize" /\ i \in 1..Len(strand'["Recv"].promise)
    BY <1>6, <1>8, <1>9, <1>10 DEF Ops
  <1> QED BY <1>11 DEF Misfit, Ops

(* As long as the user sends with asyncSend() only, no promise is set a    *)
(* second time, whatever breaks and whoever cancels, except that of a      *)
(* receive whose message had another size: what ends the process is a      *)
(* send(), as in SettledOnce's counterexample, or the read into the buffer *)
(* that the user gave for such a message.                                  *)
THEOREM OnlyMisfitsSettleTwice ==
  ASSUME BlockingSends = FALSE
  PROVE  Spec => [](SettledOnce \/ \E i \in Ops("Recv") : strand["Recv"].promise[i] = "badSize")
  <1>1. Inv /\ Inv' /\ DrainInv /\ ConduitInv /\ AsyncInv /\ [Next]_vars => AsyncInv'
    BY AsyncNext
  <1>2. Init => AsyncInv /\ (SettledOnce \/ Misfit)
    <2>1. NewStrand.promise = <<>>
      BY DEF NewStrand
    <2> QED BY <2>1 DEF Init, AsyncInv, Single, SettledOnce
  <1>3. Inv /\ ConduitInv /\ AsyncInv /\ (SettledOnce \/ Misfit) /\ [Next]_vars
          => (SettledOnce \/ Misfit)'
    <2> SUFFICES ASSUME Inv, ConduitInv, AsyncInv, SettledOnce \/ Misfit, [Next]_vars,
                        terminated' = "promise"
                 PROVE  Misfit'
      BY DEF SettledOnce
    <2>1. CASE terminated = "promise"
      <3>1. UNCHANGED vars
        BY <2>1 DEF Next, Running, Over
      <3> QED BY <2>1, <3>1 DEF vars, SettledOnce, Misfit, Ops
    <2>2. CASE terminated # "promise"
      <3>1. PICK d \in Dir : HandleError(d) \/ HandleCancelOperations(d)
        BY <2>2 DEF vars, Next, Over, IO, Users, Cancels, ConnectOutcome, ConnectCallback,
               RetryTimer, startSocket, RunStrand, HandleEnqueue, HandleOpen, HandleComplete,
               HandleClose, HandleCancel, HandleConnectionString, HandleConnectionStringSent,
               ReplacePromise, IOResult, IODispatch, BadSize, UserCalls, UserPush, UserPost,
               UserReturns, UserReschedules, CloseStart, ClosePost, CloseReturn, CancelStart,
               cancelPendingChannel, CancelPost, CancelReturn, PeerStarts, PeerGoes
      <3>2. SetTwice(strand[d])
        BY <2>2, <3>1 DEF HandleError, HandleCancelOperations, CancelQueue
      <3> QED BY <3>1, <3>2, SetTwiceMisfit
    <2> QED BY <2>1, <2>2
  <1>4. SettledOnce \/ Misfit => SettledOnce \/ \E i \in Ops("Recv") : strand["Recv"].promise[i] = "badSize"
    BY DEF Misfit
  <1> QED BY <1>1, <1>2, <1>3, <1>4, Invariance, DrainInvariance, ConduitInvariance, PTL DEF Spec

=============================================================================
