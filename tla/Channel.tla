------------------------------- MODULE Channel ------------------------------
(***************************************************************************)
(* A channel (cryptoTools/Network/Channel.cpp): the thread of its user     *)
(* queues send and receive operations, handlers on two strands of the      *)
(* io_service perform them one at a time, and close() and cancel() bring   *)
(* it to an end. A handler of a strand is one step: a strand runs its      *)
(* handlers one after the other, and what they change is, but for the      *)
(* open promise, touched by their strand only.                             *)
(***************************************************************************)
EXTENDS Integers, Sequences

CONSTANTS
  Modes,          \* subset of {"Client", "Server"}: sides to look at
  MaxOps,         \* bound on the operations queued in one direction
  BlockingSends,  \* may the user call send() besides asyncSend()?
  PeerFails,      \* may the connection break?
  OtherSizes,     \* may a message have another size than the buffer for it?
  Cancellers      \* who may call cancel(): "user" or "other" (a thread)

ASSUME ModesAssumption == Modes \subseteq {"Client", "Server"}
ASSUME MaxOpsAssumption == MaxOps \in Nat
ASSUME FlagsAssumption == {BlockingSends, PeerFails, OtherSizes} \subseteq BOOLEAN
ASSUME CancellersAssumption == Cancellers \subseteq {"user", "other"}

VARIABLES
  mode,       \* the side this channel is on
  connect,    \* progress of the connection, see Connecting below
  open,       \* is the socket of mHandle open?
  mOpenCount, \* strands that were started
  mOpenFut,   \* "unset", "value" or "exception"
  strand,     \* by direction: what the code keeps per strand, see Strands
  user,       \* the user's thread: what it does, in which direction
  cancel,     \* progress of cancel()
  peer,       \* "absent", "up" or "down"
  terminated  \* why the process was terminated, or "no"

vars == <<mode, connect, open, mOpenCount, mOpenFut, strand, user, cancel,
          peer, terminated>>

Dir == {"Send", "Recv"}

(* What is being sent or received: nothing, the connection string or, from *)
(* 1 on, an operation of the user.                                         *)
Idle == -1
ConnectionString == 0

(***************************************************************************)
(* Strands. The state of one direction:                                    *)
(*   mStatus           "Normal" or "Stopped"                               *)
(*   mQueue            operations not completed, the next one first        *)
(*   mSocketAvailable  no operation is being performed                     *)
(*   mQueueEmpty       the promise close() and cancel() wait for is set    *)
(*   handlers          what waits to run on the strand                     *)
(*   replacing         the handler that set the promise still replaces it  *)
(*   inFlight          what the socket was given                           *)
(*   result            what the socket answered: "none", "ok" or "error"   *)
(*   promise           by operation: "none" (asyncSend has no promise),    *)
(*                     "unset", "value", "exception" or "badSize"          *)
(*   wire              history: what was sent or received, in order        *)
(***************************************************************************)
NewStrand ==
  [mStatus |-> "Normal", mQueue |-> <<>>, mSocketAvailable |-> FALSE,
   mQueueEmpty |-> FALSE, handlers |-> <<>>, replacing |-> FALSE,
   inFlight |-> Idle, result |-> "none", promise |-> <<>>, wire |-> <<>>]

Post(s, h) == [s EXCEPT !.handlers = Append(@, h)]

stopped == \A d \in Dir : strand[d].mStatus = "Stopped"

(* Mutant: an operation is begun without taking the socket. *)
asyncPerform_StaysAvailable(s) == [s EXCEPT !.inFlight = Head(s.mQueue)]

(* asyncPerformSend, asyncPerformRecv: the first operation of the queue is *)
(* given to the socket.                                                    *)
asyncPerform(s) == [s EXCEPT !.mSocketAvailable = FALSE,
                             !.inFlight = Head(s.mQueue)]

(* Mutant: a connection that is made leaves what was queued to the next call. *)
PerformIfAny_Waits(s) == s

(* What a handler does that made the socket available.                     *)
PerformIfAny(s) == IF s.mQueue # <<>> THEN asyncPerform(s) ELSE s

(* Mutant: a completion does not look at whether the channel is being closed. *)
Continue_NoPromise(s) == PerformIfAny(s)

(* Mutant: a completion leaves the next operation to its own handler. *)
Continue_NoNext(s) ==
  IF s.mQueue = <<>> /\ s.mStatus = "Stopped" /\ ~s.mQueueEmpty
  THEN [s EXCEPT !.mQueueEmpty = TRUE, !.replacing = TRUE]
  ELSE s

(* The same for a handler that has completed something: if there is nothing*)
(* left and the channel is being closed, it sets the promise and then      *)
(* replaces it.                                                            *)
Continue(s) ==
  IF s.mQueue = <<>> /\ s.mStatus = "Stopped" /\ ~s.mQueueEmpty
  THEN [s EXCEPT !.mQueueEmpty = TRUE, !.replacing = TRUE]
  ELSE PerformIfAny(s)

EmptyIfNoItems(s) == IF s.mQueue = <<>> THEN [s EXCEPT !.mQueueEmpty = TRUE] ELSE s

Queued(s) == {s.mQueue[i] : i \in DOMAIN s.mQueue}

(* Mutant: only the operation that failed is told. *)
Cancelled_FirstOnly(s) ==
  [i \in DOMAIN s.promise |->
     IF i \in Queued(s) /\ i = Head(s.mQueue) /\ s.promise[i] = "unset"
     THEN "exception" ELSE s.promise[i]]

(* Cancelling an operation sets an exception in its promise, if it has one.*)
Cancelled(s) ==
  [i \in DOMAIN s.promise |->
     IF i \in Queued(s) /\ s.promise[i] = "unset" THEN "exception" ELSE s.promise[i]]

(* A promise that is already set keeps what it holds, and setting it again *)
(* throws in the thread of the io_service.                                 *)
SetTwice(s) ==
  ~s.mQueueEmpty /\ \E i \in Queued(s) : s.promise[i] \notin {"none", "unset"}

(* Mutant: only the first operation is cancelled. *)
cancelQueuedOperations_FirstOnly(s) ==
  IF s.mQueueEmpty \/ s.mQueue = <<>> THEN [s EXCEPT !.mQueueEmpty = TRUE]
  ELSE [s EXCEPT !.promise[Head(s.mQueue)] = IF @ = "unset" THEN "exception" ELSE @,
                 !.mQueue = Tail(@), !.mQueueEmpty = TRUE]

(* cancelSendQueuedOperations, cancelRecvQueuedOperations.                 *)
cancelQueuedOperations(s) ==
  IF s.mQueueEmpty THEN s
  ELSE [s EXCEPT !.promise = Cancelled(s), !.mQueue = <<>>, !.mQueueEmpty = TRUE]

-----------------------------------------------------------------------------

Init ==
  /\ mode \in Modes
  /\ connect = IF mode = "Client" THEN "pending" ELSE "waiting"
  /\ open = (mode = "Client")
  /\ mOpenCount = 0 /\ mOpenFut = "unset"
  /\ strand = [d \in Dir |-> NewStrand]
  /\ user = [pc |-> "ready", dir |-> "Send", blocks |-> FALSE]
  /\ cancel = "no"
  /\ peer = "absent"
  /\ terminated = "no"

-----------------------------------------------------------------------------
(***************************************************************************)
(* Connecting. A client's socket connects, "pending", and the outcome,     *)
(* "succeeded" or "refused", waits for mConnectCallback; "retry" is the    *)
(* timer between two attempts. A server is "waiting" for its acceptor.     *)
(* "done": there will be no further attempt.                               *)
(***************************************************************************)

(* The socket's answer. An attempt also fails if cancel() closes it.       *)
ConnectOutcome ==
  /\ connect = "pending"
  /\ \/ open /\ peer = "up" /\ connect' = "succeeded"
     \/ ~(open /\ peer = "up") /\ connect' = "refused"
  /\ UNCHANGED <<mode, open, mOpenCount, mOpenFut, strand, user, cancel, peer,
                 terminated>>

(* Mutant: the connect callback runs again after it succeeded. *)
ConnectCallback_Again ==
  /\ connect = "succeeded" /\ open
  /\ strand' = [strand EXCEPT !["Send"] = Post(@, "connectionString"),
                              !["Recv"] = Post(@, "open")]
  /\ UNCHANGED <<mode, connect, open, mOpenCount, mOpenFut, user, cancel, peer,
                 terminated>>

(* mConnectCallback. Setting an option of a socket that was closed after   *)
(* it had connected throws.                                                *)
ConnectCallback ==
  /\ \/ /\ connect = "refused" /\ ~stopped
        /\ connect' = "retry"
        /\ UNCHANGED <<mOpenFut, strand, terminated>>
     \/ /\ connect = "refused" /\ stopped
        /\ connect' = "done" /\ mOpenFut' = "exception"
        /\ UNCHANGED <<strand, terminated>>
     \/ /\ connect = "succeeded" /\ open
        /\ connect' = "done"
        /\ strand' = [strand EXCEPT !["Send"] = Post(@, "connectionString"),
                                    !["Recv"] = Post(@, "open")]
        /\ UNCHANGED <<mOpenFut, terminated>>
     \/ /\ connect = "succeeded" /\ ~open
        /\ terminated' = "socket"
        /\ UNCHANGED <<connect, mOpenFut, strand>>
  /\ UNCHANGED <<mode, open, mOpenCount, user, cancel, peer>>

(* The timer's handler closes the socket and connects anew; it does not    *)
(* look at whether the channel was stopped meanwhile.                      *)
RetryTimer ==
  /\ connect = "retry"
  /\ connect' = "pending" /\ open' = TRUE
  /\ UNCHANGED <<mode, mOpenCount, mOpenFut, strand, user, cancel, peer,
                 terminated>>

(* The acceptor has a socket whose connection string names this channel.   *)
startSocket ==
  /\ connect = "waiting" /\ peer = "up"
  /\ connect' = "done" /\ open' = TRUE
  /\ strand' = [d \in Dir |-> Post(strand[d], "open")]
  /\ UNCHANGED <<mode, mOpenCount, mOpenFut, user, cancel, peer, terminated>>

-----------------------------------------------------------------------------
(* The handlers of the strands                                             *)

(* The next handler of d's strand is h, and leaves the strand as after.    *)
Handle(d, h, after) ==
  /\ strand[d].handlers # <<>> /\ Head(strand[d].handlers) = h
  /\ ~strand[d].replacing
  /\ strand' = [strand EXCEPT ![d] = [after EXCEPT !.handlers = Tail(@)]]
  /\ UNCHANGED <<mode, connect, open, user, cancel, peer>>

(* Either strand counts, and the second one sets the open promise.         *)
Count ==
  /\ mOpenCount' = mOpenCount + 1
  /\ mOpenFut' = IF mOpenCount' = 2 THEN "value" ELSE mOpenFut

(* The rest of sendEnque and recvEnque. There is no socket any more once   *)
(* cancel() has returned.                                                  *)
HandleEnqueue(d) ==
  LET s == strand[d]
      starts == s.mSocketAvailable /\ s.mQueue # <<>>
  IN /\ Handle(d, "enqueue", IF starts THEN asyncPerform(s) ELSE s)
     /\ terminated' = IF starts /\ cancel = "done" THEN "handle" ELSE terminated
     /\ UNCHANGED <<mOpenCount, mOpenFut>>

HandleOpen(d) ==
  /\ Handle(d, "open", PerformIfAny([strand[d] EXCEPT !.mSocketAvailable = TRUE]))
  /\ Count
  /\ UNCHANGED terminated

(* Mutant: operations may start while the connection string is being sent. *)
HandleConnectionString_Available ==
  /\ Handle("Send", "connectionString",
            [strand["Send"] EXCEPT !.inFlight = ConnectionString,
                                   !.mSocketAvailable = TRUE])
  /\ Count
  /\ UNCHANGED terminated

(* A client's send strand first sends the connection string; its socket is *)
(* available once that was sent.                                           *)
HandleConnectionString ==
  /\ Handle("Send", "connectionString", [strand["Send"] EXCEPT !.inFlight = ConnectionString])
  /\ Count
  /\ UNCHANGED terminated

HandleConnectionStringSent ==
  /\ Handle("Send", "connectionStringSent",
            Continue([strand["Send"] EXCEPT !.mSocketAvailable = TRUE]))
  /\ UNCHANGED <<mOpenCount, mOpenFut, terminated>>

HandleComplete(d) ==
  /\ Handle(d, "complete", Continue([strand[d] EXCEPT !.mSocketAvailable = TRUE,
                                                      !.mQueue = Tail(@)]))
  /\ UNCHANGED <<mOpenCount, mOpenFut, terminated>>

(* setSendFatalError, setRecvFatalError; also what cancel() posts when     *)
(* there will be no connection.                                            *)
CancelQueue(d, h, status) ==
  /\ Handle(d, h, cancelQueuedOperations([strand[d] EXCEPT !.mStatus = status]))
  /\ terminated' = IF SetTwice(strand[d]) THEN "promise" ELSE terminated
  /\ UNCHANGED <<mOpenCount, mOpenFut>>

HandleError(d) == CancelQueue(d, "error", "Stopped")

HandleCancelOperations(d) == CancelQueue(d, "cancelOperations", strand[d].mStatus)

(* Nothing sets mActiveRecvSizeError.                                      *)
activeRecvSizeError == FALSE

(* Mutant: close() does not look at the queues. *)
HandleClose_AnyQueue(d) ==
  /\ Handle(d, "close", [strand[d] EXCEPT !.mStatus = "Stopped", !.mQueueEmpty = TRUE])
  /\ UNCHANGED <<mOpenCount, mOpenFut, terminated>>

HandleClose(d) ==
  LET s == [strand[d] EXCEPT !.mStatus = "Stopped"]
  IN /\ Handle(d, "close",
               IF s.mQueue # <<>> /\ d = "Recv" /\ activeRecvSizeError
               THEN cancelQueuedOperations(s) ELSE EmptyIfNoItems(s))
     /\ UNCHANGED <<mOpenCount, mOpenFut, terminated>>

HandleCancel(d) ==
  /\ Handle(d, "cancel",
            IF strand[d].mQueue # <<>> /\ d = "Recv" /\ activeRecvSizeError
            THEN cancelQueuedOperations(strand[d]) ELSE EmptyIfNoItems(strand[d]))
  /\ UNCHANGED <<mOpenCount, mOpenFut, terminated>>

(* The handler that has set the promise replaces it and ends.              *)
ReplacePromise(d) ==
  /\ strand[d].replacing
  /\ strand' = [strand EXCEPT ![d].replacing = FALSE]
  /\ UNCHANGED <<mode, connect, open, mOpenCount, mOpenFut, user, cancel, peer,
                 terminated>>

RunStrand(d) ==
  \/ HandleEnqueue(d) \/ HandleOpen(d) \/ HandleComplete(d) \/ HandleError(d)
  \/ HandleCancelOperations(d) \/ HandleClose(d) \/ HandleCancel(d)
  \/ d = "Send" /\ (HandleConnectionString \/ HandleConnectionStringSent)
  \/ ReplacePromise(d)

-----------------------------------------------------------------------------
(* Completions, in threads of the io_service                               *)

(* The socket has an answer for what is in flight. A promise is set before *)
(* the strand hears of it: that of a receive on success, that of a send in *)
(* either case. A broken connection may still have taken or hold data.     *)
IOResult(d) ==
  LET s == strand[d]
      op == s.inFlight
      settled(v) == IF op # ConnectionString /\ s.promise[op] # "none"
                    THEN [s.promise EXCEPT ![op] = v] ELSE s.promise
  IN /\ op # Idle /\ s.result = "none"
     /\ op # ConnectionString => s.promise[op] # "badSize"
     /\ \/ /\ open
           /\ strand' = [strand EXCEPT ![d] = [s EXCEPT
                !.result = "ok", !.wire = Append(@, op), !.promise = settled("value")]]
        \/ /\ ~open \/ peer = "down"
           /\ strand' = [strand EXCEPT ![d] = [s EXCEPT
                !.result = "error",
                !.promise = IF d = "Send" THEN settled("exception") ELSE @]]
     /\ UNCHANGED <<mode, connect, open, mOpenCount, mOpenFut, user, cancel, peer,
                    terminated>>

(* The completion handle dispatches to the strand.                         *)
IODispatch(d) ==
  LET s == strand[d]
      handler == IF s.result = "error" THEN "error"
                 ELSE IF s.inFlight = ConnectionString THEN "connectionStringSent"
                 ELSE "complete"
  IN /\ s.result # "none"
     /\ strand' = [strand EXCEPT ![d] =
          Post([s EXCEPT !.result = "none", !.inFlight = Idle], handler)]
     /\ UNCHANGED <<mode, connect, open, mOpenCount, mOpenFut, user, cancel, peer,
                    terminated>>

(* A message has another size than its buffer, which cannot be resized: the*)
(* user gets an exception with a function that takes another buffer.       *)
BadSize ==
  LET s == strand["Recv"]
  IN /\ OtherSizes
     /\ s.inFlight # Idle /\ s.result = "none" /\ open
     /\ s.promise[s.inFlight] = "unset"
     /\ strand' = [strand EXCEPT !["Recv"].promise[s.inFlight] = "badSize"]
     /\ UNCHANGED <<mode, connect, open, mOpenCount, mOpenFut, user, cancel, peer,
                    terminated>>

-----------------------------------------------------------------------------
(* The user's thread                                                       *)

Running == terminated = "no" /\ user.pc # "closed"

(* send, asyncSend and asyncRecv expect a channel that was not stopped.    *)
UserCalls(d) ==
  /\ user.pc = "ready" /\ Len(strand[d].promise) < MaxOps
  /\ IF strand[d].mStatus = "Normal"
     THEN /\ \E blocks \in BOOLEAN :
               /\ d = "Send" /\ blocks => BlockingSends
               /\ user' = [pc |-> "push", dir |-> d, blocks |-> blocks]
          /\ UNCHANGED terminated
     ELSE terminated' = "expects" /\ UNCHANGED user
  /\ UNCHANGED <<mode, connect, open, mOpenCount, mOpenFut, strand, cancel, peer>>

(* sendEnque, recvEnque: the operation goes to the queue from the user's   *)
(* thread, then a handler is posted.                                       *)
UserPush ==
  LET d == user.dir
      promise == IF d = "Send" /\ ~user.blocks THEN "none" ELSE "unset"
  IN /\ user.pc = "push"
     /\ strand' = [strand EXCEPT
          ![d].promise = Append(@, promise),
          ![d].mQueue = Append(@, Len(strand[d].promise) + 1)]
     /\ user' = [user EXCEPT !.pc = "post"]
     /\ UNCHANGED <<mode, connect, open, mOpenCount, mOpenFut, cancel, peer, terminated>>

UserPost ==
  /\ user.pc = "post"
  /\ strand' = [strand EXCEPT ![user.dir] = Post(@, "enqueue")]
  /\ user' = [user EXCEPT !.pc = IF user.blocks THEN "wait" ELSE "ready"]
  /\ UNCHANGED <<mode, connect, open, mOpenCount, mOpenFut, cancel, peer, terminated>>

LastPromise == LET p == strand[user.dir].promise IN p[Len(p)]

(* send() and recv() return, or throw, when the promise is set.            *)
UserReturns ==
  /\ user.pc = "wait" /\ LastPromise # "unset"
  /\ user' = [user EXCEPT !.pc = "ready"]
  /\ UNCHANGED <<mode, connect, open, mOpenCount, mOpenFut, strand, cancel, peer,
                 terminated>>

(* The user may give the message that did not fit a buffer of its size:    *)
(* what is left of it is read into that and completes the operation, or the*)
(* read fails, and the error handler meets the promise that is set already.*)
UserReschedules ==
  LET s == strand["Recv"]
  IN /\ user.pc = "ready" /\ s.inFlight # Idle /\ s.result = "none"
     /\ s.promise[s.inFlight] = "badSize"
     /\ \/ /\ open
           /\ strand' = [strand EXCEPT !["Recv"] = [s EXCEPT
                !.wire = Append(@, s.inFlight), !.result = "ok"]]
        \/ /\ ~open \/ peer = "down"
           /\ strand' = [strand EXCEPT !["Recv"].result = "error"]
     /\ UNCHANGED <<mode, connect, open, mOpenCount, mOpenFut, user, cancel, peer,
                    terminated>>

(* close(): nothing to do if both directions are stopped, otherwise it     *)
(* waits for the connection, tells the strands and waits for their queues. *)
CloseStart ==
  /\ user.pc = "ready" /\ cancel \in {"no", "done"}
  /\ user' = [user EXCEPT !.pc = IF stopped THEN "closed" ELSE "closing"]
  /\ UNCHANGED <<mode, connect, open, mOpenCount, mOpenFut, strand, cancel, peer,
                 terminated>>

ClosePost ==
  /\ user.pc = "closing" /\ mOpenFut = "value"
  /\ strand' = [d \in Dir |-> Post(strand[d], "close")]
  /\ user' = [user EXCEPT !.pc = "draining"]
  /\ UNCHANGED <<mode, connect, open, mOpenCount, mOpenFut, cancel, peer, terminated>>

CloseReturn ==
  /\ user.pc = "draining" /\ \A d \in Dir : strand[d].mQueueEmpty
  /\ open' = FALSE
  /\ user' = [user EXCEPT !.pc = "closed"]
  /\ UNCHANGED <<mode, connect, mOpenCount, mOpenFut, strand, cancel, peer, terminated>>

Users == (\E d \in Dir : UserCalls(d)) \/ UserPush \/ UserPost \/ UserReturns
         \/ UserReschedules \/ CloseStart \/ ClosePost \/ CloseReturn

-----------------------------------------------------------------------------
(* cancel(), called by the user's thread between two calls, or by another  *)
(* one during them                                                         *)

MayCancel == [who \in {"user", "other"} |->
                IF who = "user" THEN {"ready"} ELSE {"ready", "push", "post", "wait"}]

CancelStart(who) ==
  /\ cancel = "no" /\ user.pc \in MayCancel[who]
  /\ IF stopped
     THEN cancel' = "done" /\ UNCHANGED <<strand, open, user>>
     ELSE /\ strand' = [d \in Dir |-> [strand[d] EXCEPT !.mStatus = "Stopped"]]
          /\ open' = FALSE
          /\ cancel' = "pending"
          /\ user' = IF who = "user" THEN [user EXCEPT !.pc = "cancelling"] ELSE user
  /\ UNCHANGED <<mode, connect, mOpenCount, mOpenFut, peer, terminated>>

(* The acceptor gives up a channel that still waits for a socket.          *)
cancelPendingChannel ==
  /\ cancel = "pending"
  /\ cancel' = "opening"
  /\ IF connect = "waiting"
     THEN connect' = "done" /\ mOpenFut' = "exception"
     ELSE UNCHANGED <<connect, mOpenFut>>
  /\ UNCHANGED <<mode, open, mOpenCount, strand, user, peer, terminated>>

CancelPost ==
  /\ cancel = "opening" /\ mOpenFut # "unset"
  /\ strand' = [d \in Dir |->
       IF mOpenFut = "exception"
       THEN Post(Post(strand[d], "cancelOperations"), "cancel")
       ELSE Post(strand[d], "cancel")]
  /\ cancel' = "draining"
  /\ UNCHANGED <<mode, connect, open, mOpenCount, mOpenFut, user, peer, terminated>>

CancelReturn ==
  /\ cancel = "draining" /\ \A d \in Dir : strand[d].mQueueEmpty
  /\ cancel' = "done" /\ open' = FALSE
  /\ user' = IF user.pc = "cancelling" THEN [user EXCEPT !.pc = "ready"] ELSE user
  /\ UNCHANGED <<mode, connect, mOpenCount, mOpenFut, strand, peer, terminated>>

Cancels == (\E who \in Cancellers : CancelStart(who)) \/ cancelPendingChannel
           \/ CancelPost \/ CancelReturn

-----------------------------------------------------------------------------
(* The other side: it starts at some time, and may go away once it is      *)
(* connected.                                                              *)

PeerStarts ==
  /\ peer = "absent" /\ peer' = "up"
  /\ UNCHANGED <<mode, connect, open, mOpenCount, mOpenFut, strand, user, cancel,
                 terminated>>

PeerGoes ==
  /\ PeerFails /\ peer = "up" /\ connect = "done"
  /\ peer' = "down"
  /\ UNCHANGED <<mode, connect, open, mOpenCount, mOpenFut, strand, user, cancel,
                 terminated>>

IO == ConnectOutcome \/ ConnectCallback \/ RetryTimer \/ startSocket
      \/ \E d \in Dir : RunStrand(d) \/ IOResult(d) \/ IODispatch(d)

(* After the end the process, or at least the channel, is gone.            *)
Over == ~Running /\ UNCHANGED vars

Next == \/ Running /\ (IO \/ BadSize \/ Users \/ Cancels \/ PeerStarts \/ PeerGoes)
        \/ Over

(***************************************************************************)
(* The io_service has threads, sockets answer and peers start and send,    *)
(* and a thread goes on in a call it has begun. What the user calls, and   *)
(* whether and how a peer fails, is not subject to fairness.               *)
(***************************************************************************)
Fairness ==
  /\ WF_vars(Running /\ (ConnectOutcome \/ ConnectCallback \/ RetryTimer))
  /\ WF_vars(Running /\ startSocket) /\ WF_vars(PeerStarts)
  /\ \A d \in Dir :
       /\ WF_vars(Running /\ RunStrand(d))
       /\ WF_vars(Running /\ IOResult(d)) /\ WF_vars(Running /\ IODispatch(d))
  /\ WF_vars(Running /\ (UserPush \/ UserPost \/ UserReturns \/ ClosePost \/ CloseReturn))
  /\ WF_vars(Running /\ (cancelPendingChannel \/ CancelPost \/ CancelReturn))

Spec == Init /\ [][Next]_vars
FairSpec == Spec /\ Fairness

-----------------------------------------------------------------------------
(* Properties *)

Ops(d) == 1..Len(strand[d].promise)

(* Types.                                                                  *)
TypeOK ==
  /\ mode \in Modes /\ open \in BOOLEAN
  /\ connect \in {"pending", "succeeded", "refused", "retry", "waiting", "done"}
  /\ mOpenCount \in 0..2 /\ mOpenFut \in {"unset", "value", "exception"}
  /\ \A d \in Dir :
       LET s == strand[d]
       IN /\ s.mStatus \in {"Normal", "Stopped"}
          /\ {s.mSocketAvailable, s.mQueueEmpty, s.replacing} \subseteq BOOLEAN
          /\ Queued(s) \subseteq Ops(d)
          /\ s.inFlight \in {Idle, ConnectionString} \cup Ops(d)
          /\ s.result \in {"none", "ok", "error"}
          /\ \A i \in Ops(d) :
               s.promise[i] \in {"none", "unset", "value", "exception", "badSize"}
  /\ user.pc \in {"ready", "push", "post", "wait", "closing", "draining",
                  "cancelling", "closed"}
  /\ cancel \in {"no", "pending", "opening", "draining", "done"}
  /\ peer \in {"absent", "up", "down"}
  /\ terminated \in {"no", "socket", "promise", "handle", "expects"}

(* The socket has one operation of a direction at a time, which stays the  *)
(* first of its queue until its handler removes it: the callbacks of       *)
(* IoBuffer hold a pointer to it.                                          *)
OneAtATime ==
  \A d \in Dir :
    LET s == strand[d]
        handlers == {s.handlers[i] : i \in DOMAIN s.handlers}
    IN /\ s.inFlight # Idle => ~s.mSocketAvailable
       /\ s.inFlight \in Ops(d) => s.mQueue # <<>> /\ s.inFlight = Head(s.mQueue)
       /\ "complete" \in handlers =>
            s.inFlight = Idle /\ ~s.mSocketAvailable /\ s.mQueue # <<>>

(* A client's connection string comes first, then the operations in the    *)
(* order of the calls, none left out and none twice: the acceptor reads the*)
(* string from the same stream.                                            *)
InOrder ==
  \A d \in Dir :
    LET wire == strand[d].wire
        first == IF d = "Send" /\ mode = "Client" THEN ConnectionString ELSE 1
    IN \A i \in DOMAIN wire : wire[i] = first + i - 1

(* What a channel shows of a direction, and the two directions.            *)
First(d) == IF d = "Send" /\ mode = "Client" THEN ConnectionString ELSE 1
Healthy == cancel = "no" /\ peer # "down"
Phase == IF terminated # "no" THEN "over"
         ELSE IF user.pc = "closed" THEN "closed" ELSE "open"

Sending == INSTANCE Conduit WITH
  first <- First("Send"), answer <- strand["Send"].promise,
  carried <- strand["Send"].wire, healthy <- Healthy, phase <- Phase

Receiving == INSTANCE Conduit WITH
  first <- First("Recv"), answer <- strand["Recv"].promise,
  carried <- strand["Recv"].wire, healthy <- Healthy, phase <- Phase

(* Either direction implements Conduit: from the call of an operation, over*)
(* its handlers and those of close() and cancel(), to its answer.          *)
ImplementsConduit == Sending!Spec /\ Receiving!Spec

(* A queued operation is never forgotten: when the socket is available, its*)
(* handler is yet to come. The user pushes without the strand, while a     *)
(* completion may be about to find the queue empty.                        *)
NoStall ==
  \A d \in Dir :
    strand[d].mSocketAvailable /\ strand[d].mQueue # <<>> =>
      \/ user.pc = "post" /\ user.dir = d
      \/ \E i \in DOMAIN strand[d].handlers : strand[d].handlers[i] = "enqueue"

(* While the connection holds and nobody cancels, close() returns when     *)
(* every operation was carried out, and none of their handlers is left to  *)
(* run on the channel, which is about to be destroyed.                     *)
CloseDrains ==
  user.pc = "closed" /\ cancel = "no" /\ peer # "down" =>
    \A d \in Dir :
      /\ \A i \in Ops(d) : \E j \in DOMAIN strand[d].wire : strand[d].wire[j] = i
      /\ \A i \in DOMAIN strand[d].handlers :
           strand[d].handlers[i] = "connectionStringSent"

(* Also when the connection breaks, an operation with a promise is settled *)
(* or still in the queue, and what was settled with a value did go over the*)
(* wire.                                                                   *)
PromisesKept ==
  terminated = "no" =>
    \A d \in Dir : \A i \in Ops(d) :
      /\ strand[d].promise[i] = "unset" => i \in Queued(strand[d])
      /\ strand[d].promise[i] = "value" =>
           \E j \in DOMAIN strand[d].wire : strand[d].wire[j] = i

(* close() returns, with operations under way, before the connection is    *)
(* made and when it breaks, if no message has an unexpected size, unless   *)
(* the process was terminated meanwhile.                                   *)
CloseReturns == user.pc = "closing" ~> user.pc = "closed" \/ terminated # "no"

(* A blocking send() or recv() comes back, also if it was called before    *)
(* there was a connection, as long as the connection holds.                *)
CallsReturn == user.pc = "wait" ~> user.pc # "wait" \/ peer = "down"

(* When cancel() returns to the thread that uses the channel nothing is    *)
(* left in its queues and no promise is left without an answer, unless the *)
(* connection broke: the queue of its direction was emptied before, and an *)
(* operation that was queued since is in it for good.                      *)
CancelSettles ==
  cancel = "done" /\ peer # "down" =>
    \A d \in Dir : /\ strand[d].mQueue = <<>>
                    /\ \A i \in Ops(d) : strand[d].promise[i] # "unset"

(* cancel() "aborts all current operations (connect, send, receive)"       *)
(* (Channel.h:269): a send() under way gets its exception once. Setting its*)
(* promise again throws in a thread of the io_service and ends the process.*)
(* (So does a receive whose message had another size, if the read into the *)
(* buffer given for it fails.)                                             *)
SettledOnce == terminated # "promise"

=============================================================================
