------------------------------- MODULE Acceptor -----------------------------
(***************************************************************************)
(* The acceptor of one port (cryptoTools/Network/IOService.cpp) and the    *)
(* sessions that use it (Session.cpp). Sockets come from clients, one per  *)
(* channel of theirs; each tells in a handshake which session and channel  *)
(* it is for. Local channels ask for a socket. Whichever of the two is     *)
(* first waits for the other.                                              *)
(*                                                                         *)
(* What the acceptor keeps is touched on its strand only: a handler of the *)
(* strand is one step. The user's threads post to the strand, and so do    *)
(* the callbacks of the sockets, in threads of the io_service.             *)
(***************************************************************************)
EXTENDS Integers, Sequences, FiniteSets

CONSTANTS
  Sessions,      \* local sessions, in server mode
  Channels,      \* their channels
  sessionOf,     \* by channel: its session
  Clients,       \* remote sessions; one stands for its session ID as well
  Connections,   \* their channels, each with the connection it makes
  sessionName,   \* by session and client
  channelName,   \* by channel and connection; what the two ends call local
                 \* and remote is exchanged on the way
  None,
  Settings       \* what may happen, one of:
                 \*   clientOf   by connection: its client
                 \*   starts, stops   sessions the user starts, and may stop
                 \*   cancels    channels the user may cancel()
                 \*   unreliable connections that may break or come in pieces
                 \*   service    may the user stop the IOService?
                 \*   bindFails  may another process have the port?

ASSUME AcceptorAssumption ==
  /\ sessionOf \in [Channels -> Sessions]
  /\ DOMAIN sessionName = Sessions \cup Clients
  /\ DOMAIN channelName = Channels \cup Connections
  /\ Sessions \cap Clients = {} /\ Channels \cap Connections = {}
  /\ None \notin Sessions \cup Clients \cup Connections
  /\ Settings \subseteq
       [clientOf : [Connections -> Clients], starts : SUBSET Sessions, stops : SUBSET Sessions,
        cancels : SUBSET Channels, unreliable : SUBSET Connections,
        service : BOOLEAN, bindFails : BOOLEAN]

(* Either side names the channels of a session differently.                *)
ASSUME NamesAssumption ==
  /\ \A c, d \in Channels :
       sessionOf[c] = sessionOf[d] /\ channelName[c] = channelName[d] => c = d
  /\ \A o \in Settings, k, l \in Connections :
       o.clientOf[k] = o.clientOf[l] /\ channelName[k] = channelName[l] => k = l

VARIABLES
  setting,    \* what may happen; it does not change
  session,    \* by session: what its user does with it
  channel,    \* by channel: what its user does with it
  given,      \* by channel: the connection whose socket it has
  group,      \* by session: its SessionGroup, an element of mGroups
  mSessionID, \* by session: the client it was paired with
  mUnclaimedGroups,  \* sessions not paired with a client
  mClaimedGroups,    \* by client: the session paired with it
  mUnclaimedSockets, \* clients with a SocketGroup
  mSockets,   \* by client: the named sockets in its SocketGroup
  stage,      \* by connection: how far it is, see Stages
  closed,     \* connections whose pending socket stop() closed
  accepts,    \* sockets given to async_accept that wait
  aborted,    \* those that were told that the acceptor's handle is closed
  mListening, mStopped,
  emptyProm,  \* mPendingSocketsEmptyProm and
  stoppedProm,\* mStoppedPromise: are they set?
  strand,     \* handlers that wait, the next one first
  service,    \* what the user does with the IOService
  terminated  \* what ended the process, or "no"

users == <<session, channel, service>>
pairing == <<given, group, mSessionID, mUnclaimedGroups, mClaimedGroups,
             mUnclaimedSockets, mSockets>>
sockets == <<stage, closed, accepts, aborted>>
life == <<mListening, mStopped, emptyProm, stoppedProm>>
vars == <<setting, users, pairing, sockets, life, strand, terminated>>

(***************************************************************************)
(* Stages of a connection.                                                 *)
(*   away      the client has not connected                                *)
(*   backlog   the system has the connection, the acceptor has not         *)
(*   accepted  the acceptor's socket has it, its callback is to come       *)
(*   header, body   the length and the string are being received           *)
(*   read      the string has come, its handler is on the strand           *)
(*   failed    the handler that gives the socket up is on the strand       *)
(*   named     the socket waits in a group for a channel                   *)
(*   given     a channel has it                                            *)
(*   lost      it was given up                                             *)
(***************************************************************************)
Pending == {"accepted", "header", "body", "read", "failed"}
Stages == {"away", "backlog", "named", "given", "lost"} \cup Pending

(* The session ID in a connection string.                                  *)
clientOf(k) == setting.clientOf[k]

(* A handler that gives up a socket: one with a connection, or one that    *)
(* waited for a connection in vain.                                        *)
Erase(k) == <<"erase", k>>

Handlers ==
  ({"subscribe", "unsubscribe"} \X Sessions) \cup ({"getSocket", "cancel"} \X Channels)
  \cup ({"read", "part"} \X Connections) \cup ({"erase"} \X (Connections \cup {None}))
  \cup ({"start", "stop"} \X {None})

Queued(h) == \E i \in DOMAIN strand : strand[i] = h

Erasing == {i \in DOMAIN strand : strand[i] = Erase(None)}

(* mPendingSockets.size()                                                  *)
pendingSockets ==
  accepts + aborted + Cardinality(Erasing)
    + Cardinality({k \in Connections : stage[k] \in Pending})

-----------------------------------------------------------------------------
(* Groups                                                                  *)

NoGroup == [exists |-> FALSE, mBase |-> FALSE, mChannels |-> {}, mSockets |-> {}]

NewGroup == [NoGroup EXCEPT !.exists = TRUE, !.mBase = TRUE]

groupHasSubscriptions(g) == g.mChannels # {} \/ g.mBase

(* Acceptor::hasSubscriptions, were the groups as given.                   *)
hasSubscriptions(groups) ==
  \E s \in Sessions : groups[s].exists /\ groupHasSubscriptions(groups[s])

(* hasMatchingChannel, hasMatchingSocket and the searches of add().        *)
Matches(channels, socks) ==
  {m \in channels \X socks : channelName[m[1]] = channelName[m[2]]}

(* SessionGroup::add: who is matched leaves the group.                     *)
Without(g, M) == [g EXCEPT !.mChannels = @ \ {m[1] : m \in M},
                           !.mSockets = @ \ {m[2] : m \in M}]

(* ChannelBase::startSocket for the channels of M.                         *)
Give(M) ==
  given' = [c \in Channels |->
              IF \E k \in Connections : <<c, k>> \in M
              THEN CHOOSE k \in Connections : <<c, k>> \in M ELSE given[c]]

(* A group nobody uses any more is removed, with the sockets left in it.   *)
EraseIfUnused(groups, s) ==
  IF groupHasSubscriptions(groups[s]) THEN groups ELSE [groups EXCEPT ![s] = NoGroup]

(* The sockets of a group that is removed are closed with it.              *)
StageAfter(groups, s, stages) ==
  LET removed == IF groupHasSubscriptions(groups[s]) THEN {} ELSE groups[s].mSockets
  IN [k \in Connections |-> IF k \in removed THEN "lost" ELSE stages[k]]

(* Mutant: the acceptor goes on listening for nobody. *)
StopListening_Never(groups, stages) ==
  stage' = stages /\ UNCHANGED <<mListening, accepts, aborted, stoppedProm>>

(* stopListening(), called when a group was removed. It closes the handle: *)
(* accepts under way are aborted, connections of the backlog are reset.    *)
StopListening(groups, stages) ==
  IF mListening /\ ~hasSubscriptions(groups)
  THEN /\ mListening' = FALSE
       /\ accepts' = 0 /\ aborted' = aborted + accepts
       /\ stage' = [k \in Connections |->
                      IF stages[k] = "backlog" THEN "lost" ELSE stages[k]]
       /\ stoppedProm' = IF mStopped THEN stoppedProm + 1 ELSE stoppedProm
  ELSE stage' = stages /\ UNCHANGED <<mListening, accepts, aborted, stoppedProm>>

(* How a handler leaves the group of s: removed, and the acceptor no longer*)
(* listening, if nobody uses them any more.                                *)
Tidy(groups, s, stages) ==
  /\ group' = EraseIfUnused(groups, s)
  /\ StopListening(EraseIfUnused(groups, s), StageAfter(groups, s, stages))

(* The same for a group that stays what it is in the maps of the acceptor. *)
TidyMapped(groups, s, stages) ==
  LET gone == ~groupHasSubscriptions(groups[s])
  IN /\ Tidy(groups, s, stages)
     /\ mUnclaimedGroups' = IF gone THEN mUnclaimedGroups \ {s} ELSE mUnclaimedGroups
     /\ mClaimedGroups' = [x \in Clients |-> IF gone /\ mClaimedGroups[x] = s
                                             THEN None ELSE mClaimedGroups[x]]

-----------------------------------------------------------------------------
Init ==
  /\ setting \in Settings
  /\ session = [s \in Sessions |-> "new"] /\ channel = [c \in Channels |-> "new"]
  /\ given = [c \in Channels |-> None]
  /\ group = [s \in Sessions |-> NoGroup] /\ mSessionID = [s \in Sessions |-> None]
  /\ mUnclaimedGroups = {} /\ mClaimedGroups = [x \in Clients |-> None]
  /\ mUnclaimedSockets = {} /\ mSockets = [x \in Clients |-> {}]
  /\ stage = [k \in Connections |-> "away"] /\ closed = {}
  /\ accepts = 0 /\ aborted = 0
  /\ mListening = FALSE /\ mStopped = FALSE
  /\ emptyProm = 0 /\ stoppedProm = 0
  /\ strand = <<>> /\ service = "running" /\ terminated = "no"

Post(h) == strand' = Append(strand, h)

-----------------------------------------------------------------------------
(* The users of sessions and of the IOService                              *)

(* A cancel() under way keeps its thread from doing anything else, and so  *)
(* does, for good, the close() of a channel that was refused.              *)
Free(s) ==
  \A c \in Channels : sessionOf[c] = s => channel[c] \notin {"cancelling", "refused"}

(* Session::start finds the acceptor of its port, also one that is being   *)
(* stopped, and subscribes.                                                *)
SessionStart(s) ==
  /\ s \in setting.starts /\ session[s] = "new" /\ service # "returned"
  /\ session' = [session EXCEPT ![s] = "starting"]
  /\ Post(<<"subscribe", s>>)
  /\ UNCHANGED <<channel, service, pairing, sockets, life, terminated>>

(* The exception of subscribe() leaves the constructor of the session, and *)
(* its SessionBase is destroyed: it was not stopped and has an acceptor.   *)
SessionDiscard(s) ==
  /\ session[s] = "refused"
  /\ session' = [session EXCEPT ![s] = "stopping"]
  /\ Post(<<"unsubscribe", s>>)
  /\ UNCHANGED <<channel, service, pairing, sockets, life, terminated>>

(* Session::addChannel; asyncGetSocket throws if the acceptor has stopped. *)
(* The exception destroys the channel, and its close() waits for a socket. *)
AddChannel(c) ==
  /\ session[sessionOf[c]] = "running" /\ Free(sessionOf[c]) /\ channel[c] = "new"
  /\ channel' = [channel EXCEPT ![c] = IF mStopped THEN "refused" ELSE "waiting"]
  /\ IF mStopped THEN UNCHANGED strand ELSE Post(<<"getSocket", c>>)
  /\ UNCHANGED <<session, service, pairing, sockets, life, terminated>>

(* ChannelBase::cancel: the acceptor is asked to give the channel up,      *)
(* whether it has a socket by now or not, and the answer is awaited.       *)
Cancel(c) ==
  /\ c \in setting.cancels /\ channel[c] = "waiting"
  /\ session[sessionOf[c]] \in {"running", "stopped"} /\ Free(sessionOf[c])
  /\ channel' = [channel EXCEPT ![c] = "cancelling"]
  /\ Post(<<"cancel", c>>)
  /\ UNCHANGED <<session, service, pairing, sockets, life, terminated>>

CancelReturn(c) ==
  /\ channel[c] = "cancelling" /\ given[c] # None
  /\ channel' = [channel EXCEPT ![c] = "cancelled"]
  /\ UNCHANGED <<session, service, pairing, sockets, life, strand, terminated>>

(* SessionBase::stop.                                                      *)
SessionStop(s) ==
  /\ s \in setting.stops /\ session[s] = "running" /\ Free(s)
  /\ session' = [session EXCEPT ![s] = "stopping"]
  /\ Post(<<"unsubscribe", s>>)
  /\ UNCHANGED <<channel, service, pairing, sockets, life, terminated>>

(* IOService::stop calls Acceptor::stop, which waits for two promises.     *)
ServiceStop ==
  /\ setting.service /\ service = "running"
  /\ service' = "stopping"
  /\ Post(<<"stop", None>>)
  /\ UNCHANGED <<session, channel, pairing, sockets, life, terminated>>

ServiceReturn ==
  /\ service = "stopping" /\ emptyProm > 0 /\ stoppedProm > 0
  /\ service' = "returned"
  /\ UNCHANGED <<session, channel, pairing, sockets, life, strand, terminated>>

Users ==
  \/ \E s \in Sessions : SessionStart(s) \/ SessionDiscard(s) \/ SessionStop(s)
  \/ \E c \in Channels : AddChannel(c) \/ Cancel(c) \/ CancelReturn(c)
  \/ ServiceStop \/ ServiceReturn

-----------------------------------------------------------------------------
(* Connections, and the callbacks of their sockets                         *)

(* A client tries until its connection is made.                            *)
Connect(k) ==
  /\ stage[k] = "away" /\ mListening
  /\ stage' = [stage EXCEPT ![k] = "backlog"]
  /\ UNCHANGED <<users, pairing, closed, accepts, aborted, life, strand, terminated>>

AcceptSocket(k) ==
  /\ stage[k] = "backlog" /\ accepts > 0
  /\ stage' = [stage EXCEPT ![k] = "accepted"] /\ accepts' = accepts - 1
  /\ UNCHANGED <<users, pairing, closed, aborted, life, strand, terminated>>

(* Mutant: the acceptor does not accept another socket after this one. *)
AcceptCallback_Once(k) ==
  /\ stage[k] = "accepted"
  /\ IF k \in closed THEN terminated' = "option" /\ UNCHANGED stage
     ELSE stage' = [stage EXCEPT ![k] = "header"] /\ UNCHANGED terminated
  /\ UNCHANGED <<users, pairing, closed, accepts, aborted, life, strand>>

(* The callback of async_accept: the next accept is begun, an option of the*)
(* socket set and the header asked for. Setting an option of a socket that *)
(* stop() has closed throws, in a thread of the io_service.                *)
AcceptCallback(k) ==
  /\ stage[k] = "accepted"
  /\ Post(<<"start", None>>)
  /\ IF k \in closed THEN terminated' = "option" /\ UNCHANGED stage
     ELSE stage' = [stage EXCEPT ![k] = "header"] /\ UNCHANGED terminated
  /\ UNCHANGED <<users, pairing, closed, accepts, aborted, life>>

(* Mutant: an accept that was answered is answered once more. *)
AcceptAborted_Again ==
  /\ aborted' = aborted - 1
  /\ strand' = strand \o <<<<"start", None>>, Erase(None)>>
  /\ UNCHANGED <<users, pairing, stage, closed, accepts, life, terminated>>

AcceptAborted ==
  /\ aborted > 0
  /\ aborted' = aborted - 1
  /\ strand' = strand \o <<<<"start", None>>, Erase(None)>>
  /\ UNCHANGED <<users, pairing, stage, closed, accepts, life, terminated>>

(* Receiving the header and the string fails if either side closed the     *)
(* socket. What async_receive got may be a part of the string only.        *)
Receive(k, from, to, h) ==
  /\ stage[k] = from
  /\ stage' = [stage EXCEPT ![k] = to]
  /\ IF h = <<>> THEN UNCHANGED strand ELSE Post(h)
  /\ UNCHANGED <<users, pairing, closed, accepts, aborted, life, terminated>>

ReceiveHeader(k) == k \notin closed /\ Receive(k, "header", "body", <<>>)

ReceiveString(k) ==
  \/ k \notin closed /\ Receive(k, "body", "read", <<"read", k>>)
  \/ k \notin closed /\ k \in setting.unreliable /\ Receive(k, "body", "read", <<"part", k>>)

ReceiveFails(k) ==
  /\ k \in closed \/ k \in setting.unreliable
  /\ Receive(k, "header", "failed", Erase(k)) \/ Receive(k, "body", "failed", Erase(k))

Callbacks(k) == AcceptCallback(k) \/ ReceiveHeader(k) \/ ReceiveString(k) \/ ReceiveFails(k)

Network == AcceptAborted \/ \E k \in Connections : Connect(k) \/ AcceptSocket(k) \/ Callbacks(k)

-----------------------------------------------------------------------------
(* Handlers of the strand                                                  *)

Handle(h) == strand # <<>> /\ Head(strand) = h /\ strand' = Tail(strand)

(* async_accept on a new socket, if the acceptor is still to listen.       *)
Start ==
  /\ Handle(<<"start", None>>)
  /\ accepts' = IF mListening THEN accepts + 1 ELSE accepts
  /\ UNCHANGED <<users, pairing, stage, closed, aborted, life, terminated>>

(* Mutant: only stop() itself looks whether sockets are pending. *)
PromiseIfEmpty_Never == UNCHANGED emptyProm

(* After a pending socket was erased: stop() waits for the last one.       *)
PromiseIfEmpty ==
  emptyProm' = IF mStopped /\ pendingSockets' = 0 THEN emptyProm + 1 ELSE emptyProm

EraseSocket(k) ==
  /\ Handle(Erase(k))
  /\ stage' = IF k = None THEN stage ELSE [stage EXCEPT ![k] = "lost"]
  /\ UNCHANGED <<closed, accepts, aborted>>
  /\ PromiseIfEmpty
  /\ UNCHANGED <<users, pairing, mListening, mStopped, stoppedProm, terminated>>

(* Mutant: stop() does not wait for sockets in the handshake. *)
Stop_NoWait ==
  /\ Handle(<<"stop", None>>)
  /\ mStopped' = TRUE /\ mListening' = FALSE
  /\ closed' = closed \cup {k \in Connections : stage[k] \in Pending}
  /\ stage' = [k \in Connections |-> IF stage[k] = "backlog" THEN "lost" ELSE stage[k]]
  /\ accepts' = 0 /\ aborted' = aborted + accepts
  /\ emptyProm' = emptyProm + 1
  /\ stoppedProm' = IF hasSubscriptions(group) THEN stoppedProm ELSE stoppedProm + 1
  /\ UNCHANGED <<users, pairing, terminated>>

(* Acceptor::stop. The handle and all pending sockets are closed.          *)
Stop ==
  /\ Handle(<<"stop", None>>)
  /\ mStopped' = TRUE /\ mListening' = FALSE
  /\ closed' = closed \cup {k \in Connections : stage[k] \in Pending}
  /\ stage' = [k \in Connections |-> IF stage[k] = "backlog" THEN "lost" ELSE stage[k]]
  /\ accepts' = 0 /\ aborted' = aborted + accepts
  /\ emptyProm' = IF pendingSockets = 0 THEN emptyProm + 1 ELSE emptyProm
  /\ stoppedProm' = IF hasSubscriptions(group) THEN stoppedProm ELSE stoppedProm + 1
  /\ UNCHANGED <<users, pairing, terminated>>

(* subscribe(). After an error of bind() the promise is set once more,     *)
(* which throws.                                                           *)
Subscribe(s) ==
  /\ Handle(<<"subscribe", s>>)
  /\ IF mStopped
     THEN /\ session' = [session EXCEPT ![s] = "refused"]
          /\ UNCHANGED <<group, mUnclaimedGroups, mListening, accepts, terminated>>
     ELSE /\ session' = [session EXCEPT ![s] = "running"]
          /\ group' = [group EXCEPT ![s] = NewGroup]
          /\ mUnclaimedGroups' = mUnclaimedGroups \cup {s}
          /\ mListening' = TRUE
          /\ accepts' = IF mListening THEN accepts ELSE accepts + 1
          /\ \/ UNCHANGED terminated
             \/ setting.bindFails /\ ~mListening /\ terminated' = "bind"
  /\ UNCHANGED <<channel, service, given, mSessionID, mClaimedGroups, mUnclaimedSockets,
                 mSockets, stage, closed, aborted, mStopped, emptyProm, stoppedProm>>

(* Mutant: the group of a session that ends is removed from the acceptor's *)
(* list but stays in its maps. *)
Unsubscribe_StaysMapped(s) ==
  /\ Handle(<<"unsubscribe", s>>)
  /\ session' = [session EXCEPT ![s] = "stopped"]
  /\ group[s].exists
  /\ Tidy([group EXCEPT ![s].mBase = FALSE], s, stage)
  /\ UNCHANGED <<channel, service, given, mSessionID, mUnclaimedGroups, mClaimedGroups,
                 mUnclaimedSockets, mSockets, closed, mStopped, emptyProm, terminated>>

(* unsubscribe(). A session whose subscription was refused has no group.   *)
Unsubscribe(s) ==
  /\ Handle(<<"unsubscribe", s>>)
  /\ session' = [session EXCEPT ![s] = "stopped"]
  /\ IF group[s].exists
     THEN /\ TidyMapped([group EXCEPT ![s].mBase = FALSE], s, stage)
          /\ UNCHANGED terminated
     ELSE /\ terminated' = "group"
          /\ UNCHANGED <<group, mUnclaimedGroups, mClaimedGroups, stage, accepts, aborted,
                         mListening, stoppedProm>>
  /\ UNCHANGED <<channel, service, given, mSessionID, mUnclaimedSockets, mSockets,
                 closed, mStopped, emptyProm>>

(* cancelPendingChannel(). The group of the session may be gone, if the    *)
(* session was stopped and this channel did not wait for a socket.         *)
CancelPending(c) ==
  LET s == sessionOf[c]
  IN /\ Handle(<<"cancel", c>>)
     /\ IF group[s].exists
        THEN /\ IF c \in group[s].mChannels
                THEN channel' = [channel EXCEPT ![c] = "cancelled"]
                ELSE UNCHANGED channel
             /\ TidyMapped([group EXCEPT ![s].mChannels = @ \ {c}], s, stage)
             /\ UNCHANGED terminated
        ELSE /\ terminated' = "group"
             /\ UNCHANGED <<channel, group, mUnclaimedGroups, mClaimedGroups, stage, accepts,
                            aborted, mListening, stoppedProm>>
     /\ UNCHANGED <<session, service, given, mSessionID, mUnclaimedSockets, mSockets,
                    closed, mStopped, emptyProm>>

(* Mutant: the sockets of a client that is paired stay where they waited. *)
TakeSockets_Stay(x) == UNCHANGED <<mUnclaimedSockets, mSockets>>

(* The SocketGroup of a client is taken out of mUnclaimedSockets.          *)
TakeSockets(x) ==
  /\ mUnclaimedSockets' = mUnclaimedSockets \ {x}
  /\ mSockets' = [mSockets EXCEPT ![x] = {}]

(* SessionGroup::merge and what follows it: group g of session s is paired *)
(* with client x and takes its sockets K. The code takes the first of the  *)
(* groups that match; which of them is first is left open.                 *)
Claim(s, x, g, K) ==
  LET M == Matches(g.mChannels, K)
      merged == Without([g EXCEPT !.mSockets = @ \cup K], M)
  IN /\ Give(M)
     /\ mSessionID' = IF g.mBase THEN [mSessionID EXCEPT ![s] = x] ELSE mSessionID
     /\ TakeSockets(x)
     /\ mUnclaimedGroups' = mUnclaimedGroups \ {s}
     /\ mClaimedGroups' = IF groupHasSubscriptions(merged)
                          THEN [mClaimedGroups EXCEPT ![x] = s] ELSE mClaimedGroups
     /\ Tidy([group EXCEPT ![s] = merged], s,
             [k \in Connections |-> IF \E c \in Channels : <<c, k>> \in M THEN "given"
                                    ELSE IF k \in K THEN "named" ELSE stage[k]])

(* asyncGetSocket() of a session that is paired: SessionGroup::add.        *)
GetSocketPaired(c) ==
  LET s == sessionOf[c]
      M == Matches({c}, group[s].mSockets)
  IN /\ Handle(<<"getSocket", c>>) /\ mSessionID[s] # None
     /\ Give(M)
     /\ TidyMapped([group EXCEPT ![s] = Without([group[s] EXCEPT !.mChannels = @ \cup {c}], M)], s,
                   [k \in Connections |-> IF <<c, k>> \in M THEN "given" ELSE stage[k]])
     /\ UNCHANGED <<users, mSessionID, mUnclaimedSockets, mSockets, closed, mStopped,
                    emptyProm, terminated>>

(* Of one that is not: are there sockets of a client for a session of this *)
(* name, with one for this channel among them?                             *)
ClientsFor(c) ==
  {x \in mUnclaimedSockets : /\ sessionName[x] = sessionName[sessionOf[c]]
                             /\ Matches({c}, mSockets[x]) # {}}

(* Mutant: a channel that asks first waits, and does not look for sockets. *)
GetSocket_OnlyWaits(c) ==
  LET s == sessionOf[c]
  IN /\ Handle(<<"getSocket", c>>) /\ mSessionID[s] = None
     /\ group' = [group EXCEPT ![s].mChannels = @ \cup {c}]
     /\ UNCHANGED <<users, given, mSessionID, mUnclaimedGroups, mClaimedGroups,
                    mUnclaimedSockets, mSockets, sockets, life, terminated>>

GetSocket(c) ==
  LET s == sessionOf[c]
      g == [group[s] EXCEPT !.mChannels = @ \cup {c}]
  IN /\ Handle(<<"getSocket", c>>) /\ mSessionID[s] = None
     /\ \/ /\ \E x \in ClientsFor(c) : Claim(s, x, g, mSockets[x])
           /\ UNCHANGED <<users, closed, mStopped, emptyProm, terminated>>
        \/ /\ ClientsFor(c) = {}
           /\ group' = [group EXCEPT ![s] = g]
           /\ UNCHANGED <<users, given, mSessionID, mUnclaimedGroups, mClaimedGroups,
                          mUnclaimedSockets, mSockets, sockets, life, terminated>>

(* asyncSetSocket() of the socket of k, whose string has come:             *)
(* the client is paired, SessionGroup::add;                                *)
SetSocketPaired(k) ==
  LET s == mClaimedGroups[clientOf(k)]
      M == Matches(group[s].mChannels, {k})
  IN /\ s # None
     /\ Give(M)
     /\ TidyMapped([group EXCEPT ![s] = Without([group[s] EXCEPT !.mSockets = @ \cup {k}], M)], s,
                   [stage EXCEPT ![k] = IF M = {} THEN "named" ELSE "given"])
     /\ UNCHANGED <<mSessionID, mUnclaimedSockets, mSockets>>

GroupsFor(k) ==
  {s \in mUnclaimedGroups : /\ sessionName[s] = sessionName[clientOf(k)]
                            /\ Matches(group[s].mChannels, {k}) # {}}

(* or a session waits for such a socket;                                   *)
SetSocketMatched(k) ==
  LET x == clientOf(k)
  IN /\ mClaimedGroups[x] = None
     /\ \E s \in GroupsFor(k) : Claim(s, x, group[s], mSockets[x] \cup {k})

(* or the socket is put in a group of sockets of its client.               *)
SetSocketWaits(k) ==
  LET x == clientOf(k)
  IN /\ mClaimedGroups[x] = None /\ GroupsFor(k) = {}
     /\ mUnclaimedSockets' = mUnclaimedSockets \cup {x}
     /\ mSockets' = [mSockets EXCEPT ![x] = @ \cup {k}]
     /\ stage' = [stage EXCEPT ![k] = "named"]
     /\ UNCHANGED <<given, group, mSessionID, mUnclaimedGroups, mClaimedGroups, accepts,
                    aborted, mListening, stoppedProm>>

(* The handler of a string that was received ends with erasing the socket  *)
(* from the pending ones.                                                  *)
NameSocket(k) ==
  /\ Handle(<<"read", k>>)
  /\ SetSocketPaired(k) \/ SetSocketMatched(k) \/ SetSocketWaits(k)
  /\ PromiseIfEmpty
  /\ UNCHANGED <<users, closed, mStopped, terminated>>

(* A part of a string has less than four names, or names that nobody has:  *)
(* the socket is dropped, or kept where nobody asks for it.                *)
DropSocket(k) ==
  /\ Handle(<<"part", k>>)
  /\ stage' = [stage EXCEPT ![k] = "lost"]
  /\ UNCHANGED <<closed, accepts, aborted>>
  /\ PromiseIfEmpty
  /\ UNCHANGED <<users, pairing, mListening, mStopped, stoppedProm, terminated>>

RunStrand ==
  \/ Start \/ Stop
  \/ \E s \in Sessions : Subscribe(s) \/ Unsubscribe(s)
  \/ \E c \in Channels : CancelPending(c) \/ GetSocketPaired(c) \/ GetSocket(c)
  \/ \E k \in Connections \cup {None} : EraseSocket(k)
  \/ \E k \in Connections : NameSocket(k) \/ DropSocket(k)

-----------------------------------------------------------------------------
Running == terminated = "no"

Step(A) == Running /\ A /\ UNCHANGED setting

Next == Step(Users \/ Network \/ RunStrand)

Spec == Init /\ [][Next]_vars

(***************************************************************************)
(* The io_service runs what was posted and the callbacks of its sockets, a *)
(* client tries to connect until it succeeds, and a thread goes on in a    *)
(* call it has begun. What users call, and what fails, is left open.       *)
(***************************************************************************)
Fairness ==
  /\ WF_vars(Step(RunStrand)) /\ WF_vars(Step(AcceptAborted))
  /\ \A k \in Connections :
       /\ WF_vars(Step(Connect(k))) /\ WF_vars(Step(AcceptSocket(k)))
       /\ WF_vars(Step(Callbacks(k)))
  /\ \A c \in Channels : WF_vars(Step(CancelReturn(c)))
  /\ WF_vars(Step(ServiceReturn))

FairSpec == Spec /\ Fairness

-----------------------------------------------------------------------------
(* Properties *)

TypeOK ==
  /\ setting \in Settings
  /\ session \in [Sessions -> {"new", "starting", "running", "refused", "stopping", "stopped"}]
  /\ channel \in [Channels -> {"new", "refused", "waiting", "cancelling", "cancelled"}]
  /\ service \in {"running", "stopping", "returned"}
  /\ given \in [Channels -> Connections \cup {None}]
  /\ group \in [Sessions -> [exists : BOOLEAN, mBase : BOOLEAN,
                             mChannels : SUBSET Channels, mSockets : SUBSET Connections]]
  /\ mSessionID \in [Sessions -> Clients \cup {None}]
  /\ mUnclaimedGroups \subseteq Sessions
  /\ mClaimedGroups \in [Clients -> Sessions \cup {None}]
  /\ mUnclaimedSockets \subseteq Clients
  /\ mSockets \in [Clients -> SUBSET Connections]
  /\ stage \in [Connections -> Stages] /\ closed \subseteq Connections
  /\ accepts \in Nat /\ aborted \in Nat
  /\ mListening \in BOOLEAN /\ mStopped \in BOOLEAN
  /\ emptyProm \in Nat /\ stoppedProm \in Nat
  /\ strand \in Seq(Handlers)
  /\ terminated \in {"no", "bind", "option", "group"}

(* A group is in one of the two maps while it exists, and the maps agree   *)
(* with what sessions and groups of sockets know themselves.               *)
MapsAgree ==
  /\ \A s \in Sessions :
       /\ group[s].exists <=> groupHasSubscriptions(group[s])
       /\ group[s].exists <=> s \in mUnclaimedGroups \/ \E x \in Clients : mClaimedGroups[x] = s
       /\ s \in mUnclaimedGroups => mSessionID[s] = None /\ group[s].mSockets = {}
       /\ group[s].mBase /\ s \notin mUnclaimedGroups =>
            mSessionID[s] # None /\ mClaimedGroups[mSessionID[s]] = s
  /\ \A x \in Clients :
       mClaimedGroups[x] # None =>
         /\ mClaimedGroups[x] \notin mUnclaimedGroups /\ x \notin mUnclaimedSockets
         /\ \A y \in Clients \ {x} : mClaimedGroups[y] # mClaimedGroups[x]

(* A handler that follows mGroup of a session finds the group, but for a   *)
(* channel that is cancelled after its session was stopped.                *)
GroupsFound ==
  \A c \in Channels :
    /\ Queued(<<"getSocket", c>>) => group[sessionOf[c]].mBase
    /\ Queued(<<"cancel", c>>) =>
         group[sessionOf[c]].exists \/ session[sessionOf[c]] = "stopped"

(* mGroups "all have active Sessions or active Channels which are waiting" *)
(* (IOService.h:215), merge() and the insertion into mClaimedGroups, which *)
(* throw otherwise, find it so, and handlers find their groups.            *)
GroupsMapped == MapsAgree /\ GroupsFound

(* A channel and a socket for it do not both wait: whichever came second   *)
(* found the first, also if the session was stopped or other channels were *)
(* cancelled in between.                                                   *)
NoMissedMatch ==
  /\ \A s \in Sessions : Matches(group[s].mChannels, group[s].mSockets) = {}
  /\ \A s \in mUnclaimedGroups, x \in mUnclaimedSockets :
       sessionName[s] = sessionName[x] => Matches(group[s].mChannels, mSockets[x]) = {}

(* Until it is stopped the acceptor listens exactly while somebody wants   *)
(* it to, and while it listens an accept is under way or about to begin,   *)
(* also when it had stopped listening in between.                          *)
Listens ==
  /\ ~mStopped => (mListening <=> hasSubscriptions(group))
  /\ mListening => \/ accepts > 0 \/ Queued(<<"start", None>>)
                   \/ \E k \in Connections : stage[k] = "accepted"

(* When stop() returns, the acceptor is destroyed: no pending socket and no*)
(* handler is left, but for those of sessions that were started too late   *)
(* and of channels that are cancelled too late, which have no group.       *)
(* No promise is set twice, which would throw.                             *)
StopIsLast ==
  /\ emptyProm <= 1 /\ stoppedProm <= 1
  /\ service = "returned" =>
       /\ pendingSockets = 0
       /\ \A i \in DOMAIN strand :
            \/ strand[i][1] \in {"subscribe", "unsubscribe"} /\ ~group[strand[i][2]].exists
            \/ strand[i][1] = "cancel" /\ ~group[sessionOf[strand[i][2]]].exists

(* Every connection that reaches the system's backlog is named or given up.*)
HandshakesEnd ==
  \A k \in Connections :
    stage[k] = "backlog" ~> stage[k] \in {"named", "given", "lost"} \/ ~Running

(* stop() returns if nobody had a subscription when it stopped, although   *)
(* sockets were in the middle of their handshake.                          *)
StopReturns == mStopped /\ stoppedProm > 0 ~> service = "returned" \/ ~Running

(* IOService::stop "blocks until all Channels and Sessions are stopped"    *)
(* (IOService.h:68), and no longer.                                        *)
StopReturnsAfterSessions ==
  service = "stopping" /\ (\A s \in Sessions : session[s] \in {"new", "stopped"} /\ ~group[s].exists)
    ~> service = "returned" \/ ~Running \/ \E s \in Sessions : session[s] = "starting"

(* The promise of the acceptor (see Rendezvous): a channel gets at most one*)
(* socket, a socket goes to one channel, of the same names, and the pairs  *)
(* of a session and a client exclude others while the session lasts.       *)
Promise == INSTANCE Rendezvous WITH
  Sockets <- Connections,
  client <- setting.clientOf,
  waiting <- {c \in Channels : channel[c] \in {"waiting", "cancelling"} /\ given[c] = None},
  offered <- {k \in Connections : stage[k] = "named" \/ Queued(<<"read", k>>)},
  stopped <- {s \in Sessions : session[s] = "stopped"}

KeepsPromise == Promise!Spec
=============================================================================
