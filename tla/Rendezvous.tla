------------------------------ MODULE Rendezvous ----------------------------
(***************************************************************************)
(* What an acceptor promises: channels that wait and sockets that are      *)
(* offered meet under their names, each at most once, and the channels of  *)
(* a session are connected to one client, which has no other session at    *)
(* the same time.                                                          *)
(***************************************************************************)
CONSTANTS
  Channels, Sessions, Clients, Sockets, None,
  sessionOf,                \* by channel: its session
  sessionName, channelName  \* by session and client; by channel and socket

VARIABLES
  client,   \* by socket: the client it is from; it does not change
  waiting,  \* channels without a socket
  offered,  \* sockets without a channel
  given,    \* by channel: its socket
  stopped   \* sessions that ended

vars == <<client, waiting, offered, given, stopped>>

Fits(c, k) ==
  channelName[c] = channelName[k] /\ sessionName[sessionOf[c]] = sessionName[client[k]]

Init == /\ client \in [Sockets -> Clients]
        /\ waiting = {} /\ offered = {} /\ stopped = {}
        /\ given = [c \in Channels |-> None]

(* A channel asks once, a socket is offered once.                          *)
Ask(c) ==
  /\ c \notin waiting /\ given[c] = None /\ sessionOf[c] \notin stopped
  /\ waiting' = waiting \cup {c}
  /\ UNCHANGED <<offered, given, stopped>>

Offer(k) ==
  /\ k \notin offered /\ \A c \in Channels : given[c] # k
  /\ offered' = offered \cup {k}
  /\ UNCHANGED <<waiting, given, stopped>>

(* A client moves to another session only when the one it was connected to *)
(* has ended and wants no more sockets.                                    *)
Over(s) == s \in stopped /\ \A c \in waiting : sessionOf[c] # s

Met == {c \in Channels : given'[c] # given[c]}

(* Some channels and sockets meet; others may be given up.                 *)
Meet ==
  /\ given' \in [Channels -> Sockets \cup {None}]
  /\ \A c \in Met : c \in waiting /\ given'[c] \in offered /\ Fits(c, given'[c])
  /\ \A c \in Met, d \in Channels :
       /\ c # d => given'[c] # given'[d]
       /\ given'[d] # None /\ sessionOf[c] = sessionOf[d] =>
            client[given'[c]] = client[given'[d]]
       /\ given[d] # None /\ client[given'[c]] = client[given[d]] =>
            sessionOf[c] = sessionOf[d] \/ Over(sessionOf[d])
  /\ waiting' \subseteq waiting \ Met
  /\ offered' \subseteq offered \ {given'[c] : c \in Met}
  /\ stopped \subseteq stopped' /\ stopped' \subseteq Sessions

Next == /\ (\E c \in Channels : Ask(c)) \/ (\E k \in Sockets : Offer(k)) \/ Meet
        /\ UNCHANGED client

Spec == Init /\ [][Next]_vars
=============================================================================
