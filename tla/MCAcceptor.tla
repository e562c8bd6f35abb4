----------------------------- MODULE MCAcceptor -----------------------------
(* Two sessions of one name, the first with two channels, and a connection *)
(* for either name, of one client or of two.                               *)
EXTENDS Acceptor, TLC

MCSessions == {"s1", "s2"}
MCChannels == {"s1a", "s1b", "s2a"}
MCClients == {"x", "y"}
MCConnections == {"ka", "kb"}
MCsessionOf == "s1a" :> "s1" @@ "s1b" :> "s1" @@ "s2a" :> "s2"
MCsessionName == [s \in MCSessions \cup MCClients |-> "psi"]
MCchannelName == [c \in {"s1a", "s2a", "ka"} |-> "a"] @@ [c \in {"s1b", "kb"} |-> "b"]

OneClient == [k \in MCConnections |-> "x"]
TwoClients == "ka" :> "x" @@ "kb" :> "y"

Quiet(f, starts, stops) ==
  [clientOf |-> f, starts |-> starts, stops |-> stops, cancels |-> {},
   unreliable |-> {}, service |-> FALSE, bindFails |-> FALSE]

Pairing == {Quiet(f, MCSessions, {"s1"}) : f \in {OneClient, TwoClients}}
Cancelling == {[Quiet(OneClient, {"s1"}, {"s1"}) EXCEPT !.cancels = {"s1a"}]}
Stopping == {[Quiet(OneClient, {"s1"}, {"s1"}) EXCEPT !.service = TRUE, !.unreliable = {"ka"}]}
Starting == {[Quiet(OneClient, {"s2"}, {}) EXCEPT !.service = TRUE, !.bindFails = TRUE]}
MCSettings == Pairing \cup Cancelling \cup Stopping \cup Starting
=============================================================================
