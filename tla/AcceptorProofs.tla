---------------------------- MODULE AcceptorProofs ---------------------------
(***************************************************************************)
(* Theorems about the acceptor, for any sessions, channels and clients.    *)
(***************************************************************************)
EXTENDS Acceptor, FiniteSetTheorems, TLAPS

-----------------------------------------------------------------------------
(* The inductive invariant.                                                *)

(* All but these handlers are on the strand at most once.                  *)
Repeats == {<<"start", None>>, <<"stop", None>>, Erase(None)}

(* A channel does not ask for a socket after its session is unsubscribed.  *)
StrandInv ==
  /\ \A i, j \in DOMAIN strand : strand[i] = strand[j] /\ strand[i] \notin Repeats => i = j
  /\ \A i, j \in DOMAIN strand, s \in Sessions, c \in Channels :
       i < j /\ strand[i] = <<"unsubscribe", s>> /\ strand[j] = <<"getSocket", c>> =>
         sessionOf[c] # s

(* A session has no group before it is subscribed; it is in its group until*)
(* it is unsubscribed.                                                     *)
SessionInv ==
  \A s \in Sessions :
    /\ Queued(<<"subscribe", s>>) => session[s] = "starting"
    /\ Queued(<<"unsubscribe", s>>) => session[s] = "stopping"
    /\ session[s] \in {"new", "starting", "refused"} =>
         /\ ~group[s].exists /\ mSessionID[s] = None
         /\ \A c \in Channels : sessionOf[c] = s => channel[c] = "new"
    /\ session[s] = "running" => group[s].mBase
    /\ group[s].mBase => session[s] \in {"running", "stopping"}
    /\ group[s].exists /\ ~group[s].mBase => session[s] = "stopped"
    /\ ~group[s].exists => group[s] = NoGroup

(* A channel that waits has asked or is in the group of its session, not   *)
(* both; only such a channel is on the strand or in a group.               *)
Waits(c) == channel[c] \in {"waiting", "cancelling"} /\ given[c] = None

ChannelInv ==
  \A c \in Channels :
    /\ Waits(c) => Queued(<<"getSocket", c>>) \/ c \in group[sessionOf[c]].mChannels
    /\ Queued(<<"getSocket", c>>) => Waits(c) /\ c \notin group[sessionOf[c]].mChannels
    /\ \A s \in Sessions : c \in group[s].mChannels => sessionOf[c] = s /\ Waits(c)
    /\ Queued(<<"cancel", c>>) => channel[c] \notin {"new", "refused", "waiting"}
    /\ channel[c] = "new" => given[c] = None

(* Where the sockets are.                                                  *)
SocketInv ==
  /\ \A k \in Connections :
       /\ Queued(<<"read", k>>) \/ Queued(<<"part", k>>) => stage[k] = "read"
       /\ ~(Queued(<<"read", k>>) /\ Queued(<<"part", k>>))
       /\ Queued(Erase(k)) => stage[k] = "failed"
       /\ \A s \in Sessions :
            k \in group[s].mSockets => stage[k] = "named" /\ mClaimedGroups[clientOf(k)] = s
       /\ \A x \in Clients : k \in mSockets[x] => stage[k] = "named" /\ clientOf(k) = x
       /\ \A c \in Channels : given[c] = k => stage[k] = "given"
  /\ \A x \in Clients : x \notin mUnclaimedSockets => mSockets[x] = {}
  /\ \A c, d \in Channels : given[c] # None /\ given[c] = given[d] => c = d

(* Who was paired with whom.                                               *)
PairInv ==
  /\ \A x \in Clients :
       mClaimedGroups[x] # None => sessionName[mClaimedGroups[x]] = sessionName[x]
  /\ \A c \in Channels :
       given[c] # None =>
         \/ mClaimedGroups[clientOf(given[c])] = sessionOf[c]
         \/ session[sessionOf[c]] = "stopped" /\ ~group[sessionOf[c]].exists

Inv == /\ TypeOK /\ StrandInv /\ SessionInv /\ ChannelInv /\ SocketInv /\ PairInv
       /\ GroupsMapped /\ NoMissedMatch /\ Listens

-----------------------------------------------------------------------------
(* The strand.                                                             *)

LEMMA StrandDomain ==
  ASSUME strand \in Seq(Handlers)
  PROVE  Len(strand) \in Nat /\ DOMAIN strand = 1 .. Len(strand)
  OBVIOUS

LEMMA QueuedTyped ==
  ASSUME strand \in Seq(Handlers), NEW h, Queued(h)
  PROVE  h \in Handlers
  BY DEF Queued

(* What is posted is the only news.                                        *)
LEMMA PostQueued ==
  ASSUME strand \in Seq(Handlers), NEW h \in Handlers, Post(h)
  PROVE  /\ strand' \in Seq(Handlers)
         /\ Queued(h)'
         /\ \A g : Queued(g) => Queued(g)'
         /\ \A g : g # h /\ Queued(g)' => Queued(g)
  <1>1. /\ strand' \in Seq(Handlers) /\ Len(strand') = Len(strand) + 1
        /\ strand'[Len(strand) + 1] = h
        /\ \A i \in 1 .. Len(strand) : strand'[i] = strand[i]
    BY DEF Post
  <1> QED
    BY <1>1 DEF Queued

LEMMA PostStrand ==
  ASSUME strand \in Seq(Handlers), StrandInv, NEW h \in Handlers, Post(h),
         h \in Repeats \/ ~Queued(h),
         \A c \in Channels :
           h = <<"getSocket", c>> => ~Queued(<<"unsubscribe", sessionOf[c]>>)
  PROVE  StrandInv'
  <1>1. /\ strand' \in Seq(Handlers) /\ Len(strand') = Len(strand) + 1
        /\ strand'[Len(strand) + 1] = h /\ Len(strand) \in Nat
        /\ \A i \in 1 .. Len(strand) : strand'[i] = strand[i]
    BY DEF Post
  <1>0. \A i \in DOMAIN strand' :
          \/ i = Len(strand) + 1 /\ strand'[i] = h
          \/ i \in DOMAIN strand /\ i < Len(strand) + 1 /\ strand'[i] = strand[i]
    BY <1>1
  <1>2. ASSUME NEW i \in DOMAIN strand', NEW j \in DOMAIN strand',
               strand'[i] = strand'[j], strand'[i] \notin Repeats
        PROVE  i = j
    BY <1>0, <1>2 DEF StrandInv, Queued
  <1>3. ASSUME NEW i \in DOMAIN strand', NEW j \in DOMAIN strand', NEW s \in Sessions,
               NEW c \in Channels, i < j, strand'[i] = <<"unsubscribe", s>>,
               strand'[j] = <<"getSocket", c>>
        PROVE  sessionOf[c] # s
    <2>1. i \in DOMAIN strand /\ strand[i] = <<"unsubscribe", s>>
      <3>1. i \in Int /\ j \in Int /\ j <= Len(strand) + 1 /\ Len(strand) \in Nat
        BY <1>1
      <3>2. i # Len(strand) + 1
        BY <1>3, <3>1
      <3> QED BY <1>0, <1>3, <3>2
    <2>2. CASE j \in DOMAIN strand /\ strand'[j] = strand[j]
      BY <1>3, <2>1, <2>2 DEF StrandInv
    <2>3. CASE strand'[j] = h
      BY <1>3, <2>1, <2>3 DEF Queued
    <2> QED BY <1>0, <2>2, <2>3
  <1> QED
    BY <1>2, <1>3 DEF StrandInv, Repeats, Erase

(* A handler that runs leaves the others on the strand.                    *)
LEMMA HandleQueued ==
  ASSUME strand \in Seq(Handlers), NEW h, Handle(h)
  PROVE  /\ strand' \in Seq(Handlers)
         /\ h \in Handlers /\ Queued(h)
         /\ \A g : Queued(g)' => Queued(g)
         /\ \A g : g # h /\ Queued(g) => Queued(g)'
  <1>1. /\ strand # <<>> /\ strand[1] = h /\ Len(strand) \in Nat \ {0}
        /\ strand' \in Seq(Handlers) /\ Len(strand') = Len(strand) - 1
        /\ \A i \in 1 .. Len(strand) - 1 : strand'[i] = strand[i + 1]
    BY DEF Handle
  <1>2. ASSUME NEW g, Queued(g)' PROVE Queued(g)
    BY <1>1, <1>2 DEF Queued
  <1>3. ASSUME NEW g, g # h, Queued(g) PROVE Queued(g)'
    <2>1. PICK i \in 1 .. Len(strand) : strand[i] = g
      BY <1>1, <1>3 DEF Queued
    <2>2. i - 1 \in 1 .. Len(strand) - 1 /\ strand'[i - 1] = g
      BY <1>1, <1>3, <2>1
    <2> QED BY <1>1, <2>2 DEF Queued
  <1> QED
    BY <1>1, <1>2, <1>3 DEF Queued

LEMMA HandleStrand ==
  ASSUME strand \in Seq(Handlers), StrandInv, NEW h, Handle(h)
  PROVE  /\ StrandInv'
         /\ h \notin Repeats => ~Queued(h)'
         /\ \A s \in Sessions, c \in Channels :
              h = <<"unsubscribe", s>> /\ sessionOf[c] = s => ~Queued(<<"getSocket", c>>)
  <1>1. /\ strand # <<>> /\ strand[1] = h /\ Len(strand) \in Nat \ {0}
        /\ strand' \in Seq(Handlers) /\ Len(strand') = Len(strand) - 1
        /\ \A i \in 1 .. Len(strand) - 1 : strand'[i] = strand[i + 1]
    BY DEF Handle
  <1>0. \A i \in DOMAIN strand' :
          i \in Int /\ i + 1 \in DOMAIN strand /\ strand[i + 1] = strand'[i]
    BY <1>1
  <1>2. StrandInv'
    <2>1. ASSUME NEW i \in DOMAIN strand', NEW j \in DOMAIN strand',
                 strand'[i] = strand'[j], strand'[i] \notin Repeats
          PROVE  i = j
      <3>1. i + 1 = j + 1
        BY <1>0, <2>1 DEF StrandInv
      <3> QED BY <1>0, <3>1
    <2>2. ASSUME NEW i \in DOMAIN strand', NEW j \in DOMAIN strand', NEW s \in Sessions,
                 NEW c \in Channels, i < j, strand'[i] = <<"unsubscribe", s>>,
                 strand'[j] = <<"getSocket", c>>
          PROVE  sessionOf[c] # s
      <3>1. /\ i + 1 \in DOMAIN strand /\ j + 1 \in DOMAIN strand /\ i + 1 < j + 1
            /\ strand[i + 1] = strand'[i] /\ strand[j + 1] = strand'[j]
        BY <1>0, <2>2
      <3> QED BY <2>2, <3>1 DEF StrandInv
    <2> QED BY <2>1, <2>2 DEF StrandInv, Repeats, Erase
  <1>3. ASSUME h \notin Repeats, Queued(h)' PROVE FALSE
    <2>1. PICK i \in 1 .. Len(strand) - 1 : strand[i + 1] = h
      BY <1>1, <1>3 DEF Queued
    <2> QED BY <1>1, <1>3, <2>1 DEF StrandInv
  <1>4. ASSUME NEW s \in Sessions, NEW c \in Channels, h = <<"unsubscribe", s>>,
               sessionOf[c] = s, Queued(<<"getSocket", c>>)
        PROVE  FALSE
    <2>1. PICK i \in DOMAIN strand : strand[i] = <<"getSocket", c>>
      BY <1>4 DEF Queued
    <2>2. strand[1] = <<"unsubscribe", s>> /\ 1 \in DOMAIN strand
      BY <1>1, <1>4
    <2>3. strand[i] # strand[1]
      BY <2>1, <2>2
    <2>4. i \in Nat /\ 1 <= i /\ i # 1
      BY <2>3, StrandDomain
    <2>5. 1 < i
      BY <2>4
    <2> QED BY <1>4, <2>1, <2>2, <2>5 DEF StrandInv
  <1> QED
    BY <1>2, <1>3, <1>4

(* The two handlers of an accept that was aborted.                         *)
LEMMA AppendTwo ==
  ASSUME NEW S, NEW q \in Seq(S), NEW a \in S, NEW b \in S
  PROVE  /\ q \o <<a, b>> \in Seq(S) /\ Len(q \o <<a, b>>) = Len(q) + 2 /\ Len(q) \in Nat
         /\ \A i \in 1 .. Len(q) : (q \o <<a, b>>)[i] = q[i]
         /\ (q \o <<a, b>>)[Len(q) + 1] = a
         /\ (q \o <<a, b>>)[Len(q) + 2] = b
  OBVIOUS

LEMMA MoreRepeats ==
  ASSUME strand \in Seq(Handlers), strand' \in Seq(Handlers), StrandInv,
         NEW n \in Nat, Len(strand') = Len(strand) + n,
         \A i \in 1 .. Len(strand) : strand'[i] = strand[i],
         \A i \in Len(strand) + 1 .. Len(strand) + n : strand'[i] \in Repeats
  PROVE  /\ StrandInv'
         /\ \A g : Queued(g) => Queued(g)'
         /\ \A g : g \notin Repeats /\ Queued(g)' => Queued(g)
  <1>1. /\ DOMAIN strand' = 1 .. Len(strand) + n /\ DOMAIN strand = 1 .. Len(strand)
        /\ Len(strand) \in Nat
    OBVIOUS
  <1>2. \A i \in DOMAIN strand' :
          strand'[i] \notin Repeats => i \in DOMAIN strand /\ strand[i] = strand'[i]
    BY <1>1
  <1>3. \A s, c : <<"unsubscribe", s>> \notin Repeats /\ <<"getSocket", c>> \notin Repeats
    BY DEF Repeats, Erase
  <1>4. ASSUME NEW i \in DOMAIN strand', NEW j \in DOMAIN strand',
               strand'[i] = strand'[j], strand'[i] \notin Repeats
        PROVE  i = j
    BY <1>2, <1>4 DEF StrandInv
  <1>5. ASSUME NEW i \in DOMAIN strand', NEW j \in DOMAIN strand', NEW s \in Sessions,
               NEW c \in Channels, i < j, strand'[i] = <<"unsubscribe", s>>,
               strand'[j] = <<"getSocket", c>>
        PROVE  sessionOf[c] # s
    <2>1. strand'[i] \notin Repeats /\ strand'[j] \notin Repeats
      BY <1>3, <1>5
    <2>2. /\ i \in DOMAIN strand /\ j \in DOMAIN strand
          /\ strand[i] = <<"unsubscribe", s>> /\ strand[j] = <<"getSocket", c>>
      BY <1>2, <1>5, <2>1
    <2> QED BY <1>5, <2>2 DEF StrandInv
  <1>6. StrandInv'
    BY <1>4, <1>5 DEF StrandInv, Repeats, Erase
  <1> QED
    BY <1>1, <1>2, <1>6 DEF Queued

LEMMA AbortQueued ==
  ASSUME strand \in Seq(Handlers), StrandInv,
         strand' = strand \o <<<<"start", None>>, Erase(None)>>
  PROVE  /\ strand' \in Seq(Handlers)
         /\ StrandInv'
         /\ \A g : Queued(g) => Queued(g)'
         /\ \A g : g \notin Repeats /\ Queued(g)' => Queued(g)
  <1>1. <<"start", None>> \in Handlers /\ Erase(None) \in Handlers
    BY DEF Handlers, Erase
  <1>2. <<"start", None>> \in Repeats /\ Erase(None) \in Repeats
    BY DEF Repeats
  <1>3. /\ strand' \in Seq(Handlers) /\ Len(strand') = Len(strand) + 2 /\ Len(strand) \in Nat
        /\ \A i \in 1 .. Len(strand) : strand'[i] = strand[i]
        /\ strand'[Len(strand) + 1] \in Repeats
        /\ strand'[Len(strand) + 2] \in Repeats
    BY <1>1, <1>2, AppendTwo
  <1>4. \A n \in Nat : \A i \in n + 1 .. n + 2 : i = n + 1 \/ i = n + 2
    OBVIOUS
  <1>5. \A i \in Len(strand) + 1 .. Len(strand) + 2 : strand'[i] \in Repeats
    BY <1>3, <1>4
  <1> QED
    BY <1>3, <1>5, MoreRepeats

-----------------------------------------------------------------------------
(* What users do.                                                          *)

LEMMA SessionOfType == \A c \in Channels : sessionOf[c] \in Sessions
  BY AcceptorAssumption

LEMMA UserFrame ==
  ASSUME Inv, UNCHANGED <<setting, pairing, sockets, life>>,
         \A g : Queued(g) => Queued(g)',
         \A k \in Connections :
           /\ Queued(<<"read", k>>)' => Queued(<<"read", k>>)
           /\ Queued(<<"part", k>>)' => Queued(<<"part", k>>)
           /\ Queued(Erase(k))' => Queued(Erase(k))
  PROVE  SocketInv' /\ MapsAgree' /\ NoMissedMatch' /\ Listens'
  <1>1. SocketInv'
    BY DEF Inv, SocketInv, pairing, sockets, clientOf, Erase
  <1>2. MapsAgree'
    BY DEF Inv, GroupsMapped, MapsAgree, pairing, groupHasSubscriptions
  <1>3. NoMissedMatch'
    BY DEF Inv, NoMissedMatch, pairing, Matches
  <1>4. Listens'
    BY DEF Inv, Listens, pairing, sockets, life, hasSubscriptions, groupHasSubscriptions
  <1> QED
    BY <1>1, <1>2, <1>3, <1>4

LEMMA SessionStartStep ==
  ASSUME Inv, UNCHANGED setting, NEW s \in Sessions, SessionStart(s)
  PROVE  Inv'
  <1> DEFINE h == <<"subscribe", s>>
  <1>0. strand \in Seq(Handlers) /\ h \in Handlers /\ Post(h)
    BY DEF Inv, TypeOK, SessionStart, Handlers
  <1>1. /\ strand' \in Seq(Handlers)
        /\ \A g : Queued(g) => Queued(g)'
        /\ \A g : g # h /\ Queued(g)' => Queued(g)
    BY <1>0, PostQueued
  <1>2. StrandInv'
    <2>1. ~Queued(h)
      BY DEF Inv, SessionInv, SessionStart
    <2> QED BY <1>0, <2>1, PostStrand DEF Inv
  <1>3. SocketInv' /\ MapsAgree' /\ NoMissedMatch' /\ Listens'
    BY <1>1, UserFrame DEF SessionStart, Erase
  <1>4. TypeOK'
    BY <1>1 DEF Inv, TypeOK, SessionStart, pairing, sockets, life
  <1>5. SessionInv'
    BY <1>1 DEF Inv, TypeOK, SessionInv, SessionStart, pairing
  <1>6. ChannelInv'
    BY <1>1 DEF Inv, TypeOK, ChannelInv, Waits, SessionStart, pairing
  <1>7. PairInv'
    BY DEF Inv, TypeOK, PairInv, SessionStart, pairing, clientOf
  <1>8. GroupsFound'
    BY <1>1, SessionOfType DEF Inv, TypeOK, GroupsMapped, GroupsFound, SessionStart, pairing
  <1> QED
    BY <1>2, <1>3, <1>4, <1>5, <1>6, <1>7, <1>8 DEF Inv, GroupsMapped

LEMMA SessionDiscardStep ==
  ASSUME Inv, UNCHANGED setting, NEW s \in Sessions, SessionDiscard(s)
  PROVE  Inv'
  <1> DEFINE h == <<"unsubscribe", s>>
  <1>0. strand \in Seq(Handlers) /\ h \in Handlers /\ Post(h)
    BY DEF Inv, TypeOK, SessionDiscard, Handlers
  <1>1. /\ strand' \in Seq(Handlers)
        /\ \A g : Queued(g) => Queued(g)'
        /\ \A g : g # h /\ Queued(g)' => Queued(g)
    BY <1>0, PostQueued
  <1>2. StrandInv'
    <2>1. ~Queued(h)
      BY DEF Inv, SessionInv, SessionDiscard
    <2> QED BY <1>0, <2>1, PostStrand DEF Inv
  <1>3. SocketInv' /\ MapsAgree' /\ NoMissedMatch' /\ Listens'
    BY <1>1, UserFrame DEF SessionDiscard, Erase
  <1>4. TypeOK'
    BY <1>1 DEF Inv, TypeOK, SessionDiscard, pairing, sockets, life
  <1>5. SessionInv'
    BY <1>1 DEF Inv, TypeOK, SessionInv, SessionDiscard, pairing
  <1>6. ChannelInv'
    BY <1>1 DEF Inv, TypeOK, ChannelInv, Waits, SessionDiscard, pairing
  <1>7. PairInv'
    BY DEF Inv, TypeOK, PairInv, SessionDiscard, pairing, clientOf
  <1>8. GroupsFound'
    BY <1>1, SessionOfType DEF Inv, TypeOK, GroupsMapped, GroupsFound, SessionDiscard, pairing
  <1> QED
    BY <1>2, <1>3, <1>4, <1>5, <1>6, <1>7, <1>8 DEF Inv, GroupsMapped

LEMMA AddChannelStep ==
  ASSUME Inv, UNCHANGED setting, NEW c \in Channels, AddChannel(c)
  PROVE  Inv'
  <1> DEFINE h == <<"getSocket", c>>  s == sessionOf[c]
  <1>0. /\ strand \in Seq(Handlers) /\ h \in Handlers /\ s \in Sessions
        /\ IF mStopped THEN UNCHANGED strand ELSE Post(h)
    BY SessionOfType DEF Inv, TypeOK, AddChannel, Handlers
  <1>1. /\ strand' \in Seq(Handlers)
        /\ \A g : Queued(g) => Queued(g)'
        /\ \A g : g # h /\ Queued(g)' => Queued(g)
        /\ ~mStopped => Queued(h)'
        /\ mStopped => \A g : Queued(g)' => Queued(g)
    BY <1>0, PostQueued DEF Queued
  <1>2. session[s] = "running" /\ group[s].mBase /\ channel[c] = "new" /\ given[c] = None
        /\ ~Queued(h) /\ ~Queued(<<"unsubscribe", s>>) /\ c \notin group[s].mChannels
        /\ \A t \in Sessions : c \notin group[t].mChannels
    BY <1>0 DEF Inv, AddChannel, SessionInv, ChannelInv, Waits
  <1>3. StrandInv'
    <2>1. CASE mStopped
      BY <1>0, <2>1 DEF Inv, StrandInv, Repeats, Erase
    <2>2. CASE ~mStopped
      BY <1>0, <1>2, <2>2, PostStrand DEF Inv
    <2> QED BY <2>1, <2>2
  <1>4. SocketInv' /\ MapsAgree' /\ NoMissedMatch' /\ Listens'
    BY <1>1, UserFrame DEF AddChannel, Erase
  <1>5. TypeOK'
    BY <1>1 DEF Inv, TypeOK, AddChannel, pairing, sockets, life
  <1>6. SessionInv'
    <2> SUFFICES ASSUME NEW t \in Sessions PROVE SessionInv!(t)'
      BY DEF SessionInv
    <2>1. /\ UNCHANGED <<session, group, mSessionID>>
          /\ \A d \in Channels : d # c => channel'[d] = channel[d]
      BY DEF AddChannel, pairing, Inv, TypeOK
    <2>2. /\ Queued(<<"subscribe", t>>)' <=> Queued(<<"subscribe", t>>)
          /\ Queued(<<"unsubscribe", t>>)' <=> Queued(<<"unsubscribe", t>>)
      BY <1>1
    <2>3. session[t] \in {"new", "starting", "refused"} => t # s
      BY <1>2
    <2> QED BY <2>1, <2>2, <2>3 DEF Inv, SessionInv
  <1>7. ChannelInv'
    <2>1. /\ UNCHANGED <<group, given>>
          /\ \A d \in Channels : d # c => channel'[d] = channel[d]
          /\ channel'[c] = IF mStopped THEN "refused" ELSE "waiting"
      BY DEF AddChannel, pairing, Inv, TypeOK
    <2> SUFFICES ASSUME NEW d \in Channels PROVE ChannelInv!(d)'
      BY DEF ChannelInv
    <2>2. ChannelInv!(d)
      BY DEF Inv, ChannelInv
    <2>3. Queued(<<"cancel", d>>)' <=> Queued(<<"cancel", d>>)
      BY <1>1
    <2>4. CASE d # c
      <3>1. Queued(<<"getSocket", d>>)' <=> Queued(<<"getSocket", d>>)
        BY <1>1, <2>4
      <3>2. Waits(d)' <=> Waits(d)
        BY <2>1, <2>4 DEF Waits
      <3> QED BY <2>1, <2>2, <2>3, <2>4, <3>1, <3>2
    <2>5. CASE d = c /\ mStopped
      <3>1. ~Queued(h)' /\ ~Waits(c)'
        BY <1>1, <1>2, <2>1, <2>5 DEF Waits
      <3>2. ~Queued(<<"cancel", c>>)
        BY <1>2, <2>2, <2>5
      <3> QED BY <1>2, <2>1, <2>3, <2>5, <3>1, <3>2
    <2>6. CASE d = c /\ ~mStopped
      <3>1. Queued(h)' /\ Waits(c)'
        BY <1>1, <1>2, <2>1, <2>6 DEF Waits
      <3>2. ~Queued(<<"cancel", c>>)
        BY <1>2, <2>2, <2>6
      <3> QED BY <1>2, <2>1, <2>3, <2>6, <3>1, <3>2
    <2> QED BY <2>4, <2>5, <2>6
  <1>8. PairInv'
    BY DEF Inv, TypeOK, PairInv, AddChannel, pairing, clientOf
  <1>9. GroupsFound'
    BY <1>1, <1>2, SessionOfType DEF Inv, TypeOK, GroupsMapped, GroupsFound, AddChannel, pairing
  <1> QED
    BY <1>3, <1>4, <1>5, <1>6, <1>7, <1>8, <1>9 DEF Inv, GroupsMapped

LEMMA CancelStep ==
  ASSUME Inv, UNCHANGED setting, NEW c \in Channels, Cancel(c)
  PROVE  Inv'
  <1> DEFINE h == <<"cancel", c>>  s == sessionOf[c]
  <1>0. strand \in Seq(Handlers) /\ h \in Handlers /\ Post(h) /\ s \in Sessions
    BY SessionOfType DEF Inv, TypeOK, Cancel, Handlers
  <1>1. /\ strand' \in Seq(Handlers)
        /\ \A g : Queued(g) => Queued(g)'
        /\ \A g : g # h /\ Queued(g)' => Queued(g)
    BY <1>0, PostQueued
  <1>2. /\ channel[c] = "waiting" /\ session[s] \in {"running", "stopped"}
        /\ group[s].exists \/ session[s] = "stopped"
    BY <1>0 DEF Inv, Cancel, SessionInv, GroupsMapped, MapsAgree, groupHasSubscriptions
  <1>3. StrandInv'
    <2>1. ~Queued(h)
      BY <1>2 DEF Inv, ChannelInv
    <2> QED BY <1>0, <2>1, PostStrand DEF Inv
  <1>4. SocketInv' /\ MapsAgree' /\ NoMissedMatch' /\ Listens'
    BY <1>1, UserFrame DEF Cancel, Erase
  <1>5. TypeOK'
    BY <1>1 DEF Inv, TypeOK, Cancel, pairing, sockets, life
  <1>6. SessionInv'
    BY <1>0, <1>1, <1>2 DEF Inv, TypeOK, SessionInv, Cancel, pairing
  <1>7. ChannelInv'
    <2>1. /\ UNCHANGED <<group, given>>
          /\ \A d \in Channels : d # c => channel'[d] = channel[d]
          /\ channel'[c] = "cancelling"
      BY DEF Cancel, pairing, Inv, TypeOK
    <2>2. \A d \in Channels : /\ Queued(<<"getSocket", d>>)' <=> Queued(<<"getSocket", d>>)
                              /\ d # c => (Queued(<<"cancel", d>>)' => Queued(<<"cancel", d>>))
      BY <1>1
    <2>3. \A d \in Channels : Waits(d)' <=> Waits(d)
      BY <1>2, <2>1 DEF Waits
    <2>4. \A d \in Channels : channel'[d] \in {"new", "refused", "waiting"} => channel'[d] = channel[d] /\ d # c
      BY <2>1
    <2> SUFFICES ASSUME NEW d \in Channels PROVE ChannelInv!(d)'
      BY DEF ChannelInv
    <2>5. ChannelInv!(d)
      BY DEF Inv, ChannelInv
    <2>6. /\ Waits(d)' <=> Waits(d)
          /\ Queued(<<"getSocket", d>>)' <=> Queued(<<"getSocket", d>>)
          /\ d # c => (Queued(<<"cancel", d>>)' => Queued(<<"cancel", d>>))
      BY <2>2, <2>3
    <2> QED BY <2>1, <2>4, <2>5, <2>6
  <1>8. PairInv'
    BY DEF Inv, TypeOK, PairInv, Cancel, pairing, clientOf
  <1>9. GroupsFound'
    BY <1>1, <1>2, SessionOfType DEF Inv, TypeOK, GroupsMapped, GroupsFound, Cancel, pairing
  <1> QED
    BY <1>3, <1>4, <1>5, <1>6, <1>7, <1>8, <1>9 DEF Inv, GroupsMapped

LEMMA CancelReturnStep ==
  ASSUME Inv, UNCHANGED setting, NEW c \in Channels, CancelReturn(c)
  PROVE  Inv'
  <1>0. \A g : Queued(g)' <=> Queued(g)
    BY DEF CancelReturn, Queued
  <1>1. channel[c] = "cancelling" /\ given[c] # None
    BY DEF CancelReturn
  <1>2. StrandInv'
    BY DEF Inv, StrandInv, CancelReturn, Repeats, Erase
  <1>3. SocketInv' /\ MapsAgree' /\ NoMissedMatch' /\ Listens'
    BY <1>0, UserFrame DEF CancelReturn
  <1>4. TypeOK'
    BY DEF Inv, TypeOK, CancelReturn, pairing, sockets, life
  <1>5. SessionInv'
    BY <1>0, <1>1 DEF Inv, TypeOK, SessionInv, CancelReturn, pairing
  <1>6. ChannelInv'
    BY <1>0, <1>1 DEF Inv, TypeOK, ChannelInv, Waits, CancelReturn, pairing
  <1>7. PairInv'
    BY DEF Inv, TypeOK, PairInv, CancelReturn, pairing, clientOf
  <1>8. GroupsFound'
    BY <1>0 DEF Inv, TypeOK, GroupsMapped, GroupsFound, CancelReturn, pairing
  <1> QED
    BY <1>2, <1>3, <1>4, <1>5, <1>6, <1>7, <1>8 DEF Inv, GroupsMapped

LEMMA SessionStopStep ==
  ASSUME Inv, UNCHANGED setting, NEW s \in Sessions, SessionStop(s)
  PROVE  Inv'
  <1> DEFINE h == <<"unsubscribe", s>>
  <1>0. strand \in Seq(Handlers) /\ h \in Handlers /\ Post(h)
    BY DEF Inv, TypeOK, SessionStop, Handlers
  <1>1. /\ strand' \in Seq(Handlers)
        /\ \A g : Queued(g) => Queued(g)'
        /\ \A g : g # h /\ Queued(g)' => Queued(g)
    BY <1>0, PostQueued
  <1>2. StrandInv'
    <2>1. ~Queued(h)
      BY DEF Inv, SessionInv, SessionStop
    <2> QED BY <1>0, <2>1, PostStrand DEF Inv
  <1>3. SocketInv' /\ MapsAgree' /\ NoMissedMatch' /\ Listens'
    BY <1>1, UserFrame DEF SessionStop, Erase
  <1>4. TypeOK'
    BY <1>1 DEF Inv, TypeOK, SessionStop, pairing, sockets, life
  <1>5. SessionInv'
    BY <1>1 DEF Inv, TypeOK, SessionInv, SessionStop, pairing
  <1>6. ChannelInv'
    BY <1>1 DEF Inv, TypeOK, ChannelInv, Waits, SessionStop, pairing
  <1>7. PairInv'
    BY SessionOfType DEF Inv, TypeOK, PairInv, SessionStop, pairing, clientOf
  <1>8. GroupsFound'
    BY <1>1, SessionOfType DEF Inv, TypeOK, GroupsMapped, GroupsFound, SessionStop, pairing
  <1> QED
    BY <1>2, <1>3, <1>4, <1>5, <1>6, <1>7, <1>8 DEF Inv, GroupsMapped

LEMMA ServiceStopStep ==
  ASSUME Inv, UNCHANGED setting, ServiceStop \/ ServiceReturn
  PROVE  Inv'
  <1> DEFINE h == <<"stop", None>>
  <1>0. strand \in Seq(Handlers) /\ h \in Handlers /\ h \in Repeats
    BY DEF Inv, TypeOK, Handlers, Repeats
  <1>1. /\ strand' \in Seq(Handlers) /\ StrandInv'
        /\ \A g : Queued(g) => Queued(g)'
        /\ \A g : g # h /\ Queued(g)' => Queued(g)
    <2>1. CASE ServiceStop
      BY <1>0, <2>1, PostQueued, PostStrand DEF Inv, ServiceStop
    <2>2. CASE ServiceReturn
      BY <1>0, <2>2 DEF Inv, ServiceReturn, Queued, StrandInv, Repeats, Erase
    <2> QED BY <2>1, <2>2
  <1>2. UNCHANGED <<session, channel, pairing, sockets, life, terminated>>
        /\ service' \in {"running", "stopping", "returned"}
    BY DEF ServiceStop, ServiceReturn
  <1>3. SocketInv' /\ MapsAgree' /\ NoMissedMatch' /\ Listens'
    BY <1>1, <1>2, UserFrame DEF Erase
  <1>4. TypeOK'
    BY <1>1, <1>2 DEF Inv, TypeOK, pairing, sockets, life
  <1>5. SessionInv'
    BY <1>1, <1>2 DEF Inv, SessionInv, pairing
  <1>6. ChannelInv'
    BY <1>1, <1>2 DEF Inv, ChannelInv, Waits, pairing
  <1>7. PairInv'
    BY <1>2 DEF Inv, PairInv, pairing, clientOf
  <1>8. GroupsFound'
    BY <1>1, <1>2 DEF Inv, GroupsMapped, GroupsFound, pairing
  <1> QED
    BY <1>1, <1>3, <1>4, <1>5, <1>6, <1>7, <1>8 DEF Inv, GroupsMapped

-----------------------------------------------------------------------------
(* Connections and callbacks.                                              *)

LEMMA NetworkFrame ==
  ASSUME Inv, UNCHANGED <<setting, users, pairing>>,
         \A s \in Sessions : /\ Queued(<<"subscribe", s>>)' => Queued(<<"subscribe", s>>)
                             /\ Queued(<<"unsubscribe", s>>)' => Queued(<<"unsubscribe", s>>),
         \A c \in Channels : /\ Queued(<<"getSocket", c>>)' <=> Queued(<<"getSocket", c>>)
                             /\ Queued(<<"cancel", c>>)' => Queued(<<"cancel", c>>)
  PROVE  SessionInv' /\ ChannelInv' /\ PairInv' /\ GroupsMapped' /\ NoMissedMatch'
  <1>1. SessionInv'
    BY DEF Inv, SessionInv, users, pairing
  <1>2. ChannelInv'
    BY DEF Inv, ChannelInv, Waits, users, pairing
  <1>3. PairInv'
    BY DEF Inv, PairInv, users, pairing, clientOf
  <1>4. GroupsFound'
    BY DEF Inv, GroupsMapped, GroupsFound, users, pairing
  <1>5. MapsAgree'
    BY DEF Inv, GroupsMapped, MapsAgree, pairing, groupHasSubscriptions
  <1>6. NoMissedMatch'
    BY DEF Inv, NoMissedMatch, pairing, Matches
  <1> QED
    BY <1>1, <1>2, <1>3, <1>4, <1>5, <1>6 DEF GroupsMapped

(* A connection goes from one stage before it is named to another.         *)
Early == {"away", "backlog", "accepted", "header", "body"}

LEMMA EarlyFrame ==
  ASSUME Inv, UNCHANGED <<setting, users, pairing>>, NEW k \in Connections,
         stage[k] \in Early, \A l \in Connections : l # k => stage'[l] = stage[l],
         \A l \in Connections :
           /\ Queued(<<"read", l>>)' => Queued(<<"read", l>>) \/ (l = k /\ stage'[k] = "read")
           /\ Queued(<<"part", l>>)' => Queued(<<"part", l>>) \/ (l = k /\ stage'[k] = "read")
           /\ Queued(Erase(l))' => Queued(Erase(l)) \/ (l = k /\ stage'[k] = "failed"),
         ~(Queued(<<"read", k>>)' /\ Queued(<<"part", k>>)')
  PROVE  SocketInv'
  <1>1. /\ ~Queued(<<"read", k>>) /\ ~Queued(<<"part", k>>) /\ ~Queued(Erase(k))
        /\ \A s \in Sessions : k \notin group[s].mSockets
        /\ \A x \in Clients : k \notin mSockets[x]
        /\ \A c \in Channels : given[c] # k
    BY DEF Inv, SocketInv, Early
  <1>2. UNCHANGED <<group, mClaimedGroups, mSockets, mUnclaimedSockets, given, setting>>
    BY DEF pairing
  <1>3. ASSUME NEW l \in Connections
        PROVE  /\ Queued(<<"read", l>>)' \/ Queued(<<"part", l>>)' => stage'[l] = "read"
               /\ ~(Queued(<<"read", l>>)' /\ Queued(<<"part", l>>)')
               /\ Queued(Erase(l))' => stage'[l] = "failed"
    BY <1>1 DEF Inv, SocketInv
  <1>4. ASSUME NEW l \in Connections
        PROVE  /\ \A s \in Sessions :
                    l \in group[s].mSockets => stage'[l] = "named" /\ mClaimedGroups[clientOf(l)] = s
               /\ \A x \in Clients : l \in mSockets[x] => stage'[l] = "named" /\ clientOf(l) = x
               /\ \A c \in Channels : given[c] = l => stage'[l] = "given"
    <2>1. CASE l = k
      BY <1>1, <2>1
    <2>2. CASE l # k
      <3>1. stage'[l] = stage[l]
        BY <2>2
      <3> QED BY <3>1 DEF Inv, SocketInv
    <2> QED BY <2>1, <2>2
  <1>5. /\ \A x \in Clients : x \notin mUnclaimedSockets => mSockets[x] = {}
        /\ \A c, d \in Channels : given[c] # None /\ given[c] = given[d] => c = d
    BY DEF Inv, SocketInv
  <1> QED
    BY <1>2, <1>3, <1>4, <1>5 DEF SocketInv, clientOf, Erase

LEMMA ConnectStep ==
  ASSUME Inv, UNCHANGED setting, NEW k \in Connections, Connect(k)
  PROVE  Inv'
  <1>1. /\ UNCHANGED <<users, pairing, closed, accepts, aborted, life, strand, terminated>>
        /\ \A g : Queued(g)' <=> Queued(g)
    BY DEF Connect, Queued
  <1>2. StrandInv'
    BY <1>1 DEF Inv, StrandInv, Repeats, Erase
  <1>3. SessionInv' /\ ChannelInv' /\ PairInv' /\ GroupsMapped' /\ NoMissedMatch'
    BY <1>1, NetworkFrame
  <1>4. /\ stage[k] = "away" /\ stage' \in [Connections -> Stages]
        /\ \A l \in Connections : l # k => stage'[l] = stage[l]
    BY DEF Inv, TypeOK, Connect, Stages
  <1>5. SocketInv'
    <2>1. ~(Queued(<<"read", k>>)' /\ Queued(<<"part", k>>)')
      BY <1>1 DEF Inv, SocketInv
    <2> QED BY <1>1, <1>4, <2>1, EarlyFrame DEF Early, Erase
  <1>6. TypeOK'
    BY <1>1, <1>4 DEF Inv, TypeOK, users, pairing, life
  <1>7. Listens'
    BY <1>1, <1>4 DEF Inv, Listens, pairing, life, hasSubscriptions, groupHasSubscriptions
  <1> QED
    BY <1>2, <1>3, <1>5, <1>6, <1>7 DEF Inv

LEMMA AcceptSocketStep ==
  ASSUME Inv, UNCHANGED setting, NEW k \in Connections, AcceptSocket(k)
  PROVE  Inv'
  <1>1. /\ UNCHANGED <<users, pairing, closed, aborted, life, strand, terminated>>
        /\ \A g : Queued(g)' <=> Queued(g)
    BY DEF AcceptSocket, Queued
  <1>2. StrandInv'
    BY <1>1 DEF Inv, StrandInv, Repeats, Erase
  <1>3. SessionInv' /\ ChannelInv' /\ PairInv' /\ GroupsMapped' /\ NoMissedMatch'
    BY <1>1, NetworkFrame
  <1>4. /\ stage[k] = "backlog" /\ stage' \in [Connections -> Stages] /\ stage'[k] = "accepted"
        /\ \A l \in Connections : l # k => stage'[l] = stage[l]
    BY DEF Inv, TypeOK, AcceptSocket, Stages, Pending
  <1>5. SocketInv'
    <2>1. ~(Queued(<<"read", k>>)' /\ Queued(<<"part", k>>)')
      BY <1>1 DEF Inv, SocketInv
    <2> QED BY <1>1, <1>4, <2>1, EarlyFrame DEF Early, Erase
  <1>6. TypeOK'
    <2>1. accepts' \in Nat
      BY DEF Inv, TypeOK, AcceptSocket
    <2> QED BY <1>1, <1>4, <2>1 DEF Inv, TypeOK, users, pairing, life
  <1>7. Listens'
    BY <1>1, <1>4 DEF Inv, Listens, pairing, life, hasSubscriptions, groupHasSubscriptions
  <1> QED
    BY <1>2, <1>3, <1>5, <1>6, <1>7 DEF Inv

LEMMA AcceptCallbackStep ==
  ASSUME Inv, UNCHANGED setting, NEW k \in Connections, AcceptCallback(k)
  PROVE  Inv'
  <1> DEFINE h == <<"start", None>>
  <1>0. strand \in Seq(Handlers) /\ h \in Handlers /\ Post(h) /\ h \in Repeats
    BY DEF Inv, TypeOK, AcceptCallback, Handlers, Repeats
  <1>1. /\ UNCHANGED <<users, pairing, closed, accepts, aborted, life>>
        /\ strand' \in Seq(Handlers) /\ Queued(h)'
        /\ \A g : Queued(g) => Queued(g)'
        /\ \A g : g # h /\ Queued(g)' => Queued(g)
    BY <1>0, PostQueued DEF AcceptCallback
  <1>2. StrandInv'
    BY <1>0, PostStrand DEF Inv
  <1>3. SessionInv' /\ ChannelInv' /\ PairInv' /\ GroupsMapped' /\ NoMissedMatch'
    BY <1>1, NetworkFrame
  <1>4. /\ stage[k] = "accepted" /\ stage' \in [Connections -> Stages]
        /\ \A l \in Connections : l # k => stage'[l] = stage[l]
        /\ terminated' \in {terminated, "option"}
    BY DEF Inv, TypeOK, AcceptCallback, Stages, Pending
  <1>5. SocketInv'
    <2>1. ~(Queued(<<"read", k>>)' /\ Queued(<<"part", k>>)')
      BY <1>1 DEF Inv, SocketInv
    <2> QED BY <1>1, <1>4, <2>1, EarlyFrame DEF Early, Erase
  <1>6. TypeOK'
    BY <1>1, <1>4 DEF Inv, TypeOK, users, pairing, life
  <1>7. Listens'
    BY <1>1 DEF Inv, Listens, pairing, life, hasSubscriptions, groupHasSubscriptions
  <1> QED
    BY <1>2, <1>3, <1>5, <1>6, <1>7 DEF Inv

LEMMA AcceptAbortedStep ==
  ASSUME Inv, UNCHANGED setting, AcceptAborted
  PROVE  Inv'
  <1>1. UNCHANGED <<users, pairing, stage, closed, accepts, life, terminated>>
    BY DEF AcceptAborted
  <1>2. /\ strand' \in Seq(Handlers) /\ StrandInv'
        /\ \A g : Queued(g) => Queued(g)'
        /\ \A g : g \notin Repeats /\ Queued(g)' => Queued(g)
    BY AbortQueued DEF Inv, TypeOK, AcceptAborted
  <1>3. /\ \A s \in Sessions : <<"subscribe", s>> \notin Repeats /\ <<"unsubscribe", s>> \notin Repeats
        /\ \A c \in Channels : <<"getSocket", c>> \notin Repeats /\ <<"cancel", c>> \notin Repeats
        /\ \A k \in Connections : /\ <<"read", k>> \notin Repeats /\ <<"part", k>> \notin Repeats
                                  /\ Erase(k) \notin Repeats
    BY AcceptorAssumption DEF Repeats, Erase
  <1>4. SessionInv' /\ ChannelInv' /\ PairInv' /\ GroupsMapped' /\ NoMissedMatch'
    BY <1>1, <1>2, <1>3, NetworkFrame
  <1>5. SocketInv'
    <2>1. \A k \in Connections : /\ Queued(<<"read", k>>)' => Queued(<<"read", k>>)
                                 /\ Queued(<<"part", k>>)' => Queued(<<"part", k>>)
                                 /\ Queued(Erase(k))' => Queued(Erase(k))
      BY <1>2, <1>3
    <2> QED BY <1>1, <2>1 DEF Inv, SocketInv, pairing, clientOf, Erase
  <1>6. TypeOK'
    <2>1. aborted' \in Nat
      BY DEF Inv, TypeOK, AcceptAborted
    <2> QED BY <1>1, <1>2, <2>1 DEF Inv, TypeOK, users, pairing, life
  <1>7. Listens'
    BY <1>1, <1>2 DEF Inv, Listens, pairing, life, hasSubscriptions, groupHasSubscriptions
  <1> QED
    BY <1>2, <1>4, <1>5, <1>6, <1>7 DEF Inv

(* A socket of the handshake goes on, and perhaps its handler is posted.   *)
LEMMA ReceiveStep ==
  ASSUME Inv, UNCHANGED setting, NEW k \in Connections,
         NEW from \in {"header", "body"}, NEW to \in {"body", "read", "failed"}, NEW h,
         Receive(k, from, to, h),
         \/ h = <<>>
         \/ to = "read" /\ h \in {<<"read", k>>, <<"part", k>>}
         \/ to = "failed" /\ h = Erase(k)
  PROVE  Inv'
  <1>0. strand \in Seq(Handlers) /\ h # <<>> => h \in Handlers
    BY DEF Inv, TypeOK, Handlers, Erase
  <1>1. /\ UNCHANGED <<users, pairing, closed, accepts, aborted, life, terminated>>
        /\ stage[k] = from /\ stage' = [stage EXCEPT ![k] = to]
        /\ IF h = <<>> THEN UNCHANGED strand ELSE Post(h)
    BY DEF Receive
  <1>2. /\ ~Queued(<<"read", k>>) /\ ~Queued(<<"part", k>>) /\ ~Queued(Erase(k))
    BY <1>1 DEF Inv, SocketInv
  <1>3. /\ strand' \in Seq(Handlers) /\ StrandInv'
        /\ \A g : Queued(g) => Queued(g)'
        /\ \A g : g # h /\ Queued(g)' => Queued(g)
        /\ h = <<>> => ~Queued(h)'
    <2>1. CASE h = <<>>
      <3>1. <<>> \notin Handlers
        BY DEF Handlers
      <3> QED BY <1>1, <2>1, <3>1, QueuedTyped DEF Inv, TypeOK, StrandInv, Repeats, Erase, Queued
    <2>2. CASE h # <<>>
      <3>1. ~Queued(h) /\ \A c \in Channels : h # <<"getSocket", c>>
        BY <1>2, <2>2 DEF Erase
      <3> QED BY <1>0, <1>1, <2>2, <3>1, PostQueued, PostStrand DEF Inv, TypeOK
    <2> QED BY <2>1, <2>2
  <1>4. \A s, c : h \notin {<<"subscribe", s>>, <<"unsubscribe", s>>, <<"getSocket", c>>, <<"cancel", c>>}
    BY DEF Erase
  <1>5. SessionInv' /\ ChannelInv' /\ PairInv' /\ GroupsMapped' /\ NoMissedMatch'
    BY <1>1, <1>3, <1>4, NetworkFrame
  <1>6. /\ stage[k] \in Early /\ stage' \in [Connections -> Stages] /\ stage'[k] = to
        /\ \A l \in Connections : l # k => stage'[l] = stage[l]
    BY <1>1 DEF Inv, TypeOK, Stages, Pending, Early
  <1>7. \A l \in Connections :
          /\ Queued(<<"read", l>>)' => Queued(<<"read", l>>) \/ (l = k /\ stage'[k] = "read")
          /\ Queued(<<"part", l>>)' => Queued(<<"part", l>>) \/ (l = k /\ stage'[k] = "read")
          /\ Queued(Erase(l))' => Queued(Erase(l)) \/ (l = k /\ stage'[k] = "failed")
    BY <1>3, <1>6 DEF Erase
  <1>8. ~(Queued(<<"read", k>>)' /\ Queued(<<"part", k>>)')
    BY <1>2, <1>3
  <1>9. SocketInv'
    BY <1>1, <1>6, <1>7, <1>8, EarlyFrame
  <1>10. TypeOK'
    BY <1>1, <1>3, <1>6 DEF Inv, TypeOK, users, pairing, life
  <1>11. Listens'
    BY <1>1, <1>3, <1>6 DEF Inv, Listens, pairing, life, hasSubscriptions, groupHasSubscriptions
  <1> QED
    BY <1>3, <1>5, <1>9, <1>10, <1>11 DEF Inv

LEMMA NetworkStep ==
  ASSUME Inv, UNCHANGED setting, Network
  PROVE  Inv'
  <1>1. CASE AcceptAborted
    BY <1>1, AcceptAbortedStep
  <1>2. ASSUME NEW k \in Connections, Connect(k) \/ AcceptSocket(k) \/ AcceptCallback(k)
        PROVE  Inv'
    BY <1>2, ConnectStep, AcceptSocketStep, AcceptCallbackStep
  <1>3. ASSUME NEW k \in Connections, ReceiveHeader(k) \/ ReceiveString(k) \/ ReceiveFails(k)
        PROVE  Inv'
    BY <1>3, ReceiveStep DEF ReceiveHeader, ReceiveString, ReceiveFails
  <1> QED
    BY <1>1, <1>2, <1>3 DEF Network, Callbacks

LEMMA UsersStep ==
  ASSUME Inv, UNCHANGED setting, Users
  PROVE  Inv'
  BY SessionStartStep, SessionDiscardStep, AddChannelStep, CancelStep, CancelReturnStep,
     SessionStopStep, ServiceStopStep DEF Users

-----------------------------------------------------------------------------
(* Handlers that leave the groups alone.                                   *)

(* What every handler of the strand does to the strand.                    *)
LEMMA HandleInv ==
  ASSUME Inv, NEW h, Handle(h)
  PROVE  /\ strand' \in Seq(Handlers) /\ StrandInv'
         /\ Queued(h)
         /\ \A g : Queued(g)' => Queued(g)
         /\ \A g : g # h /\ Queued(g) => Queued(g)'
         /\ h \notin Repeats => ~Queued(h)'
         /\ \A s \in Sessions, c \in Channels :
              h = <<"unsubscribe", s>> /\ sessionOf[c] = s => ~Queued(<<"getSocket", c>>)
  <1>1. strand \in Seq(Handlers) /\ StrandInv
    BY DEF Inv, TypeOK
  <1> QED
    BY <1>1, HandleQueued, HandleStrand

LEMMA GiveUpFrame ==
  ASSUME Inv, UNCHANGED <<setting, users, pairing>>,
         \A g : Queued(g)' => Queued(g),
         \A l \in Connections :
           stage'[l] # stage[l] =>
             /\ stage[l] \notin {"named", "given"}
             /\ ~Queued(<<"read", l>>)' /\ ~Queued(<<"part", l>>)' /\ ~Queued(Erase(l))'
  PROVE  SocketInv'
  <1>1. UNCHANGED <<group, mClaimedGroups, mSockets, mUnclaimedSockets, given, setting>>
    BY DEF pairing
  <1>2. ASSUME NEW l \in Connections
        PROVE  /\ Queued(<<"read", l>>)' \/ Queued(<<"part", l>>)' => stage'[l] = "read"
               /\ ~(Queued(<<"read", l>>)' /\ Queued(<<"part", l>>)')
               /\ Queued(Erase(l))' => stage'[l] = "failed"
               /\ \A s \in Sessions :
                    l \in group[s].mSockets => stage'[l] = "named" /\ mClaimedGroups[clientOf(l)] = s
               /\ \A x \in Clients : l \in mSockets[x] => stage'[l] = "named" /\ clientOf(l) = x
               /\ \A c \in Channels : given[c] = l => stage'[l] = "given"
    <2>1. CASE stage'[l] = stage[l]
      BY <2>1 DEF Inv, SocketInv
    <2>2. CASE stage'[l] # stage[l]
      BY <2>2 DEF Inv, SocketInv
    <2> QED BY <2>1, <2>2
  <1>3. /\ \A x \in Clients : x \notin mUnclaimedSockets => mSockets[x] = {}
        /\ \A c, d \in Channels : given[c] # None /\ given[c] = given[d] => c = d
    BY DEF Inv, SocketInv
  <1> QED
    BY <1>1, <1>2, <1>3 DEF SocketInv, clientOf, Erase

LEMMA StartStep ==
  ASSUME Inv, UNCHANGED setting, Start
  PROVE  Inv'
  <1> DEFINE h == <<"start", None>>
  <1>1. /\ UNCHANGED <<users, pairing, stage, closed, aborted, life, terminated>>
        /\ accepts' = IF mListening THEN accepts + 1 ELSE accepts
        /\ Handle(h)
    BY DEF Start
  <1>2. /\ strand' \in Seq(Handlers) /\ StrandInv'
        /\ \A g : Queued(g)' => Queued(g)
        /\ \A g : g # h /\ Queued(g) => Queued(g)'
    BY <1>1, HandleInv
  <1>3. SessionInv' /\ ChannelInv' /\ PairInv' /\ GroupsMapped' /\ NoMissedMatch'
    BY <1>1, <1>2, NetworkFrame
  <1>4. SocketInv'
    BY <1>1, <1>2, GiveUpFrame
  <1>5. TypeOK'
    BY <1>1, <1>2 DEF Inv, TypeOK, users, pairing, life
  <1>6. Listens'
    BY <1>1 DEF Inv, TypeOK, Listens, pairing, life, hasSubscriptions, groupHasSubscriptions
  <1> QED
    BY <1>2, <1>3, <1>4, <1>5, <1>6 DEF Inv

LEMMA StopStep ==
  ASSUME Inv, UNCHANGED setting, Stop
  PROVE  Inv'
  <1> DEFINE h == <<"stop", None>>
  <1>1. /\ UNCHANGED <<users, pairing, terminated>> /\ Handle(h)
        /\ mStopped' = TRUE /\ mListening' = FALSE
        /\ stage' = [k \in Connections |-> IF stage[k] = "backlog" THEN "lost" ELSE stage[k]]
    BY DEF Stop
  <1>2. /\ strand' \in Seq(Handlers) /\ StrandInv'
        /\ \A g : Queued(g)' => Queued(g)
        /\ \A g : g # h /\ Queued(g) => Queued(g)'
    BY <1>1, HandleInv
  <1>3. SessionInv' /\ ChannelInv' /\ PairInv' /\ GroupsMapped' /\ NoMissedMatch'
    BY <1>1, <1>2, NetworkFrame
  <1>4. SocketInv'
    <2>1. \A l \in Connections : stage'[l] # stage[l] => stage[l] = "backlog"
      BY <1>1
    <2>2. \A l \in Connections :
            stage[l] = "backlog" =>
              ~Queued(<<"read", l>>) /\ ~Queued(<<"part", l>>) /\ ~Queued(Erase(l))
      BY DEF Inv, SocketInv
    <2>3. \A l \in Connections :
            stage'[l] # stage[l] =>
              /\ stage[l] \notin {"named", "given"}
              /\ ~Queued(<<"read", l>>)' /\ ~Queued(<<"part", l>>)' /\ ~Queued(Erase(l))'
      BY <1>2, <2>1, <2>2
    <2> QED BY <1>1, <1>2, <2>3, GiveUpFrame
  <1>5. TypeOK'
    <2>1. /\ accepts' \in Nat /\ aborted' \in Nat /\ emptyProm' \in Nat /\ stoppedProm' \in Nat
          /\ closed' \subseteq Connections
      BY DEF Inv, TypeOK, Stop
    <2>2. stage' \in [Connections -> Stages]
      BY <1>1 DEF Inv, TypeOK, Stages
    <2> QED BY <1>1, <1>2, <2>1, <2>2 DEF Inv, TypeOK, users, pairing
  <1>6. Listens'
    BY <1>1 DEF Listens
  <1> QED
    BY <1>2, <1>3, <1>4, <1>5, <1>6 DEF Inv

LEMMA EraseSocketStep ==
  ASSUME Inv, UNCHANGED setting, NEW k \in Connections \cup {None}, EraseSocket(k)
  PROVE  Inv'
  <1> DEFINE h == Erase(k)
  <1>1. /\ UNCHANGED <<users, pairing, closed, accepts, aborted, mListening, mStopped,
                       stoppedProm, terminated>>
        /\ Handle(h)
        /\ stage' = IF k = None THEN stage ELSE [stage EXCEPT ![k] = "lost"]
        /\ emptyProm' \in {emptyProm, emptyProm + 1}
    BY DEF EraseSocket, PromiseIfEmpty
  <1>2. /\ strand' \in Seq(Handlers) /\ StrandInv'
        /\ Queued(h)
        /\ \A g : Queued(g)' => Queued(g)
        /\ \A g : g # h /\ Queued(g) => Queued(g)'
        /\ h \notin Repeats => ~Queued(h)'
    BY <1>1, HandleInv
  <1>3. SessionInv' /\ ChannelInv' /\ PairInv' /\ GroupsMapped' /\ NoMissedMatch'
    BY <1>1, <1>2, NetworkFrame DEF Erase
  <1>4. \A l \in Connections :
          stage'[l] # stage[l] => l = k /\ stage[k] = "failed" /\ ~Queued(Erase(k))'
    <2>1. \A l \in Connections : stage'[l] # stage[l] => l = k /\ k # None
      BY <1>1
    <2>2. k # None => Erase(k) \notin Repeats
      BY DEF Repeats, Erase
    <2>3. k # None => stage[k] = "failed"
      BY <1>2 DEF Inv, SocketInv
    <2> QED BY <1>2, <2>1, <2>2, <2>3
  <1>5. SocketInv'
    <2>1. \A l \in Connections :
            stage'[l] # stage[l] => ~Queued(<<"read", l>>) /\ ~Queued(<<"part", l>>)
      BY <1>4 DEF Inv, SocketInv
    <2> QED BY <1>1, <1>2, <1>4, <2>1, GiveUpFrame
  <1>6. TypeOK'
    <2>1. stage' \in [Connections -> Stages] /\ emptyProm' \in Nat
      BY <1>1 DEF Inv, TypeOK, Stages
    <2> QED BY <1>1, <1>2, <2>1 DEF Inv, TypeOK, users, pairing
  <1>7. Listens'
    <2>1. Queued(<<"start", None>>) => Queued(<<"start", None>>)'
      BY <1>2 DEF Erase
    <2>2. \A l \in Connections : stage[l] = "accepted" => stage'[l] = "accepted"
      BY <1>4
    <2> QED BY <1>1, <2>1, <2>2 DEF Inv, Listens, pairing, hasSubscriptions, groupHasSubscriptions
  <1> QED
    BY <1>2, <1>3, <1>5, <1>6, <1>7 DEF Inv

LEMMA DropSocketStep ==
  ASSUME Inv, UNCHANGED setting, NEW k \in Connections, DropSocket(k)
  PROVE  Inv'
  <1> DEFINE h == <<"part", k>>
  <1>1. /\ UNCHANGED <<users, pairing, closed, accepts, aborted, mListening, mStopped,
                       stoppedProm, terminated>>
        /\ Handle(h)
        /\ stage' = [stage EXCEPT ![k] = "lost"]
        /\ emptyProm' \in {emptyProm, emptyProm + 1}
    BY DEF DropSocket, PromiseIfEmpty
  <1>2. /\ strand' \in Seq(Handlers) /\ StrandInv'
        /\ Queued(h)
        /\ \A g : Queued(g)' => Queued(g)
        /\ \A g : g # h /\ Queued(g) => Queued(g)'
        /\ ~Queued(h)'
    <2>1. h \notin Repeats
      BY DEF Repeats, Erase
    <2> QED BY <1>1, <2>1, HandleInv
  <1>3. SessionInv' /\ ChannelInv' /\ PairInv' /\ GroupsMapped' /\ NoMissedMatch'
    BY <1>1, <1>2, NetworkFrame
  <1>4. stage[k] = "read" /\ \A l \in Connections : stage'[l] # stage[l] => l = k
    <2>1. stage[k] = "read"
      BY <1>2 DEF Inv, SocketInv
    <2>2. \A l \in Connections : stage'[l] # stage[l] => l = k
      BY <1>1
    <2> QED BY <2>1, <2>2
  <1>5. SocketInv'
    <2>1. ~Queued(<<"read", k>>) /\ ~Queued(Erase(k))
      BY <1>2, <1>4 DEF Inv, SocketInv
    <2> QED BY <1>1, <1>2, <1>4, <2>1, GiveUpFrame
  <1>6. TypeOK'
    <2>1. stage' \in [Connections -> Stages] /\ emptyProm' \in Nat
      BY <1>1 DEF Inv, TypeOK, Stages
    <2> QED BY <1>1, <1>2, <2>1 DEF Inv, TypeOK, users, pairing
  <1>7. Listens'
    <2>1. Queued(<<"start", None>>) => Queued(<<"start", None>>)'
      BY <1>2
    <2>2. \A l \in Connections : stage[l] = "accepted" => stage'[l] = "accepted"
      BY <1>4
    <2> QED BY <1>1, <2>1, <2>2 DEF Inv, Listens, pairing, hasSubscriptions, groupHasSubscriptions
  <1> QED
    BY <1>2, <1>3, <1>5, <1>6, <1>7 DEF Inv

-----------------------------------------------------------------------------
(* Handlers that change the group of one session.                          *)

Groups == [exists : BOOLEAN, mBase : BOOLEAN,
           mChannels : SUBSET Channels, mSockets : SUBSET Connections]

(* What is left of a group when a handler ends.                            *)
Kept(g) == IF groupHasSubscriptions(g) THEN g ELSE NoGroup

LEMMA KeptFacts ==
  ASSUME NEW g \in Groups
  PROVE  /\ Kept(g) \in Groups /\ Kept(g).mChannels = g.mChannels /\ Kept(g).mBase = g.mBase
         /\ Kept(g).mSockets \subseteq g.mSockets
         /\ g.exists => (Kept(g).exists <=> groupHasSubscriptions(g))
         /\ groupHasSubscriptions(Kept(g)) <=> groupHasSubscriptions(g)
         /\ ~groupHasSubscriptions(g) => Kept(g) = NoGroup
  BY DEF Groups, Kept, NoGroup, groupHasSubscriptions

LEMMA TidyEffect ==
  ASSUME Inv, NEW s \in Sessions, NEW g \in Groups, NEW stages \in [Connections -> Stages],
         Tidy([group EXCEPT ![s] = g], s, stages)
  PROVE  /\ group' = [group EXCEPT ![s] = Kept(g)]
         /\ group' \in [Sessions -> Groups]
         /\ stage' \in [Connections -> Stages]
         /\ accepts' \in Nat /\ aborted' \in Nat /\ stoppedProm' \in Nat
         /\ mListening' \in BOOLEAN
         /\ \A k \in Connections :
              stage'[k] # stages[k] =>
                /\ stage'[k] = "lost"
                /\ stages[k] = "backlog" \/ (~groupHasSubscriptions(g) /\ k \in g.mSockets)
         /\ mListening' <=> mListening /\ hasSubscriptions(group')
         /\ mListening' => accepts' = accepts
  <1> DEFINE groups == [group EXCEPT ![s] = g]
             after == StageAfter(groups, s, stages)
  <1>1. group \in [Sessions -> Groups] /\ groups \in [Sessions -> Groups] /\ groups[s] = g
    BY DEF Inv, TypeOK, Groups
  <1>2. group' = EraseIfUnused(groups, s) /\ StopListening(group', after)
    BY DEF Tidy
  <1>3. group' = [group EXCEPT ![s] = Kept(g)]
    BY <1>1, <1>2 DEF EraseIfUnused, Kept
  <1>4. group' \in [Sessions -> Groups]
    BY <1>1, <1>3, KeptFacts
  <1>5. /\ after \in [Connections -> Stages]
        /\ \A k \in Connections :
             after[k] # stages[k] =>
               after[k] = "lost" /\ ~groupHasSubscriptions(g) /\ k \in g.mSockets
    BY <1>1 DEF StageAfter, Stages
  <1>6. /\ mListening \in BOOLEAN /\ accepts \in Nat /\ aborted \in Nat /\ stoppedProm \in Nat
    BY DEF Inv, TypeOK
  <1> HIDE DEF groups, after
  <1>7. CASE mListening /\ ~hasSubscriptions(group')
    <2>1. /\ mListening' = FALSE /\ accepts' = 0 /\ aborted' = aborted + accepts
          /\ stage' = [k \in Connections |-> IF after[k] = "backlog" THEN "lost" ELSE after[k]]
          /\ stoppedProm' = IF mStopped THEN stoppedProm + 1 ELSE stoppedProm
      BY <1>2, <1>7 DEF StopListening
    <2>2. stage' \in [Connections -> Stages]
      BY <1>5, <2>1 DEF Stages
    <2>3. /\ accepts' \in Nat /\ aborted' \in Nat /\ stoppedProm' \in Nat
      BY <1>6, <2>1
    <2>4. \A k \in Connections :
              stage'[k] # stages[k] =>
                /\ stage'[k] = "lost"
                /\ stages[k] = "backlog" \/ (~groupHasSubscriptions(g) /\ k \in g.mSockets)
      BY <1>5, <2>1
    <2> QED BY <1>3, <1>4, <1>7, <2>1, <2>2, <2>3, <2>4
  <1>8. CASE ~(mListening /\ ~hasSubscriptions(group'))
    <2>1. stage' = after /\ UNCHANGED <<mListening, accepts, aborted, stoppedProm>>
      BY <1>2, <1>8 DEF StopListening
    <2> QED BY <1>3, <1>4, <1>5, <1>6, <1>8, <2>1
  <1> QED
    BY <1>7, <1>8

(* The acceptor listens as long as it should.                              *)
LEMMA TidyListens ==
  ASSUME Inv, NEW s \in Sessions, NEW g \in Groups, NEW stages \in [Connections -> Stages],
         Tidy([group EXCEPT ![s] = g], s, stages),
         group[s].exists, UNCHANGED mStopped,
         Queued(<<"start", None>>) => Queued(<<"start", None>>)',
         \A k \in Connections :
           stage[k] = "accepted" => stages[k] = "accepted" /\ k \notin g.mSockets
  PROVE  Listens'
  <1>1. /\ mListening' <=> mListening /\ hasSubscriptions(group')
        /\ mListening' => accepts' = accepts
        /\ \A k \in Connections : stage[k] = "accepted" => stage'[k] = "accepted"
    BY TidyEffect
  <1>2. hasSubscriptions(group)
    BY DEF Inv, GroupsMapped, MapsAgree, hasSubscriptions
  <1>3. ~mStopped => mListening
    BY <1>2 DEF Inv, Listens
  <1> QED
    BY <1>1, <1>3 DEF Inv, Listens

(* The maps, if a handler leaves the group in its map.                     *)
LEMMA MappedAgree ==
  ASSUME Inv, NEW s \in Sessions, NEW g \in Groups, NEW stages \in [Connections -> Stages],
         TidyMapped([group EXCEPT ![s] = g], s, stages),
         group[s].exists, g.exists, g.mBase => group[s].mBase,
         s \in mUnclaimedGroups => g.mSockets = {},
         UNCHANGED <<mSessionID, mUnclaimedSockets>>
  PROVE  /\ MapsAgree'
         /\ mUnclaimedGroups' \subseteq mUnclaimedGroups
         /\ groupHasSubscriptions(g) => UNCHANGED <<mUnclaimedGroups, mClaimedGroups>>
         /\ mClaimedGroups' \in [Clients -> Sessions \cup {None}]
         /\ \A x \in Clients :
              mClaimedGroups'[x] # mClaimedGroups[x] =>
                mClaimedGroups[x] = s /\ mClaimedGroups'[x] = None /\ ~groupHasSubscriptions(g)
  <1> DEFINE gone == ~groupHasSubscriptions(g)
  <1>1. /\ group \in [Sessions -> Groups] /\ mUnclaimedGroups \subseteq Sessions
        /\ mClaimedGroups \in [Clients -> Sessions \cup {None}] /\ None \notin Sessions
    BY AcceptorAssumption DEF Inv, TypeOK, Groups
  <1>2. [group EXCEPT ![s] = g][s] = g
    BY <1>1
  <1>3. /\ mUnclaimedGroups' = IF gone THEN mUnclaimedGroups \ {s} ELSE mUnclaimedGroups
        /\ mClaimedGroups' = [x \in Clients |-> IF gone /\ mClaimedGroups[x] = s
                                             THEN None ELSE mClaimedGroups[x]]
    BY <1>2 DEF TidyMapped
  <1>4. group' = [group EXCEPT ![s] = Kept(g)] /\ group' \in [Sessions -> Groups]
    BY TidyEffect DEF TidyMapped
  <1>5. /\ group'[s] = Kept(g) /\ \A t \in Sessions : t # s => group'[t] = group[t]
    BY <1>1, <1>4
  <1>6. MapsAgree
    BY DEF Inv, GroupsMapped
  <1>7. ~gone => UNCHANGED <<mUnclaimedGroups, mClaimedGroups>>
    BY <1>1, <1>3
  <1>8. \A x \in Clients :
          mClaimedGroups'[x] # mClaimedGroups[x] =>
            mClaimedGroups[x] = s /\ mClaimedGroups'[x] = None /\ gone
    BY <1>1, <1>3
  <1>9. /\ mClaimedGroups' \in [Clients -> Sessions \cup {None}]
        /\ mUnclaimedGroups' \subseteq mUnclaimedGroups
        /\ s \notin mUnclaimedGroups \/ ~gone => s \in mUnclaimedGroups <=> s \in mUnclaimedGroups'
        /\ \A t \in Sessions \ {s} : t \in mUnclaimedGroups <=> t \in mUnclaimedGroups'
    BY <1>1, <1>3
  <1>10. ASSUME NEW t \in Sessions
         PROVE  /\ group'[t].exists <=> groupHasSubscriptions(group'[t])
                /\ group'[t].exists <=>
                     t \in mUnclaimedGroups' \/ \E x \in Clients : mClaimedGroups'[x] = t
                /\ t \in mUnclaimedGroups' => mSessionID[t] = None /\ group'[t].mSockets = {}
                /\ group'[t].mBase /\ t \notin mUnclaimedGroups' =>
                     mSessionID[t] # None /\ mClaimedGroups'[mSessionID[t]] = t
    <2>1. CASE t # s
      <3>1. group'[t] = group[t] /\ (t \in mUnclaimedGroups <=> t \in mUnclaimedGroups')
        BY <1>5, <1>9, <2>1
      <3>2. \A x \in Clients : mClaimedGroups'[x] = t <=> mClaimedGroups[x] = t
        BY <1>1, <1>8, <2>1
      <3>3. mSessionID[t] \in Clients \cup {None}
        BY DEF Inv, TypeOK
      <3> QED BY <1>6, <3>1, <3>2, <3>3 DEF MapsAgree
    <2>2. CASE t = s /\ gone
      <3>1. t \notin mUnclaimedGroups' /\ \A x \in Clients : mClaimedGroups'[x] # t
        BY <1>1, <1>3, <2>2
      <3>2. group'[t] = NoGroup
        BY <1>5, <2>2, KeptFacts
      <3> QED BY <3>1, <3>2 DEF NoGroup, groupHasSubscriptions
    <2>3. CASE t = s /\ ~gone
      <3>1. group'[t] = g
        BY <1>5, <2>3 DEF Kept
      <3> QED BY <1>6, <1>7, <2>3, <3>1 DEF MapsAgree
    <2> QED BY <2>1, <2>2, <2>3
  <1>11. ASSUME NEW x \in Clients, mClaimedGroups'[x] # None
         PROVE  /\ mClaimedGroups'[x] \notin mUnclaimedGroups' /\ x \notin mUnclaimedSockets
                /\ \A y \in Clients \ {x} : mClaimedGroups'[y] # mClaimedGroups'[x]
    <2>1. mClaimedGroups'[x] = mClaimedGroups[x]
      BY <1>8, <1>11
    <2>2. \A y \in Clients : mClaimedGroups'[y] = mClaimedGroups[y] \/ mClaimedGroups'[y] = None
      BY <1>8
    <2> QED BY <1>6, <1>9, <1>11, <2>1, <2>2 DEF MapsAgree
  <1>12. MapsAgree'
    BY <1>10, <1>11 DEF MapsAgree, groupHasSubscriptions
  <1> QED
    BY <1>7, <1>8, <1>9, <1>12
(* The maps, if the group is paired with a client.                         *)
Merged(g, K) == Without([g EXCEPT !.mSockets = @ \cup K], Matches(g.mChannels, K))

LEMMA MergedFacts ==
  ASSUME NEW g \in Groups, NEW K \in SUBSET Connections, g.mSockets = {}
  PROVE  /\ Merged(g, K) \in Groups
         /\ Merged(g, K).exists = g.exists /\ Merged(g, K).mBase = g.mBase
         /\ Merged(g, K).mChannels = g.mChannels \ {m[1] : m \in Matches(g.mChannels, K)}
         /\ Merged(g, K).mSockets = K \ {m[2] : m \in Matches(g.mChannels, K)}
         /\ Matches(Merged(g, K).mChannels, Merged(g, K).mSockets) = {}
  <1> DEFINE M == Matches(g.mChannels, K)
  <1>1. /\ Merged(g, K) \in Groups
        /\ Merged(g, K).exists = g.exists /\ Merged(g, K).mBase = g.mBase
        /\ Merged(g, K).mChannels = g.mChannels \ {m[1] : m \in M}
        /\ Merged(g, K).mSockets = K \ {m[2] : m \in M}
    BY DEF Merged, Without, Groups
  <1>2. ASSUME NEW c \in g.mChannels \ {m[1] : m \in M}, NEW k \in K \ {m[2] : m \in M},
               channelName[c] = channelName[k]
        PROVE  FALSE
    <2>1. <<c, k>> \in M
      BY <1>2 DEF Matches
    <2>2. <<c, k>>[1] \in {m[1] : m \in M}
      BY <2>1
    <2> QED BY <1>2, <2>2
  <1>3. Matches(Merged(g, K).mChannels, Merged(g, K).mSockets) = {}
    BY <1>1, <1>2 DEF Matches
  <1> QED
    BY <1>1, <1>3

LEMMA ClaimedAgree ==
  ASSUME Inv, NEW s \in mUnclaimedGroups, NEW x \in Clients, NEW g \in Groups,
         NEW K \in SUBSET Connections, Claim(s, x, g, K),
         mClaimedGroups[x] = None,
         g.exists, g.mBase = group[s].mBase, g.mSockets = {}
  PROVE  /\ MapsAgree'
         /\ mUnclaimedGroups' = mUnclaimedGroups \ {s}
         /\ mClaimedGroups' = IF groupHasSubscriptions(Merged(g, K))
                              THEN [mClaimedGroups EXCEPT ![x] = s] ELSE mClaimedGroups
         /\ \A y \in Clients : mClaimedGroups[y] # s
  <1> DEFINE merged == Merged(g, K)
             kept == groupHasSubscriptions(merged)
             stages == [k \in Connections |->
                          IF \E c \in Channels : <<c, k>> \in Matches(g.mChannels, K) THEN "given"
                          ELSE IF k \in K THEN "named" ELSE stage[k]]
  <1>1. /\ group \in [Sessions -> Groups] /\ mUnclaimedGroups \subseteq Sessions
        /\ s \in Sessions /\ mUnclaimedSockets \subseteq Clients
        /\ mSessionID \in [Sessions -> Clients \cup {None}]
        /\ mClaimedGroups \in [Clients -> Sessions \cup {None}]
        /\ None \notin Sessions /\ None \notin Clients
    BY AcceptorAssumption DEF Inv, TypeOK, Groups
  <1>2. /\ merged \in Groups /\ merged.exists /\ merged.mBase = g.mBase
    BY MergedFacts
  <1>3. /\ mSessionID' = IF g.mBase THEN [mSessionID EXCEPT ![s] = x] ELSE mSessionID
        /\ mUnclaimedGroups' = mUnclaimedGroups \ {s}
        /\ mClaimedGroups' = IF kept THEN [mClaimedGroups EXCEPT ![x] = s] ELSE mClaimedGroups
        /\ Tidy([group EXCEPT ![s] = merged], s, stages)
    BY DEF Claim, Merged
  <1>4. mUnclaimedSockets' = mUnclaimedSockets \ {x}
    BY DEF Claim, TakeSockets
  <1>5. stages \in [Connections -> Stages]
    BY DEF Inv, TypeOK, Stages
  <1> HIDE DEF merged, stages
  <1>6. group' = [group EXCEPT ![s] = Kept(merged)]
    <2>1. s \in Sessions /\ merged \in Groups /\ Tidy([group EXCEPT ![s] = merged], s, stages)
      BY <1>1, <1>2, <1>3
    <2> QED BY <1>5, <2>1, TidyEffect
  <1>7. /\ group'[s] = Kept(merged) /\ \A t \in Sessions : t # s => group'[t] = group[t]
    BY <1>1, <1>6
  <1>8. MapsAgree
    BY DEF Inv, GroupsMapped
  <1>9. \A y \in Clients : mClaimedGroups[y] # s
    BY <1>1, <1>8 DEF MapsAgree
  <1>10. ASSUME NEW t \in Sessions
         PROVE  /\ group'[t].exists <=> groupHasSubscriptions(group'[t])
                /\ group'[t].exists <=>
                     t \in mUnclaimedGroups' \/ \E y \in Clients : mClaimedGroups'[y] = t
                /\ t \in mUnclaimedGroups' => mSessionID'[t] = None /\ group'[t].mSockets = {}
                /\ group'[t].mBase /\ t \notin mUnclaimedGroups' =>
                     mSessionID'[t] # None /\ mClaimedGroups'[mSessionID'[t]] = t
    <2>1. CASE t # s
      <3>1. /\ group'[t] = group[t] /\ (t \in mUnclaimedGroups <=> t \in mUnclaimedGroups')
            /\ mSessionID'[t] = mSessionID[t]
        BY <1>1, <1>3, <1>7, <2>1
      <3>2. \A y \in Clients : mClaimedGroups'[y] = t <=> mClaimedGroups[y] = t
        BY <1>1, <1>3, <2>1
      <3> QED BY <1>1, <1>8, <3>1, <3>2 DEF MapsAgree
    <2>2. CASE t = s /\ ~kept
      <3>1. group'[t] = NoGroup
        BY <1>2, <1>7, <2>2, KeptFacts
      <3>2. t \notin mUnclaimedGroups' /\ \A y \in Clients : mClaimedGroups'[y] # t
        BY <1>3, <1>9, <2>2
      <3> QED BY <3>1, <3>2 DEF NoGroup, groupHasSubscriptions
    <2>3. CASE t = s /\ kept
      <3>1. group'[t] = merged
        BY <1>7, <2>3 DEF Kept
      <3>2. t \notin mUnclaimedGroups' /\ mClaimedGroups'[x] = s
        BY <1>1, <1>3, <2>3
      <3>3. merged.mBase => mSessionID'[s] = x
        BY <1>1, <1>2, <1>3
      <3> QED BY <1>1, <1>2, <2>3, <3>1, <3>2, <3>3
    <2> QED BY <2>1, <2>2, <2>3
  <1>11. ASSUME NEW y \in Clients, mClaimedGroups'[y] # None
         PROVE  /\ mClaimedGroups'[y] \notin mUnclaimedGroups' /\ y \notin mUnclaimedSockets'
                /\ \A z \in Clients \ {y} : mClaimedGroups'[z] # mClaimedGroups'[y]
    <2>1. \A z \in Clients :
            \/ mClaimedGroups'[z] = mClaimedGroups[z]
            \/ z = x /\ mClaimedGroups'[z] = s
      BY <1>1, <1>3
    <2> QED BY <1>1, <1>3, <1>4, <1>8, <1>9, <1>11, <2>1 DEF MapsAgree
  <1>12. MapsAgree'
    BY <1>10, <1>11 DEF MapsAgree, groupHasSubscriptions
  <1> QED
    BY <1>3, <1>9, <1>12 DEF merged

(* Sessions, channels and sockets, if the group of s changes to g.         *)
LEMMA SessionFrame ==
  ASSUME Inv, NEW s \in Sessions, NEW g \in Groups, group' = [group EXCEPT ![s] = Kept(g)],
         group[s].exists, g.exists, g.mBase = group[s].mBase, UNCHANGED session,
         \A t \in Sessions : t # s => mSessionID'[t] = mSessionID[t],
         \A f : Queued(f)' => Queued(f),
         \A c \in Channels : channel[c] = "new" => channel'[c] = "new"
  PROVE  SessionInv'
  <1>1. /\ group'[s] = Kept(g) /\ \A t \in Sessions : t # s => group'[t] = group[t]
    BY DEF Inv, TypeOK
  <1>2. /\ Kept(g).mBase = g.mBase
        /\ Kept(g).exists <=> groupHasSubscriptions(g)
        /\ ~Kept(g).exists => Kept(g) = NoGroup
        /\ g.mBase => groupHasSubscriptions(g)
    BY KeptFacts DEF groupHasSubscriptions
  <1>3. ASSUME NEW t \in Sessions
        PROVE /\ Queued(<<"subscribe", t>>)' => session'[t] = "starting"
              /\ Queued(<<"unsubscribe", t>>)' => session'[t] = "stopping"
              /\ session'[t] \in {"new", "starting", "refused"} =>
                   /\ ~group'[t].exists /\ mSessionID'[t] = None
                   /\ \A c \in Channels : sessionOf[c] = t => channel'[c] = "new"
              /\ session'[t] = "running" => group'[t].mBase
              /\ group'[t].mBase => session'[t] \in {"running", "stopping"}
              /\ group'[t].exists /\ ~group'[t].mBase => session'[t] = "stopped"
              /\ ~group'[t].exists => group'[t] = NoGroup
    <2>1. CASE t # s
      BY <1>1, <2>1 DEF Inv, SessionInv
    <2>2. CASE t = s
      BY <1>1, <1>2, <2>2 DEF Inv, SessionInv
    <2> QED BY <2>1, <2>2
  <1> QED
    BY <1>3 DEF SessionInv

ChannelsFit(s, g) ==
  \A c \in Channels :
    /\ c \in g.mChannels => sessionOf[c] = s /\ Waits(c)' /\ ~Queued(<<"getSocket", c>>)'
    /\ sessionOf[c] = s /\ Waits(c)' => Queued(<<"getSocket", c>>)' \/ c \in g.mChannels
    /\ Queued(<<"getSocket", c>>)' => Waits(c)'
    /\ sessionOf[c] # s =>
         /\ Waits(c)' <=> Waits(c)
         /\ Queued(<<"getSocket", c>>)' <=> Queued(<<"getSocket", c>>)
    /\ channel'[c] = "new" => channel[c] = "new" /\ given'[c] = given[c]
    /\ Queued(<<"cancel", c>>)' => channel'[c] \notin {"new", "refused", "waiting"}

LEMMA ChannelFrame ==
  ASSUME Inv, NEW s \in Sessions, NEW g \in Groups, group' = [group EXCEPT ![s] = Kept(g)],
         ChannelsFit(s, g)
  PROVE  ChannelInv'
  <1>1. /\ group'[s] = Kept(g) /\ \A t \in Sessions : t # s => group'[t] = group[t]
    BY DEF Inv, TypeOK
  <1>2. group'[s].mChannels = g.mChannels
    BY <1>1, KeptFacts
  <1>3. ASSUME NEW c \in Channels
        PROVE  /\ Waits(c)' => Queued(<<"getSocket", c>>)' \/ c \in group'[sessionOf[c]].mChannels
               /\ Queued(<<"getSocket", c>>)' =>
                    Waits(c)' /\ c \notin group'[sessionOf[c]].mChannels
               /\ \A t \in Sessions : c \in group'[t].mChannels => sessionOf[c] = t /\ Waits(c)'
               /\ Queued(<<"cancel", c>>)' => channel'[c] \notin {"new", "refused", "waiting"}
               /\ channel'[c] = "new" => given'[c] = None
    <2>1. ChannelInv /\ sessionOf[c] \in Sessions
      BY SessionOfType DEF Inv
    <2>2. CASE sessionOf[c] = s
      BY <1>1, <1>2, <2>1, <2>2 DEF ChannelInv, ChannelsFit
    <2>3. CASE sessionOf[c] # s
      <3>1. \A t \in Sessions : c \in group'[t].mChannels => t # s
        BY <1>2, <2>3 DEF ChannelsFit
      <3>2. group'[sessionOf[c]] = group[sessionOf[c]]
        BY <1>1, <2>1, <2>3
      <3>3. \A t \in Sessions : c \in group'[t].mChannels => c \in group[t].mChannels
        BY <1>1, <3>1
      <3> QED BY <2>1, <2>3, <3>2, <3>3 DEF ChannelInv, ChannelsFit
    <2> QED BY <2>2, <2>3
  <1> QED
    BY <1>3 DEF ChannelInv, Waits

SocketsFit(s, g, stages) ==
  /\ \A k \in Connections :
       /\ Queued(<<"read", k>>)' \/ Queued(<<"part", k>>)' => stages[k] = "read"
       /\ ~(Queued(<<"read", k>>)' /\ Queued(<<"part", k>>)')
       /\ Queued(Erase(k))' => stages[k] = "failed"
       /\ k \in g.mSockets =>
            stages[k] = "named" /\ (groupHasSubscriptions(g) => mClaimedGroups'[clientOf(k)] = s)
       /\ \A t \in Sessions :
            t # s /\ k \in group[t].mSockets =>
              stages[k] = "named" /\ k \notin g.mSockets /\ mClaimedGroups'[clientOf(k)] = t
       /\ \A x \in Clients :
            k \in mSockets'[x] => stages[k] = "named" /\ k \notin g.mSockets /\ clientOf(k) = x
       /\ \A c \in Channels : given'[c] = k => stages[k] = "given"
  /\ \A x \in Clients : x \notin mUnclaimedSockets' => mSockets'[x] = {}
  /\ \A c, d \in Channels : given'[c] # None /\ given'[c] = given'[d] => c = d

LEMMA SocketFrame ==
  ASSUME Inv, UNCHANGED setting, NEW s \in Sessions, NEW g \in Groups,
         NEW stages \in [Connections -> Stages], Tidy([group EXCEPT ![s] = g], s, stages),
         SocketsFit(s, g, stages)
  PROVE  SocketInv'
  <1>1. /\ group' = [group EXCEPT ![s] = Kept(g)]
        /\ \A k \in Connections :
              stage'[k] # stages[k] =>
                stages[k] = "backlog" \/ (~groupHasSubscriptions(g) /\ k \in g.mSockets)
    BY TidyEffect
  <1>2. /\ group'[s] = Kept(g) /\ \A t \in Sessions : t # s => group'[t] = group[t]
    BY <1>1 DEF Inv, TypeOK
  <1>3. \A k \in Connections :
          k \in group'[s].mSockets => k \in g.mSockets /\ groupHasSubscriptions(g)
    BY <1>2 DEF Kept, NoGroup
  <1>4. ASSUME NEW k \in Connections
        PROVE  /\ Queued(<<"read", k>>)' \/ Queued(<<"part", k>>)' => stage'[k] = "read"
               /\ ~(Queued(<<"read", k>>)' /\ Queued(<<"part", k>>)')
               /\ Queued(Erase(k))' => stage'[k] = "failed"
               /\ \A t \in Sessions :
                    k \in group'[t].mSockets =>
                      stage'[k] = "named" /\ mClaimedGroups'[clientOf(k)] = t
               /\ \A x \in Clients : k \in mSockets'[x] => stage'[k] = "named" /\ clientOf(k) = x
               /\ \A c \in Channels : given'[c] = k => stage'[k] = "given"
    <2>1. CASE stage'[k] = stages[k]
      <3>1. ASSUME NEW t \in Sessions, k \in group'[t].mSockets
            PROVE  stage'[k] = "named" /\ mClaimedGroups'[clientOf(k)] = t
        BY <1>2, <1>3, <2>1, <3>1 DEF SocketsFit
      <3> QED BY <2>1, <3>1 DEF SocketsFit
    <2>2. CASE stage'[k] # stages[k]
      <3>1. stages[k] = "backlog" \/ (~groupHasSubscriptions(g) /\ k \in g.mSockets)
        BY <1>1, <2>2
      <3>2. stages[k] \notin {"read", "failed", "given"}
        BY <3>1 DEF SocketsFit
      <3>3. \A x \in Clients : k \notin mSockets'[x]
        BY <3>1 DEF SocketsFit
      <3>4. ASSUME NEW t \in Sessions, k \in group'[t].mSockets PROVE FALSE
        BY <1>2, <1>3, <3>1, <3>4 DEF SocketsFit
      <3> QED BY <3>2, <3>3, <3>4 DEF SocketsFit
    <2> QED BY <2>1, <2>2
  <1> QED
    BY <1>4 DEF SocketInv, SocketsFit, clientOf, Erase

LEMMA MappedPairs ==
  ASSUME Inv, UNCHANGED setting, NEW s \in Sessions, NEW g \in Groups,
         NEW stages \in [Connections -> Stages], TidyMapped([group EXCEPT ![s] = g], s, stages),
         group[s].exists, g.exists, g.mBase => group[s].mBase,
         s \in mUnclaimedGroups => g.mSockets = {},
         UNCHANGED <<mSessionID, mUnclaimedSockets>>,
         ~groupHasSubscriptions(g) => session'[s] = "stopped",
         \A t \in Sessions : t # s => session'[t] = session[t],
         \A c \in Channels :
           given'[c] # given[c] =>
             sessionOf[c] = s /\ mClaimedGroups[clientOf(given'[c])] = s /\ given'[c] \in Connections,
         given' \in [Channels -> Connections \cup {None}]
  PROVE  PairInv'
  <1>1. /\ mClaimedGroups' \in [Clients -> Sessions \cup {None}]
        /\ \A x \in Clients :
              mClaimedGroups'[x] # mClaimedGroups[x] =>
                mClaimedGroups[x] = s /\ mClaimedGroups'[x] = None /\ ~groupHasSubscriptions(g)
    BY MappedAgree
  <1>2. group' = [group EXCEPT ![s] = Kept(g)]
    BY TidyEffect DEF TidyMapped
  <1>3. /\ group'[s] = Kept(g) /\ \A t \in Sessions : t # s => group'[t] = group[t]
    BY <1>2 DEF Inv, TypeOK
  <1>4. ~groupHasSubscriptions(g) => ~group'[s].exists
    BY <1>3 DEF Kept, NoGroup
  <1>5. /\ \A k \in Connections : clientOf(k) \in Clients
        /\ \A c \in Channels : given'[c] \in Connections \cup {None}
    BY AcceptorAssumption DEF Inv, TypeOK, clientOf
  <1>6. ASSUME NEW x \in Clients, mClaimedGroups'[x] # None
        PROVE  sessionName[mClaimedGroups'[x]] = sessionName[x]
    BY <1>1, <1>6 DEF Inv, PairInv
  <1>7. ASSUME NEW c \in Channels, given'[c] # None
        PROVE  \/ mClaimedGroups'[clientOf(given'[c])] = sessionOf[c]
               \/ session'[sessionOf[c]] = "stopped" /\ ~group'[sessionOf[c]].exists
    <2>1. given'[c] \in Connections /\ clientOf(given'[c]) \in Clients
      BY <1>5, <1>7
    <2>2. CASE mClaimedGroups[clientOf(given'[c])] = sessionOf[c]
      BY <1>1, <1>4, <2>1, <2>2
    <2>3. CASE mClaimedGroups[clientOf(given'[c])] # sessionOf[c]
      <3>1. session[sessionOf[c]] = "stopped" /\ ~group[sessionOf[c]].exists
        BY <1>7, <2>3 DEF Inv, PairInv
      <3> QED BY <1>3, <3>1, SessionOfType
    <2> QED BY <2>2, <2>3
  <1> QED
    BY <1>6, <1>7 DEF PairInv, clientOf

LEMMA FoundFrame ==
  ASSUME Inv, NEW s \in Sessions, NEW g \in Groups, group' = [group EXCEPT ![s] = Kept(g)],
         g.exists, \A f : Queued(f)' => Queued(f),
         \/ g.mBase = group[s].mBase
         \/ \A c \in Channels : sessionOf[c] = s => ~Queued(<<"getSocket", c>>),
         ~groupHasSubscriptions(g) => session'[s] = "stopped",
         \A t \in Sessions : t # s => session'[t] = session[t]
  PROVE  GroupsFound'
  <1>1. /\ group'[s] = Kept(g) /\ \A t \in Sessions : t # s => group'[t] = group[t]
    BY DEF Inv, TypeOK
  <1>2. /\ Kept(g).mBase = g.mBase
        /\ ~groupHasSubscriptions(g) \/ Kept(g).exists
    BY KeptFacts
  <1>3. ASSUME NEW c \in Channels
        PROVE  /\ Queued(<<"getSocket", c>>)' => group'[sessionOf[c]].mBase
               /\ Queued(<<"cancel", c>>)' =>
                    group'[sessionOf[c]].exists \/ session'[sessionOf[c]] = "stopped"
    <2>1. /\ sessionOf[c] \in Sessions
          /\ Queued(<<"getSocket", c>>)' => group[sessionOf[c]].mBase
          /\ Queued(<<"cancel", c>>)' =>
               group[sessionOf[c]].exists \/ session[sessionOf[c]] = "stopped"
      BY SessionOfType DEF Inv, GroupsMapped, GroupsFound
    <2>2. CASE sessionOf[c] = s
      BY <1>1, <1>2, <2>1, <2>2
    <2>3. CASE sessionOf[c] # s
      BY <1>1, <2>1, <2>3
    <2> QED BY <2>2, <2>3
  <1> QED
    BY <1>3 DEF GroupsFound

LEMMA MappedMatches ==
  ASSUME Inv, NEW s \in Sessions, NEW g \in Groups, NEW stages \in [Connections -> Stages],
         TidyMapped([group EXCEPT ![s] = g], s, stages),
         group[s].exists, g.exists, g.mBase => group[s].mBase,
         s \in mUnclaimedGroups => g.mSockets = {} /\ g.mChannels \subseteq group[s].mChannels,
         Matches(g.mChannels, g.mSockets) = {},
         UNCHANGED <<mSessionID, mUnclaimedSockets, mSockets>>
  PROVE  NoMissedMatch'
  <1>1. mUnclaimedGroups' \subseteq mUnclaimedGroups
    BY MappedAgree
  <1>2. group' = [group EXCEPT ![s] = Kept(g)]
    BY TidyEffect DEF TidyMapped
  <1>3. /\ group'[s] = Kept(g) /\ \A t \in Sessions : t # s => group'[t] = group[t]
    BY <1>2 DEF Inv, TypeOK
  <1>4. Kept(g).mChannels = g.mChannels /\ Kept(g).mSockets \subseteq g.mSockets
    BY KeptFacts
  <1>5. ASSUME NEW t \in Sessions
        PROVE  Matches(group'[t].mChannels, group'[t].mSockets) = {}
    <2>1. CASE t = s
      BY <1>3, <1>4, <2>1 DEF Matches
    <2>2. CASE t # s
      BY <1>3, <2>2 DEF Inv, NoMissedMatch
    <2> QED BY <2>1, <2>2
  <1>6. ASSUME NEW t \in mUnclaimedGroups', NEW x \in mUnclaimedSockets,
               sessionName[t] = sessionName[x]
        PROVE  Matches(group'[t].mChannels, mSockets[x]) = {}
    <2>1. t \in mUnclaimedGroups /\ t \in Sessions
      BY <1>1 DEF Inv, TypeOK
    <2>2. Matches(group[t].mChannels, mSockets[x]) = {}
      BY <1>6, <2>1 DEF Inv, NoMissedMatch
    <2>3. group'[t].mChannels \subseteq group[t].mChannels
      BY <1>3, <1>4, <2>1
    <2> QED BY <2>2, <2>3 DEF Matches
  <1> QED
    BY <1>5, <1>6 DEF NoMissedMatch, Matches

LEMMA SameSockets ==
  ASSUME Inv, UNCHANGED setting, NEW s \in Sessions, NEW g \in Groups,
         g.mSockets = group[s].mSockets,
         \A x \in Clients :
           mClaimedGroups'[x] # mClaimedGroups[x] =>
             mClaimedGroups[x] = s /\ ~groupHasSubscriptions(g),
         UNCHANGED <<given, mUnclaimedSockets, mSockets>>,
         \A f : Queued(f)' => Queued(f)
  PROVE  SocketsFit(s, g, stage)
  <1>1. \A k \in Connections : clientOf(k) \in Clients
    BY AcceptorAssumption DEF Inv, TypeOK, clientOf
  <1>2. ASSUME NEW k \in Connections
        PROVE  /\ k \in g.mSockets =>
                    stage[k] = "named"
                    /\ (groupHasSubscriptions(g) => mClaimedGroups'[clientOf(k)] = s)
               /\ \A t \in Sessions :
                    t # s /\ k \in group[t].mSockets =>
                      stage[k] = "named" /\ k \notin g.mSockets
                      /\ mClaimedGroups'[clientOf(k)] = t
               /\ \A x \in Clients :
                    k \in mSockets'[x] =>
                      stage[k] = "named" /\ k \notin g.mSockets /\ clientOf(k) = x
    <2>1. /\ \A t \in Sessions :
               k \in group[t].mSockets => stage[k] = "named" /\ mClaimedGroups[clientOf(k)] = t
          /\ \A x \in Clients : k \in mSockets[x] => stage[k] = "named" /\ clientOf(k) = x
      BY DEF Inv, SocketInv
    <2>2. ASSUME NEW x \in Clients, k \in mSockets[x], k \in g.mSockets PROVE FALSE
      <3>1. mClaimedGroups[x] = s /\ x \in mUnclaimedSockets
        BY <2>1, <2>2 DEF Inv, SocketInv
      <3> QED BY <3>1, AcceptorAssumption DEF Inv, GroupsMapped, MapsAgree
    <2> QED BY <1>1, <2>1, <2>2
  <1>3. \A k \in Connections :
          /\ Queued(<<"read", k>>)' \/ Queued(<<"part", k>>)' => stage[k] = "read"
          /\ ~(Queued(<<"read", k>>)' /\ Queued(<<"part", k>>)')
          /\ Queued(Erase(k))' => stage[k] = "failed"
          /\ \A c \in Channels : given'[c] = k => stage[k] = "given"
    BY DEF Inv, SocketInv
  <1>4. /\ \A x \in Clients : x \notin mUnclaimedSockets' => mSockets'[x] = {}
        /\ \A c, d \in Channels : given'[c] # None /\ given'[c] = given'[d] => c = d
    BY DEF Inv, SocketInv
  <1> QED
    BY <1>2, <1>3, <1>4 DEF SocketsFit

LEMMA SessionEnds ==
  ASSUME SessionInv, NEW s \in Sessions, session[s] = "stopping", session'[s] = "stopped",
         \A t \in Sessions : t # s => session'[t] = session[t] /\ group'[t] = group[t],
         ~group'[s].mBase, ~group'[s].exists => group'[s] = NoGroup,
         UNCHANGED <<channel, mSessionID>>,
         \A f : Queued(f)' => Queued(f), ~Queued(<<"unsubscribe", s>>)'
  PROVE  SessionInv'
  <1>1. ASSUME NEW t \in Sessions
        PROVE /\ Queued(<<"subscribe", t>>)' => session'[t] = "starting"
              /\ Queued(<<"unsubscribe", t>>)' => session'[t] = "stopping"
              /\ session'[t] \in {"new", "starting", "refused"} =>
                   /\ ~group'[t].exists /\ mSessionID'[t] = None
                   /\ \A c \in Channels : sessionOf[c] = t => channel'[c] = "new"
              /\ session'[t] = "running" => group'[t].mBase
              /\ group'[t].mBase => session'[t] \in {"running", "stopping"}
              /\ group'[t].exists /\ ~group'[t].mBase => session'[t] = "stopped"
              /\ ~group'[t].exists => group'[t] = NoGroup
    <2>1. CASE t = s
      <3>1. ~Queued(<<"subscribe", s>>)
        BY DEF SessionInv
      <3> QED BY <2>1, <3>1
    <2>2. CASE t # s
      BY <2>2 DEF SessionInv
    <2> QED BY <2>1, <2>2
  <1> QED
    BY <1>1 DEF SessionInv

LEMMA UnsubscribeStep ==
  ASSUME Inv, UNCHANGED setting, NEW s \in Sessions, Unsubscribe(s)
  PROVE  Inv'
  <1> DEFINE h == <<"unsubscribe", s>>
             g == [group[s] EXCEPT !.mBase = FALSE]
  <1>1. /\ Handle(h) /\ session' = [session EXCEPT ![s] = "stopped"]
        /\ UNCHANGED <<channel, service, given, mSessionID, mUnclaimedSockets, mSockets,
                       closed, mStopped, emptyProm>>
    BY DEF Unsubscribe
  <1>2. /\ strand' \in Seq(Handlers) /\ StrandInv'
        /\ Queued(h) /\ ~Queued(h)'
        /\ \A f : Queued(f)' => Queued(f)
        /\ \A f : f # h /\ Queued(f) => Queued(f)'
        /\ \A c \in Channels : sessionOf[c] = s => ~Queued(<<"getSocket", c>>)
    <2>1. h \notin Repeats
      BY DEF Repeats, Erase
    <2> QED BY <1>1, <2>1, HandleInv
  <1>3. /\ session[s] = "stopping" /\ ~Queued(<<"subscribe", s>>)
        /\ session'[s] = "stopped" /\ \A t \in Sessions : t # s => session'[t] = session[t]
        /\ session' \in [Sessions -> {"new", "starting", "running", "refused", "stopping", "stopped"}]
    BY <1>1, <1>2 DEF Inv, TypeOK, SessionInv
  <1>4. /\ group \in [Sessions -> Groups] /\ g \in Groups
        /\ g.exists = group[s].exists /\ g.mBase = FALSE
        /\ g.mChannels = group[s].mChannels /\ g.mSockets = group[s].mSockets
        /\ stage \in [Connections -> Stages] /\ s \in Sessions
        /\ [group EXCEPT ![s].mBase = FALSE] = [group EXCEPT ![s] = g]
    BY DEF Inv, TypeOK, Groups
  <1>5. CASE ~group[s].exists
    <2>1. UNCHANGED <<group, mUnclaimedGroups, mClaimedGroups, stage, accepts, aborted,
                      mListening, stoppedProm>> /\ terminated' = "group"
      BY <1>5 DEF Unsubscribe
    <2>2. TypeOK'
      BY <1>1, <1>2, <1>3, <2>1 DEF Inv, TypeOK
    <2>3. SessionInv'
      <3>1. group[s] = NoGroup
        BY <1>5 DEF Inv, SessionInv
      <3>2. ~group[s].mBase
        BY <3>1 DEF NoGroup
      <3> QED BY <1>1, <1>2, <1>3, <1>5, <2>1, <3>1, <3>2, SessionEnds DEF Inv
    <2>4. ChannelInv'
      BY <1>1, <1>2, <2>1 DEF Inv, ChannelInv, Waits
    <2>5. SocketInv'
      BY <1>1, <1>2, <2>1 DEF Inv, SocketInv, clientOf, Erase
    <2>6. PairInv'
      BY <1>1, <1>3, <2>1, SessionOfType DEF Inv, PairInv, clientOf
    <2>7. GroupsMapped'
      <3>1. MapsAgree'
        BY <1>1, <2>1 DEF Inv, GroupsMapped, MapsAgree, groupHasSubscriptions
      <3>2. GroupsFound'
        BY <1>1, <1>2, <1>3, <2>1, SessionOfType DEF Inv, GroupsMapped, GroupsFound
      <3> QED BY <3>1, <3>2 DEF GroupsMapped
    <2>8. NoMissedMatch'
      BY <1>1, <2>1 DEF Inv, NoMissedMatch, Matches
    <2>9. Listens'
      BY <1>1, <1>2, <2>1 DEF Inv, Listens, hasSubscriptions, groupHasSubscriptions
    <2> QED BY <1>2, <2>2, <2>3, <2>4, <2>5, <2>6, <2>7, <2>8, <2>9 DEF Inv
  <1>6. CASE group[s].exists
    <2>1. TidyMapped([group EXCEPT ![s] = g], s, stage) /\ UNCHANGED terminated
      BY <1>4, <1>6 DEF Unsubscribe
    <2>2. Tidy([group EXCEPT ![s] = g], s, stage)
      BY <2>1 DEF TidyMapped
    <2>3. s \in mUnclaimedGroups => g.mSockets = {}
      BY <1>4 DEF Inv, GroupsMapped, MapsAgree
    <2>4. /\ MapsAgree'
          /\ mUnclaimedGroups' \subseteq mUnclaimedGroups
          /\ groupHasSubscriptions(g) => UNCHANGED <<mUnclaimedGroups, mClaimedGroups>>
          /\ mClaimedGroups' \in [Clients -> Sessions \cup {None}]
          /\ \A x \in Clients :
               mClaimedGroups'[x] # mClaimedGroups[x] =>
                 mClaimedGroups[x] = s /\ mClaimedGroups'[x] = None /\ ~groupHasSubscriptions(g)
      BY <1>1, <1>4, <1>6, <2>1, <2>3, MappedAgree
    <2>5. /\ group' = [group EXCEPT ![s] = Kept(g)]
          /\ group' \in [Sessions -> Groups]
          /\ stage' \in [Connections -> Stages]
          /\ accepts' \in Nat /\ aborted' \in Nat /\ stoppedProm' \in Nat
          /\ mListening' \in BOOLEAN
      BY <1>4, <2>2, TidyEffect
    <2>6. TypeOK'
      BY <1>1, <1>2, <1>3, <2>1, <2>4, <2>5 DEF Inv, TypeOK, Groups
    <2>7. SessionInv'
      <3>1. /\ group'[s] = Kept(g) /\ \A t \in Sessions : t # s => group'[t] = group[t]
        BY <1>4, <2>5
      <3>2. ~Kept(g).mBase /\ (~Kept(g).exists => Kept(g) = NoGroup)
        BY <1>4, <1>6, KeptFacts
      <3> QED BY <1>1, <1>2, <1>3, <3>1, <3>2, SessionEnds DEF Inv
    <2>8. ChannelInv'
      <3>1. \A c \in Channels : Waits(c)' <=> Waits(c)
        BY <1>1 DEF Waits
      <3>2. \A c \in Channels : Queued(<<"getSocket", c>>)' <=> Queued(<<"getSocket", c>>)
        BY <1>2
      <3>3. ASSUME NEW c \in Channels
            PROVE  /\ c \in g.mChannels =>
                        sessionOf[c] = s /\ Waits(c)' /\ ~Queued(<<"getSocket", c>>)'
                   /\ sessionOf[c] = s /\ Waits(c)' =>
                        Queued(<<"getSocket", c>>)' \/ c \in g.mChannels
                   /\ Queued(<<"getSocket", c>>)' => Waits(c)'
                   /\ channel'[c] = "new" => channel[c] = "new" /\ given'[c] = given[c]
                   /\ Queued(<<"cancel", c>>)' => channel'[c] \notin {"new", "refused", "waiting"}
        BY <1>1, <1>2, <1>4, <3>1, <3>2 DEF Inv, ChannelInv
      <3>4. ChannelsFit(s, g)
        BY <3>1, <3>2, <3>3 DEF ChannelsFit
      <3> QED BY <1>4, <2>5, <3>4, ChannelFrame
    <2>9. SocketInv'
      <3>1. SocketsFit(s, g, stage)
        BY <1>1, <1>2, <1>4, <2>4, SameSockets
      <3> QED BY <1>4, <2>2, <3>1, SocketFrame
    <2>10. PairInv'
      BY <1>1, <1>3, <1>4, <1>6, <2>1, <2>3, MappedPairs DEF Inv, TypeOK
    <2>11. GroupsFound'
      BY <1>2, <1>3, <1>4, <1>6, <2>5, FoundFrame
    <2>12. NoMissedMatch'
      BY <1>1, <1>4, <1>6, <2>1, <2>3, MappedMatches DEF Inv, NoMissedMatch
    <2>13. Listens'
      <3>1. \A k \in Connections : stage[k] = "accepted" => k \notin g.mSockets
        BY <1>4 DEF Inv, SocketInv
      <3> QED BY <1>1, <1>2, <1>4, <1>6, <2>2, <3>1, TidyListens
    <2> QED
      BY <1>2, <2>4, <2>6, <2>7, <2>8, <2>9, <2>10, <2>11, <2>12, <2>13 DEF Inv, GroupsMapped
  <1> QED
    BY <1>5, <1>6
(* The channels of M get its sockets.                                      *)
LEMMA GiveEffect ==
  ASSUME given \in [Channels -> Connections \cup {None}],
         NEW M \in SUBSET (Channels \X Connections), Give(M),
         \A c, k, l : <<c, k>> \in M /\ <<c, l>> \in M => k = l
  PROVE  /\ given' \in [Channels -> Connections \cup {None}]
         /\ \A c, k : <<c, k>> \in M => c \in Channels /\ k \in Connections /\ given'[c] = k
         /\ \A c \in Channels : (\A k : <<c, k>> \notin M) => given'[c] = given[c]
         /\ \A c \in Channels : given'[c] # given[c] => <<c, given'[c]>> \in M
  <1>1. ASSUME NEW c \in Channels
        PROVE  IF \E k \in Connections : <<c, k>> \in M
               THEN given'[c] \in Connections /\ <<c, given'[c]>> \in M
               ELSE given'[c] = given[c]
    BY DEF Give
  <1>2. \A c, k : <<c, k>> \in M => c \in Channels /\ k \in Connections
    OBVIOUS
  <1>3. given' \in [Channels -> Connections \cup {None}]
    <2>1. given' = [c \in Channels |-> given'[c]]
      BY DEF Give
    <2>2. \A c \in Channels : given'[c] \in Connections \cup {None}
      BY <1>1
    <2> QED BY <2>1, <2>2
  <1>4. \A c, k : <<c, k>> \in M => given'[c] = k
    BY <1>1, <1>2
  <1> QED
    BY <1>1, <1>2, <1>3, <1>4

LEMMA MatchFacts ==
  ASSUME NEW A, NEW B
  PROVE  /\ \A c, k : <<c, k>> \in Matches(A, B) <=>
              c \in A /\ k \in B /\ channelName[c] = channelName[k]
         /\ A \subseteq Channels /\ B \subseteq Connections =>
              Matches(A, B) \in SUBSET (Channels \X Connections)
  BY DEF Matches

LEMMA WithoutFacts ==
  ASSUME NEW g \in Groups, NEW M \in SUBSET (Channels \X Connections)
  PROVE  /\ Without(g, M) \in Groups
         /\ Without(g, M).exists = g.exists /\ Without(g, M).mBase = g.mBase
         /\ Without(g, M).mChannels = {c \in g.mChannels : \A k : <<c, k>> \notin M}
         /\ Without(g, M).mSockets = {k \in g.mSockets : \A c : <<c, k>> \notin M}
  <1>1. \A c : c \in {m[1] : m \in M} <=> \E k : <<c, k>> \in M
    <2>1. \A m \in M : m = <<m[1], m[2]>>
      OBVIOUS
    <2> QED BY <2>1
  <1>2. \A k : k \in {m[2] : m \in M} <=> \E c : <<c, k>> \in M
    <2>1. \A m \in M : m = <<m[1], m[2]>>
      OBVIOUS
    <2> QED BY <2>1
  <1>3. /\ Without(g, M) \in Groups
        /\ Without(g, M).exists = g.exists /\ Without(g, M).mBase = g.mBase
        /\ Without(g, M).mChannels = g.mChannels \ {m[1] : m \in M}
        /\ Without(g, M).mSockets = g.mSockets \ {m[2] : m \in M}
    BY DEF Without, Groups
  <1> QED
    BY <1>1, <1>2, <1>3

LEMMA CancelPendingStep ==
  ASSUME Inv, UNCHANGED setting, NEW c \in Channels, CancelPending(c)
  PROVE  Inv'
  <1> DEFINE h == <<"cancel", c>>
             s == sessionOf[c]
             g == [group[s] EXCEPT !.mChannels = @ \ {c}]
  <1>1. /\ Handle(h)
        /\ UNCHANGED <<session, service, given, mSessionID, mUnclaimedSockets, mSockets,
                       closed, mStopped, emptyProm>>
    BY DEF CancelPending
  <1>2. /\ strand' \in Seq(Handlers) /\ StrandInv'
        /\ Queued(h) /\ ~Queued(h)'
        /\ \A f : Queued(f)' => Queued(f)
        /\ \A f : f # h /\ Queued(f) => Queued(f)'
    <2>1. h \notin Repeats
      BY DEF Repeats, Erase
    <2> QED BY <1>1, <2>1, HandleInv
  <1>3. s \in Sessions
    BY SessionOfType
  <1>4. /\ group \in [Sessions -> Groups] /\ g \in Groups
        /\ g.exists = group[s].exists /\ g.mBase = group[s].mBase
        /\ g.mChannels = group[s].mChannels \ {c} /\ g.mSockets = group[s].mSockets
        /\ stage \in [Connections -> Stages]
        /\ [group EXCEPT ![s].mChannels = @ \ {c}] = [group EXCEPT ![s] = g]
    <2>1. group \in [Sessions -> Groups] /\ stage \in [Connections -> Stages]
      BY DEF Inv, TypeOK, Groups
    <2> HIDE DEF s
    <2>2. [group EXCEPT ![s].mChannels = @ \ {c}] = [group EXCEPT ![s] = g]
      BY <1>3, <2>1
    <2>3. group[s] \in Groups
      BY <1>3, <2>1
    <2> QED BY <2>1, <2>2, <2>3 DEF Groups
  <1>5. CASE ~group[s].exists
    <2>1. /\ UNCHANGED <<users, pairing, sockets, life>> /\ terminated' = "group"
      BY <1>1, <1>5 DEF CancelPending, users, pairing, sockets, life
    <2>2. SessionInv' /\ ChannelInv' /\ PairInv' /\ GroupsMapped' /\ NoMissedMatch'
      BY <1>2, <2>1, NetworkFrame
    <2>3. TypeOK'
      BY <1>2, <2>1 DEF Inv, TypeOK, users, pairing, sockets, life
    <2>4. SocketInv'
      BY <1>2, <2>1, GiveUpFrame DEF sockets
    <2>5. Listens'
      BY <1>2, <2>1 DEF Inv, Listens, pairing, sockets, life, hasSubscriptions, groupHasSubscriptions
    <2> QED BY <1>2, <2>2, <2>3, <2>4, <2>5 DEF Inv
  <1>6. CASE group[s].exists
    <2>1. /\ TidyMapped([group EXCEPT ![s] = g], s, stage) /\ UNCHANGED terminated
          /\ channel' = IF c \in group[s].mChannels
                        THEN [channel EXCEPT ![c] = "cancelled"] ELSE channel
      BY <1>4, <1>6 DEF CancelPending
    <2>2. Tidy([group EXCEPT ![s] = g], s, stage)
      BY <2>1 DEF TidyMapped
    <2>3. s \in mUnclaimedGroups => g.mSockets = {}
      BY <1>3, <1>4 DEF Inv, GroupsMapped, MapsAgree
    <2>4. /\ MapsAgree'
          /\ mUnclaimedGroups' \subseteq mUnclaimedGroups
          /\ groupHasSubscriptions(g) => UNCHANGED <<mUnclaimedGroups, mClaimedGroups>>
          /\ mClaimedGroups' \in [Clients -> Sessions \cup {None}]
          /\ \A x \in Clients :
               mClaimedGroups'[x] # mClaimedGroups[x] =>
                 mClaimedGroups[x] = s /\ mClaimedGroups'[x] = None /\ ~groupHasSubscriptions(g)
      BY <1>1, <1>3, <1>4, <1>6, <2>1, <2>3, MappedAgree
    <2>5. /\ group' = [group EXCEPT ![s] = Kept(g)]
          /\ group' \in [Sessions -> Groups]
          /\ stage' \in [Connections -> Stages]
          /\ accepts' \in Nat /\ aborted' \in Nat /\ stoppedProm' \in Nat
          /\ mListening' \in BOOLEAN
      BY <1>3, <1>4, <2>2, TidyEffect
    <2>6. /\ channel' \in [Channels -> {"new", "refused", "waiting", "cancelling", "cancelled"}]
          /\ \A d \in Channels : d # c => channel'[d] = channel[d]
          /\ channel'[c] = IF c \in group[s].mChannels THEN "cancelled" ELSE channel[c]
      BY <2>1 DEF Inv, TypeOK
    <2>7. ~groupHasSubscriptions(g) => session'[s] = "stopped"
      BY <1>1, <1>3, <1>4, <1>6 DEF Inv, SessionInv, groupHasSubscriptions
    <2>8. TypeOK'
      BY <1>1, <1>2, <2>1, <2>4, <2>5, <2>6 DEF Inv, TypeOK, Groups
    <2>9. SessionInv'
      <3>1. \A d \in Channels : channel[d] = "new" => channel'[d] = "new"
        BY <1>2, <2>6 DEF Inv, ChannelInv
      <3>2. \A t \in Sessions : mSessionID'[t] = mSessionID[t]
        BY <1>1
      <3> QED BY <1>1, <1>2, <1>3, <1>4, <1>6, <2>5, <3>1, <3>2, SessionFrame
    <2>10. ChannelInv'
      <3>1. \A d \in Channels : d # c => (Waits(d)' <=> Waits(d))
        BY <1>1, <2>6 DEF Waits
      <3>2. /\ c \in group[s].mChannels => ~Waits(c)'
            /\ c \notin group[s].mChannels => (Waits(c)' <=> Waits(c))
        BY <1>1, <2>6 DEF Waits
      <3>3. \A d \in Channels : Queued(<<"getSocket", d>>)' <=> Queued(<<"getSocket", d>>)
        BY <1>2
      <3>4. ASSUME NEW d \in Channels
            PROVE  /\ d \in g.mChannels => sessionOf[d] = s /\ Waits(d)'
                   /\ d \in g.mChannels => ~Queued(<<"getSocket", d>>)'
                   /\ sessionOf[d] = s /\ Waits(d)' =>
                        Queued(<<"getSocket", d>>)' \/ d \in g.mChannels
                   /\ Queued(<<"getSocket", d>>)' => Waits(d)'
                   /\ sessionOf[d] # s => (Waits(d)' <=> Waits(d))
        BY <1>3, <1>4, <3>1, <3>2, <3>3 DEF Inv, ChannelInv
      <3>5. ASSUME NEW d \in Channels
            PROVE  /\ channel'[d] = "new" => channel[d] = "new" /\ given'[d] = given[d]
                   /\ Queued(<<"cancel", d>>)' => channel'[d] \notin {"new", "refused", "waiting"}
        BY <1>1, <1>2, <2>6 DEF Inv, ChannelInv
      <3>6. ChannelsFit(s, g)
        BY <3>3, <3>4, <3>5 DEF ChannelsFit
      <3> QED BY <1>3, <1>4, <2>5, <3>6, ChannelFrame
    <2>11. SocketInv'
      <3>1. SocketsFit(s, g, stage)
        BY <1>1, <1>2, <1>3, <1>4, <2>4, SameSockets
      <3> QED BY <1>3, <1>4, <2>2, <3>1, SocketFrame
    <2>12. PairInv'
      BY <1>1, <1>3, <1>4, <1>6, <2>1, <2>3, <2>7, MappedPairs DEF Inv, TypeOK
    <2>13. GroupsFound'
      BY <1>1, <1>2, <1>3, <1>4, <1>6, <2>5, <2>7, FoundFrame
    <2>14. NoMissedMatch'
      <3>1. Matches(g.mChannels, g.mSockets) = {}
        BY <1>3, <1>4 DEF Inv, NoMissedMatch, Matches
      <3> QED BY <1>1, <1>3, <1>4, <1>6, <2>1, <2>3, <3>1, MappedMatches
    <2>15. Listens'
      <3>1. \A k \in Connections : stage[k] = "accepted" => k \notin g.mSockets
        BY <1>3, <1>4 DEF Inv, SocketInv
      <3> QED BY <1>1, <1>2, <1>3, <1>4, <1>6, <2>2, <3>1, TidyListens
    <2> QED
      BY <1>2, <2>4, <2>8, <2>9, <2>10, <2>11, <2>12, <2>13, <2>14, <2>15 DEF Inv, GroupsMapped
  <1> QED
    BY <1>5, <1>6
(* The sockets of a group are from one client.                             *)
LEMMA GroupClient ==
  ASSUME Inv, NEW s \in Sessions, NEW k \in group[s].mSockets, NEW l \in group[s].mSockets
  PROVE  /\ k \in Connections /\ l \in Connections
         /\ clientOf(k) = clientOf(l)
         /\ channelName[k] = channelName[l] => k = l
  <1>1. k \in Connections /\ l \in Connections
    BY DEF Inv, TypeOK
  <1>2. /\ clientOf(k) \in Clients /\ clientOf(l) \in Clients /\ s # None
        /\ mClaimedGroups[clientOf(k)] = s /\ mClaimedGroups[clientOf(l)] = s
    <2>1. clientOf(k) \in Clients /\ clientOf(l) \in Clients /\ s # None
      BY <1>1, AcceptorAssumption DEF Inv, TypeOK, clientOf
    <2>2. mClaimedGroups[clientOf(k)] = s /\ mClaimedGroups[clientOf(l)] = s
      BY <1>1 DEF Inv, SocketInv
    <2> QED BY <2>1, <2>2
  <1>3. clientOf(k) = clientOf(l)
    BY <1>2 DEF Inv, GroupsMapped, MapsAgree
  <1> QED
    BY <1>1, <1>3, NamesAssumption DEF Inv, TypeOK, clientOf

LEMMA GetSocketPairedStep ==
  ASSUME Inv, UNCHANGED setting, NEW c \in Channels, GetSocketPaired(c)
  PROVE  Inv'
  <1> DEFINE h == <<"getSocket", c>>
             s == sessionOf[c]
             M == Matches({c}, group[s].mSockets)
             g0 == [group[s] EXCEPT !.mChannels = @ \cup {c}]
             g == Without(g0, M)
             stages == [k \in Connections |-> IF <<c, k>> \in M THEN "given" ELSE stage[k]]
  <1>1. /\ Handle(h) /\ mSessionID[s] # None /\ Give(M)
        /\ UNCHANGED <<users, mSessionID, mUnclaimedSockets, mSockets, closed, mStopped,
                       emptyProm, terminated>>
        /\ TidyMapped([group EXCEPT ![s] = g], s, stages)
    BY DEF GetSocketPaired
  <1>2. /\ strand' \in Seq(Handlers) /\ StrandInv'
        /\ Queued(h) /\ ~Queued(h)'
        /\ \A f : Queued(f)' => Queued(f)
        /\ \A f : f # h /\ Queued(f) => Queued(f)'
    <2>1. h \notin Repeats
      BY DEF Repeats, Erase
    <2> QED BY <1>1, <2>1, HandleInv
  <1>3. s \in Sessions
    BY SessionOfType
  <1>4. /\ group \in [Sessions -> Groups] /\ group[s] \in Groups /\ g0 \in Groups
        /\ g0.exists = group[s].exists /\ g0.mBase = group[s].mBase
        /\ g0.mChannels = group[s].mChannels \cup {c} /\ g0.mSockets = group[s].mSockets
        /\ group[s].mSockets \subseteq Connections
    <2>1. group \in [Sessions -> Groups]
      BY DEF Inv, TypeOK, Groups
    <2> HIDE DEF s
    <2>2. group[s] \in Groups
      BY <1>3, <2>1
    <2> QED BY <2>1, <2>2 DEF Groups
  <1>5. /\ M \in SUBSET (Channels \X Connections)
        /\ \A d, k : <<d, k>> \in M <=>
             d = c /\ k \in group[s].mSockets /\ channelName[c] = channelName[k]
    BY <1>4, MatchFacts
  <1>6. /\ g \in Groups /\ g.exists = group[s].exists /\ g.mBase = group[s].mBase
        /\ g.mChannels = {d \in g0.mChannels : \A k : <<d, k>> \notin M}
        /\ g.mSockets = {k \in g0.mSockets : \A d : <<d, k>> \notin M}
    <2> HIDE DEF M, g0
    <2> QED BY <1>4, <1>5, WithoutFacts
  <1>7. Tidy([group EXCEPT ![s] = g], s, stages)
    <2> HIDE DEF g, stages
    <2> QED BY <1>1 DEF TidyMapped
  <1>8. stages \in [Connections -> Stages]
    BY DEF Inv, TypeOK, Stages
  <1>9. ASSUME NEW d, NEW k, NEW l, <<d, k>> \in M, <<d, l>> \in M PROVE k = l
    <2> HIDE DEF M
    <2>1. /\ k \in group[s].mSockets /\ l \in group[s].mSockets
          /\ channelName[k] = channelName[l]
      BY <1>5, <1>9
    <2> QED BY <1>3, <2>1, GroupClient
  <1>10. /\ given' \in [Channels -> Connections \cup {None}]
         /\ \A d, k : <<d, k>> \in M => given'[d] = k
         /\ \A d \in Channels : (\A k : <<d, k>> \notin M) => given'[d] = given[d]
         /\ \A d \in Channels : given'[d] # given[d] => <<d, given'[d]>> \in M
    <2>1. given \in [Channels -> Connections \cup {None}]
      BY DEF Inv, TypeOK
    <2> HIDE DEF M
    <2> QED BY <1>1, <1>5, <1>9, <2>1, GiveEffect
  <1>11. /\ group[s].mBase /\ group[s].exists /\ s \notin mUnclaimedGroups
         /\ groupHasSubscriptions(g)
    <2>1. group[s].mBase
      BY <1>2 DEF Inv, GroupsMapped, GroupsFound
    <2>2. group[s].exists /\ s \notin mUnclaimedGroups
      BY <1>1, <1>3, <2>1 DEF Inv, GroupsMapped, MapsAgree, groupHasSubscriptions
    <2> QED BY <1>6, <2>1, <2>2 DEF groupHasSubscriptions
  <1>12. \A d \in Channels : \A k : <<d, k>> \in M => stages[k] = "given" /\ k \in Connections
    BY <1>4, <1>5
  <1>13. \A k \in Connections : (\A d : <<d, k>> \notin M) => stages[k] = stage[k]
    OBVIOUS
  <1>14. /\ Waits(c) /\ c \notin group[s].mChannels
    BY <1>2 DEF Inv, ChannelInv
  <1>15. UNCHANGED <<session, channel, service>>
    BY <1>1 DEF users
  <1> HIDE DEF M, g0, g, stages
  <1>16. /\ MapsAgree'
         /\ UNCHANGED <<mUnclaimedGroups, mClaimedGroups>>
    BY <1>1, <1>3, <1>6, <1>7, <1>8, <1>11, MappedAgree
  <1>17. /\ group' = [group EXCEPT ![s] = Kept(g)]
         /\ group' \in [Sessions -> Groups]
         /\ stage' \in [Connections -> Stages]
         /\ accepts' \in Nat /\ aborted' \in Nat /\ stoppedProm' \in Nat
         /\ mListening' \in BOOLEAN
    BY <1>3, <1>6, <1>7, <1>8, TidyEffect
  <1>18. TypeOK'
    BY <1>1, <1>2, <1>10, <1>15, <1>16, <1>17 DEF Inv, TypeOK, Groups
  <1>19. SessionInv'
    <2>1. \A t \in Sessions : mSessionID'[t] = mSessionID[t]
      BY <1>1
    <2> QED BY <1>2, <1>3, <1>6, <1>11, <1>15, <1>17, <2>1, SessionFrame
  <1>20. ChannelInv'
    <2>1. \A d \in Channels : d # c => given'[d] = given[d] /\ (Waits(d)' <=> Waits(d))
      BY <1>5, <1>10, <1>15 DEF Waits
    <2>2. \A d \in Channels :
            Queued(<<"getSocket", d>>)' <=> d # c /\ Queued(<<"getSocket", d>>)
      BY <1>2
    <2>3. \A d \in Channels :
            /\ d \in group[s].mChannels => sessionOf[d] = s /\ Waits(d) /\ ~Queued(<<"getSocket", d>>)
            /\ sessionOf[d] = s /\ Waits(d) => Queued(<<"getSocket", d>>) \/ d \in group[s].mChannels
            /\ Queued(<<"getSocket", d>>) => Waits(d)
      BY <1>3 DEF Inv, ChannelInv
    <2>4. \A d \in Channels :
            Queued(<<"cancel", d>>)' => channel'[d] \notin {"new", "refused", "waiting"}
      BY <1>2, <1>15 DEF Inv, ChannelInv
    <2>5. CASE \A k : <<c, k>> \notin M
      <3>1. Waits(c)' /\ g.mChannels = group[s].mChannels \cup {c}
        BY <1>4, <1>5, <1>6, <1>10, <1>14, <1>15, <2>5 DEF Waits
      <3>2. \A d \in Channels :
              /\ d \in g.mChannels => sessionOf[d] = s /\ Waits(d)'
              /\ d \in g.mChannels => ~Queued(<<"getSocket", d>>)'
              /\ sessionOf[d] = s /\ Waits(d)' => Queued(<<"getSocket", d>>)' \/ d \in g.mChannels
              /\ Queued(<<"getSocket", d>>)' => Waits(d)'
        BY <1>3, <1>14, <2>1, <2>2, <2>3, <3>1
      <3>3. ChannelsFit(s, g)
        BY <1>10, <1>15, <2>1, <2>5, <2>2, <2>4, <3>2 DEF ChannelsFit
      <3> QED BY <1>3, <1>6, <1>17, <3>3, ChannelFrame
    <2>6. CASE \E k : <<c, k>> \in M
      <3>1. g.mChannels = group[s].mChannels
        BY <1>4, <1>5, <1>6, <1>14, <2>6
      <3>2. ~Waits(c)' /\ channel'[c] # "new"
        BY <1>10, <1>12, <1>14, <1>15, <2>6, AcceptorAssumption DEF Waits
      <3>3. ChannelsFit(s, g)
        <4>1. \A d \in Channels :
                /\ d \in g.mChannels => sessionOf[d] = s /\ Waits(d)'
                /\ d \in g.mChannels => ~Queued(<<"getSocket", d>>)'
                /\ sessionOf[d] = s /\ Waits(d)' => Queued(<<"getSocket", d>>)' \/ d \in g.mChannels
                /\ Queued(<<"getSocket", d>>)' => Waits(d)'
          BY <1>3, <1>14, <2>1, <2>2, <2>3, <3>1, <3>2
        <4> QED BY <1>15, <2>1, <2>2, <2>4, <3>2, <4>1 DEF ChannelsFit
      <3> QED BY <1>3, <1>6, <1>17, <3>3, ChannelFrame
    <2> QED BY <2>5, <2>6
  <1>21. ASSUME NEW d, NEW k, <<d, k>> \in M
         PROVE  /\ k \in Connections /\ k \in group[s].mSockets
                /\ stage[k] = "named" /\ mClaimedGroups[clientOf(k)] = s
    <2>1. k \in Connections /\ k \in group[s].mSockets
      BY <1>4, <1>5, <1>21
    <2>2. \A t \in Sessions :
            k \in group[t].mSockets => stage[k] = "named" /\ mClaimedGroups[clientOf(k)] = t
      BY <2>1 DEF Inv, SocketInv
    <2> QED BY <1>3, <2>1, <2>2
  <1>22. SocketInv'
    <2>1. ASSUME NEW k \in Connections
          PROVE  /\ Queued(<<"read", k>>)' \/ Queued(<<"part", k>>)' => stages[k] = "read"
                 /\ ~(Queued(<<"read", k>>)' /\ Queued(<<"part", k>>)')
                 /\ Queued(Erase(k))' => stages[k] = "failed"
      <3>1. stage[k] = "named" => ~Queued(<<"read", k>>) /\ ~Queued(<<"part", k>>) /\ ~Queued(Erase(k))
        BY DEF Inv, SocketInv
      <3> QED BY <1>2, <1>13, <1>21, <3>1 DEF Inv, SocketInv
    <2>2. ASSUME NEW k \in Connections
          PROVE  /\ k \in g.mSockets => stages[k] = "named" /\ mClaimedGroups'[clientOf(k)] = s
                 /\ \A t \in Sessions :
                      t # s /\ k \in group[t].mSockets =>
                        stages[k] = "named" /\ k \notin g.mSockets /\ mClaimedGroups'[clientOf(k)] = t
      <3>1. \A t \in Sessions :
              k \in group[t].mSockets => stage[k] = "named" /\ mClaimedGroups[clientOf(k)] = t
        BY DEF Inv, SocketInv
      <3>2. k \in g.mSockets => k \in group[s].mSockets /\ stages[k] = stage[k]
        BY <1>4, <1>6, <1>13
      <3>3. \A t \in Sessions : t # s /\ k \in group[t].mSockets => k \notin group[s].mSockets
        BY <1>3, <3>1
      <3>4. k \notin group[s].mSockets => stages[k] = stage[k]
        BY <1>13, <1>21
      <3> QED BY <1>3, <1>16, <3>1, <3>2, <3>3, <3>4
    <2>3. ASSUME NEW k \in Connections, NEW x \in Clients, k \in mSockets'[x]
          PROVE  stages[k] = "named" /\ k \notin g.mSockets /\ clientOf(k) = x
      <3>1. k \in mSockets[x] /\ stage[k] = "named" /\ clientOf(k) = x /\ x \in mUnclaimedSockets
        BY <1>1, <2>3 DEF Inv, SocketInv
      <3>2. mClaimedGroups[x] = None
        BY <3>1 DEF Inv, GroupsMapped, MapsAgree
      <3>3. \A t \in Sessions : k \notin group[t].mSockets
        BY <3>1, <3>2, AcceptorAssumption DEF Inv, SocketInv
      <3> QED BY <1>3, <1>4, <1>5, <1>6, <1>13, <3>1, <3>3
    <2>4. ASSUME NEW k \in Connections, NEW d \in Channels, given'[d] = k
          PROVE  stages[k] = "given"
      <3>1. CASE <<d, k>> \in M
        BY <1>12, <3>1
      <3>2. CASE <<d, k>> \notin M
        <4>1. given[d] = k /\ stage[k] = "given"
          BY <1>10, <2>4, <3>2 DEF Inv, SocketInv
        <4> QED BY <1>13, <1>21, <4>1
      <3> QED BY <3>1, <3>2
    <2>5. ASSUME NEW d \in Channels, NEW e \in Channels, given'[d] # None, given'[d] = given'[e]
          PROVE  d = e
      <3>1. CASE given'[d] # given[d]
        <4>1. <<d, given'[d]>> \in M /\ stage[given'[d]] = "named"
          BY <1>10, <1>21, <3>1
        <4>2. given[e] # given'[e]
          BY <1>21, <2>5, <4>1 DEF Inv, SocketInv
        <4> QED BY <1>5, <1>10, <4>1, <4>2
      <3>2. CASE given'[e] # given[e]
        <4>1. <<e, given'[e]>> \in M /\ stage[given'[e]] = "named"
          BY <1>10, <1>21, <3>2
        <4>2. given[d] # given'[d]
          BY <1>21, <2>5, <4>1 DEF Inv, SocketInv
        <4> QED BY <1>5, <1>10, <4>1, <4>2
      <3>3. CASE given'[d] = given[d] /\ given'[e] = given[e]
        BY <2>5, <3>3 DEF Inv, SocketInv
      <3> QED BY <3>1, <3>2, <3>3
    <2>6. \A x \in Clients : x \notin mUnclaimedSockets' => mSockets'[x] = {}
      BY <1>1 DEF Inv, SocketInv
    <2>7. SocketsFit(s, g, stages)
      BY <2>1, <2>2, <2>3, <2>4, <2>5, <2>6 DEF SocketsFit
    <2> QED BY <1>3, <1>6, <1>7, <1>8, <2>7, SocketFrame
  <1>23. PairInv'
    <2>1. \A d \in Channels :
            given'[d] # given[d] =>
              sessionOf[d] = s /\ mClaimedGroups[clientOf(given'[d])] = s /\ given'[d] \in Connections
      BY <1>5, <1>10, <1>21
    <2> QED BY <1>1, <1>3, <1>6, <1>7, <1>8, <1>10, <1>11, <1>15, <2>1, MappedPairs
  <1>24. GroupsFound'
    BY <1>2, <1>3, <1>6, <1>11, <1>15, <1>17, FoundFrame
  <1>25. NoMissedMatch'
    <2>1. Matches(group[s].mChannels, group[s].mSockets) = {}
      BY <1>3 DEF Inv, NoMissedMatch
    <2>2. ASSUME NEW d \in g.mChannels, NEW k \in g.mSockets, channelName[d] = channelName[k]
          PROVE  FALSE
      <3>1. k \in group[s].mSockets /\ d \in group[s].mChannels \cup {c} /\ <<d, k>> \notin M
        BY <1>4, <1>6
      <3>2. d = c
        BY <2>1, <2>2, <3>1, MatchFacts
      <3> QED BY <1>5, <2>2, <3>1, <3>2
    <2>3. Matches(g.mChannels, g.mSockets) = {}
      BY <2>2 DEF Matches
    <2> QED BY <1>1, <1>3, <1>6, <1>7, <1>8, <1>11, <2>3, MappedMatches
  <1>26. Listens'
    <2>1. \A k \in Connections : stage[k] = "accepted" => stages[k] = "accepted" /\ k \notin g.mSockets
      <3>1. \A k \in Connections : k \in group[s].mSockets => stage[k] = "named"
        BY <1>3 DEF Inv, SocketInv
      <3> QED BY <1>4, <1>6, <1>13, <1>21, <3>1
    <2>2. UNCHANGED mStopped /\ (Queued(<<"start", None>>) => Queued(<<"start", None>>)')
      BY <1>1, <1>2
    <2> QED BY <1>3, <1>6, <1>7, <1>8, <1>11, <2>1, <2>2, TidyListens
  <1> QED
    BY <1>2, <1>16, <1>18, <1>19, <1>20, <1>22, <1>23, <1>24, <1>25, <1>26 DEF Inv, GroupsMapped
(* A session is paired with a client and takes the sockets K.              *)
ClaimFits(s, x, g, K) ==
  /\ mClaimedGroups[x] = None /\ sessionName[s] = sessionName[x]
  /\ g.exists /\ g.mBase = group[s].mBase /\ g.mSockets = {}
  /\ \A c \in Channels :
       /\ c \in g.mChannels => sessionOf[c] = s /\ Waits(c) /\ ~Queued(<<"getSocket", c>>)'
       /\ sessionOf[c] = s /\ Waits(c) => Queued(<<"getSocket", c>>)' \/ c \in g.mChannels
       /\ sessionOf[c] # s => (Queued(<<"getSocket", c>>)' <=> Queued(<<"getSocket", c>>))
  /\ \A k \in K :
       /\ clientOf(k) = x /\ stage[k] \in {"named", "read"}
       /\ ~Queued(<<"read", k>>)' /\ ~Queued(<<"part", k>>)' /\ ~Queued(Erase(k))'

LEMMA ClaimStep ==
  ASSUME Inv, UNCHANGED <<setting, users, closed, mStopped, terminated>>,
         NEW s \in mUnclaimedGroups, NEW x \in Clients, NEW g \in Groups,
         NEW K \in SUBSET Connections, Claim(s, x, g, K), ClaimFits(s, x, g, K),
         strand' \in Seq(Handlers), StrandInv', \A f : Queued(f)' => Queued(f),
         Queued(<<"start", None>>) => Queued(<<"start", None>>)',
         emptyProm' \in Nat
  PROVE  Inv'
  <1> DEFINE M == Matches(g.mChannels, K)
             merged == Merged(g, K)
             stages == [k \in Connections |->
                          IF \E c \in Channels : <<c, k>> \in Matches(g.mChannels, K) THEN "given"
                          ELSE IF k \in K THEN "named" ELSE stage[k]]
  <1>1. /\ Give(M)
        /\ mSessionID' = IF g.mBase THEN [mSessionID EXCEPT ![s] = x] ELSE mSessionID
        /\ mUnclaimedSockets' = mUnclaimedSockets \ {x} /\ mSockets' = [mSockets EXCEPT ![x] = {}]
        /\ Tidy([group EXCEPT ![s] = merged], s, stages)
    BY DEF Claim, TakeSockets, Merged
  <1>2. s \in Sessions /\ g.mChannels \subseteq Channels
    BY DEF Inv, TypeOK, Groups
  <1>3. /\ M \in SUBSET (Channels \X Connections)
        /\ \A c, k : <<c, k>> \in M <=>
             c \in g.mChannels /\ k \in K /\ channelName[c] = channelName[k]
    BY <1>2, MatchFacts
  <1>4. /\ merged \in Groups /\ merged.exists = g.exists /\ merged.mBase = g.mBase
        /\ merged.mChannels = {c \in g.mChannels : \A k : <<c, k>> \notin M}
        /\ merged.mSockets = {k \in K : \A c : <<c, k>> \notin M}
        /\ Matches(merged.mChannels, merged.mSockets) = {}
    <2>1. g.mSockets = {}
      BY DEF ClaimFits
    <2> DEFINE g1 == [g EXCEPT !.mSockets = @ \cup K]
    <2>2. g1 \in Groups
      BY DEF Groups
    <2>3. /\ g1.mChannels = g.mChannels /\ g1.mSockets = K
          /\ g1.exists = g.exists /\ g1.mBase = g.mBase
      BY <2>1 DEF Groups
    <2>4. merged = Without(g1, M)
      BY DEF Merged
    <2>5. Matches(merged.mChannels, merged.mSockets) = {}
      BY <2>1, MergedFacts
    <2> HIDE DEF M, merged, g1
    <2> QED BY <1>3, <2>2, <2>3, <2>4, <2>5, WithoutFacts
  <1>5. stages \in [Connections -> Stages]
    BY DEF Inv, TypeOK, Stages
  <1>6. /\ \A c \in Channels, k \in Connections : <<c, k>> \in M => stages[k] = "given"
        /\ \A k \in Connections :
             (\A c : <<c, k>> \notin M) => stages[k] = IF k \in K THEN "named" ELSE stage[k]
    OBVIOUS
  <1> HIDE DEF M, merged, stages
  <1>7. ASSUME NEW c, NEW k, NEW l, <<c, k>> \in M, <<c, l>> \in M PROVE k = l
    <2>1. k \in K /\ l \in K /\ channelName[k] = channelName[l]
      BY <1>3, <1>7
    <2>2. clientOf(k) = x /\ clientOf(l) = x
      BY <2>1 DEF ClaimFits
    <2> QED BY <2>1, <2>2, NamesAssumption DEF Inv, TypeOK, clientOf
  <1>8. ASSUME NEW c, NEW d, NEW k, <<c, k>> \in M, <<d, k>> \in M PROVE c = d
    <2>1. /\ c \in g.mChannels /\ d \in g.mChannels /\ channelName[c] = channelName[d]
          /\ c \in Channels /\ d \in Channels
      BY <1>2, <1>3, <1>8
    <2>2. sessionOf[c] = s /\ sessionOf[d] = s
      BY <2>1 DEF ClaimFits
    <2> QED BY <2>1, <2>2, NamesAssumption
  <1>9. /\ given' \in [Channels -> Connections \cup {None}]
        /\ \A c, k : <<c, k>> \in M => c \in Channels /\ k \in Connections /\ given'[c] = k
        /\ \A c \in Channels : (\A k : <<c, k>> \notin M) => given'[c] = given[c]
        /\ \A c \in Channels : given'[c] # given[c] => <<c, given'[c]>> \in M
    <2>1. given \in [Channels -> Connections \cup {None}]
      BY DEF Inv, TypeOK
    <2> QED BY <1>1, <1>3, <1>7, <2>1, GiveEffect
  <1>10. /\ MapsAgree'
         /\ mUnclaimedGroups' = mUnclaimedGroups \ {s}
         /\ mClaimedGroups' = IF groupHasSubscriptions(merged)
                              THEN [mClaimedGroups EXCEPT ![x] = s] ELSE mClaimedGroups
         /\ \A y \in Clients : mClaimedGroups[y] # s
    BY ClaimedAgree DEF ClaimFits, merged
  <1>11. /\ group' = [group EXCEPT ![s] = Kept(merged)]
         /\ group' \in [Sessions -> Groups]
         /\ stage' \in [Connections -> Stages]
         /\ accepts' \in Nat /\ aborted' \in Nat /\ stoppedProm' \in Nat
         /\ mListening' \in BOOLEAN
    BY <1>1, <1>2, <1>4, <1>5, TidyEffect
  <1>12. UNCHANGED <<session, channel, service, closed, mStopped, terminated, setting>>
    BY DEF users
  <1>13. TypeOK'
    <2>1. /\ mSessionID' \in [Sessions -> Clients \cup {None}]
          /\ mUnclaimedGroups' \subseteq Sessions
          /\ mClaimedGroups' \in [Clients -> Sessions \cup {None}]
          /\ mUnclaimedSockets' \subseteq Clients
          /\ mSockets' \in [Clients -> SUBSET Connections]
      BY <1>1, <1>2, <1>10 DEF Inv, TypeOK
    <2> QED BY <1>9, <1>11, <1>12, <2>1 DEF Inv, TypeOK, Groups
  <1>14. group[s].exists
    BY <1>2 DEF Inv, GroupsMapped, MapsAgree
  <1>15. merged.exists /\ merged.mBase = group[s].mBase
    BY <1>4 DEF ClaimFits
  <1>16. SessionInv'
    <2>1. \A t \in Sessions : t # s => mSessionID'[t] = mSessionID[t]
      BY <1>1 DEF Inv, TypeOK
    <2> QED BY <1>2, <1>4, <1>11, <1>12, <1>14, <1>15, <2>1, SessionFrame
  <1>17. ChannelInv'
    <2>1. ASSUME NEW c \in Channels
          PROVE  Waits(c)' <=> Waits(c) /\ \A k : <<c, k>> \notin M
      <3>1. CASE \A k : <<c, k>> \notin M
        BY <1>9, <1>12, <3>1 DEF Waits
      <3>2. CASE \E k : <<c, k>> \in M
        BY <1>9, <3>2, AcceptorAssumption DEF Waits
      <3> QED BY <3>1, <3>2
    <2>2. \A c \in Channels : (\E k : <<c, k>> \in M) => c \in g.mChannels
      BY <1>3
    <2>3. \A c \in Channels :
            /\ c \in g.mChannels => sessionOf[c] = s /\ Waits(c) /\ ~Queued(<<"getSocket", c>>)'
            /\ sessionOf[c] = s /\ Waits(c) => Queued(<<"getSocket", c>>)' \/ c \in g.mChannels
            /\ sessionOf[c] # s => (Queued(<<"getSocket", c>>)' <=> Queued(<<"getSocket", c>>))
      BY DEF ClaimFits
    <2>4. \A c \in Channels : c \in merged.mChannels <=> c \in g.mChannels /\ \A k : <<c, k>> \notin M
      BY <1>4
    <2>5. \A c \in Channels : Queued(<<"getSocket", c>>)' => Waits(c)
      BY DEF Inv, ChannelInv
    <2>6. \A c \in Channels :
            /\ c \in merged.mChannels =>
                 sessionOf[c] = s /\ Waits(c)' /\ ~Queued(<<"getSocket", c>>)'
            /\ sessionOf[c] = s /\ Waits(c)' =>
                 Queued(<<"getSocket", c>>)' \/ c \in merged.mChannels
            /\ Queued(<<"getSocket", c>>)' => Waits(c)'
            /\ sessionOf[c] # s => (Waits(c)' <=> Waits(c))
      BY <2>1, <2>2, <2>3, <2>4, <2>5
    <2>7. \A c \in Channels :
            /\ channel'[c] = "new" => channel[c] = "new" /\ given'[c] = given[c]
            /\ Queued(<<"cancel", c>>)' => channel'[c] \notin {"new", "refused", "waiting"}
      <3>1. \A c \in Channels : Waits(c) => channel[c] # "new"
        BY DEF Waits
      <3>2. \A c \in Channels :
              Queued(<<"cancel", c>>)' => channel[c] \notin {"new", "refused", "waiting"}
        BY DEF Inv, ChannelInv
      <3> QED BY <1>9, <1>12, <2>2, <2>3, <3>1, <3>2
    <2>8. ChannelsFit(s, merged)
      BY <2>3, <2>6, <2>7 DEF ChannelsFit
    <2> QED BY <1>2, <1>4, <1>11, <2>8, ChannelFrame
  <1>18. ASSUME NEW k \in K
         PROVE  /\ clientOf(k) = x /\ stage[k] \in {"named", "read"} /\ k \in Connections
                /\ ~Queued(<<"read", k>>)' /\ ~Queued(<<"part", k>>)' /\ ~Queued(Erase(k))'
                /\ \A t \in Sessions : k \notin group[t].mSockets
                /\ \A c \in Channels : given[c] # k
    <2>1. /\ clientOf(k) = x /\ stage[k] \in {"named", "read"} /\ k \in Connections
          /\ ~Queued(<<"read", k>>)' /\ ~Queued(<<"part", k>>)' /\ ~Queued(Erase(k))'
          /\ mClaimedGroups[x] = None
      BY DEF ClaimFits
    <2>2. \A t \in Sessions : k \notin group[t].mSockets
      BY <2>1, AcceptorAssumption DEF Inv, SocketInv
    <2>3. \A c \in Channels : given[c] # k
      BY <2>1 DEF Inv, SocketInv
    <2> QED BY <2>1, <2>2, <2>3
  <1>19. \A k \in Connections : k \notin K => stages[k] = stage[k]
    BY <1>3, <1>6
  <1>20. SocketInv'
    <2>1. ASSUME NEW k \in Connections
          PROVE  /\ Queued(<<"read", k>>)' \/ Queued(<<"part", k>>)' => stages[k] = "read"
                 /\ ~(Queued(<<"read", k>>)' /\ Queued(<<"part", k>>)')
                 /\ Queued(Erase(k))' => stages[k] = "failed"
      <3>1. CASE k \in K
        BY <1>18, <3>1
      <3>2. CASE k \notin K
        BY <1>19, <3>2 DEF Inv, SocketInv
      <3> QED BY <3>1, <3>2
    <2>2. ASSUME NEW k \in Connections
          PROVE  /\ k \in merged.mSockets =>
                      stages[k] = "named"
                      /\ (groupHasSubscriptions(merged) => mClaimedGroups'[clientOf(k)] = s)
                 /\ \A t \in Sessions :
                      t # s /\ k \in group[t].mSockets =>
                        stages[k] = "named" /\ k \notin merged.mSockets
                        /\ mClaimedGroups'[clientOf(k)] = t
      <3>1. \A t \in Sessions :
              k \in group[t].mSockets => stage[k] = "named" /\ mClaimedGroups[clientOf(k)] = t
        BY DEF Inv, SocketInv
      <3>2. k \in merged.mSockets => k \in K /\ stages[k] = "named" /\ clientOf(k) = x
        BY <1>4, <1>6, <1>18
      <3>3. \A t \in Sessions : k \in group[t].mSockets => k \notin K
        BY <1>18
      <3>4. groupHasSubscriptions(merged) => mClaimedGroups'[x] = s
        BY <1>10 DEF Inv, TypeOK
      <3>5. mClaimedGroups[x] = None /\ \A y \in Clients : y # x => mClaimedGroups'[y] = mClaimedGroups[y]
        BY <1>10 DEF Inv, TypeOK, ClaimFits
      <3>6. clientOf(k) \in Clients /\ None \notin Sessions
        BY AcceptorAssumption DEF Inv, TypeOK, clientOf
      <3> QED BY <1>19, <3>1, <3>2, <3>3, <3>4, <3>5, <3>6
    <2>3. ASSUME NEW k \in Connections, NEW y \in Clients, k \in mSockets'[y]
          PROVE  stages[k] = "named" /\ k \notin merged.mSockets /\ clientOf(k) = y
      <3>1. y # x /\ k \in mSockets[y]
        BY <1>1, <2>3 DEF Inv, TypeOK
      <3>2. stage[k] = "named" /\ clientOf(k) = y
        BY <3>1 DEF Inv, SocketInv
      <3>3. k \notin K
        BY <1>18, <3>1, <3>2
      <3> QED BY <1>4, <1>19, <3>2, <3>3
    <2>4. ASSUME NEW k \in Connections, NEW d \in Channels, given'[d] = k
          PROVE  stages[k] = "given"
      <3>1. CASE <<d, k>> \in M
        BY <1>6, <3>1
      <3>2. CASE <<d, k>> \notin M
        <4>1. given[d] = k /\ stage[k] = "given"
          BY <1>9, <2>4, <3>2 DEF Inv, SocketInv
        <4> QED BY <1>18, <1>19, <4>1
      <3> QED BY <3>1, <3>2
    <2>5. ASSUME NEW d \in Channels, NEW e \in Channels, given'[d] # None, given'[d] = given'[e]
          PROVE  d = e
      <3>1. CASE given'[d] # given[d]
        <4>1. <<d, given'[d]>> \in M /\ given'[d] \in K
          BY <1>3, <1>9, <3>1
        <4>2. given[e] # given'[e]
          BY <1>18, <2>5, <4>1
        <4>3. <<e, given'[d]>> \in M
          BY <1>9, <2>5, <4>2
        <4> QED BY <1>8, <4>1, <4>3
      <3>2. CASE given'[e] # given[e]
        <4>1. <<e, given'[e]>> \in M /\ given'[e] \in K
          BY <1>3, <1>9, <3>2
        <4>2. given[d] # given'[d]
          BY <1>18, <2>5, <4>1
        <4>3. <<d, given'[e]>> \in M
          BY <1>9, <2>5, <4>2
        <4> QED BY <1>8, <4>1, <4>3
      <3>3. CASE given'[d] = given[d] /\ given'[e] = given[e]
        BY <2>5, <3>3 DEF Inv, SocketInv
      <3> QED BY <3>1, <3>2, <3>3
    <2>6. \A y \in Clients : y \notin mUnclaimedSockets' => mSockets'[y] = {}
      BY <1>1 DEF Inv, TypeOK, SocketInv
    <2>7. SocketsFit(s, merged, stages)
      BY <2>1, <2>2, <2>3, <2>4, <2>5, <2>6 DEF SocketsFit
    <2> QED BY <1>1, <1>2, <1>4, <1>5, <2>7, SocketFrame
  <1>21. ~groupHasSubscriptions(merged) => session'[s] = "stopped" /\ ~group'[s].exists
    <2>1. ~groupHasSubscriptions(merged) => ~group[s].mBase
      BY <1>15 DEF groupHasSubscriptions
    <2>2. ~group[s].mBase => session[s] = "stopped"
      BY <1>2, <1>14 DEF Inv, SessionInv
    <2>3. group'[s] = Kept(merged)
      BY <1>2, <1>11 DEF Inv, TypeOK
    <2> QED BY <1>12, <2>1, <2>2, <2>3 DEF Kept, NoGroup
  <1>22. PairInv'
    <2>1. ASSUME NEW y \in Clients, mClaimedGroups'[y] # None
          PROVE  sessionName[mClaimedGroups'[y]] = sessionName[y]
      <3>1. \/ mClaimedGroups'[y] = mClaimedGroups[y]
            \/ y = x /\ mClaimedGroups'[y] = s
        BY <1>10 DEF Inv, TypeOK
      <3>2. sessionName[s] = sessionName[x]
        BY DEF ClaimFits
      <3> QED BY <2>1, <3>1, <3>2 DEF Inv, PairInv
    <2>2. ASSUME NEW c \in Channels, given'[c] # None
          PROVE  \/ mClaimedGroups'[clientOf(given'[c])] = sessionOf[c]
                 \/ session'[sessionOf[c]] = "stopped" /\ ~group'[sessionOf[c]].exists
      <3>1. CASE given'[c] # given[c]
        <4>1. <<c, given'[c]>> \in M
          BY <1>9, <3>1
        <4>2. c \in g.mChannels /\ given'[c] \in K
          BY <1>3, <4>1
        <4>3. sessionOf[c] = s /\ clientOf(given'[c]) = x
          BY <1>18, <4>2 DEF ClaimFits
        <4>4. groupHasSubscriptions(merged) => mClaimedGroups'[x] = s
          BY <1>10 DEF Inv, TypeOK
        <4> QED BY <1>21, <4>3, <4>4
      <3>2. CASE given'[c] = given[c]
        <4>1. given[c] \in Connections /\ clientOf(given[c]) \in Clients /\ sessionOf[c] \in Sessions
          BY <2>2, <3>2, AcceptorAssumption DEF Inv, TypeOK, clientOf
        <4>2. CASE mClaimedGroups[clientOf(given[c])] = sessionOf[c]
          <5>1. clientOf(given[c]) # x
            BY <4>1, <4>2, AcceptorAssumption DEF ClaimFits
          <5> QED BY <1>10, <3>2, <4>1, <4>2, <5>1 DEF Inv, TypeOK
        <4>3. CASE mClaimedGroups[clientOf(given[c])] # sessionOf[c]
          <5>1. session[sessionOf[c]] = "stopped" /\ ~group[sessionOf[c]].exists
            BY <2>2, <3>2, <4>3 DEF Inv, PairInv
          <5>2. sessionOf[c] # s
            BY <1>14, <5>1
          <5>3. group'[sessionOf[c]] = group[sessionOf[c]]
            BY <1>11, <4>1, <5>2 DEF Inv, TypeOK
          <5> QED BY <1>12, <5>1, <5>3
        <4> QED BY <4>2, <4>3
      <3> QED BY <3>1, <3>2
    <2> QED BY <1>12, <2>1, <2>2 DEF PairInv, clientOf
  <1>23. GroupsFound'
    BY <1>2, <1>4, <1>11, <1>12, <1>15, <1>21, FoundFrame
  <1>24. NoMissedMatch'
    <2>1. group'[s] = Kept(merged) /\ \A t \in Sessions : t # s => group'[t] = group[t]
      BY <1>2, <1>11 DEF Inv, TypeOK
    <2>2. Kept(merged).mChannels = merged.mChannels /\ Kept(merged).mSockets \subseteq merged.mSockets
      BY <1>4, KeptFacts
    <2>3. ASSUME NEW t \in Sessions PROVE Matches(group'[t].mChannels, group'[t].mSockets) = {}
      <3>1. CASE t = s
        BY <1>4, <2>1, <2>2, <3>1 DEF Matches
      <3>2. CASE t # s
        BY <2>1, <3>2 DEF Inv, NoMissedMatch
      <3> QED BY <3>1, <3>2
    <2>4. ASSUME NEW t \in mUnclaimedGroups', NEW y \in mUnclaimedSockets',
                 sessionName[t] = sessionName[y]
          PROVE  Matches(group'[t].mChannels, mSockets'[y]) = {}
      <3>1. /\ t \in mUnclaimedGroups /\ t \in Sessions /\ t # s
            /\ y \in mUnclaimedSockets /\ y # x /\ y \in Clients
        BY <1>1, <1>10 DEF Inv, TypeOK
      <3>2. group'[t] = group[t] /\ mSockets'[y] = mSockets[y]
        BY <1>1, <2>1, <3>1 DEF Inv, TypeOK
      <3> QED BY <2>4, <3>1, <3>2 DEF Inv, NoMissedMatch
    <2> QED BY <2>3, <2>4 DEF NoMissedMatch, Matches
  <1>25. Listens'
    <2>1. \A k \in Connections :
            stage[k] = "accepted" => stages[k] = "accepted" /\ k \notin merged.mSockets
      BY <1>4, <1>18, <1>19
    <2> QED BY <1>1, <1>2, <1>4, <1>5, <1>12, <1>14, <2>1, TidyListens
  <1> QED
    BY <1>10, <1>13, <1>16, <1>17, <1>20, <1>22, <1>23, <1>24, <1>25 DEF Inv, GroupsMapped

LEMMA GetSocketStep ==
  ASSUME Inv, UNCHANGED setting, NEW c \in Channels, GetSocket(c)
  PROVE  Inv'
  <1> DEFINE h == <<"getSocket", c>>
             s == sessionOf[c]
             g == [group[s] EXCEPT !.mChannels = @ \cup {c}]
  <1>1. Handle(h) /\ mSessionID[s] = None
    BY DEF GetSocket
  <1>2. /\ strand' \in Seq(Handlers) /\ StrandInv'
        /\ Queued(h) /\ ~Queued(h)'
        /\ \A f : Queued(f)' => Queued(f)
        /\ \A f : f # h /\ Queued(f) => Queued(f)'
    <2>1. h \notin Repeats
      BY DEF Repeats, Erase
    <2> QED BY <1>1, <2>1, HandleInv
  <1>3. s \in Sessions
    BY SessionOfType
  <1>4. /\ group \in [Sessions -> Groups] /\ group[s] \in Groups /\ g \in Groups
        /\ g.exists = group[s].exists /\ g.mBase = group[s].mBase
        /\ g.mChannels = group[s].mChannels \cup {c} /\ g.mSockets = group[s].mSockets
    <2>1. group \in [Sessions -> Groups]
      BY DEF Inv, TypeOK, Groups
    <2> HIDE DEF s
    <2>2. group[s] \in Groups
      BY <1>3, <2>1
    <2> QED BY <2>1, <2>2 DEF Groups
  <1>5. group[s].mBase /\ group[s].exists /\ s \in mUnclaimedGroups /\ group[s].mSockets = {}
    <2>1. group[s].mBase
      BY <1>2 DEF Inv, GroupsMapped, GroupsFound
    <2> QED BY <1>1, <1>3, <2>1 DEF Inv, GroupsMapped, MapsAgree, groupHasSubscriptions
  <1>6. Waits(c) /\ c \notin group[s].mChannels
    BY <1>2 DEF Inv, ChannelInv
  <1>7. \A d \in Channels :
          /\ d \in g.mChannels => sessionOf[d] = s /\ Waits(d) /\ ~Queued(<<"getSocket", d>>)'
          /\ sessionOf[d] = s /\ Waits(d) => Queued(<<"getSocket", d>>)' \/ d \in g.mChannels
          /\ sessionOf[d] # s => (Queued(<<"getSocket", d>>)' <=> Queued(<<"getSocket", d>>))
    <2>1. \A d \in Channels :
            /\ d \in group[s].mChannels => sessionOf[d] = s /\ Waits(d) /\ ~Queued(<<"getSocket", d>>)
            /\ sessionOf[d] = s /\ Waits(d) => Queued(<<"getSocket", d>>) \/ d \in group[s].mChannels
      BY <1>3 DEF Inv, ChannelInv
    <2>2. \A d \in Channels :
            Queued(<<"getSocket", d>>)' <=> d # c /\ Queued(<<"getSocket", d>>)
      BY <1>2
    <2> QED BY <1>3, <1>4, <1>6, <2>1, <2>2
  <1>8. ASSUME NEW x \in ClientsFor(c), Claim(s, x, g, mSockets[x]),
               UNCHANGED <<users, closed, mStopped, emptyProm, terminated>>
        PROVE  Inv'
    <2>1. /\ x \in mUnclaimedSockets /\ x \in Clients /\ sessionName[x] = sessionName[s]
          /\ mSockets[x] \in SUBSET Connections /\ emptyProm' \in Nat
      BY <1>8 DEF Inv, TypeOK, ClientsFor
    <2>2. mClaimedGroups[x] = None
      BY <2>1 DEF Inv, GroupsMapped, MapsAgree
    <2>3. ASSUME NEW k \in mSockets[x]
          PROVE  /\ clientOf(k) = x /\ stage[k] \in {"named", "read"}
                 /\ ~Queued(<<"read", k>>)' /\ ~Queued(<<"part", k>>)' /\ ~Queued(Erase(k))'
      <3>1. k \in Connections
        BY <2>1
      <3>2. /\ stage[k] = "named" /\ clientOf(k) = x
            /\ ~Queued(<<"read", k>>) /\ ~Queued(<<"part", k>>) /\ ~Queued(Erase(k))
        BY <2>1, <3>1 DEF Inv, SocketInv
      <3> QED BY <1>2, <3>2
    <2> HIDE DEF g, s, h
    <2>4. ClaimFits(s, x, g, mSockets[x])
      BY <1>4, <1>5, <1>7, <2>1, <2>2, <2>3 DEF ClaimFits
    <2>5. Queued(<<"start", None>>) => Queued(<<"start", None>>)'
      BY <1>2 DEF h
    <2> QED BY <1>2, <1>4, <1>5, <1>8, <2>1, <2>4, <2>5, ClaimStep
  <1>9. ASSUME ClientsFor(c) = {}, group' = [group EXCEPT ![s] = g],
               UNCHANGED <<users, given, mSessionID, mUnclaimedGroups, mClaimedGroups,
                           mUnclaimedSockets, mSockets, sockets, life, terminated>>
        PROVE  Inv'
    <2>1. groupHasSubscriptions(g) /\ Kept(g) = g
      BY <1>4, <1>5 DEF groupHasSubscriptions, Kept
    <2>2. /\ group' \in [Sessions -> Groups] /\ group'[s] = g
          /\ \A t \in Sessions : t # s => group'[t] = group[t]
          /\ \A t \in Sessions : /\ group'[t].mSockets = group[t].mSockets
                                 /\ group'[t].exists = group[t].exists
                                 /\ group'[t].mBase = group[t].mBase
                                 /\ group[t].mChannels \subseteq group'[t].mChannels
      BY <1>3, <1>4, <1>9
    <2>3. UNCHANGED <<session, channel, service, stage, closed, accepts, aborted,
                      mListening, mStopped, emptyProm, stoppedProm>>
      BY <1>9 DEF users, sockets, life
    <2>4. TypeOK'
      BY <1>2, <1>9, <2>2, <2>3 DEF Inv, TypeOK, Groups
    <2>5. SessionInv'
      <3>1. \A t \in Sessions : mSessionID'[t] = mSessionID[t]
        BY <1>9
      <3> QED BY <1>2, <1>3, <1>4, <1>5, <1>9, <2>1, <2>3, <3>1, SessionFrame
    <2>6. ChannelInv'
      <3>1. \A d \in Channels : Waits(d)' <=> Waits(d)
        BY <1>9, <2>3 DEF Waits
      <3>2. \A d \in Channels :
              /\ Queued(<<"getSocket", d>>)' => Waits(d)
              /\ Queued(<<"cancel", d>>)' => channel'[d] \notin {"new", "refused", "waiting"}
        BY <1>2, <2>3 DEF Inv, ChannelInv
      <3> HIDE DEF g
      <3>3. ChannelsFit(s, g)
        BY <1>7, <1>9, <2>3, <3>1, <3>2 DEF ChannelsFit
      <3> QED BY <1>3, <1>4, <1>9, <2>1, <3>3, ChannelFrame
    <2>7. SocketInv'
      BY <1>2, <1>9, <2>2, <2>3 DEF Inv, SocketInv, clientOf, Erase
    <2>8. PairInv'
      BY <1>9, <2>2, <2>3, SessionOfType DEF Inv, PairInv, clientOf
    <2>9. GroupsFound'
      BY <1>2, <2>2, <2>3, SessionOfType DEF Inv, GroupsMapped, GroupsFound
    <2>10. MapsAgree'
      <3>1. MapsAgree
        BY DEF Inv, GroupsMapped
      <3>2. \A t \in Sessions : groupHasSubscriptions(group'[t]) <=> groupHasSubscriptions(group[t])
        BY <1>3, <1>4, <1>5, <2>1, <2>2 DEF groupHasSubscriptions
      <3>3. ASSUME NEW t \in Sessions
            PROVE  /\ group'[t].exists <=> groupHasSubscriptions(group'[t])
                   /\ group'[t].exists <=>
                        t \in mUnclaimedGroups' \/ \E x \in Clients : mClaimedGroups'[x] = t
                   /\ t \in mUnclaimedGroups' => mSessionID'[t] = None /\ group'[t].mSockets = {}
                   /\ group'[t].mBase /\ t \notin mUnclaimedGroups' =>
                        mSessionID'[t] # None /\ mClaimedGroups'[mSessionID'[t]] = t
        <4>1. UNCHANGED <<mSessionID, mUnclaimedGroups, mClaimedGroups>>
          BY <1>9
        <4> QED BY <2>2, <3>1, <3>2, <4>1 DEF MapsAgree
      <3>4. \A x \in Clients :
              mClaimedGroups'[x] # None =>
                /\ mClaimedGroups'[x] \notin mUnclaimedGroups' /\ x \notin mUnclaimedSockets'
                /\ \A y \in Clients \ {x} : mClaimedGroups'[y] # mClaimedGroups'[x]
        BY <1>9, <3>1 DEF MapsAgree
      <3> QED BY <3>3, <3>4 DEF MapsAgree, groupHasSubscriptions
    <2>11. NoMissedMatch'
      <3>1. ASSUME NEW t \in Sessions PROVE Matches(group'[t].mChannels, group'[t].mSockets) = {}
        <4>1. CASE t = s
          BY <1>4, <1>5, <2>2, <4>1 DEF Matches
        <4>2. CASE t # s
          BY <2>2, <4>2 DEF Inv, NoMissedMatch
        <4> QED BY <4>1, <4>2
      <3>2. ASSUME NEW t \in mUnclaimedGroups, NEW x \in mUnclaimedSockets,
                   sessionName[t] = sessionName[x]
            PROVE  Matches(group'[t].mChannels, mSockets[x]) = {}
        <4>1. Matches(group[t].mChannels, mSockets[x]) = {} /\ t \in Sessions
          BY <3>2 DEF Inv, TypeOK, NoMissedMatch
        <4>2. CASE t = s
          <5>1. Matches({c}, mSockets[x]) = {}
            BY <1>9, <3>2, <4>2 DEF ClientsFor
          <5>2. group'[t].mChannels = group[t].mChannels \cup {c}
            BY <1>4, <2>2, <4>2
          <5> QED BY <4>1, <5>1, <5>2 DEF Matches
        <4>3. CASE t # s
          BY <2>2, <4>1, <4>3
        <4> QED BY <4>2, <4>3
      <3> QED BY <1>9, <3>1, <3>2 DEF NoMissedMatch, Matches
    <2>12. Listens'
      <3>1. Queued(<<"start", None>>) => Queued(<<"start", None>>)'
        BY <1>2
      <3>2. hasSubscriptions(group') <=> hasSubscriptions(group)
        BY <1>3, <1>4, <1>5, <2>1, <2>2 DEF hasSubscriptions, groupHasSubscriptions
      <3> QED BY <2>3, <3>1, <3>2 DEF Inv, Listens
    <2> QED
      BY <1>2, <2>4, <2>5, <2>6, <2>7, <2>8, <2>9, <2>10, <2>11, <2>12 DEF Inv, GroupsMapped
  <1> QED
    BY <1>8, <1>9 DEF GetSocket

(* What the three ways to name a socket have in common.                    *)
LEMMA Naming ==
  ASSUME Inv, UNCHANGED setting, NEW k \in Connections, NameSocket(k)
  PROVE  /\ strand' \in Seq(Handlers) /\ StrandInv'
         /\ \A f : Queued(f)' => Queued(f)
         /\ \A f : f # <<"read", k>> /\ Queued(f) => Queued(f)'
         /\ stage[k] = "read" /\ clientOf(k) \in Clients
         /\ ~Queued(<<"read", k>>)' /\ ~Queued(<<"part", k>>)' /\ ~Queued(Erase(k))'
         /\ UNCHANGED <<session, channel, service, closed, mStopped, terminated>>
         /\ emptyProm' \in Nat
  <1> DEFINE h == <<"read", k>>
  <1>1. /\ Handle(h) /\ UNCHANGED <<session, channel, service, closed, mStopped, terminated>>
        /\ emptyProm' \in {emptyProm, emptyProm + 1}
    BY DEF NameSocket, PromiseIfEmpty, users
  <1>2. /\ strand' \in Seq(Handlers) /\ StrandInv'
        /\ Queued(h) /\ ~Queued(h)'
        /\ \A f : Queued(f)' => Queued(f)
        /\ \A f : f # h /\ Queued(f) => Queued(f)'
    <2>1. h \notin Repeats
      BY DEF Repeats, Erase
    <2> QED BY <1>1, <2>1, HandleInv
  <1>3. stage[k] = "read" /\ ~Queued(<<"part", k>>) /\ ~Queued(Erase(k))
    BY <1>2 DEF Inv, SocketInv
  <1>4. emptyProm' \in Nat
    BY <1>1 DEF Inv, TypeOK
  <1>5. clientOf(k) \in Clients
    BY AcceptorAssumption DEF Inv, TypeOK, clientOf
  <1> QED
    BY <1>1, <1>2, <1>3, <1>4, <1>5

LEMMA SetSocketMatchedStep ==
  ASSUME Inv, UNCHANGED setting, NEW k \in Connections, NameSocket(k), SetSocketMatched(k)
  PROVE  Inv'
  <1> DEFINE x == clientOf(k)
             K == mSockets[x] \cup {k}
  <1>1. /\ strand' \in Seq(Handlers) /\ StrandInv'
        /\ \A f : Queued(f)' => Queued(f)
        /\ \A f : f # <<"read", k>> /\ Queued(f) => Queued(f)'
        /\ stage[k] = "read" /\ x \in Clients
        /\ ~Queued(<<"read", k>>)' /\ ~Queued(<<"part", k>>)' /\ ~Queued(Erase(k))'
        /\ UNCHANGED <<session, channel, service, closed, mStopped, terminated>>
        /\ emptyProm' \in Nat
    BY Naming
  <1>2. PICK s \in GroupsFor(k) : Claim(s, x, group[s], K)
    BY DEF SetSocketMatched
  <1>3. mClaimedGroups[x] = None
    BY DEF SetSocketMatched
  <1>4. s \in mUnclaimedGroups /\ s \in Sessions /\ sessionName[s] = sessionName[x]
    BY DEF GroupsFor, Inv, TypeOK
  <1>5. /\ group[s] \in Groups /\ group[s].exists /\ group[s].mSockets = {}
        /\ K \in SUBSET Connections
    BY <1>1, <1>4 DEF Inv, TypeOK, Groups, GroupsMapped, MapsAgree
  <1>6. \A c \in Channels :
          /\ c \in group[s].mChannels =>
               sessionOf[c] = s /\ Waits(c) /\ ~Queued(<<"getSocket", c>>)'
          /\ sessionOf[c] = s /\ Waits(c) =>
               Queued(<<"getSocket", c>>)' \/ c \in group[s].mChannels
          /\ sessionOf[c] # s => (Queued(<<"getSocket", c>>)' <=> Queued(<<"getSocket", c>>))
    <2>1. \A c \in Channels : Queued(<<"getSocket", c>>)' <=> Queued(<<"getSocket", c>>)
      BY <1>1
    <2> QED BY <1>4, <2>1 DEF Inv, ChannelInv
  <1>7. ASSUME NEW l \in K
        PROVE  /\ clientOf(l) = x /\ stage[l] \in {"named", "read"}
               /\ ~Queued(<<"read", l>>)' /\ ~Queued(<<"part", l>>)' /\ ~Queued(Erase(l))'
    <2>1. CASE l = k
      BY <1>1, <2>1
    <2>2. CASE l # k
      <3>1. l \in mSockets[x] /\ l \in Connections
        BY <1>5, <2>2
      <3>2. /\ stage[l] = "named" /\ clientOf(l) = x
            /\ ~Queued(<<"read", l>>) /\ ~Queued(<<"part", l>>) /\ ~Queued(Erase(l))
        BY <1>1, <3>1 DEF Inv, SocketInv
      <3> QED BY <1>1, <3>2
    <2> QED BY <2>1, <2>2
  <1> HIDE DEF x, K
  <1>8. ClaimFits(s, x, group[s], K)
    BY <1>3, <1>4, <1>5, <1>6, <1>7 DEF ClaimFits
  <1>9. (Queued(<<"start", None>>) => Queued(<<"start", None>>)') /\ UNCHANGED users
    BY <1>1 DEF users
  <1> QED
    BY <1>1, <1>2, <1>4, <1>5, <1>8, <1>9, ClaimStep

LEMMA SetSocketWaitsStep ==
  ASSUME Inv, UNCHANGED setting, NEW k \in Connections, NameSocket(k), SetSocketWaits(k)
  PROVE  Inv'
  <1> DEFINE x == clientOf(k)
  <1>1. /\ strand' \in Seq(Handlers) /\ StrandInv'
        /\ \A f : Queued(f)' => Queued(f)
        /\ \A f : f # <<"read", k>> /\ Queued(f) => Queued(f)'
        /\ stage[k] = "read" /\ x \in Clients
        /\ ~Queued(<<"read", k>>)' /\ ~Queued(<<"part", k>>)' /\ ~Queued(Erase(k))'
        /\ UNCHANGED <<session, channel, service, closed, mStopped, terminated>>
        /\ emptyProm' \in Nat
    BY Naming
  <1>2. /\ mClaimedGroups[x] = None /\ GroupsFor(k) = {}
        /\ mUnclaimedSockets' = mUnclaimedSockets \cup {x}
        /\ mSockets' = [mSockets EXCEPT ![x] = @ \cup {k}]
        /\ stage' = [stage EXCEPT ![k] = "named"]
        /\ UNCHANGED <<given, group, mSessionID, mUnclaimedGroups, mClaimedGroups, accepts,
                       aborted, mListening, stoppedProm>>
    BY DEF SetSocketWaits
  <1>3. /\ stage' \in [Connections -> Stages] /\ stage'[k] = "named"
        /\ \A l \in Connections : l # k => stage'[l] = stage[l]
        /\ mSockets' \in [Clients -> SUBSET Connections]
        /\ mSockets'[x] = mSockets[x] \cup {k}
        /\ \A y \in Clients : y # x => mSockets'[y] = mSockets[y]
    BY <1>1, <1>2 DEF Inv, TypeOK, Stages
  <1>4. TypeOK'
    BY <1>1, <1>2, <1>3 DEF Inv, TypeOK
  <1>5. SessionInv'
    BY <1>1, <1>2 DEF Inv, SessionInv
  <1>6. ChannelInv'
    <2>1. \A c \in Channels : Queued(<<"getSocket", c>>)' <=> Queued(<<"getSocket", c>>)
      BY <1>1
    <2> QED BY <1>1, <1>2, <2>1 DEF Inv, ChannelInv, Waits
  <1>7. SocketInv'
    <2>1. ASSUME NEW l \in Connections
          PROVE  /\ Queued(<<"read", l>>)' \/ Queued(<<"part", l>>)' => stage'[l] = "read"
                 /\ ~(Queued(<<"read", l>>)' /\ Queued(<<"part", l>>)')
                 /\ Queued(Erase(l))' => stage'[l] = "failed"
      BY <1>1, <1>3 DEF Inv, SocketInv
    <2>2. ASSUME NEW l \in Connections
          PROVE  /\ \A s \in Sessions :
                      l \in group[s].mSockets =>
                        stage'[l] = "named" /\ mClaimedGroups[clientOf(l)] = s
                 /\ \A y \in Clients :
                      l \in mSockets'[y] => stage'[l] = "named" /\ clientOf(l) = y
                 /\ \A c \in Channels : given[c] = l => stage'[l] = "given"
      <3>1. CASE l = k
        <4>1. /\ \A s \in Sessions : k \notin group[s].mSockets
              /\ \A y \in Clients : k \notin mSockets[y]
              /\ \A c \in Channels : given[c] # k
          BY <1>1 DEF Inv, SocketInv
        <4> QED BY <1>3, <3>1, <4>1
      <3>2. CASE l # k
        <4>1. stage'[l] = stage[l] /\ \A y \in Clients : l \in mSockets'[y] <=> l \in mSockets[y]
          BY <1>3, <3>2
        <4> QED BY <4>1 DEF Inv, SocketInv
      <3> QED BY <3>1, <3>2
    <2>3. /\ \A y \in Clients : y \notin mUnclaimedSockets' => mSockets'[y] = {}
          /\ \A c, d \in Channels : given[c] # None /\ given[c] = given[d] => c = d
      BY <1>2, <1>3 DEF Inv, SocketInv
    <2> QED BY <1>2, <2>1, <2>2, <2>3 DEF SocketInv, clientOf, Erase
  <1>8. PairInv'
    BY <1>1, <1>2 DEF Inv, PairInv, clientOf
  <1>9. MapsAgree'
    <2>1. MapsAgree
      BY DEF Inv, GroupsMapped
    <2>2. \A y \in Clients : mClaimedGroups[y] # None => y \notin mUnclaimedSockets'
      BY <1>1, <1>2, <2>1 DEF MapsAgree
    <2> QED BY <1>2, <2>1, <2>2 DEF MapsAgree, groupHasSubscriptions
  <1>10. GroupsFound'
    BY <1>1, <1>2 DEF Inv, GroupsMapped, GroupsFound
  <1>11. NoMissedMatch'
    <2>1. ASSUME NEW s \in mUnclaimedGroups, NEW y \in mUnclaimedSockets',
                 sessionName[s] = sessionName[y]
          PROVE  Matches(group[s].mChannels, mSockets'[y]) = {}
      <3>1. CASE y = x
        <4>1. Matches(group[s].mChannels, {k}) = {}
          BY <1>2, <2>1, <3>1 DEF GroupsFor
        <4>2. Matches(group[s].mChannels, mSockets[x]) = {}
          <5>1. CASE x \in mUnclaimedSockets
            BY <2>1, <3>1, <5>1 DEF Inv, NoMissedMatch
          <5>2. CASE x \notin mUnclaimedSockets
            <6>1. mSockets[x] = {}
              BY <1>1, <5>2 DEF Inv, SocketInv
            <6> QED BY <6>1 DEF Matches
          <5> QED BY <5>1, <5>2
        <4> QED BY <1>3, <3>1, <4>1, <4>2 DEF Matches
      <3>2. CASE y # x
        <4>1. y \in mUnclaimedSockets /\ mSockets'[y] = mSockets[y]
          BY <1>2, <1>3, <3>2 DEF Inv, TypeOK
        <4> QED BY <2>1, <4>1 DEF Inv, NoMissedMatch
      <3> QED BY <3>1, <3>2
    <2> QED BY <1>2, <2>1 DEF Inv, NoMissedMatch, Matches
  <1>12. Listens'
    <2>1. \A l \in Connections : stage[l] = "accepted" => stage'[l] = "accepted"
      BY <1>1, <1>3
    <2>2. Queued(<<"start", None>>) => Queued(<<"start", None>>)'
      BY <1>1
    <2> QED BY <1>1, <1>2, <2>1, <2>2 DEF Inv, Listens, hasSubscriptions, groupHasSubscriptions
  <1> QED
    BY <1>1, <1>4, <1>5, <1>6, <1>7, <1>8, <1>9, <1>10, <1>11, <1>12 DEF Inv, GroupsMapped

LEMMA SubscribeStep ==
  ASSUME Inv, UNCHANGED setting, NEW s \in Sessions, Subscribe(s)
  PROVE  Inv'
  <1> DEFINE h == <<"subscribe", s>>
  <1>1. /\ Handle(h)
        /\ UNCHANGED <<channel, service, given, mSessionID, mClaimedGroups, mUnclaimedSockets,
                       mSockets, stage, closed, aborted, mStopped, emptyProm, stoppedProm>>
        /\ terminated' \in {terminated, "bind"}
        /\ session' = [session EXCEPT ![s] = IF mStopped THEN "refused" ELSE "running"]
    BY DEF Subscribe
  <1>2. /\ strand' \in Seq(Handlers) /\ StrandInv'
        /\ Queued(h) /\ ~Queued(h)'
        /\ \A f : Queued(f)' => Queued(f)
        /\ \A f : f # h /\ Queued(f) => Queued(f)'
    <2>1. h \notin Repeats
      BY DEF Repeats, Erase
    <2> QED BY <1>1, <2>1, HandleInv
  <1>3. /\ session[s] = "starting" /\ ~group[s].exists /\ ~Queued(<<"unsubscribe", s>>)
        /\ group[s] = NoGroup /\ mSessionID[s] = None
        /\ \A c \in Channels : sessionOf[c] = s => channel[c] = "new"
    BY <1>2 DEF Inv, SessionInv
  <1>4. /\ session'[s] = IF mStopped THEN "refused" ELSE "running"
        /\ \A t \in Sessions : t # s => session'[t] = session[t]
        /\ session' \in [Sessions -> {"new", "starting", "running", "refused", "stopping", "stopped"}]
    BY <1>1 DEF Inv, TypeOK
  <1>5. SocketInv' /\ ChannelInv' /\ PairInv' /\ TypeOK' /\ SessionInv' /\ GroupsMapped'
        /\ NoMissedMatch' /\ Listens'
    <2>1. CASE mStopped
      <3>1. UNCHANGED <<group, mUnclaimedGroups, mListening, accepts, terminated>>
        BY <2>1 DEF Subscribe
      <3>2. SocketInv'
        BY <1>1, <1>2, <3>1 DEF Inv, SocketInv, clientOf, Erase
      <3>3. ChannelInv'
        <4>1. \A c \in Channels : Queued(<<"getSocket", c>>)' <=> Queued(<<"getSocket", c>>)
          BY <1>2
        <4> QED BY <1>1, <1>2, <3>1, <4>1 DEF Inv, ChannelInv, Waits
      <3>4. PairInv'
        BY <1>1, <1>3, <1>4, <3>1, SessionOfType DEF Inv, PairInv, clientOf
      <3>5. TypeOK'
        BY <1>1, <1>2, <1>4, <3>1 DEF Inv, TypeOK
      <3>6. SessionInv'
        <4>1. ~group[s].mBase
          BY <1>3 DEF NoGroup
        <4>2. ASSUME NEW t \in Sessions
              PROVE /\ Queued(<<"subscribe", t>>)' => session'[t] = "starting"
                    /\ Queued(<<"unsubscribe", t>>)' => session'[t] = "stopping"
                    /\ session'[t] \in {"new", "starting", "refused"} =>
                         /\ ~group[t].exists /\ mSessionID[t] = None
                         /\ \A c \in Channels : sessionOf[c] = t => channel[c] = "new"
                    /\ session'[t] = "running" => group[t].mBase
                    /\ group[t].mBase => session'[t] \in {"running", "stopping"}
                    /\ group[t].exists /\ ~group[t].mBase => session'[t] = "stopped"
                    /\ ~group[t].exists => group[t] = NoGroup
          <5>1. CASE t = s
            BY <1>1, <1>2, <1>3, <1>4, <2>1, <4>1, <5>1
          <5>2. CASE t # s
            BY <1>1, <1>2, <1>4, <5>2 DEF Inv, SessionInv
          <5> QED BY <5>1, <5>2
        <4> QED BY <1>1, <3>1, <4>2 DEF SessionInv
      <3>7. GroupsMapped'
        <4>1. MapsAgree'
          BY <1>1, <3>1 DEF Inv, GroupsMapped, MapsAgree, groupHasSubscriptions
        <4>2. GroupsFound'
          BY <1>1, <1>2, <1>3, <1>4, <3>1, SessionOfType DEF Inv, GroupsMapped, GroupsFound
        <4> QED BY <4>1, <4>2 DEF GroupsMapped
      <3>8. NoMissedMatch'
        BY <1>1, <3>1 DEF Inv, NoMissedMatch, Matches
      <3>9. Listens'
        BY <1>1, <1>2, <3>1 DEF Inv, Listens, hasSubscriptions, groupHasSubscriptions
      <3> QED BY <3>2, <3>3, <3>4, <3>5, <3>6, <3>7, <3>8, <3>9
    <2>2. CASE ~mStopped
      <3>1. /\ group' = [group EXCEPT ![s] = NewGroup]
            /\ mUnclaimedGroups' = mUnclaimedGroups \cup {s}
            /\ mListening' = TRUE
            /\ accepts' = IF mListening THEN accepts ELSE accepts + 1
        BY <2>2 DEF Subscribe
      <3>2. /\ group' \in [Sessions -> Groups] /\ group'[s] = NewGroup
            /\ \A t \in Sessions : t # s => group'[t] = group[t]
            /\ NewGroup.exists /\ NewGroup.mBase
            /\ NewGroup.mChannels = {} /\ NewGroup.mSockets = {}
            /\ group[s].mChannels = {} /\ group[s].mSockets = {}
        <4>1. /\ NewGroup \in Groups /\ NewGroup.exists /\ NewGroup.mBase
              /\ NewGroup.mChannels = {} /\ NewGroup.mSockets = {}
          BY DEF NewGroup, NoGroup, Groups
        <4>2. group[s].mChannels = {} /\ group[s].mSockets = {}
          BY <1>3 DEF NoGroup
        <4>3. group \in [Sessions -> Groups]
          BY DEF Inv, TypeOK, Groups
        <4> QED BY <3>1, <4>1, <4>2, <4>3
      <3>3. SocketInv'
        <4>1. \A t \in Sessions : group'[t].mSockets = group[t].mSockets
          BY <3>2
        <4> QED BY <1>1, <1>2, <4>1 DEF Inv, SocketInv, clientOf, Erase
      <3>4. ChannelInv'
        <4>1. \A c \in Channels : Queued(<<"getSocket", c>>)' <=> Queued(<<"getSocket", c>>)
          BY <1>2
        <4>2. \A t \in Sessions : group'[t].mChannels = group[t].mChannels
          BY <3>2
        <4> QED BY <1>1, <1>2, <4>1, <4>2, SessionOfType DEF Inv, ChannelInv, Waits
      <3>5. PairInv'
        <4>1. \A c \in Channels : given[c] # None => sessionOf[c] # s
          BY <1>3 DEF Inv, ChannelInv
        <4> QED BY <1>1, <1>4, <3>2, <4>1, SessionOfType DEF Inv, PairInv, clientOf
      <3>6. TypeOK'
        <4>1. accepts' \in Nat /\ mUnclaimedGroups' \subseteq Sessions
          BY <3>1 DEF Inv, TypeOK
        <4> QED BY <1>1, <1>2, <1>4, <3>1, <3>2, <4>1 DEF Inv, TypeOK, Groups
      <3>7. SessionInv'
        <4>1. ASSUME NEW t \in Sessions
              PROVE /\ Queued(<<"subscribe", t>>)' => session'[t] = "starting"
                    /\ Queued(<<"unsubscribe", t>>)' => session'[t] = "stopping"
                    /\ session'[t] \in {"new", "starting", "refused"} =>
                         /\ ~group'[t].exists /\ mSessionID'[t] = None
                         /\ \A c \in Channels : sessionOf[c] = t => channel[c] = "new"
                    /\ session'[t] = "running" => group'[t].mBase
                    /\ group'[t].mBase => session'[t] \in {"running", "stopping"}
                    /\ group'[t].exists /\ ~group'[t].mBase => session'[t] = "stopped"
                    /\ ~group'[t].exists => group'[t] = NoGroup
          <5>1. CASE t = s
            BY <1>2, <1>3, <1>4, <2>2, <3>2, <5>1
          <5>2. CASE t # s
            BY <1>1, <1>2, <1>4, <3>2, <5>2 DEF Inv, SessionInv
          <5> QED BY <5>1, <5>2
        <4> QED BY <1>1, <4>1 DEF SessionInv
      <3>8. MapsAgree'
        <4>1. MapsAgree
          BY DEF Inv, GroupsMapped
        <4>2. mSessionID[s] = None
          BY <1>3 DEF Inv, SessionInv
        <4>3. ASSUME NEW t \in Sessions
              PROVE  /\ group'[t].exists <=> groupHasSubscriptions(group'[t])
                     /\ group'[t].exists <=>
                          t \in mUnclaimedGroups' \/ \E x \in Clients : mClaimedGroups[x] = t
                     /\ t \in mUnclaimedGroups' => mSessionID[t] = None /\ group'[t].mSockets = {}
                     /\ group'[t].mBase /\ t \notin mUnclaimedGroups' =>
                          mSessionID[t] # None /\ mClaimedGroups[mSessionID[t]] = t
          <5>1. CASE t = s
            BY <3>1, <3>2, <4>2, <5>1 DEF groupHasSubscriptions
          <5>2. CASE t # s
            <6>1. group'[t] = group[t] /\ (t \in mUnclaimedGroups' <=> t \in mUnclaimedGroups)
              BY <3>1, <3>2, <5>2
            <6> QED BY <4>1, <6>1 DEF MapsAgree
          <5> QED BY <5>1, <5>2
        <4>4. ASSUME NEW x \in Clients, mClaimedGroups[x] # None
              PROVE  /\ mClaimedGroups[x] \notin mUnclaimedGroups' /\ x \notin mUnclaimedSockets
                     /\ \A y \in Clients \ {x} : mClaimedGroups[y] # mClaimedGroups[x]
          BY <1>3, <3>1, <4>1, <4>4 DEF MapsAgree
        <4> QED BY <1>1, <4>3, <4>4 DEF MapsAgree, groupHasSubscriptions
      <3>9. GroupsFound'
        BY <1>1, <1>2, <1>3, <1>4, <3>2, SessionOfType DEF Inv, GroupsMapped, GroupsFound
      <3>10. NoMissedMatch'
        <4>1. ASSUME NEW t \in Sessions
              PROVE group'[t].mChannels = group[t].mChannels /\ group'[t].mSockets = group[t].mSockets
          BY <3>2
        <4>2. ASSUME NEW t \in mUnclaimedGroups', NEW x \in mUnclaimedSockets,
                     sessionName[t] = sessionName[x]
              PROVE  Matches(group'[t].mChannels, mSockets[x]) = {}
          <5>1. CASE t = s
            BY <3>2, <5>1 DEF Matches
          <5>2. CASE t # s
            BY <3>1, <3>2, <4>2, <5>2 DEF Inv, TypeOK, NoMissedMatch
          <5> QED BY <5>1, <5>2
        <4> QED BY <1>1, <4>1, <4>2 DEF Inv, NoMissedMatch, Matches
      <3>11. Listens'
        <4>1. hasSubscriptions(group')
          BY <3>2 DEF hasSubscriptions, groupHasSubscriptions
        <4>2. mListening => accepts' = accepts
          BY <3>1
        <4>3. ~mListening => accepts' > 0
          BY <3>1 DEF Inv, TypeOK
        <4>4. Queued(<<"start", None>>) => Queued(<<"start", None>>)'
          BY <1>2
        <4> QED BY <1>1, <3>1, <4>1, <4>2, <4>3, <4>4 DEF Inv, Listens
      <3> QED BY <3>3, <3>4, <3>5, <3>6, <3>7, <3>8, <3>9, <3>10, <3>11 DEF GroupsMapped
    <2> QED BY <2>1, <2>2
  <1> QED
    BY <1>2, <1>5 DEF Inv

LEMMA SetSocketPairedStep ==
  ASSUME Inv, UNCHANGED setting, NEW k \in Connections, NameSocket(k), SetSocketPaired(k)
  PROVE  Inv'
  <1> DEFINE s == mClaimedGroups[clientOf(k)]
             M == Matches(group[s].mChannels, {k})
             g0 == [group[s] EXCEPT !.mSockets = @ \cup {k}]
             g == Without(g0, M)
             stages == [stage EXCEPT ![k] = IF M = {} THEN "named" ELSE "given"]
  <1>1. /\ s # None /\ Give(M)
        /\ UNCHANGED <<mSessionID, mUnclaimedSockets, mSockets>>
        /\ TidyMapped([group EXCEPT ![s] = g], s, stages)
    BY DEF SetSocketPaired
  <1>2. /\ strand' \in Seq(Handlers) /\ StrandInv'
        /\ \A f : Queued(f)' => Queued(f)
        /\ \A f : f # <<"read", k>> /\ Queued(f) => Queued(f)'
        /\ stage[k] = "read" /\ clientOf(k) \in Clients
        /\ ~Queued(<<"read", k>>)' /\ ~Queued(<<"part", k>>)' /\ ~Queued(Erase(k))'
        /\ UNCHANGED <<session, channel, service, closed, mStopped, terminated>>
        /\ emptyProm' \in Nat
    BY Naming
  <1>3. s \in Sessions /\ s \notin mUnclaimedGroups /\ group[s].exists
    BY <1>1, <1>2 DEF Inv, TypeOK, GroupsMapped, MapsAgree
  <1>4. /\ group \in [Sessions -> Groups] /\ group[s] \in Groups /\ g0 \in Groups
        /\ g0.exists = group[s].exists /\ g0.mBase = group[s].mBase
        /\ g0.mChannels = group[s].mChannels /\ g0.mSockets = group[s].mSockets \cup {k}
        /\ group[s].mSockets \subseteq Connections /\ group[s].mChannels \subseteq Channels
    <2> HIDE DEF s
    <2> QED BY <1>3 DEF Inv, TypeOK, Groups
  <1>5. /\ M \in SUBSET (Channels \X Connections)
        /\ \A d, l : <<d, l>> \in M <=>
             d \in group[s].mChannels /\ l = k /\ channelName[d] = channelName[k]
    BY <1>4, MatchFacts
  <1>6. /\ g \in Groups /\ g.exists = group[s].exists /\ g.mBase = group[s].mBase
        /\ g.mChannels = {d \in g0.mChannels : \A l : <<d, l>> \notin M}
        /\ g.mSockets = {l \in g0.mSockets : \A d : <<d, l>> \notin M}
    <2> HIDE DEF M, g0
    <2> QED BY <1>4, <1>5, WithoutFacts
  <1>7. Tidy([group EXCEPT ![s] = g], s, stages)
    <2> HIDE DEF g, stages
    <2> QED BY <1>1 DEF TidyMapped
  <1>8. /\ stages \in [Connections -> Stages]
        /\ stages[k] = IF M = {} THEN "named" ELSE "given"
        /\ \A l \in Connections : l # k => stages[l] = stage[l]
    <2> HIDE DEF M
    <2> QED BY DEF Inv, TypeOK, Stages
  <1> HIDE DEF s, M, g0, g, stages
  <1>9. ASSUME NEW d, NEW e, NEW l, <<d, l>> \in M, <<e, l>> \in M PROVE d = e
    <2>1. /\ d \in group[s].mChannels /\ e \in group[s].mChannels
          /\ channelName[d] = channelName[e]
      BY <1>5, <1>9
    <2>2. d \in Channels /\ e \in Channels /\ sessionOf[d] = s /\ sessionOf[e] = s
      BY <1>3, <1>4, <2>1 DEF Inv, ChannelInv
    <2> QED BY <2>1, <2>2, NamesAssumption
  <1>10. /\ given' \in [Channels -> Connections \cup {None}]
         /\ \A d, l : <<d, l>> \in M => d \in Channels /\ l \in Connections /\ given'[d] = l
         /\ \A d \in Channels : (\A l : <<d, l>> \notin M) => given'[d] = given[d]
         /\ \A d \in Channels : given'[d] # given[d] => <<d, given'[d]>> \in M
    <2>1. given \in [Channels -> Connections \cup {None}]
      BY DEF Inv, TypeOK
    <2>2. \A d, l, m : <<d, l>> \in M /\ <<d, m>> \in M => l = m
      BY <1>5
    <2> QED BY <1>1, <1>5, <2>1, <2>2, GiveEffect
  <1>11. /\ \A t \in Sessions : k \notin group[t].mSockets
         /\ \A x \in Clients : k \notin mSockets[x]
         /\ \A c \in Channels : given[c] # k
    BY <1>2 DEF Inv, SocketInv
  <1>12. M = {} <=> \A d : <<d, k>> \notin M
    <2>1. \A m \in M : m = <<m[1], m[2]>> /\ m[2] = k
      BY <1>5
    <2> QED BY <2>1
  <1>13. ~groupHasSubscriptions(g) => session'[s] = "stopped"
    <2>1. ~groupHasSubscriptions(g) => ~group[s].mBase
      BY <1>6 DEF groupHasSubscriptions
    <2> QED BY <1>2, <1>3, <2>1 DEF Inv, SessionInv
  <1>14. /\ MapsAgree'
         /\ mUnclaimedGroups' \subseteq mUnclaimedGroups
         /\ groupHasSubscriptions(g) => UNCHANGED <<mUnclaimedGroups, mClaimedGroups>>
         /\ mClaimedGroups' \in [Clients -> Sessions \cup {None}]
         /\ \A x \in Clients :
              mClaimedGroups'[x] # mClaimedGroups[x] =>
                mClaimedGroups[x] = s /\ mClaimedGroups'[x] = None /\ ~groupHasSubscriptions(g)
    BY <1>1, <1>3, <1>6, <1>8, MappedAgree
  <1>15. /\ group' = [group EXCEPT ![s] = Kept(g)]
         /\ group' \in [Sessions -> Groups]
         /\ stage' \in [Connections -> Stages]
         /\ accepts' \in Nat /\ aborted' \in Nat /\ stoppedProm' \in Nat
         /\ mListening' \in BOOLEAN
    BY <1>3, <1>6, <1>7, <1>8, TidyEffect
  <1>16. TypeOK'
    BY <1>1, <1>2, <1>10, <1>14, <1>15 DEF Inv, TypeOK, Groups
  <1>17. SessionInv'
    <2>1. \A t \in Sessions : mSessionID'[t] = mSessionID[t]
      BY <1>1
    <2> QED BY <1>2, <1>3, <1>6, <1>15, <2>1, SessionFrame
  <1>18. ChannelInv'
    <2>1. ASSUME NEW d \in Channels
          PROVE  Waits(d)' <=> Waits(d) /\ \A l : <<d, l>> \notin M
      <3>1. CASE \A l : <<d, l>> \notin M
        BY <1>2, <1>10, <3>1 DEF Waits
      <3>2. CASE \E l : <<d, l>> \in M
        BY <1>10, <3>2, AcceptorAssumption DEF Waits
      <3> QED BY <3>1, <3>2
    <2>2. \A d \in Channels : d \in g.mChannels <=> d \in group[s].mChannels /\ \A l : <<d, l>> \notin M
      BY <1>4, <1>6
    <2>3. \A d \in Channels : (\E l : <<d, l>> \in M) => d \in group[s].mChannels
      BY <1>5
    <2>4. \A d \in Channels : Queued(<<"getSocket", d>>)' <=> Queued(<<"getSocket", d>>)
      BY <1>2
    <2>5. \A d \in Channels :
            /\ d \in group[s].mChannels => sessionOf[d] = s /\ Waits(d) /\ ~Queued(<<"getSocket", d>>)
            /\ sessionOf[d] = s /\ Waits(d) => Queued(<<"getSocket", d>>) \/ d \in group[s].mChannels
            /\ Queued(<<"getSocket", d>>) => Waits(d)
      BY <1>3 DEF Inv, ChannelInv
    <2>6. \A d \in Channels :
            /\ d \in g.mChannels => sessionOf[d] = s /\ Waits(d)'
            /\ d \in g.mChannels => ~Queued(<<"getSocket", d>>)'
            /\ sessionOf[d] = s /\ Waits(d)' => Queued(<<"getSocket", d>>)' \/ d \in g.mChannels
            /\ Queued(<<"getSocket", d>>)' => Waits(d)'
            /\ sessionOf[d] # s => (Waits(d)' <=> Waits(d))
      BY <2>1, <2>2, <2>3, <2>4, <2>5
    <2>7. \A d \in Channels :
            /\ channel'[d] = "new" => channel[d] = "new" /\ given'[d] = given[d]
            /\ Queued(<<"cancel", d>>)' => channel'[d] \notin {"new", "refused", "waiting"}
      <3>1. \A d \in Channels : Waits(d) => channel[d] # "new"
        BY DEF Waits
      <3>2. \A d \in Channels :
              Queued(<<"cancel", d>>)' => channel[d] \notin {"new", "refused", "waiting"}
        BY <1>2 DEF Inv, ChannelInv
      <3> QED BY <1>2, <1>10, <2>3, <2>5, <3>1, <3>2
    <2>8. ChannelsFit(s, g)
      BY <2>4, <2>6, <2>7 DEF ChannelsFit
    <2> QED BY <1>3, <1>6, <1>15, <2>8, ChannelFrame
  <1>19. \A l \in Connections : l \in g.mSockets => (l = k /\ M = {}) \/ l \in group[s].mSockets
    BY <1>4, <1>6, <1>12
  <1>20. SocketInv'
    <2>1. ASSUME NEW l \in Connections
          PROVE  /\ Queued(<<"read", l>>)' \/ Queued(<<"part", l>>)' => stages[l] = "read"
                 /\ ~(Queued(<<"read", l>>)' /\ Queued(<<"part", l>>)')
                 /\ Queued(Erase(l))' => stages[l] = "failed"
      <3>1. CASE l = k
        BY <1>2, <3>1
      <3>2. CASE l # k
        BY <1>2, <1>8, <3>2 DEF Inv, SocketInv
      <3> QED BY <3>1, <3>2
    <2>2. ASSUME NEW l \in Connections
          PROVE  /\ l \in g.mSockets =>
                      stages[l] = "named"
                      /\ (groupHasSubscriptions(g) => mClaimedGroups'[clientOf(l)] = s)
                 /\ \A t \in Sessions :
                      t # s /\ l \in group[t].mSockets =>
                        stages[l] = "named" /\ l \notin g.mSockets
                        /\ mClaimedGroups'[clientOf(l)] = t
      <3>1. \A t \in Sessions :
              l \in group[t].mSockets => stage[l] = "named" /\ mClaimedGroups[clientOf(l)] = t
        BY DEF Inv, SocketInv
      <3>2. l = k => mClaimedGroups[clientOf(l)] = s
        BY DEF s
      <3>3. clientOf(l) \in Clients
        BY AcceptorAssumption DEF Inv, TypeOK, clientOf
      <3>4. l \in g.mSockets => stages[l] = "named" /\ mClaimedGroups[clientOf(l)] = s
        BY <1>3, <1>8, <1>11, <1>19, <3>1, <3>2
      <3>5. \A t \in Sessions :
              t # s /\ l \in group[t].mSockets =>
                stages[l] = "named" /\ mClaimedGroups[clientOf(l)] = t
        BY <1>8, <1>11, <3>1
      <3> QED BY <1>14, <3>3, <3>4, <3>5
    <2>3. ASSUME NEW l \in Connections, NEW x \in Clients, l \in mSockets'[x]
          PROVE  stages[l] = "named" /\ l \notin g.mSockets /\ clientOf(l) = x
      <3>1. l \in mSockets[x] /\ stage[l] = "named" /\ clientOf(l) = x /\ x \in mUnclaimedSockets
        BY <1>1, <2>3 DEF Inv, SocketInv
      <3>2. mClaimedGroups[x] = None
        BY <3>1 DEF Inv, GroupsMapped, MapsAgree
      <3>3. \A t \in Sessions : l \notin group[t].mSockets
        BY <3>1, <3>2, AcceptorAssumption DEF Inv, SocketInv
      <3> QED BY <1>3, <1>8, <1>11, <1>19, <3>1, <3>3
    <2>4. ASSUME NEW l \in Connections, NEW d \in Channels, given'[d] = l
          PROVE  stages[l] = "given"
      <3>1. CASE <<d, l>> \in M
        BY <1>5, <1>8, <3>1
      <3>2. CASE <<d, l>> \notin M
        <4>1. given[d] = l /\ stage[l] = "given"
          BY <1>10, <2>4, <3>2 DEF Inv, SocketInv
        <4> QED BY <1>8, <1>11, <4>1
      <3> QED BY <3>1, <3>2
    <2>5. ASSUME NEW d \in Channels, NEW e \in Channels, given'[d] # None, given'[d] = given'[e]
          PROVE  d = e
      <3>1. CASE given'[d] # given[d]
        <4>1. <<d, given'[d]>> \in M /\ given'[d] = k
          BY <1>5, <1>10, <3>1
        <4>2. <<e, given'[d]>> \in M
          BY <1>10, <1>11, <2>5, <4>1
        <4> QED BY <1>9, <4>1, <4>2
      <3>2. CASE given'[e] # given[e]
        <4>1. <<e, given'[e]>> \in M /\ given'[e] = k
          BY <1>5, <1>10, <3>2
        <4>2. <<d, given'[e]>> \in M
          BY <1>10, <1>11, <2>5, <4>1
        <4> QED BY <1>9, <4>1, <4>2
      <3>3. CASE given'[d] = given[d] /\ given'[e] = given[e]
        BY <2>5, <3>3 DEF Inv, SocketInv
      <3> QED BY <3>1, <3>2, <3>3
    <2>6. \A y \in Clients : y \notin mUnclaimedSockets' => mSockets'[y] = {}
      BY <1>1 DEF Inv, SocketInv
    <2>7. SocketsFit(s, g, stages)
      BY <2>1, <2>2, <2>3, <2>4, <2>5, <2>6 DEF SocketsFit
    <2> QED BY <1>3, <1>6, <1>7, <1>8, <2>7, SocketFrame
  <1>21. PairInv'
    <2>1. ASSUME NEW d \in Channels, given'[d] # given[d]
          PROVE  /\ sessionOf[d] = s /\ mClaimedGroups[clientOf(given'[d])] = s
                 /\ given'[d] \in Connections
      <3>1. d \in group[s].mChannels /\ given'[d] = k
        BY <1>5, <1>10, <2>1
      <3>2. sessionOf[d] = s
        BY <1>3, <3>1 DEF Inv, ChannelInv
      <3> QED BY <3>1, <3>2 DEF s
    <2>2. \A t \in Sessions : t # s => session'[t] = session[t]
      BY <1>2
    <2> QED BY <1>1, <1>3, <1>6, <1>8, <1>10, <1>13, <2>1, <2>2, MappedPairs
  <1>22. GroupsFound'
    BY <1>2, <1>3, <1>6, <1>13, <1>15, FoundFrame
  <1>23. NoMissedMatch'
    <2>1. Matches(group[s].mChannels, group[s].mSockets) = {}
      BY <1>3 DEF Inv, NoMissedMatch
    <2>2. ASSUME NEW d \in g.mChannels, NEW l \in g.mSockets, channelName[d] = channelName[l]
          PROVE  FALSE
      <3>1. /\ d \in group[s].mChannels /\ l \in group[s].mSockets \cup {k}
            /\ \A m : <<d, m>> \notin M
        BY <1>4, <1>6
      <3>2. l = k
        <4>1. <<d, l>> \notin Matches(group[s].mChannels, group[s].mSockets)
          BY <2>1
        <4> QED BY <2>2, <3>1, <4>1, MatchFacts
      <3> QED BY <1>5, <2>2, <3>1, <3>2
    <2>3. Matches(g.mChannels, g.mSockets) = {}
      BY <2>2 DEF Matches
    <2> QED BY <1>1, <1>3, <1>6, <1>8, <2>3, MappedMatches
  <1>24. Listens'
    <2>1. \A l \in Connections : stage[l] = "accepted" => stages[l] = "accepted" /\ l \notin g.mSockets
      <3>1. \A l \in Connections : l \in group[s].mSockets => stage[l] = "named"
        BY <1>3 DEF Inv, SocketInv
      <3> QED BY <1>2, <1>8, <1>19, <3>1
    <2>2. UNCHANGED mStopped /\ (Queued(<<"start", None>>) => Queued(<<"start", None>>)')
      BY <1>2
    <2> QED BY <1>3, <1>6, <1>7, <1>8, <2>1, <2>2, TidyListens
  <1> QED
    BY <1>2, <1>14, <1>16, <1>17, <1>18, <1>20, <1>21, <1>22, <1>23, <1>24 DEF Inv, GroupsMapped

-----------------------------------------------------------------------------
LEMMA RunStrandStep ==
  ASSUME Inv, UNCHANGED setting, RunStrand
  PROVE  Inv'
  <1>1. CASE Start \/ Stop
    BY <1>1, StartStep, StopStep
  <1>2. ASSUME NEW s \in Sessions, Subscribe(s) \/ Unsubscribe(s) PROVE Inv'
    BY <1>2, SubscribeStep, UnsubscribeStep
  <1>3. ASSUME NEW c \in Channels, CancelPending(c) \/ GetSocketPaired(c) \/ GetSocket(c)
        PROVE  Inv'
    BY <1>3, CancelPendingStep, GetSocketPairedStep, GetSocketStep
  <1>4. ASSUME NEW k \in Connections \cup {None}, EraseSocket(k) PROVE Inv'
    BY <1>4, EraseSocketStep
  <1>5. ASSUME NEW k \in Connections, DropSocket(k) PROVE Inv'
    BY <1>5, DropSocketStep
  <1>6. ASSUME NEW k \in Connections, NameSocket(k) PROVE Inv'
    <2>1. SetSocketPaired(k) \/ SetSocketMatched(k) \/ SetSocketWaits(k)
      BY <1>6 DEF NameSocket
    <2> QED BY <1>6, <2>1, SetSocketPairedStep, SetSocketMatchedStep, SetSocketWaitsStep
  <1> QED
    BY <1>1, <1>2, <1>3, <1>4, <1>5, <1>6 DEF RunStrand

LEMMA InitInv == Init => Inv
  <1> SUFFICES ASSUME Init PROVE Inv
    OBVIOUS
  <1>1. \A h : ~Queued(h)
    BY DEF Init, Queued
  <1>2. TypeOK
    <2>1. /\ group \in [Sessions -> [exists : BOOLEAN, mBase : BOOLEAN,
                                    mChannels : SUBSET Channels, mSockets : SUBSET Connections]]
          /\ stage \in [Connections -> Stages]
      BY DEF Init, NoGroup, Stages
    <2>2. /\ given \in [Channels -> Connections \cup {None}]
          /\ mSessionID \in [Sessions -> Clients \cup {None}]
          /\ mClaimedGroups \in [Clients -> Sessions \cup {None}]
          /\ mSockets \in [Clients -> SUBSET Connections]
          /\ strand \in Seq(Handlers)
      BY DEF Init
    <2> QED BY <2>1, <2>2 DEF Init, TypeOK
  <1>3. StrandInv
    BY DEF Init, StrandInv
  <1>4. SessionInv /\ ChannelInv /\ GroupsFound
    BY <1>1, SessionOfType DEF Init, SessionInv, ChannelInv, Waits, NoGroup, GroupsFound
  <1>5. SocketInv
    BY <1>1, AcceptorAssumption DEF Init, SocketInv, NoGroup
  <1>6. PairInv
    BY DEF Init, PairInv
  <1>7. MapsAgree
    BY AcceptorAssumption DEF Init, MapsAgree, NoGroup, groupHasSubscriptions
  <1>8. NoMissedMatch
    BY DEF Init, NoMissedMatch, NoGroup, Matches
  <1>9. Listens
    BY DEF Init, Listens, NoGroup, hasSubscriptions, groupHasSubscriptions
  <1> QED
    BY <1>2, <1>3, <1>4, <1>5, <1>6, <1>7, <1>8, <1>9 DEF Inv, GroupsMapped

LEMMA NextInv == Inv /\ [Next]_vars => Inv'
  <1> SUFFICES ASSUME Inv, [Next]_vars PROVE Inv'
    OBVIOUS
  <1>1. CASE Next
    BY <1>1, UsersStep, NetworkStep, RunStrandStep DEF Next, Step
  <1>2. CASE UNCHANGED vars
    <2>1. UNCHANGED <<setting, users, pairing, sockets, life, strand, terminated>>
      BY <1>2 DEF vars
    <2>2. \A h : Queued(h)' <=> Queued(h)
      BY <2>1 DEF Queued
    <2>3. SessionInv' /\ ChannelInv' /\ PairInv' /\ GroupsMapped' /\ NoMissedMatch'
      BY <2>1, <2>2, NetworkFrame
    <2>4. SocketInv' /\ Listens'
      BY <2>1, <2>2, UserFrame
    <2>5. TypeOK' /\ StrandInv'
      BY <2>1 DEF Inv, TypeOK, StrandInv, users, pairing, sockets, life
    <2> QED BY <2>3, <2>4, <2>5 DEF Inv
  <1> QED
    BY <1>1, <1>2

(* Inv holds in every reachable state: the maps of the acceptor, what      *)
(* sessions and channels know and what is on the strand fit together.      *)
THEOREM Invariance == Spec => []Inv
  BY InitInv, NextInv, PTL DEF Spec

(* Every reachable state has the types the fields of the code have.        *)
THEOREM Types == Spec => []TypeOK
  <1>1. Inv => TypeOK
    BY DEF Inv
  <1> QED BY <1>1, Invariance, PTL

(* The maps of the acceptor agree, and every handler finds its group.      *)
THEOREM GroupsAreMapped == Spec => []GroupsMapped
  <1>1. Inv => GroupsMapped
    BY DEF Inv
  <1> QED BY <1>1, Invariance, PTL

(* No channel and no socket for it wait at the same time.                  *)
THEOREM NoMatchIsMissed == Spec => []NoMissedMatch
  <1>1. Inv => NoMissedMatch
    BY DEF Inv
  <1> QED BY <1>1, Invariance, PTL

(* The acceptor listens, and goes on accepting, while it is wanted.        *)
THEOREM ListensWhileWanted == Spec => []Listens
  <1>1. Inv => Listens
    BY DEF Inv
  <1> QED BY <1>1, Invariance, PTL

-----------------------------------------------------------------------------
(* The acceptor keeps its promise.                                         *)

Offered(k) == stage[k] = "named" \/ Queued(<<"read", k>>)

(* Nobody meets.                                                           *)
LEMMA NobodyMeets ==
  ASSUME UNCHANGED <<setting, given>>, TypeOK,
         \A c \in Channels : Waits(c)' => Waits(c),
         \A k \in Connections : Offered(k)' => Offered(k),
         \A s \in Sessions : session[s] = "stopped" => session'[s] = "stopped"
  PROVE  Promise!Next
  <1>1. given \in [Channels -> Connections \cup {None}]
    BY DEF TypeOK
  <1>2. Promise!Met = {}
    BY DEF Promise!Met
  <1>3. Promise!Meet
    BY <1>1, <1>2 DEF Promise!Meet, Waits, Offered
  <1> QED
    BY <1>3 DEF Promise!Next

(* Channels of session s meet sockets of client x.                         *)
LEMMA SomeMeet ==
  ASSUME Inv, Inv', UNCHANGED <<setting, session, channel>>,
         NEW s \in Sessions, NEW x \in Clients,
         sessionName[s] = sessionName[x], group[s].exists,
         \/ mClaimedGroups[x] = s
         \/ mClaimedGroups[x] = None /\ s \in mUnclaimedGroups,
         \A c \in Channels :
           given'[c] # given[c] =>
             /\ sessionOf[c] = s /\ Waits(c)
             /\ given'[c] \in Connections /\ clientOf(given'[c]) = x /\ Offered(given'[c])
             /\ channelName[c] = channelName[given'[c]],
         \A k \in Connections : Offered(k)' => Offered(k)
  PROVE  Promise!Next
  <1>1. /\ given' \in [Channels -> Connections \cup {None}]
        /\ mClaimedGroups \in [Clients -> Sessions \cup {None}]
        /\ None \notin Sessions /\ None \notin Connections
    BY AcceptorAssumption DEF Inv, TypeOK
  <1>2. ASSUME NEW c \in Promise!Met
        PROVE  /\ c \in Channels /\ sessionOf[c] = s /\ Waits(c) /\ ~Waits(c)'
               /\ given'[c] \in Connections /\ clientOf(given'[c]) = x
               /\ Offered(given'[c]) /\ channelName[c] = channelName[given'[c]]
               /\ \A k : k = given'[c] => ~Offered(k)'
    <2>1. /\ c \in Channels /\ sessionOf[c] = s /\ Waits(c)
          /\ given'[c] \in Connections /\ clientOf(given'[c]) = x
          /\ Offered(given'[c]) /\ channelName[c] = channelName[given'[c]]
      BY DEF Promise!Met
    <2>2. ASSUME NEW k, k = given'[c] PROVE ~Offered(k)'
      <3>1. SocketInv' /\ k \in Connections
        BY <2>1, <2>2 DEF Inv
      <3>2. stage'[k] = "given"
        BY <2>1, <2>2, <3>1 DEF SocketInv
      <3>3. ~Queued(<<"read", k>>)'
        BY <3>1, <3>2 DEF SocketInv
      <3> QED BY <3>2, <3>3 DEF Offered
    <2> QED BY <1>1, <2>1, <2>2 DEF Waits, Offered
  <1>3. ASSUME NEW c \in Promise!Met, NEW d \in Channels
        PROVE  /\ c # d => given'[c] # given'[d]
               /\ given'[d] # None /\ sessionOf[c] = sessionOf[d] =>
                    setting.clientOf[given'[c]] = setting.clientOf[given'[d]]
               /\ given[d] # None /\ setting.clientOf[given'[c]] = setting.clientOf[given[d]] =>
                    \/ sessionOf[c] = sessionOf[d]
                    \/ /\ session[sessionOf[d]] = "stopped"
                       /\ \A e \in Channels : sessionOf[e] = sessionOf[d] => ~Waits(e)
    <2>1. c # d => given'[c] # given'[d]
      BY <1>1, <1>2 DEF Inv, SocketInv
    <2>2. ASSUME given'[d] # None, sessionOf[d] = s
          PROVE  clientOf(given'[d]) = x
      <3>1. CASE given'[d] # given[d]
        BY <3>1
      <3>2. CASE given'[d] = given[d]
        <4>1. mClaimedGroups[clientOf(given[d])] = s /\ clientOf(given[d]) \in Clients
          BY <1>1, <2>2, <3>2, AcceptorAssumption DEF Inv, PairInv, TypeOK, clientOf
        <4>2. s \notin mUnclaimedGroups
          BY <1>1, <4>1 DEF Inv, GroupsMapped, MapsAgree
        <4>3. mClaimedGroups[x] = s
          BY <4>2
        <4> QED BY <1>1, <3>2, <4>1, <4>3 DEF Inv, GroupsMapped, MapsAgree
      <3> QED BY <3>1, <3>2
    <2>3. ASSUME given[d] # None, clientOf(given[d]) = x, sessionOf[d] # s
          PROVE  /\ session[sessionOf[d]] = "stopped"
                 /\ \A e \in Channels : sessionOf[e] = sessionOf[d] => ~Waits(e)
      <3>1. sessionOf[d] \in Sessions
        BY SessionOfType
      <3>2. session[sessionOf[d]] = "stopped" /\ ~group[sessionOf[d]].exists
        BY <1>1, <2>3, <3>1 DEF Inv, PairInv
      <3>3. group[sessionOf[d]] = NoGroup
        BY <3>1, <3>2 DEF Inv, SessionInv
      <3>4. group[sessionOf[d]].mChannels = {} /\ ~group[sessionOf[d]].mBase
        BY <3>3 DEF NoGroup
      <3>5. \A e \in Channels : Queued(<<"getSocket", e>>) => group[sessionOf[e]].mBase
        BY DEF Inv, GroupsMapped, GroupsFound
      <3> QED BY <3>2, <3>4, <3>5 DEF Inv, ChannelInv
    <2> QED BY <1>2, <2>1, <2>2, <2>3 DEF clientOf
  <1>4. ASSUME NEW c \in Channels, Waits(c)' PROVE Waits(c) /\ c \notin Promise!Met
    <2>1. c \notin Promise!Met
      BY <1>2, <1>4
    <2>2. given'[c] = given[c]
      BY <2>1 DEF Promise!Met
    <2> QED BY <1>4, <2>1, <2>2 DEF Waits
  <1>5. Promise!Meet
    <2>1. given' \in [Channels -> Connections \cup {None}]
      BY <1>1
    <2>2. \A c \in Promise!Met :
            /\ c \in {d \in Channels : channel[d] \in {"waiting", "cancelling"} /\ given[d] = None}
            /\ given'[c] \in {k \in Connections : stage[k] = "named" \/ Queued(<<"read", k>>)}
            /\ Promise!Fits(c, given'[c])
      BY <1>2 DEF Promise!Fits, Waits, Offered, clientOf
    <2>3. \A c \in Promise!Met, d \in Channels :
            /\ c # d => given'[c] # given'[d]
            /\ given'[d] # None /\ sessionOf[c] = sessionOf[d] =>
                 setting.clientOf[given'[c]] = setting.clientOf[given'[d]]
            /\ given[d] # None /\ setting.clientOf[given'[c]] = setting.clientOf[given[d]] =>
                 sessionOf[c] = sessionOf[d] \/ Promise!Over(sessionOf[d])
      BY <1>3, SessionOfType DEF Promise!Over, Waits
    <2>4. {c \in Channels : channel[c] \in {"waiting", "cancelling"} /\ given[c] = None}'
            \subseteq {c \in Channels : channel[c] \in {"waiting", "cancelling"} /\ given[c] = None}
                      \ Promise!Met
      BY <1>4 DEF Waits
    <2>5. {k \in Connections : stage[k] = "named" \/ Queued(<<"read", k>>)}'
            \subseteq {k \in Connections : stage[k] = "named" \/ Queued(<<"read", k>>)}
                      \ {given'[c] : c \in Promise!Met}
      BY <1>2 DEF Offered
    <2>6. {t \in Sessions : session[t] = "stopped"} = {t \in Sessions : session[t] = "stopped"}'
      OBVIOUS
    <2> QED BY <2>1, <2>2, <2>3, <2>4, <2>5, <2>6 DEF Promise!Meet
  <1> QED
    BY <1>5 DEF Promise!Next

(* A channel asks when it is added; nothing else that users do matters.    *)
LEMMA UsersKeepPromise ==
  ASSUME Inv, UNCHANGED setting, Users
  PROVE  Promise!Next
  <1>1. strand \in Seq(Handlers) /\ TypeOK
    BY DEF Inv, TypeOK
  <1>2. ASSUME NEW h \in Handlers, Post(h), \A k \in Connections : h # <<"read", k>>,
               NEW k \in Connections, UNCHANGED stage, Offered(k)'
        PROVE  Offered(k)
    BY <1>1, <1>2, PostQueued DEF Offered
  <1>3. ASSUME NEW s \in Sessions, SessionStart(s) \/ SessionDiscard(s) \/ SessionStop(s)
        PROVE  Promise!Next
    <2>1. PICK h \in {"subscribe", "unsubscribe"} \X {s} : Post(h)
      BY <1>3 DEF SessionStart, SessionDiscard, SessionStop
    <2>2. h \in Handlers /\ \A k \in Connections : h # <<"read", k>>
      BY DEF Handlers
    <2>3. /\ UNCHANGED <<channel, given, stage>>
          /\ \A t \in Sessions : session[t] = "stopped" => session'[t] = "stopped"
      BY <1>1, <1>3 DEF SessionStart, SessionDiscard, SessionStop, TypeOK, pairing, sockets
    <2>4. \A c \in Channels : Waits(c)' => Waits(c)
      BY <2>3 DEF Waits
    <2> QED BY <1>1, <1>2, <2>1, <2>2, <2>3, <2>4, NobodyMeets
  <1>4. ASSUME NEW c \in Channels, Cancel(c)
        PROVE  Promise!Next
    <2>1. Post(<<"cancel", c>>) /\ <<"cancel", c>> \in Handlers
      BY <1>4 DEF Cancel, Handlers
    <2>2. UNCHANGED <<session, given, stage>>
      BY <1>4 DEF Cancel, pairing, sockets
    <2>3. \A d \in Channels : Waits(d)' => Waits(d)
      BY <1>1, <1>4, <2>2 DEF Cancel, Waits, TypeOK
    <2>4. \A k \in Connections : <<"cancel", c>> # <<"read", k>>
      OBVIOUS
    <2>5. \A k \in Connections : Offered(k)' => Offered(k)
      BY <1>2, <2>1, <2>2, <2>4
    <2> QED BY <1>1, <2>2, <2>3, <2>5, NobodyMeets
  <1>5. ASSUME NEW c \in Channels, CancelReturn(c)
        PROVE  Promise!Next
    <2>1. UNCHANGED <<session, given, stage, strand>>
      BY <1>5 DEF CancelReturn, pairing, sockets
    <2>2. \A d \in Channels : Waits(d)' => Waits(d)
      BY <1>1, <1>5, <2>1 DEF CancelReturn, Waits, TypeOK
    <2>3. \A k \in Connections : Offered(k)' => Offered(k)
      BY <2>1 DEF Offered, Queued
    <2> QED BY <1>1, <2>1, <2>2, <2>3, NobodyMeets
  <1>6. CASE ServiceStop \/ ServiceReturn
    <2>1. UNCHANGED <<session, channel, given, stage>>
      BY <1>6 DEF ServiceStop, ServiceReturn, pairing, sockets
    <2>2. \A k \in Connections : Offered(k)' => Offered(k)
      <3>1. CASE ServiceStop
        <4>1. /\ Post(<<"stop", None>>) /\ <<"stop", None>> \in Handlers
              /\ \A k \in Connections : <<"stop", None>> # <<"read", k>>
          BY <3>1 DEF ServiceStop, Handlers
        <4> QED BY <1>2, <2>1, <4>1
      <3>2. CASE ServiceReturn
        BY <2>1, <3>2 DEF ServiceReturn, Offered, Queued
      <3> QED BY <1>6, <3>1, <3>2
    <2>3. \A d \in Channels : Waits(d)' => Waits(d)
      BY <2>1 DEF Waits
    <2> QED BY <1>1, <2>1, <2>2, <2>3, NobodyMeets
  <1>7. ASSUME NEW c \in Channels, AddChannel(c)
        PROVE  Promise!Next
    <2>1. /\ channel[c] = "new" /\ session[sessionOf[c]] = "running"
          /\ channel' = [channel EXCEPT ![c] = IF mStopped THEN "refused" ELSE "waiting"]
          /\ UNCHANGED <<session, given, stage>>
      BY <1>7 DEF AddChannel, pairing, sockets
    <2>2. given[c] = None
      BY <2>1 DEF Inv, ChannelInv
    <2>3. \A k \in Connections : Offered(k)' <=> Offered(k)
      <3>1. CASE mStopped
        BY <1>7, <2>1, <3>1 DEF AddChannel, Offered, Queued
      <3>2. CASE ~mStopped
        <4>1. /\ Post(<<"getSocket", c>>) /\ <<"getSocket", c>> \in Handlers
              /\ \A k \in Connections : <<"getSocket", c>> # <<"read", k>>
          BY <1>7, <3>2 DEF AddChannel, Handlers
        <4>2. \A k \in Connections : Queued(<<"read", k>>)' <=> Queued(<<"read", k>>)
          BY <1>1, <4>1, PostQueued
        <4> QED BY <2>1, <4>2 DEF Offered
      <3> QED BY <3>1, <3>2
    <2>4. CASE mStopped
      <3>1. \A d \in Channels : Waits(d)' => Waits(d)
        BY <1>1, <2>1, <2>4 DEF Waits, TypeOK
      <3> QED BY <1>1, <2>1, <2>3, <3>1, NobodyMeets
    <2>5. CASE ~mStopped
      <3>1. channel'[c] = "waiting" /\ \A d \in Channels : d # c => channel'[d] = channel[d]
        BY <1>1, <2>1, <2>5 DEF TypeOK
      <3>2. {d \in Channels : channel[d] \in {"waiting", "cancelling"} /\ given[d] = None}'
              = {d \in Channels : channel[d] \in {"waiting", "cancelling"} /\ given[d] = None}
                \cup {c}
        BY <2>1, <2>2, <3>1
      <3>3. /\ c \notin {d \in Channels : channel[d] \in {"waiting", "cancelling"} /\ given[d] = None}
            /\ sessionOf[c] \notin {t \in Sessions : session[t] = "stopped"}
        BY <2>1
      <3>4. UNCHANGED {k \in Connections : stage[k] = "named" \/ Queued(<<"read", k>>)}
        BY <2>3 DEF Offered
      <3>5. Promise!Ask(c)
        BY <2>1, <2>2, <3>2, <3>3, <3>4 DEF Promise!Ask
      <3> QED BY <3>5 DEF Promise!Next
    <2> QED BY <2>4, <2>5
  <1> QED
    BY <1>3, <1>4, <1>5, <1>6, <1>7 DEF Users

(* A socket is offered when its string has come.                           *)
LEMMA NetworkKeepsPromise ==
  ASSUME Inv, UNCHANGED setting, Network
  PROVE  Promise!Next
  <1>1. strand \in Seq(Handlers) /\ TypeOK
    BY DEF Inv, TypeOK
  <1>2. UNCHANGED <<session, channel, given>>
    BY DEF Network, Callbacks, AcceptAborted, Connect, AcceptSocket, AcceptCallback,
           ReceiveHeader, ReceiveString, ReceiveFails, Receive, users, pairing
  <1>3. \A c \in Channels : Waits(c)' => Waits(c)
    BY <1>2 DEF Waits
  <1>4. ASSUME \A k \in Connections : Offered(k)' => Offered(k) PROVE Promise!Next
    BY <1>1, <1>2, <1>3, <1>4, NobodyMeets
  <1>5. CASE AcceptAborted
    <2>1. \A k \in Connections : <<"read", k>> \notin Repeats
      BY DEF Repeats, Erase
    <2>2. \A k \in Connections : Queued(<<"read", k>>)' => Queued(<<"read", k>>)
      BY <1>1, <1>5, <2>1, AbortQueued DEF Inv, AcceptAborted
    <2> QED BY <1>4, <1>5, <2>2 DEF AcceptAborted, Offered
  <1>6. ASSUME NEW k \in Connections, Connect(k) \/ AcceptSocket(k)
        PROVE  Promise!Next
    <2>1. UNCHANGED strand /\ stage' \in {[stage EXCEPT ![k] = "backlog"], [stage EXCEPT ![k] = "accepted"]}
      BY <1>6 DEF Connect, AcceptSocket
    <2>2. \A l \in Connections : stage'[l] = "named" => stage[l] = "named"
      BY <1>1, <2>1 DEF TypeOK
    <2> QED BY <1>4, <2>1, <2>2 DEF Offered, Queued
  <1>7. ASSUME NEW k \in Connections, AcceptCallback(k)
        PROVE  Promise!Next
    <2>1. /\ Post(<<"start", None>>) /\ <<"start", None>> \in Handlers
          /\ stage' \in {stage, [stage EXCEPT ![k] = "header"]}
      BY <1>7 DEF AcceptCallback, Handlers
    <2>2. \A l \in Connections : stage'[l] = "named" => stage[l] = "named"
      BY <1>1, <2>1 DEF TypeOK
    <2>3. \A l \in Connections : Queued(<<"read", l>>)' => Queued(<<"read", l>>)
      BY <1>1, <2>1, PostQueued
    <2> QED BY <1>4, <2>2, <2>3 DEF Offered
  <1>8. ASSUME NEW k \in Connections, NEW from, NEW to \in {"body", "read", "failed"}, NEW h,
               Receive(k, from, to, h), h = <<>> \/ h \in {<<"part", k>>, Erase(k)}
        PROVE  Promise!Next
    <2>1. /\ stage' = [stage EXCEPT ![k] = to]
          /\ IF h = <<>> THEN UNCHANGED strand ELSE Post(h)
      BY <1>8 DEF Receive
    <2>2. \A l \in Connections : stage'[l] = "named" => stage[l] = "named"
      BY <1>1, <2>1 DEF TypeOK
    <2>3. \A l \in Connections : Queued(<<"read", l>>)' => Queued(<<"read", l>>)
      <3>1. CASE h = <<>>
        BY <2>1, <3>1 DEF Queued
      <3>2. CASE h # <<>>
        <4>1. h \in Handlers /\ \A l \in Connections : h # <<"read", l>>
          BY <1>8, <3>2 DEF Handlers, Erase
        <4> QED BY <1>1, <2>1, <3>2, <4>1, PostQueued
      <3> QED BY <3>1, <3>2
    <2> QED BY <1>4, <2>2, <2>3 DEF Offered
  <1>9. ASSUME NEW k \in Connections, Receive(k, "body", "read", <<"read", k>>)
        PROVE  Promise!Next
    <2> DEFINE h == <<"read", k>>
    <2>1. /\ stage[k] = "body" /\ stage' = [stage EXCEPT ![k] = "read"]
          /\ Post(h) /\ h \in Handlers
      BY <1>9 DEF Receive, Handlers
    <2>2. ~Offered(k) /\ \A c \in Channels : given[c] # k
      BY <2>1 DEF Inv, SocketInv, Offered
    <2>3. /\ Queued(h)'
          /\ \A l \in Connections : l # k => (Queued(<<"read", l>>)' <=> Queued(<<"read", l>>))
      BY <1>1, <2>1, PostQueued
    <2>4. \A l \in Connections : Offered(l)' <=> Offered(l) \/ l = k
      BY <1>1, <2>1, <2>3 DEF Offered, TypeOK
    <2>5. {l \in Connections : stage[l] = "named" \/ Queued(<<"read", l>>)}'
            = {l \in Connections : stage[l] = "named" \/ Queued(<<"read", l>>)} \cup {k}
      BY <2>4 DEF Offered
    <2>6. k \notin {l \in Connections : stage[l] = "named" \/ Queued(<<"read", l>>)}
      BY <2>2 DEF Offered
    <2>7. Promise!Offer(k)
      BY <1>2, <2>2, <2>5, <2>6 DEF Promise!Offer
    <2> QED BY <2>7 DEF Promise!Next
  <1>10. ASSUME NEW k \in Connections, Callbacks(k) PROVE Promise!Next
    BY <1>7, <1>8, <1>9, <1>10 DEF Callbacks, ReceiveHeader, ReceiveString, ReceiveFails
  <1> QED
    BY <1>5, <1>6, <1>10 DEF Network
(* A handler that gives channels of session s sockets of client x.         *)
LEMMA GroupMeets ==
  ASSUME Inv, Inv', UNCHANGED <<setting, session, channel>>,
         NEW s \in Sessions, NEW x \in Clients,
         sessionName[s] = sessionName[x], group[s].exists,
         \/ mClaimedGroups[x] = s
         \/ mClaimedGroups[x] = None /\ s \in mUnclaimedGroups,
         NEW M \in SUBSET (Channels \X Connections), Give(M),
         \A c, k : <<c, k>> \in M =>
           /\ sessionOf[c] = s /\ Waits(c) /\ clientOf(k) = x /\ Offered(k)
           /\ channelName[c] = channelName[k],
         \A c, k, l : <<c, k>> \in M /\ <<c, l>> \in M => k = l,
         NEW g \in Groups, NEW stages \in [Connections -> Stages],
         Tidy([group EXCEPT ![s] = g], s, stages),
         \A k \in Connections : stages[k] = "named" => Offered(k),
         \A h : Queued(h)' => Queued(h)
  PROVE  Promise!Next
  <1>1. given \in [Channels -> Connections \cup {None}]
    BY DEF Inv, TypeOK
  <1>2. /\ \A c, k : <<c, k>> \in M => c \in Channels /\ k \in Connections
        /\ \A c \in Channels : given'[c] # given[c] => <<c, given'[c]>> \in M
    BY <1>1, GiveEffect
  <1>3. \A k \in Connections : stage'[k] # stages[k] => stage'[k] = "lost"
    BY TidyEffect
  <1>4. \A k \in Connections : Offered(k)' => Offered(k)
    BY <1>3 DEF Offered
  <1>5. ASSUME NEW c \in Channels, given'[c] # given[c]
        PROVE  /\ sessionOf[c] = s /\ Waits(c)
               /\ given'[c] \in Connections /\ clientOf(given'[c]) = x /\ Offered(given'[c])
               /\ channelName[c] = channelName[given'[c]]
    BY <1>2, <1>5
  <1> HIDE DEF clientOf
  <1> QED
    BY <1>4, <1>5, SomeMeet

LEMMA GetSocketPairedKeepsPromise ==
  ASSUME Inv, Inv', UNCHANGED setting, NEW c \in Channels, GetSocketPaired(c)
  PROVE  Promise!Next
  <1> DEFINE h == <<"getSocket", c>>
             s == sessionOf[c]
             x == mSessionID[s]
             M == Matches({c}, group[s].mSockets)
             g0 == [group[s] EXCEPT !.mChannels = @ \cup {c}]
             g == Without(g0, M)
             stages == [k \in Connections |-> IF <<c, k>> \in M THEN "given" ELSE stage[k]]
  <1>1. /\ Handle(h) /\ x # None /\ Give(M)
        /\ UNCHANGED <<session, channel>>
        /\ TidyMapped([group EXCEPT ![s] = g], s, stages)
    BY DEF GetSocketPaired, users
  <1>2. /\ Queued(h) /\ \A f : Queued(f)' => Queued(f)
    BY <1>1, HandleInv
  <1>3. s \in Sessions /\ x \in Clients
    BY <1>1, SessionOfType DEF Inv, TypeOK
  <1>4. /\ group[s].mBase /\ group[s].exists /\ mClaimedGroups[x] = s
        /\ sessionName[s] = sessionName[x]
    <2>1. group[s].mBase
      BY <1>2 DEF Inv, GroupsMapped, GroupsFound
    <2>2. group[s].exists /\ mClaimedGroups[x] = s
      BY <1>1, <1>3, <2>1 DEF Inv, GroupsMapped, MapsAgree, groupHasSubscriptions
    <2>3. s # None
      BY <1>3, AcceptorAssumption
    <2> QED BY <1>3, <2>1, <2>2, <2>3 DEF Inv, PairInv
  <1>5. /\ group[s] \in Groups /\ g0 \in Groups /\ group[s].mSockets \subseteq Connections
    <2>1. group \in [Sessions -> Groups] /\ c \in Channels
      BY DEF Inv, TypeOK, Groups
    <2> HIDE DEF s
    <2> QED BY <1>3, <2>1 DEF Groups
  <1>6. /\ M \in SUBSET (Channels \X Connections)
        /\ \A d, k : <<d, k>> \in M <=>
             d = c /\ k \in group[s].mSockets /\ channelName[c] = channelName[k]
    BY <1>5, MatchFacts
  <1>7. g \in Groups
    <2> HIDE DEF M, g0
    <2> QED BY <1>5, <1>6, WithoutFacts
  <1>8. stages \in [Connections -> Stages]
    BY DEF Inv, TypeOK, Stages
  <1>9. \A k \in Connections : stages[k] = "named" => Offered(k)
    BY DEF Offered
  <1>10. Waits(c)
    BY <1>2 DEF Inv, ChannelInv
  <1>11. Tidy([group EXCEPT ![s] = g], s, stages)
    <2> HIDE DEF g, stages
    <2> QED BY <1>1 DEF TidyMapped
  <1>12. \A k \in group[s].mSockets : clientOf(k) = x /\ Offered(k)
    <2>1. \A k \in group[s].mSockets :
            stage[k] = "named" /\ mClaimedGroups[clientOf(k)] = s /\ clientOf(k) \in Clients
      <3>1. \A k \in group[s].mSockets : stage[k] = "named" /\ mClaimedGroups[clientOf(k)] = s
        BY <1>3, <1>5 DEF Inv, SocketInv
      <3>2. \A k \in Connections : clientOf(k) \in Clients
        BY AcceptorAssumption DEF Inv, TypeOK, clientOf
      <3> QED BY <1>5, <3>1, <3>2
    <2>2. s # None
      BY <1>3, AcceptorAssumption
    <2> QED BY <1>3, <1>4, <2>1, <2>2 DEF Inv, GroupsMapped, MapsAgree, Offered
  <1> HIDE DEF M, g0, g, stages, x, s
  <1>13. \A d, k, l : <<d, k>> \in M /\ <<d, l>> \in M => k = l
    BY <1>3, <1>6, GroupClient
  <1>14. \A d, k : <<d, k>> \in M =>
           /\ sessionOf[d] = s /\ Waits(d) /\ clientOf(k) = x /\ Offered(k)
           /\ channelName[d] = channelName[k]
    BY <1>6, <1>10, <1>12 DEF s
  <1> QED
    BY <1>1, <1>2, <1>3, <1>4, <1>6, <1>7, <1>8, <1>9, <1>11, <1>13, <1>14, GroupMeets

LEMMA SetSocketPairedKeepsPromise ==
  ASSUME Inv, Inv', UNCHANGED setting, NEW k \in Connections, NameSocket(k), SetSocketPaired(k)
  PROVE  Promise!Next
  <1> DEFINE x == clientOf(k)
             s == mClaimedGroups[x]
             M == Matches(group[s].mChannels, {k})
             g0 == [group[s] EXCEPT !.mSockets = @ \cup {k}]
             g == Without(g0, M)
             stages == [stage EXCEPT ![k] = IF M = {} THEN "named" ELSE "given"]
  <1>1. /\ s # None /\ Give(M)
        /\ TidyMapped([group EXCEPT ![s] = g], s, stages)
    BY DEF SetSocketPaired
  <1>2. /\ \A f : Queued(f)' => Queued(f)
        /\ x \in Clients /\ UNCHANGED <<session, channel>>
    BY Naming
  <1>3. Offered(k)
    BY HandleInv DEF NameSocket, Offered
  <1>4. /\ s \in Sessions /\ group[s].exists /\ sessionName[s] = sessionName[x]
    BY <1>1, <1>2 DEF Inv, TypeOK, GroupsMapped, MapsAgree, PairInv
  <1>5. /\ group[s] \in Groups /\ g0 \in Groups /\ group[s].mChannels \subseteq Channels
    <2>1. group \in [Sessions -> Groups]
      BY DEF Inv, TypeOK, Groups
    <2> HIDE DEF s
    <2> QED BY <1>4, <2>1 DEF Groups
  <1>6. /\ M \in SUBSET (Channels \X Connections)
        /\ \A d, l : <<d, l>> \in M <=>
             d \in group[s].mChannels /\ l = k /\ channelName[d] = channelName[k]
    BY <1>5, MatchFacts
  <1>7. g \in Groups
    <2> HIDE DEF M, g0
    <2> QED BY <1>5, <1>6, WithoutFacts
  <1>8. stages \in [Connections -> Stages]
    <2> HIDE DEF M
    <2> QED BY DEF Inv, TypeOK, Stages
  <1>9. \A l \in Connections : stages[l] = "named" => Offered(l)
    <2> HIDE DEF M
    <2>1. \A l \in Connections : l # k => stages[l] = stage[l]
      BY DEF Inv, TypeOK
    <2> QED BY <1>3, <2>1 DEF Offered
  <1>10. Tidy([group EXCEPT ![s] = g], s, stages)
    <2> HIDE DEF g, stages
    <2> QED BY <1>1 DEF TidyMapped
  <1>11. \A d \in group[s].mChannels : sessionOf[d] = s /\ Waits(d)
    BY <1>4, <1>5 DEF Inv, ChannelInv
  <1> HIDE DEF M, g0, g, stages, s
  <1>12. \A d, l : <<d, l>> \in M =>
           /\ sessionOf[d] = s /\ Waits(d) /\ clientOf(l) = x /\ Offered(l)
           /\ channelName[d] = channelName[l]
    BY <1>3, <1>6, <1>11
  <1>13. \A d, l, m : <<d, l>> \in M /\ <<d, m>> \in M => l = m
    BY <1>6
  <1>14. mClaimedGroups[x] = s
    BY DEF s
  <1> HIDE DEF x
  <1> QED
    BY <1>1, <1>2, <1>4, <1>6, <1>7, <1>8, <1>9, <1>10, <1>12, <1>13, <1>14, GroupMeets

LEMMA ClaimKeepsPromise ==
  ASSUME Inv, Inv', UNCHANGED <<setting, session, channel>>,
         NEW s \in mUnclaimedGroups, NEW x \in Clients, NEW g \in Groups,
         NEW K \in SUBSET Connections, Claim(s, x, g, K),
         sessionName[s] = sessionName[x], group[s].exists, mClaimedGroups[x] = None,
         \A c \in g.mChannels : sessionOf[c] = s /\ Waits(c),
         \A k \in K : clientOf(k) = x /\ Offered(k),
         \A f : Queued(f)' => Queued(f)
  PROVE  Promise!Next
  <1> DEFINE M == Matches(g.mChannels, K)
             g1 == [g EXCEPT !.mSockets = @ \cup K]
             merged == Without(g1, M)
             stages == [k \in Connections |->
                          IF \E c \in Channels : <<c, k>> \in M THEN "given"
                          ELSE IF k \in K THEN "named" ELSE stage[k]]
  <1>1. /\ Give(M) /\ Tidy([group EXCEPT ![s] = merged], s, stages)
    BY DEF Claim
  <1>2. s \in Sessions /\ g.mChannels \subseteq Channels /\ g1 \in Groups
    BY DEF Inv, TypeOK, Groups
  <1>3. /\ M \in SUBSET (Channels \X Connections)
        /\ \A c, k : <<c, k>> \in M <=>
             c \in g.mChannels /\ k \in K /\ channelName[c] = channelName[k]
    BY <1>2, MatchFacts
  <1>4. merged \in Groups
    <2> HIDE DEF M, g1
    <2> QED BY <1>2, <1>3, WithoutFacts
  <1>5. stages \in [Connections -> Stages]
    BY DEF Inv, TypeOK, Stages
  <1>6. \A k \in Connections : stages[k] = "named" => Offered(k)
    BY DEF Offered
  <1> HIDE DEF M, g1, merged, stages
  <1>7. ASSUME NEW c, NEW k, NEW l, <<c, k>> \in M, <<c, l>> \in M PROVE k = l
    <2>1. k \in K /\ l \in K /\ channelName[k] = channelName[l]
      BY <1>3, <1>7
    <2>2. clientOf(k) = x /\ clientOf(l) = x
      BY <2>1
    <2> QED BY <2>1, <2>2, NamesAssumption DEF Inv, TypeOK, clientOf
  <1>8. \A c, k : <<c, k>> \in M =>
          /\ sessionOf[c] = s /\ Waits(c) /\ clientOf(k) = x /\ Offered(k)
          /\ channelName[c] = channelName[k]
    BY <1>3
  <1> QED
    BY <1>1, <1>2, <1>3, <1>4, <1>5, <1>6, <1>7, <1>8, GroupMeets

LEMMA SetSocketMatchedKeepsPromise ==
  ASSUME Inv, Inv', UNCHANGED setting, NEW k \in Connections, NameSocket(k), SetSocketMatched(k)
  PROVE  Promise!Next
  <1> DEFINE x == clientOf(k)
             K == mSockets[x] \cup {k}
  <1>1. /\ \A f : Queued(f)' => Queued(f)
        /\ x \in Clients /\ UNCHANGED <<session, channel>>
    BY Naming
  <1>2. PICK s \in GroupsFor(k) : Claim(s, x, group[s], K)
    BY DEF SetSocketMatched
  <1>3. mClaimedGroups[x] = None
    BY DEF SetSocketMatched
  <1>4. s \in mUnclaimedGroups /\ s \in Sessions /\ sessionName[s] = sessionName[x]
    BY DEF GroupsFor, Inv, TypeOK
  <1>5. group[s] \in Groups /\ group[s].exists /\ K \in SUBSET Connections
    BY <1>1, <1>4 DEF Inv, TypeOK, Groups, GroupsMapped, MapsAgree
  <1>6. \A c \in group[s].mChannels : sessionOf[c] = s /\ Waits(c)
    BY <1>4, <1>5 DEF Inv, ChannelInv, Groups
  <1>7. Offered(k)
    BY HandleInv DEF NameSocket, Offered
  <1>8. \A l \in K : clientOf(l) = x /\ Offered(l)
    <2>1. \A l \in mSockets[x] : l \in Connections /\ stage[l] = "named" /\ clientOf(l) = x
      BY <1>1, <1>5 DEF Inv, SocketInv
    <2> QED BY <1>7, <2>1 DEF Offered
  <1> HIDE DEF x, K
  <1> QED
    BY <1>1, <1>2, <1>3, <1>4, <1>5, <1>6, <1>8, ClaimKeepsPromise

LEMMA SetSocketWaitsKeepsPromise ==
  ASSUME Inv, UNCHANGED setting, NEW k \in Connections, NameSocket(k), SetSocketWaits(k)
  PROVE  Promise!Next
  <1>1. (\A f : Queued(f)' => Queued(f)) /\ UNCHANGED <<session, channel>>
    BY Naming
  <1>2. Offered(k)
    BY HandleInv DEF NameSocket, Offered
  <1>3. stage' = [stage EXCEPT ![k] = "named"] /\ UNCHANGED given
    BY DEF SetSocketWaits
  <1>4. \A l \in Connections : Offered(l)' => Offered(l)
    BY <1>1, <1>2, <1>3 DEF Offered, Inv, TypeOK
  <1>5. (\A c \in Channels : Waits(c)' => Waits(c)) /\ TypeOK
    BY <1>1, <1>3 DEF Waits, Inv
  <1> QED
    BY <1>1, <1>3, <1>4, <1>5, NobodyMeets

LEMMA GetSocketKeepsPromise ==
  ASSUME Inv, Inv', UNCHANGED setting, NEW c \in Channels, GetSocket(c)
  PROVE  Promise!Next
  <1> DEFINE s == sessionOf[c]
             g == [group[s] EXCEPT !.mChannels = @ \cup {c}]
  <1>1. Handle(<<"getSocket", c>>) /\ mSessionID[s] = None
    BY DEF GetSocket
  <1>2. Queued(<<"getSocket", c>>) /\ \A f : Queued(f)' => Queued(f)
    BY <1>1, HandleInv
  <1>3. s \in Sessions
    BY SessionOfType
  <1>4. group[s] \in Groups /\ g \in Groups /\ g.mChannels = group[s].mChannels \cup {c}
    <2>1. group \in [Sessions -> Groups]
      BY DEF Inv, TypeOK, Groups
    <2> HIDE DEF s
    <2>2. group[s] \in Groups
      BY <1>3, <2>1 DEF s
    <2> QED BY <2>2 DEF Groups
  <1>5. group[s].exists /\ s \in mUnclaimedGroups
    <2>1. group[s].mBase
      BY <1>2 DEF Inv, GroupsMapped, GroupsFound
    <2> QED BY <1>1, <1>3, <2>1 DEF Inv, GroupsMapped, MapsAgree, groupHasSubscriptions
  <1>6. \A d \in g.mChannels : sessionOf[d] = s /\ Waits(d)
    <2>1. Waits(c)
      BY <1>2 DEF Inv, ChannelInv
    <2>2. \A d \in group[s].mChannels : sessionOf[d] = s /\ Waits(d)
      BY <1>3, <1>4 DEF Inv, ChannelInv, Groups
    <2> QED BY <1>4, <2>1, <2>2
  <1>7. ASSUME NEW x \in ClientsFor(c), Claim(s, x, g, mSockets[x]), UNCHANGED users
        PROVE  Promise!Next
    <2>1. /\ x \in mUnclaimedSockets /\ x \in Clients /\ sessionName[x] = sessionName[s]
          /\ mSockets[x] \in SUBSET Connections /\ UNCHANGED <<session, channel>>
      BY <1>7 DEF Inv, TypeOK, ClientsFor, users
    <2>2. mClaimedGroups[x] = None
      BY <2>1 DEF Inv, GroupsMapped, MapsAgree
    <2>3. \A k \in mSockets[x] : clientOf(k) = x /\ Offered(k)
      BY <2>1 DEF Inv, SocketInv, Offered
    <2> HIDE DEF s, g
    <2> QED BY <1>2, <1>4, <1>5, <1>6, <1>7, <2>1, <2>2, <2>3, ClaimKeepsPromise
  <1>8. CASE UNCHANGED <<users, given, sockets>>
    <2>1. UNCHANGED <<session, channel, given, stage>> /\ TypeOK
      BY <1>8 DEF users, sockets, Inv
    <2>2. /\ \A k \in Connections : Offered(k)' => Offered(k)
          /\ \A d \in Channels : Waits(d)' => Waits(d)
      BY <1>2, <2>1 DEF Offered, Waits
    <2> QED BY <2>1, <2>2, NobodyMeets
  <1> QED
    BY <1>7, <1>8 DEF GetSocket
(* Handlers in which nobody meets.                                         *)
LEMMA ShrinkKeepsPromise ==
  ASSUME Inv, UNCHANGED <<setting, given>>, NEW h, Handle(h),
         \A c \in Channels : channel'[c] # channel[c] => channel'[c] = "cancelled",
         \A k \in Connections : stage'[k] = "named" => stage[k] = "named",
         \A s \in Sessions : session[s] = "stopped" => session'[s] = "stopped"
  PROVE  Promise!Next
  <1>1. \A f : Queued(f)' => Queued(f)
    BY HandleInv
  <1>2. \A k \in Connections : Offered(k)' => Offered(k)
    BY <1>1 DEF Offered
  <1>3. (\A c \in Channels : Waits(c)' => Waits(c)) /\ TypeOK
    BY DEF Waits, Inv
  <1> QED
    BY <1>2, <1>3, NobodyMeets

LEMMA TidyStages ==
  ASSUME Inv, NEW s \in Sessions, NEW g \in Groups, Tidy([group EXCEPT ![s] = g], s, stage)
  PROVE  \A k \in Connections : stage'[k] = "named" => stage[k] = "named"
  <1>1. stage \in [Connections -> Stages]
    BY DEF Inv, TypeOK
  <1>2. \A k \in Connections : stage'[k] # stage[k] => stage'[k] = "lost"
    BY <1>1, TidyEffect
  <1> QED
    BY <1>2

LEMMA UnsubscribeKeepsPromise ==
  ASSUME Inv, UNCHANGED setting, NEW s \in Sessions, Unsubscribe(s)
  PROVE  Promise!Next
  <1> DEFINE g == [group[s] EXCEPT !.mBase = FALSE]
  <1>1. /\ Handle(<<"unsubscribe", s>>) /\ UNCHANGED <<channel, given>>
        /\ session' = [session EXCEPT ![s] = "stopped"]
    BY DEF Unsubscribe
  <1>2. \A t \in Sessions : session[t] = "stopped" => session'[t] = "stopped"
    BY <1>1 DEF Inv, TypeOK
  <1>3. CASE group[s].exists
    <2>1. group \in [Sessions -> Groups] /\ g \in Groups
      <3>1. group \in [Sessions -> Groups]
        BY DEF Inv, TypeOK, Groups
      <3> QED BY <3>1 DEF Groups
    <2>2. [group EXCEPT ![s].mBase = FALSE] = [group EXCEPT ![s] = g]
      BY <2>1
    <2>3. Tidy([group EXCEPT ![s].mBase = FALSE], s, stage)
      BY <1>3 DEF Unsubscribe, TidyMapped
    <2> HIDE DEF g
    <2> QED BY <1>1, <1>2, <2>1, <2>2, <2>3, TidyStages, ShrinkKeepsPromise
  <1>4. CASE ~group[s].exists
    <2>1. UNCHANGED stage
      BY <1>4 DEF Unsubscribe
    <2> QED BY <1>1, <1>2, <2>1, ShrinkKeepsPromise
  <1> QED
    BY <1>3, <1>4

LEMMA CancelPendingKeepsPromise ==
  ASSUME Inv, UNCHANGED setting, NEW c \in Channels, CancelPending(c)
  PROVE  Promise!Next
  <1> DEFINE s == sessionOf[c]
             g == [group[s] EXCEPT !.mChannels = @ \ {c}]
  <1>1. /\ Handle(<<"cancel", c>>) /\ UNCHANGED <<session, given>>
        /\ channel' \in {channel, [channel EXCEPT ![c] = "cancelled"]}
    BY DEF CancelPending
  <1>2. \A d \in Channels : channel'[d] # channel[d] => channel'[d] = "cancelled"
    BY <1>1 DEF Inv, TypeOK
  <1>3. s \in Sessions
    BY SessionOfType
  <1>4. CASE group[s].exists
    <2>1. group \in [Sessions -> Groups]
      BY DEF Inv, TypeOK, Groups
    <2>2. Tidy([group EXCEPT ![s].mChannels = @ \ {c}], s, stage)
      BY <1>4 DEF CancelPending, TidyMapped
    <2> HIDE DEF s
    <2>3. g \in Groups
      BY <1>3, <2>1 DEF Groups
    <2>4. [group EXCEPT ![s].mChannels = @ \ {c}] = [group EXCEPT ![s] = g]
      BY <1>3, <2>1
    <2> HIDE DEF g
    <2> QED BY <1>1, <1>2, <1>3, <2>2, <2>3, <2>4, TidyStages, ShrinkKeepsPromise
  <1>5. CASE ~group[s].exists
    <2>1. UNCHANGED stage
      BY <1>5 DEF CancelPending
    <2> QED BY <1>1, <1>2, <2>1, ShrinkKeepsPromise
  <1> QED
    BY <1>4, <1>5

LEMMA RunStrandKeepsPromise ==
  ASSUME Inv, Inv', UNCHANGED setting, RunStrand
  PROVE  Promise!Next
  <1>1. CASE Start \/ Stop
    <2>1. /\ \E h : Handle(h)
          /\ UNCHANGED <<session, channel, given>>
          /\ stage' \in {stage, [k \in Connections |-> IF stage[k] = "backlog" THEN "lost"
                                                       ELSE stage[k]]}
      BY <1>1 DEF Start, Stop, users, pairing
    <2> QED BY <2>1, ShrinkKeepsPromise
  <1>2. ASSUME NEW s \in Sessions, Subscribe(s) PROVE Promise!Next
    <2>1. /\ Handle(<<"subscribe", s>>) /\ UNCHANGED <<channel, given, stage>>
          /\ \A t \in Sessions : t # s => session'[t] = session[t]
      BY <1>2 DEF Subscribe, Inv, TypeOK
    <2>2. session[s] = "starting"
      BY <2>1, HandleInv DEF Inv, SessionInv
    <2> QED BY <2>1, <2>2, ShrinkKeepsPromise
  <1>3. ASSUME NEW k \in Connections \cup {None}, EraseSocket(k) PROVE Promise!Next
    <2>1. /\ Handle(Erase(k)) /\ UNCHANGED <<session, channel, given>>
          /\ stage' \in {stage, [stage EXCEPT ![k] = "lost"]}
      BY <1>3 DEF EraseSocket, users, pairing
    <2>2. \A l \in Connections : stage'[l] = "named" => stage[l] = "named"
      BY <2>1 DEF Inv, TypeOK
    <2> QED BY <2>1, <2>2, ShrinkKeepsPromise
  <1>4. ASSUME NEW k \in Connections, DropSocket(k) PROVE Promise!Next
    <2>1. /\ Handle(<<"part", k>>) /\ UNCHANGED <<session, channel, given>>
          /\ stage' = [stage EXCEPT ![k] = "lost"]
      BY <1>4 DEF DropSocket, users, pairing
    <2>2. \A l \in Connections : stage'[l] = "named" => stage[l] = "named"
      BY <2>1 DEF Inv, TypeOK
    <2> QED BY <2>1, <2>2, ShrinkKeepsPromise
  <1>5. ASSUME NEW k \in Connections, NameSocket(k) PROVE Promise!Next
    <2>1. SetSocketPaired(k) \/ SetSocketMatched(k) \/ SetSocketWaits(k)
      BY <1>5 DEF NameSocket
    <2> QED BY <1>5, <2>1, SetSocketPairedKeepsPromise, SetSocketMatchedKeepsPromise,
               SetSocketWaitsKeepsPromise
  <1> QED
    BY <1>1, <1>2, <1>3, <1>4, <1>5, UnsubscribeKeepsPromise, CancelPendingKeepsPromise,
       GetSocketPairedKeepsPromise, GetSocketKeepsPromise DEF RunStrand

LEMMA InitPromises == Init => Promise!Init
  <1> SUFFICES ASSUME Init PROVE Promise!Init
    OBVIOUS
  <1>1. setting.clientOf \in [Connections -> Clients]
    BY AcceptorAssumption DEF Init
  <1>2. \A h : ~Queued(h)
    BY DEF Init, Queued
  <1> QED
    BY <1>1, <1>2 DEF Init, Promise!Init

LEMMA NextPromises == Inv /\ Inv' /\ [Next]_vars => [Promise!Next]_(Promise!vars)
  <1> SUFFICES ASSUME Inv, Inv', [Next]_vars PROVE [Promise!Next]_(Promise!vars)
    OBVIOUS
  <1>1. CASE Next
    BY <1>1, UsersKeepPromise, NetworkKeepsPromise, RunStrandKeepsPromise DEF Next, Step
  <1>2. CASE UNCHANGED vars
    BY <1>2 DEF vars, users, pairing, sockets, Promise!vars, Queued
  <1> QED
    BY <1>1, <1>2

(* Whatever sessions, clients and networks do, channels and sockets meet as*)
(* Rendezvous promises.                                                    *)
THEOREM KeepsItsPromise == Spec => KeepsPromise
  BY InitPromises, NextPromises, Invariance, PTL DEF Spec, KeepsPromise, Promise!Spec

-----------------------------------------------------------------------------
(* Stopping.                                                               *)

(* A socket whose callback of async_accept has posted, or will, that the   *)
(* next accept be begun, and whose own handler is not on the strand yet.   *)
Trying == {"accepted", "header", "body"}

PendingSet == {k \in Connections : stage[k] \in Pending}

NoSockets == accepts = 0 /\ aborted = 0 /\ ~Queued(Erase(None)) /\ PendingSet = {}

(* A handler that begins an accept runs before the pending socket whose    *)
(* callback posted it is erased.                                           *)
Followed ==
  \A i \in DOMAIN strand :
    strand[i] = <<"start", None>> =>
      \E j \in DOMAIN strand : i < j /\ strand[j][1] \in {"erase", "read", "part"}

StopsOnce ==
  \A i, j \in DOMAIN strand :
    strand[i] = <<"stop", None>> /\ strand[j] = <<"stop", None>> => i = j

(* Acceptor::stop runs once. From then on the acceptor does not listen, the*)
(* sockets only become fewer and so do the groups, so that either promise  *)
(* is set at the one moment when nothing is left.                          *)
StopInv ==
  /\ ~mListening => accepts = 0 /\ \A k \in Connections : stage[k] # "backlog"
  /\ mStopped => ~mListening /\ service # "running"
  /\ Queued(<<"stop", None>>) => ~mStopped /\ service = "stopping"
  /\ StopsOnce
  /\ IsFiniteSet(PendingSet)
  /\ emptyProm = IF mStopped /\ NoSockets THEN 1 ELSE 0
  /\ stoppedProm \in {0, 1}
  /\ stoppedProm = 1 => mStopped /\ ~hasSubscriptions(group)
  /\ service = "returned" => emptyProm = 1 /\ stoppedProm = 1
  /\ (\E k \in Connections : stage[k] \in Trying) \/ Followed

(* pendingSockets counts what is pending.                                  *)
LEMMA SumIsZero ==
  ASSUME NEW a \in Nat, NEW b \in Nat, NEW S, NEW T, IsFiniteSet(S), IsFiniteSet(T)
  PROVE  a + b + Cardinality(S) + Cardinality(T) = 0 <=> a = 0 /\ b = 0 /\ S = {} /\ T = {}
  <1>1. PICK s \in Nat, t \in Nat : s = Cardinality(S) /\ t = Cardinality(T)
    BY FS_CardinalityType
  <1>2. (s = 0 <=> S = {}) /\ (t = 0 <=> T = {})
    BY <1>1, FS_EmptySet
  <1>3. a + b + s + t \in Nat /\ (a + b + s + t = 0 <=> a = 0 /\ b = 0 /\ s = 0 /\ t = 0)
    OBVIOUS
  <1> QED BY <1>1, <1>2, <1>3

LEMMA PositionsFinite ==
  ASSUME NEW q \in Seq(Handlers), NEW h
  PROVE  IsFiniteSet({i \in DOMAIN q : q[i] = h})
  <1>1. PICK n \in Nat : DOMAIN q = 1 .. n
    OBVIOUS
  <1>2. IsFiniteSet(1 .. n)
    BY FS_Interval
  <1> QED BY <1>1, <1>2, FS_Subset

LEMMA PendingCount ==
  ASSUME TypeOK, IsFiniteSet(PendingSet)
  PROVE  pendingSockets = 0 <=> NoSockets
  <1>1. IsFiniteSet(Erasing)
    BY PositionsFinite DEF Erasing, TypeOK
  <1>2. Erasing = {} <=> ~Queued(Erase(None))
    BY DEF Erasing, Queued, Erase
  <1>3. accepts \in Nat /\ aborted \in Nat
    BY DEF TypeOK
  <1>4. pendingSockets = 0 <=>
          accepts = 0 /\ aborted = 0 /\ Erasing = {} /\ PendingSet = {}
    <2> DEFINE S == Erasing
               T == PendingSet
    <2>1. pendingSockets = accepts + aborted + Cardinality(S) + Cardinality(T)
      BY DEF pendingSockets, PendingSet
    <2>2. IsFiniteSet(S) /\ IsFiniteSet(T)
      BY <1>1
    <2> HIDE DEF S, T
    <2>3. PICK a \in Nat, b \in Nat : a = accepts /\ b = aborted
      BY <1>3
    <2>4. a + b + Cardinality(S) + Cardinality(T) = 0 <=> a = 0 /\ b = 0 /\ S = {} /\ T = {}
      BY <2>2, SumIsZero
    <2>5. pendingSockets = a + b + Cardinality(S) + Cardinality(T)
      BY <2>1, <2>3
    <2>6. pendingSockets = 0 <=> accepts = 0 /\ aborted = 0 /\ S = {} /\ T = {}
      BY <2>3, <2>4, <2>5
    <2> QED BY <2>6 DEF S, T
  <1> QED BY <1>2, <1>4 DEF NoSockets

LEMMA PendingCountNext ==
  ASSUME TypeOK', IsFiniteSet(PendingSet)'
  PROVE  pendingSockets' = 0 <=> NoSockets'
  <1>1. IsFiniteSet(Erasing')
    BY PositionsFinite DEF Erasing, TypeOK
  <1>2. Erasing' = {} <=> ~Queued(Erase(None))'
    BY DEF Erasing, Queued, Erase
  <1>3. accepts' \in Nat /\ aborted' \in Nat
    BY DEF TypeOK
  <1>4. pendingSockets' = 0 <=>
          accepts' = 0 /\ aborted' = 0 /\ Erasing' = {} /\ PendingSet' = {}
    <2> DEFINE S == Erasing'
               T == PendingSet'
    <2>1. pendingSockets' = accepts' + aborted' + Cardinality(S) + Cardinality(T)
      BY DEF pendingSockets, PendingSet
    <2>2. IsFiniteSet(S) /\ IsFiniteSet(T)
      BY <1>1
    <2> HIDE DEF S, T
    <2>3. PICK a \in Nat, b \in Nat : a = accepts' /\ b = aborted'
      BY <1>3
    <2>4. a + b + Cardinality(S) + Cardinality(T) = 0 <=> a = 0 /\ b = 0 /\ S = {} /\ T = {}
      BY <2>2, SumIsZero
    <2>5. pendingSockets' = a + b + Cardinality(S) + Cardinality(T)
      BY <2>1, <2>3
    <2>6. pendingSockets' = 0 <=> accepts' = 0 /\ aborted' = 0 /\ S = {} /\ T = {}
      BY <2>3, <2>4, <2>5
    <2> QED BY <2>6 DEF S, T
  <1> QED BY <1>2, <1>4 DEF NoSockets

(* The order of the strand.                                                *)
LEMMA PostOrder ==
  ASSUME strand \in Seq(Handlers), NEW h \in Handlers, Post(h)
  PROVE  /\ StopsOnce /\ (h # <<"stop", None>> \/ ~Queued(<<"stop", None>>)) => StopsOnce'
         /\ Followed /\ h # <<"start", None>> => Followed'
         /\ h[1] \in {"erase", "read", "part"} => Followed'
  <1>1. /\ strand' \in Seq(Handlers) /\ Len(strand') = Len(strand) + 1
        /\ strand'[Len(strand) + 1] = h /\ Len(strand) \in Nat
        /\ \A i \in 1 .. Len(strand) : strand'[i] = strand[i]
        /\ DOMAIN strand = 1 .. Len(strand) /\ DOMAIN strand' = 1 .. Len(strand) + 1
    BY DEF Post
  <1>0. \A i \in DOMAIN strand' :
          \/ i = Len(strand) + 1 /\ strand'[i] = h
          \/ i \in DOMAIN strand /\ i < Len(strand) + 1 /\ strand'[i] = strand[i]
    BY <1>1
  <1>2. ASSUME StopsOnce, h # <<"stop", None>> \/ ~Queued(<<"stop", None>>) PROVE StopsOnce'
    BY <1>0, <1>2 DEF StopsOnce, Queued
  <1>3. ASSUME Followed, h # <<"start", None>> PROVE Followed'
    <2>1. ASSUME NEW i \in DOMAIN strand', strand'[i] = <<"start", None>>
          PROVE  \E j \in DOMAIN strand' : i < j /\ strand'[j][1] \in {"erase", "read", "part"}
      <3>1. i \in DOMAIN strand /\ strand[i] = <<"start", None>>
        BY <1>0, <1>3, <2>1
      <3>2. PICK j \in DOMAIN strand : i < j /\ strand[j][1] \in {"erase", "read", "part"}
        BY <1>3, <3>1 DEF Followed
      <3> QED BY <1>1, <3>2
    <2> QED BY <2>1 DEF Followed
  <1>4. ASSUME h[1] \in {"erase", "read", "part"} PROVE Followed'
    <2>1. ASSUME NEW i \in DOMAIN strand', strand'[i] = <<"start", None>>
          PROVE  \E j \in DOMAIN strand' : i < j /\ strand'[j][1] \in {"erase", "read", "part"}
      <3>1. i < Len(strand) + 1
        BY <1>0, <1>4, <2>1
      <3> QED BY <1>1, <1>4, <3>1
    <2> QED BY <2>1 DEF Followed
  <1> QED BY <1>2, <1>3, <1>4

LEMMA HandleOrder ==
  ASSUME strand \in Seq(Handlers), StopsOnce, NEW h, Handle(h)
  PROVE  /\ StopsOnce'
         /\ h = <<"stop", None>> => ~Queued(<<"stop", None>>)'
         /\ Followed => Followed'
  <1>1. /\ strand # <<>> /\ strand[1] = h /\ Len(strand) \in Nat \ {0}
        /\ strand' \in Seq(Handlers) /\ Len(strand') = Len(strand) - 1
        /\ \A i \in 1 .. Len(strand) - 1 : strand'[i] = strand[i + 1]
        /\ DOMAIN strand = 1 .. Len(strand) /\ DOMAIN strand' = 1 .. Len(strand) - 1
    BY DEF Handle
  <1>0. \A i \in DOMAIN strand' :
          i \in Int /\ i + 1 \in DOMAIN strand /\ strand[i + 1] = strand'[i] /\ i + 1 # 1
    BY <1>1
  <1>2. StopsOnce'
    <2>1. ASSUME NEW i \in DOMAIN strand', NEW j \in DOMAIN strand',
                 strand'[i] = <<"stop", None>>, strand'[j] = <<"stop", None>>
          PROVE  i = j
      <3>1. i + 1 = j + 1
        BY <1>0, <2>1 DEF StopsOnce
      <3> QED BY <1>0, <3>1
    <2> QED BY <2>1 DEF StopsOnce
  <1>3. ASSUME h = <<"stop", None>> PROVE ~Queued(<<"stop", None>>)'
    BY <1>0, <1>1, <1>3 DEF Queued, StopsOnce
  <1>4. ASSUME Followed PROVE Followed'
    <2>1. ASSUME NEW i \in DOMAIN strand', strand'[i] = <<"start", None>>
          PROVE  \E j \in DOMAIN strand' : i < j /\ strand'[j][1] \in {"erase", "read", "part"}
      <3>1. i + 1 \in DOMAIN strand /\ strand[i + 1] = <<"start", None>> /\ i \in Int /\ i >= 1
        BY <1>0, <1>1, <2>1
      <3>2. PICK j \in DOMAIN strand : i + 1 < j /\ strand[j][1] \in {"erase", "read", "part"}
        BY <1>4, <3>1 DEF Followed
      <3>3. j - 1 \in DOMAIN strand' /\ i < j - 1 /\ strand'[j - 1] = strand[j]
        <4>1. j \in Int /\ j <= Len(strand) /\ j - 1 >= 1 /\ i < j - 1
          BY <1>1, <3>1, <3>2
        <4>2. j - 1 \in 1 .. Len(strand) - 1 /\ (j - 1) + 1 = j
          BY <1>1, <4>1
        <4> QED BY <1>1, <4>1, <4>2
      <3> QED BY <3>2, <3>3
    <2> QED BY <2>1 DEF Followed
  <1> QED BY <1>2, <1>3, <1>4

-----------------------------------------------------------------------------
(* Users and sockets.                                                      *)

(* What users post leaves the acceptor as it is.                           *)
LEMMA UserKeepsStop ==
  ASSUME Inv, StopInv, UNCHANGED <<pairing, sockets, life, service>>,
         \/ UNCHANGED strand
         \/ \E h \in Handlers :
              h[1] \in {"subscribe", "unsubscribe", "getSocket", "cancel"} /\ Post(h)
  PROVE  StopInv'
  <1>1. UNCHANGED <<group, stage, accepts, aborted, mListening, mStopped, emptyProm, stoppedProm>>
    BY DEF pairing, sockets, life
  <1>2. /\ Queued(<<"stop", None>>)' <=> Queued(<<"stop", None>>)
        /\ Queued(Erase(None))' <=> Queued(Erase(None))
        /\ StopsOnce'
        /\ Followed => Followed'
    <2>1. CASE UNCHANGED strand
      BY <2>1 DEF StopInv, StopsOnce, Followed, Queued, Erase
    <2>2. ASSUME NEW h \in Handlers, h[1] \in {"subscribe", "unsubscribe", "getSocket", "cancel"},
                 Post(h)
          PROVE  <1>2
      <3>1. h # <<"stop", None>> /\ h # Erase(None) /\ h # <<"start", None>>
        BY <2>2 DEF Erase
      <3>2. strand \in Seq(Handlers)
        BY DEF Inv, TypeOK
      <3>3. StopsOnce' /\ (Followed => Followed')
        BY <2>2, <3>1, <3>2, PostOrder DEF StopInv
      <3>4. \A g : g # h => (Queued(g)' <=> Queued(g))
        BY <2>2, <3>2, PostQueued
      <3> QED BY <3>1, <3>3, <3>4 DEF Erase
    <2> QED BY <2>1, <2>2
  <1>3. PendingSet' = PendingSet /\ (NoSockets' <=> NoSockets)
    BY <1>1, <1>2 DEF NoSockets, PendingSet
  <1>4. hasSubscriptions(group)' <=> hasSubscriptions(group)
    BY <1>1 DEF hasSubscriptions
  <1> QED
    BY <1>1, <1>2, <1>3, <1>4 DEF StopInv

LEMMA ServiceKeepsStop ==
  ASSUME Inv, StopInv, ServiceStop \/ ServiceReturn
  PROVE  StopInv'
  <1>1. UNCHANGED <<group, stage, accepts, aborted, mListening, mStopped, emptyProm, stoppedProm>>
    BY DEF pairing, sockets, life, ServiceStop, ServiceReturn
  <1>2. hasSubscriptions(group)' <=> hasSubscriptions(group)
    BY <1>1 DEF hasSubscriptions
  <1>3. CASE ServiceStop
    <2> DEFINE h == <<"stop", None>>
    <2>1. service = "running" /\ service' = "stopping" /\ Post(h) /\ h \in Handlers
      BY <1>3 DEF ServiceStop, Handlers
    <2>2. strand \in Seq(Handlers)
      BY DEF Inv, TypeOK
    <2>3. ~Queued(h) /\ ~mStopped
      BY <2>1 DEF StopInv
    <2>4. StopsOnce' /\ (Followed => Followed')
      BY <2>1, <2>2, <2>3, PostOrder DEF StopInv
    <2>5. \A g : g # h => (Queued(g)' <=> Queued(g))
      BY <2>1, <2>2, PostQueued
    <2>6. Queued(Erase(None))' <=> Queued(Erase(None))
      BY <2>5 DEF Erase
    <2>7. PendingSet' = PendingSet /\ (NoSockets' <=> NoSockets)
      BY <1>1, <2>6 DEF NoSockets, PendingSet
    <2> QED BY <1>1, <1>2, <2>1, <2>3, <2>4, <2>7 DEF StopInv
  <1>4. CASE ServiceReturn
    <2>1. /\ service = "stopping" /\ emptyProm > 0 /\ stoppedProm > 0
          /\ service' = "returned" /\ UNCHANGED strand
      BY <1>4 DEF ServiceReturn
    <2>2. /\ Queued(<<"stop", None>>)' <=> Queued(<<"stop", None>>)
          /\ Queued(Erase(None))' <=> Queued(Erase(None))
          /\ StopsOnce' /\ (Followed => Followed')
      BY <2>1 DEF StopInv, StopsOnce, Followed, Queued, Erase
    <2>3. PendingSet' = PendingSet /\ (NoSockets' <=> NoSockets)
      BY <1>1, <2>2 DEF NoSockets, PendingSet
    <2>4. emptyProm = 1 /\ stoppedProm = 1 /\ mStopped
      BY <2>1 DEF StopInv
    <2> QED BY <1>1, <1>2, <2>1, <2>2, <2>3, <2>4 DEF StopInv
  <1> QED BY <1>3, <1>4

LEMMA UsersKeepStop ==
  ASSUME Inv, StopInv, Users
  PROVE  StopInv'
  <1>1. ASSUME NEW s \in Sessions, SessionStart(s) \/ SessionDiscard(s) \/ SessionStop(s)
        PROVE  StopInv'
    <2>1. PICK h \in {<<"subscribe", s>>, <<"unsubscribe", s>>} : Post(h)
      BY <1>1 DEF SessionStart, SessionDiscard, SessionStop
    <2>2. h \in Handlers /\ h[1] \in {"subscribe", "unsubscribe"}
      BY DEF Handlers
    <2>3. UNCHANGED <<pairing, sockets, life, service>>
      BY <1>1 DEF SessionStart, SessionDiscard, SessionStop
    <2> QED BY <2>1, <2>2, <2>3, UserKeepsStop
  <1>2. ASSUME NEW c \in Channels, AddChannel(c) \/ Cancel(c) \/ CancelReturn(c)
        PROVE  StopInv'
    <2>1. UNCHANGED strand \/ \E h \in {<<"getSocket", c>>, <<"cancel", c>>} : Post(h)
      BY <1>2 DEF AddChannel, Cancel, CancelReturn
    <2>2. \A h \in {<<"getSocket", c>>, <<"cancel", c>>} :
            h \in Handlers /\ h[1] \in {"getSocket", "cancel"}
      BY DEF Handlers
    <2>3. UNCHANGED <<pairing, sockets, life, service>>
      BY <1>2 DEF AddChannel, Cancel, CancelReturn
    <2> QED BY <2>1, <2>2, <2>3, UserKeepsStop
  <1> QED
    BY <1>1, <1>2, ServiceKeepsStop DEF Users

LEMMA OneMorePending ==
  ASSUME IsFiniteSet(PendingSet), NEW k \in Connections,
         \A l \in Connections : l # k => stage'[l] = stage[l]
  PROVE  IsFiniteSet(PendingSet)'
  <1>1. PendingSet' \subseteq PendingSet \cup {k}
    BY DEF PendingSet
  <1>2. IsFiniteSet(PendingSet \cup {k})
    BY FS_AddElement
  <1> QED BY <1>1, <1>2, FS_Subset

LEMMA ConnectKeepsStop ==
  ASSUME Inv, StopInv, NEW k \in Connections, Connect(k)
  PROVE  StopInv'
  <1>1. /\ UNCHANGED <<group, accepts, aborted, mListening, mStopped, emptyProm, stoppedProm,
                       service, strand>>
        /\ mListening /\ stage[k] = "away" /\ stage' = [stage EXCEPT ![k] = "backlog"]
    BY DEF Connect, pairing, life, users
  <1>2. /\ stage'[k] = "backlog" /\ \A l \in Connections : l # k => stage'[l] = stage[l]
    BY <1>1 DEF Inv, TypeOK
  <1>3. PendingSet' = PendingSet /\ \A l \in Connections : stage[l] \in Trying => stage'[l] \in Trying
    BY <1>1, <1>2 DEF PendingSet, Pending, Trying
  <1>4. /\ Queued(<<"stop", None>>)' <=> Queued(<<"stop", None>>)
        /\ Queued(Erase(None))' <=> Queued(Erase(None))
        /\ StopsOnce' /\ (Followed => Followed')
    BY <1>1 DEF StopInv, StopsOnce, Followed, Queued, Erase
  <1>5. NoSockets' <=> NoSockets
    BY <1>1, <1>3, <1>4 DEF NoSockets
  <1>6. hasSubscriptions(group)' <=> hasSubscriptions(group)
    BY <1>1 DEF hasSubscriptions
  <1> QED BY <1>1, <1>3, <1>4, <1>5, <1>6 DEF StopInv

LEMMA AcceptSocketKeepsStop ==
  ASSUME Inv, StopInv, NEW k \in Connections, AcceptSocket(k)
  PROVE  StopInv'
  <1>1. /\ UNCHANGED <<group, aborted, mListening, mStopped, emptyProm, stoppedProm,
                       service, strand>>
        /\ stage[k] = "backlog" /\ stage' = [stage EXCEPT ![k] = "accepted"]
        /\ accepts > 0
    BY DEF AcceptSocket, pairing, life, users
  <1>2. /\ stage'[k] = "accepted" /\ \A l \in Connections : l # k => stage'[l] = stage[l]
    BY <1>1 DEF Inv, TypeOK
  <1>3. mListening /\ ~mStopped
    BY <1>1 DEF StopInv
  <1>4. IsFiniteSet(PendingSet)'
    BY <1>2, OneMorePending DEF StopInv
  <1>5. \E l \in Connections : stage'[l] \in Trying
    BY <1>2 DEF Trying
  <1>6. /\ Queued(<<"stop", None>>)' <=> Queued(<<"stop", None>>)
        /\ StopsOnce'
    BY <1>1 DEF StopInv, StopsOnce, Queued
  <1>7. hasSubscriptions(group)' <=> hasSubscriptions(group)
    BY <1>1 DEF hasSubscriptions
  <1> QED BY <1>1, <1>3, <1>4, <1>5, <1>6, <1>7 DEF StopInv

\* A pending socket goes on, and its callback may post a handler.
LEMMA CallbackKeepsStop ==
  ASSUME Inv, StopInv, NEW k \in Connections, stage[k] \in Trying,
         \A l \in Connections : l # k => stage'[l] = stage[l], stage'[k] \in Pending,
         UNCHANGED <<group, accepts, aborted, mListening, mStopped, emptyProm, stoppedProm,
                     service>>,
         \/ UNCHANGED strand /\ stage'[k] \in Trying
         \/ Post(<<"start", None>>) /\ stage'[k] \in Trying
         \/ \E h \in {<<"read", k>>, <<"part", k>>, Erase(k)} : Post(h)
  PROVE  StopInv'
  <1>1. strand \in Seq(Handlers)
    BY DEF Inv, TypeOK
  <1>2. k \in PendingSet /\ k \in PendingSet'
    BY DEF PendingSet, Pending, Trying
  <1>3. ~NoSockets /\ ~NoSockets'
    BY <1>2 DEF NoSockets
  <1>4. IsFiniteSet(PendingSet)'
    BY OneMorePending DEF StopInv
  <1>5. /\ Queued(<<"stop", None>>)' <=> Queued(<<"stop", None>>)
        /\ StopsOnce'
        /\ (\E l \in Connections : stage'[l] \in Trying) \/ Followed'
    <2>1. CASE UNCHANGED strand /\ stage'[k] \in Trying
      BY <2>1 DEF StopInv, StopsOnce, Queued
    <2>2. CASE Post(<<"start", None>>) /\ stage'[k] \in Trying
      <3>1. <<"start", None>> \in Handlers
        BY DEF Handlers
      <3> QED BY <1>1, <2>2, <3>1, PostOrder, PostQueued DEF StopInv
    <2>3. ASSUME NEW h \in {<<"read", k>>, <<"part", k>>, Erase(k)}, Post(h)
          PROVE  <1>5
      <3>1. h \in Handlers /\ h[1] \in {"erase", "read", "part"} /\ h # <<"stop", None>>
        BY DEF Handlers, Erase
      <3> QED BY <1>1, <2>3, <3>1, PostOrder, PostQueued DEF StopInv
    <2> QED BY <2>1, <2>2, <2>3
  <1>6. hasSubscriptions(group)' <=> hasSubscriptions(group)
    BY DEF hasSubscriptions
  <1>7. \A l \in Connections : stage'[l] = "backlog" => stage[l] = "backlog"
    BY DEF Pending
  <1> QED BY <1>3, <1>4, <1>5, <1>6, <1>7 DEF StopInv

LEMMA AbortKeepsStop ==
  ASSUME Inv, StopInv, AcceptAborted
  PROVE  StopInv'
  <1> DEFINE h1 == <<"start", None>>
             mid == Append(strand, h1)
  <1>1. /\ UNCHANGED <<group, stage, accepts, mListening, mStopped, emptyProm, stoppedProm, service>>
        /\ aborted > 0
        /\ strand' = strand \o <<h1, Erase(None)>>
    BY DEF AcceptAborted, pairing, users, life
  <1>2. /\ strand \in Seq(Handlers) /\ h1 \in Handlers /\ Erase(None) \in Handlers
    BY DEF Inv, TypeOK, Handlers, Erase
  <1>3. PICK n \in Nat : n = Len(strand)
    BY <1>2
  <1>4. /\ DOMAIN strand = 1 .. n /\ DOMAIN strand' = 1 .. n + 2
        /\ \A i \in 1 .. n : strand'[i] = strand[i]
        /\ strand'[n + 1] = h1 /\ strand'[n + 2] = Erase(None)
    BY <1>1, <1>2, <1>3
  <1> HIDE DEF h1, mid
  <1>5. \A i \in DOMAIN strand' :
          \/ i \in DOMAIN strand /\ i < n + 2 /\ strand'[i] = strand[i]
          \/ i = n + 1 /\ i < n + 2 /\ strand'[i] = h1
          \/ i = n + 2 /\ strand'[i] = Erase(None)
    BY <1>4
  <1>6. h1 # <<"stop", None>> /\ Erase(None) # <<"stop", None>> /\ Erase(None) # h1
    BY DEF h1, Erase
  <1>7. /\ Queued(<<"stop", None>>)' => Queued(<<"stop", None>>)
        /\ Queued(Erase(None))'
    <2>1. Queued(<<"stop", None>>)' => Queued(<<"stop", None>>)
      BY <1>5, <1>6 DEF Queued
    <2>2. n + 2 \in DOMAIN strand'
      BY <1>4
    <2> QED BY <1>4, <2>1, <2>2 DEF Queued, Erase
  <1>8. StopsOnce'
    BY <1>5, <1>6 DEF StopInv, StopsOnce
  <1>9. Followed'
    <2>1. \A i \in DOMAIN strand' : i < n + 2 \/ i = n + 2
      BY <1>5
    <2>2. n + 2 \in DOMAIN strand' /\ strand'[n + 2][1] = "erase"
      BY <1>4 DEF Erase
    <2>3. ASSUME NEW i \in DOMAIN strand', strand'[i] = <<"start", None>>
          PROVE  \E j \in DOMAIN strand' : i < j /\ strand'[j][1] \in {"erase", "read", "part"}
      <3>1. i # n + 2
        BY <2>3, <1>4, <1>6 DEF h1
      <3> QED BY <2>1, <2>2, <3>1
    <2> QED BY <2>3 DEF Followed
  <1>10. ~NoSockets /\ ~NoSockets'
    BY <1>1, <1>7 DEF NoSockets
  <1>11. PendingSet' = PendingSet
    BY <1>1 DEF PendingSet
  <1>12. hasSubscriptions(group)' <=> hasSubscriptions(group)
    BY <1>1 DEF hasSubscriptions
  <1> QED BY <1>1, <1>7, <1>8, <1>9, <1>10, <1>11, <1>12 DEF StopInv

LEMMA NetworkKeepsStop ==
  ASSUME Inv, StopInv, Network
  PROVE  StopInv'
  <1>1. ASSUME NEW k \in Connections, Callbacks(k) PROVE StopInv'
    <2>1. stage \in [Connections -> Stages]
      BY DEF Inv, TypeOK
    <2>2. UNCHANGED <<group, accepts, aborted, mListening, mStopped, emptyProm, stoppedProm,
                     service>>
      BY <1>1 DEF Callbacks, AcceptCallback, ReceiveHeader, ReceiveString, ReceiveFails, Receive,
                  pairing, users, life
    <2>3. CASE AcceptCallback(k)
      <3>1. stage[k] = "accepted" /\ stage' \in {stage, [stage EXCEPT ![k] = "header"]}
            /\ Post(<<"start", None>>)
        BY <2>3 DEF AcceptCallback
      <3>2. /\ stage'[k] \in {"accepted", "header"}
            /\ \A l \in Connections : l # k => stage'[l] = stage[l]
        BY <2>1, <3>1
      <3> QED BY <2>2, <3>1, <3>2, CallbackKeepsStop DEF Trying, Pending
    <2>4. ASSUME NEW from \in {"header", "body"}, NEW to \in {"body", "read", "failed"}, NEW h,
                 Receive(k, from, to, h),
                 \/ h = <<>> /\ to = "body"
                 \/ h \in {<<"read", k>>, <<"part", k>>, Erase(k)}
          PROVE  StopInv'
      <3>1. stage[k] \in Trying
        BY <2>4 DEF Receive, Trying
      <3>2. /\ stage'[k] = to /\ to \in Pending /\ (to = "body" => to \in Trying)
            /\ \A l \in Connections : l # k => stage'[l] = stage[l]
        BY <2>1, <2>4 DEF Receive, Pending, Trying
      <3>3. CASE h = <<>> /\ to = "body"
        <4>1. UNCHANGED strand
          BY <2>4, <3>3 DEF Receive
        <4> QED BY <2>2, <3>1, <3>2, <3>3, <4>1, CallbackKeepsStop
      <3>4. CASE h \in {<<"read", k>>, <<"part", k>>, Erase(k)}
        <4>1. Post(h)
          BY <2>4, <3>4 DEF Receive, Erase
        <4> QED BY <2>2, <3>1, <3>2, <3>4, <4>1, CallbackKeepsStop
      <3> QED BY <2>4, <3>3, <3>4
    <2>5. CASE ReceiveHeader(k)
      BY <2>4, <2>5 DEF ReceiveHeader
    <2>6. CASE ReceiveString(k)
      BY <2>4, <2>6 DEF ReceiveString
    <2>7. CASE ReceiveFails(k)
      BY <2>4, <2>7 DEF ReceiveFails
    <2> QED BY <1>1, <2>3, <2>5, <2>6, <2>7 DEF Callbacks
  <1> QED
    BY <1>1, ConnectKeepsStop, AcceptSocketKeepsStop, AbortKeepsStop DEF Network

-----------------------------------------------------------------------------
(* Handlers of the strand.                                                 *)

(* The handlers after which a pending socket is erased.                    *)
ErasesSocket(h) ==
  \/ h = Erase(None)
  \/ \E k \in Connections : h \in {Erase(k), <<"read", k>>, <<"part", k>>}

LEMMA ErasedIsPending ==
  ASSUME Inv, NEW h, Queued(h), ErasesSocket(h)
  PROVE  ~NoSockets
  <1>1. CASE h = Erase(None)
    BY <1>1 DEF NoSockets
  <1>2. ASSUME NEW k \in Connections, h \in {Erase(k), <<"read", k>>, <<"part", k>>}
        PROVE  ~NoSockets
    <2>1. stage[k] \in {"read", "failed"}
      BY <1>2 DEF Inv, SocketInv
    <2>2. k \in PendingSet
      BY <2>1 DEF PendingSet, Pending
    <2> QED BY <2>2 DEF NoSockets
  <1> QED BY <1>1, <1>2 DEF ErasesSocket

(* All handlers but that of stop().                                        *)
LEMMA HandlerKeepsStop ==
  ASSUME Inv, TypeOK', StopInv, NEW h, Handle(h), h # <<"stop", None>>,
         UNCHANGED <<mStopped, service, stoppedProm>>,
         ~mListening' => accepts' = 0 /\ \A k \in Connections : stage'[k] # "backlog",
         mStopped => ~mListening' /\ accepts' = 0 /\ aborted' = aborted,
         \A k \in Connections : stage[k] \in Trying => stage'[k] \in Trying,
         PendingSet' \subseteq PendingSet,
         \/ ErasesSocket(h) /\ PromiseIfEmpty
         \/ ~ErasesSocket(h) /\ emptyProm' = emptyProm /\ PendingSet' = PendingSet,
         mStopped /\ ~hasSubscriptions(group) => ~hasSubscriptions(group')
  PROVE  StopInv'
  <1>1. /\ Queued(h)
        /\ \A f : Queued(f)' => Queued(f)
        /\ \A f : f # h /\ Queued(f) => Queued(f)'
    BY HandleInv
  <1>2. StopsOnce' /\ (Followed => Followed')
    BY HandleOrder DEF Inv, TypeOK, StopInv
  <1>3. IsFiniteSet(PendingSet)'
    BY FS_Subset DEF StopInv
  <1>4. Queued(Erase(None))' => Queued(Erase(None))
    BY <1>1 DEF Erase
  <1>5. mStopped /\ NoSockets => NoSockets'
    BY <1>4 DEF NoSockets, StopInv
  <1>6. mStopped => accepts' = accepts /\ aborted' = aborted
    BY DEF StopInv
  <1>7. emptyProm' = IF mStopped' /\ NoSockets' THEN 1 ELSE 0
    <2>1. CASE ErasesSocket(h) /\ PromiseIfEmpty
      <3>1. ~NoSockets
        BY <1>1, <2>1, ErasedIsPending
      <3>2. pendingSockets' = 0 <=> NoSockets'
        BY <1>3, PendingCountNext
      <3>3. emptyProm = 0
        BY <3>1 DEF StopInv
      <3> QED BY <2>1, <3>2, <3>3 DEF PromiseIfEmpty
    <2>2. CASE ~ErasesSocket(h) /\ emptyProm' = emptyProm /\ PendingSet' = PendingSet
      <3>1. h # Erase(None)
        BY <2>2 DEF ErasesSocket
      <3>2. Queued(Erase(None))' <=> Queued(Erase(None))
        BY <1>1, <3>1 DEF Erase
      <3>3. mStopped => (NoSockets' <=> NoSockets)
        BY <1>6, <2>2, <3>2 DEF NoSockets
      <3> QED BY <2>2, <3>3 DEF StopInv
    <2> QED BY <2>1, <2>2
  <1>8. emptyProm = 1 => emptyProm' = 1
    BY <1>5, <1>7 DEF StopInv
  <1>9. stoppedProm' = 1 => mStopped' /\ ~hasSubscriptions(group')
    BY DEF StopInv
  <1>10. hasSubscriptions(group)' <=> hasSubscriptions(group')
    BY DEF hasSubscriptions
  <1> QED
    BY <1>1, <1>2, <1>3, <1>7, <1>8, <1>9, <1>10 DEF StopInv

LEMMA StartKeepsStop ==
  ASSUME Inv, TypeOK', StopInv, Start
  PROVE  StopInv'
  <1> DEFINE h == <<"start", None>>
  <1>1. /\ Handle(h) /\ accepts' = IF mListening THEN accepts + 1 ELSE accepts
        /\ UNCHANGED <<service, group, stage, aborted, mListening, mStopped, emptyProm, stoppedProm>>
    BY DEF Start, users, pairing, life
  <1>2. h # <<"stop", None>> /\ ~ErasesSocket(h)
    BY DEF ErasesSocket, Erase
  <1>3. PendingSet' = PendingSet
    BY <1>1 DEF PendingSet
  <1> HIDE DEF h
  <1>4. /\ ~mListening' => accepts' = 0 /\ \A k \in Connections : stage'[k] # "backlog"
        /\ mStopped => ~mListening' /\ accepts' = 0 /\ aborted' = aborted
    BY <1>1 DEF StopInv
  <1> QED BY <1>1, <1>2, <1>3, <1>4, HandlerKeepsStop

LEMMA GivenUpKeepsStop ==
  ASSUME Inv, TypeOK', StopInv,
         NEW k \in Connections \cup {None}, EraseSocket(k) \/ (k # None /\ DropSocket(k))
  PROVE  StopInv'
  <1>1. PICK h \in {Erase(k), <<"part", k>>} :
          Handle(h) /\ (h = Erase(k) \/ k \in Connections)
    BY DEF EraseSocket, DropSocket
  <1>2. /\ UNCHANGED <<service, group, accepts, aborted, mListening, mStopped, stoppedProm>>
        /\ stage' = IF k = None THEN stage ELSE [stage EXCEPT ![k] = "lost"]
        /\ PromiseIfEmpty
    BY DEF EraseSocket, DropSocket, users, pairing
  <1>3. h # <<"stop", None>> /\ ErasesSocket(h)
    BY <1>1 DEF ErasesSocket, Erase
  <1>4. k \in Connections => stage[k] \in {"read", "failed"}
    <2>1. Queued(h)
      BY <1>1, HandleInv
    <2> QED BY <1>1, <2>1 DEF Inv, SocketInv
  <1>5. \A l \in Connections :
          stage'[l] = stage[l] \/ (l = k /\ stage'[l] = "lost" /\ stage[l] \in {"read", "failed"})
    BY <1>2, <1>4, AcceptorAssumption DEF Inv, TypeOK
  <1>6. /\ \A l \in Connections : stage[l] \in Trying => stage'[l] \in Trying
        /\ PendingSet' \subseteq PendingSet
        /\ \A l \in Connections : stage'[l] = "backlog" => stage[l] = "backlog"
    BY <1>5 DEF Trying, PendingSet, Pending
  <1>7. /\ ~mListening' => accepts' = 0 /\ \A l \in Connections : stage'[l] # "backlog"
        /\ mStopped => ~mListening' /\ accepts' = 0 /\ aborted' = aborted
    BY <1>2, <1>6 DEF StopInv
  <1> QED BY <1>1, <1>2, <1>3, <1>6, <1>7, HandlerKeepsStop

LEMMA StopKeepsStop ==
  ASSUME Inv, TypeOK', StopInv, Stop
  PROVE  StopInv'
  <1> DEFINE h == <<"stop", None>>
  <1>1. /\ Handle(h) /\ UNCHANGED <<service, group>>
        /\ mStopped' = TRUE /\ mListening' = FALSE
        /\ stage' = [k \in Connections |-> IF stage[k] = "backlog" THEN "lost" ELSE stage[k]]
        /\ accepts' = 0 /\ aborted' = aborted + accepts
        /\ emptyProm' = IF pendingSockets = 0 THEN emptyProm + 1 ELSE emptyProm
        /\ stoppedProm' = IF hasSubscriptions(group) THEN stoppedProm ELSE stoppedProm + 1
    BY DEF Stop, users, pairing
  <1>2. /\ Queued(h)
        /\ \A f : Queued(f)' => Queued(f)
        /\ \A f : f # h /\ Queued(f) => Queued(f)'
    BY <1>1, HandleInv
  <1>3. StopsOnce' /\ ~Queued(h)' /\ (Followed => Followed')
    BY <1>1, HandleOrder DEF Inv, TypeOK, StopInv
  <1>4. ~mStopped /\ service = "stopping" /\ emptyProm = 0 /\ stoppedProm = 0
    BY <1>2 DEF StopInv
  <1>5. /\ \A k \in Connections : stage'[k] # "backlog"
        /\ \A k \in Connections : stage[k] \in Trying => stage'[k] \in Trying
        /\ PendingSet' = PendingSet
    BY <1>1 DEF PendingSet, Pending, Trying
  <1>6. Queued(Erase(None))' <=> Queued(Erase(None))
    <2>1. Erase(None) # h
      BY DEF Erase
    <2> QED BY <1>2, <2>1 DEF Erase
  <1>7. accepts \in Nat /\ aborted \in Nat
    BY DEF Inv, TypeOK
  <1>8. NoSockets' <=> NoSockets
    <2>1. aborted' = 0 <=> accepts = 0 /\ aborted = 0
      BY <1>1, <1>7
    <2> QED BY <1>1, <1>5, <1>6, <2>1 DEF NoSockets
  <1>9. pendingSockets = 0 <=> NoSockets
    BY PendingCount DEF Inv, StopInv
  <1>10. hasSubscriptions(group)' <=> hasSubscriptions(group)
    BY <1>1 DEF hasSubscriptions
  <1> HIDE DEF h
  <1>11. emptyProm' = IF mStopped' /\ NoSockets' THEN 1 ELSE 0
    BY <1>1, <1>4, <1>8, <1>9
  <1>12. stoppedProm' \in {0, 1} /\ (stoppedProm' = 1 => ~hasSubscriptions(group))
    BY <1>1, <1>4
  <1>13. (\E k \in Connections : stage'[k] \in Trying) \/ Followed'
    BY <1>3, <1>5 DEF StopInv
  <1>14. IsFiniteSet(PendingSet)'
    BY <1>5 DEF StopInv
  <1> QED
    BY <1>1, <1>3, <1>4, <1>5, <1>10, <1>11, <1>12, <1>13, <1>14 DEF StopInv, h

(* Handlers that find nothing to do.                                       *)
LEMMA SameKeepsStop ==
  ASSUME Inv, TypeOK', StopInv, NEW h, Handle(h), h # <<"stop", None>>, ~ErasesSocket(h),
         UNCHANGED <<service, group, stage, accepts, aborted, mListening, mStopped,
                     emptyProm, stoppedProm>>
  PROVE  StopInv'
  <1>1. PendingSet' = PendingSet
    BY DEF PendingSet
  <1>2. /\ ~mListening' => accepts' = 0 /\ \A k \in Connections : stage'[k] # "backlog"
        /\ mStopped => ~mListening' /\ accepts' = 0 /\ aborted' = aborted
    BY DEF StopInv
  <1> QED BY <1>1, <1>2, HandlerKeepsStop

(* Handlers that end with the group of one session: as long as there is one*)
(* the acceptor has not stopped listening on its own.                      *)
LEMMA TidyKeepsStop ==
  ASSUME Inv, TypeOK', StopInv, NEW h, Handle(h), h # <<"stop", None>>,
         UNCHANGED <<mStopped, service>>,
         NEW s \in Sessions, group[s].exists, NEW g \in Groups,
         NEW stages \in [Connections -> Stages], Tidy([group EXCEPT ![s] = g], s, stages),
         \A k \in Connections :
           stages[k] # stage[k] => stage[k] \in {"named", "read"} /\ stages[k] \in {"named", "given"},
         \A k \in g.mSockets : stages[k] = "named",
         \/ ErasesSocket(h) /\ PromiseIfEmpty
         \/ /\ ~ErasesSocket(h) /\ emptyProm' = emptyProm
            /\ \A k \in Connections : stage[k] = "read" => stages[k] = "read"
  PROVE  StopInv'
  <1>1. /\ \A k \in Connections :
             stage'[k] # stages[k] => stage'[k] = "lost" /\ stages[k] \in {"backlog", "named"}
        /\ mListening' <=> mListening /\ hasSubscriptions(group')
        /\ mListening' => accepts' = accepts
    BY TidyEffect
  <1>2. /\ \A k \in Connections : stage[k] \in Trying => stage'[k] \in Trying
        /\ PendingSet' \subseteq PendingSet
        /\ \A k \in Connections : stage'[k] = "backlog" => stage[k] = "backlog"
    BY <1>1 DEF Trying, PendingSet, Pending
  <1>3. (\A k \in Connections : stage[k] = "read" => stages[k] = "read") => PendingSet' = PendingSet
    BY <1>1 DEF PendingSet, Pending
  <1>4. hasSubscriptions(group)
    BY DEF Inv, GroupsMapped, MapsAgree, hasSubscriptions
  <1>5. StopListening(group', StageAfter([group EXCEPT ![s] = g], s, stages))
    BY DEF Tidy
  <1>6. CASE mListening /\ ~hasSubscriptions(group')
    <2>1. /\ mListening' = FALSE /\ accepts' = 0 /\ ~mStopped /\ stoppedProm' = stoppedProm
          /\ \A k \in Connections : stage'[k] # "backlog"
      BY <1>5, <1>6 DEF StopListening, StopInv
    <2> QED BY <1>2, <1>3, <1>4, <2>1, HandlerKeepsStop
  <1>7. CASE ~(mListening /\ ~hasSubscriptions(group'))
    <2>1. UNCHANGED <<mListening, accepts, aborted, stoppedProm>>
      BY <1>5, <1>7 DEF StopListening
    <2>2. /\ ~mListening' => accepts' = 0 /\ \A k \in Connections : stage'[k] # "backlog"
          /\ mStopped => ~mListening' /\ accepts' = 0 /\ aborted' = aborted
      BY <1>2, <2>1 DEF StopInv
    <2> QED BY <1>2, <1>3, <1>4, <2>1, <2>2, HandlerKeepsStop
  <1> QED BY <1>6, <1>7

LEMMA SubscribeKeepsStop ==
  ASSUME Inv, TypeOK', StopInv, NEW s \in Sessions, Subscribe(s)
  PROVE  StopInv'
  <1> DEFINE h == <<"subscribe", s>>
  <1>1. /\ Handle(h)
        /\ UNCHANGED <<service, stage, aborted, mStopped, emptyProm, stoppedProm>>
        /\ mStopped => UNCHANGED <<group, mListening, accepts>>
        /\ ~mStopped => mListening' = TRUE
    BY DEF Subscribe
  <1>2. h # <<"stop", None>> /\ ~ErasesSocket(h) /\ PendingSet' = PendingSet
    BY <1>1 DEF ErasesSocket, Erase, PendingSet
  <1> HIDE DEF h
  <1>3. /\ ~mListening' => accepts' = 0 /\ \A k \in Connections : stage'[k] # "backlog"
        /\ mStopped => ~mListening' /\ accepts' = 0 /\ aborted' = aborted
    BY <1>1 DEF StopInv
  <1> QED BY <1>1, <1>2, <1>3, HandlerKeepsStop

LEMMA UnsubscribeKeepsStop ==
  ASSUME Inv, TypeOK', StopInv, NEW s \in Sessions, Unsubscribe(s)
  PROVE  StopInv'
  <1> DEFINE h == <<"unsubscribe", s>>
             g == [group[s] EXCEPT !.mBase = FALSE]
  <1>1. Handle(h) /\ UNCHANGED <<service, mStopped, emptyProm>>
    BY DEF Unsubscribe
  <1>2. h # <<"stop", None>> /\ ~ErasesSocket(h)
    BY DEF ErasesSocket, Erase
  <1>3. /\ group \in [Sessions -> Groups] /\ g \in Groups /\ g.mSockets = group[s].mSockets
        /\ stage \in [Connections -> Stages]
        /\ [group EXCEPT ![s].mBase = FALSE] = [group EXCEPT ![s] = g]
    <2>1. group \in [Sessions -> Groups] /\ stage \in [Connections -> Stages]
      BY DEF Inv, TypeOK, Groups
    <2>2. group[s] \in Groups
      BY <2>1
    <2>3. g \in Groups /\ g.mSockets = group[s].mSockets
      BY <2>2 DEF Groups
    <2> QED BY <2>1, <2>3
  <1>4. CASE group[s].exists
    <2>1. Tidy([group EXCEPT ![s] = g], s, stage)
      BY <1>3, <1>4 DEF Unsubscribe, TidyMapped
    <2>2. \A k \in g.mSockets : stage[k] = "named"
      BY <1>3 DEF Inv, SocketInv, Groups
    <2> HIDE DEF g, h
    <2> QED BY <1>1, <1>2, <1>3, <1>4, <2>1, <2>2, TidyKeepsStop
  <1>5. CASE ~group[s].exists
    <2>1. UNCHANGED <<group, stage, accepts, aborted, mListening, stoppedProm>>
      BY <1>5 DEF Unsubscribe
    <2> HIDE DEF h
    <2> QED BY <1>1, <1>2, <2>1, SameKeepsStop
  <1> QED BY <1>4, <1>5

LEMMA CancelPendingKeepsStop ==
  ASSUME Inv, TypeOK', StopInv, NEW c \in Channels, CancelPending(c)
  PROVE  StopInv'
  <1> DEFINE h == <<"cancel", c>>
             s == sessionOf[c]
             g == [group[s] EXCEPT !.mChannels = @ \ {c}]
  <1>1. Handle(h) /\ UNCHANGED <<service, mStopped, emptyProm>>
    BY DEF CancelPending
  <1>2. h # <<"stop", None>> /\ ~ErasesSocket(h)
    BY DEF ErasesSocket, Erase
  <1>3. s \in Sessions
    BY SessionOfType
  <1>4. CASE group[s].exists
    <2>1. group \in [Sessions -> Groups] /\ stage \in [Connections -> Stages]
      BY DEF Inv, TypeOK, Groups
    <2>2. Tidy([group EXCEPT ![s].mChannels = @ \ {c}], s, stage)
      BY <1>4 DEF CancelPending, TidyMapped
    <2> HIDE DEF s, h
    <2>3. g \in Groups /\ g.mSockets = group[s].mSockets
      BY <1>3, <2>1 DEF Groups
    <2>4. [group EXCEPT ![s].mChannels = @ \ {c}] = [group EXCEPT ![s] = g]
      BY <1>3, <2>1
    <2>5. \A k \in g.mSockets : stage[k] = "named"
      BY <1>3, <2>1, <2>3 DEF Inv, SocketInv, Groups
    <2> HIDE DEF g
    <2> QED BY <1>1, <1>2, <1>3, <1>4, <2>1, <2>2, <2>3, <2>4, <2>5, TidyKeepsStop
  <1>5. CASE ~group[s].exists
    <2>1. UNCHANGED <<group, stage, accepts, aborted, mListening, stoppedProm>>
      BY <1>5 DEF CancelPending
    <2> HIDE DEF h
    <2> QED BY <1>1, <1>2, <2>1, SameKeepsStop
  <1> QED BY <1>4, <1>5

LEMMA GetSocketPairedKeepsStop ==
  ASSUME Inv, TypeOK', StopInv, NEW c \in Channels, GetSocketPaired(c)
  PROVE  StopInv'
  <1> DEFINE h == <<"getSocket", c>>
             s == sessionOf[c]
             M == Matches({c}, group[s].mSockets)
             g0 == [group[s] EXCEPT !.mChannels = @ \cup {c}]
             g == Without(g0, M)
             stages == [k \in Connections |-> IF <<c, k>> \in M THEN "given" ELSE stage[k]]
  <1>1. Handle(h) /\ UNCHANGED <<service, mStopped, emptyProm>>
    BY DEF GetSocketPaired, users
  <1>2. h # <<"stop", None>> /\ ~ErasesSocket(h)
    BY DEF ErasesSocket, Erase
  <1>3. s \in Sessions
    BY SessionOfType
  <1>4. group[s].exists
    <2>1. group[s].mBase
      BY <1>1, HandleInv DEF Inv, GroupsMapped, GroupsFound
    <2> QED BY <1>3, <2>1 DEF Inv, GroupsMapped, MapsAgree, groupHasSubscriptions
  <1>5. /\ group \in [Sessions -> Groups] /\ group[s] \in Groups /\ g0 \in Groups
        /\ g0.mSockets = group[s].mSockets /\ group[s].mSockets \subseteq Connections
    <2>1. group \in [Sessions -> Groups]
      BY DEF Inv, TypeOK, Groups
    <2> HIDE DEF s
    <2>2. group[s] \in Groups
      BY <1>3, <2>1
    <2> QED BY <2>1, <2>2 DEF Groups
  <1>6. /\ M \in SUBSET (Channels \X Connections)
        /\ \A d, k : <<d, k>> \in M => k \in group[s].mSockets
    BY <1>5, MatchFacts
  <1>7. /\ g \in Groups /\ g.mSockets = {k \in g0.mSockets : \A d : <<d, k>> \notin M}
    <2> HIDE DEF M, g0
    <2> QED BY <1>5, <1>6, WithoutFacts
  <1>8. stages \in [Connections -> Stages]
    BY DEF Inv, TypeOK, Stages
  <1>9. Tidy([group EXCEPT ![s] = g], s, stages)
    <2>1. TidyMapped([group EXCEPT ![s] = g], s, stages)
      BY DEF GetSocketPaired
    <2> HIDE DEF g, stages
    <2> QED BY <2>1 DEF TidyMapped
  <1>10. \A k \in group[s].mSockets : stage[k] = "named"
    BY <1>3, <1>5 DEF Inv, SocketInv
  <1>11. \A k \in Connections : stages[k] = IF <<c, k>> \in M THEN "given" ELSE stage[k]
    OBVIOUS
  <1> HIDE DEF h, M, g0, g, stages, s
  <1>12. /\ \A k \in Connections :
              stages[k] # stage[k] =>
                stage[k] \in {"named", "read"} /\ stages[k] \in {"named", "given"}
         /\ \A k \in g.mSockets : stages[k] = "named"
         /\ \A k \in Connections : stage[k] = "read" => stages[k] = "read"
    <2>1. \A k \in Connections :
            \/ stages[k] = stage[k]
            \/ stage[k] = "named" /\ stages[k] = "given"
      BY <1>6, <1>10, <1>11
    <2>2. \A k \in g.mSockets : k \in group[s].mSockets /\ k \in Connections /\ <<c, k>> \notin M
      BY <1>5, <1>7
    <2>3. \A k \in g.mSockets : stages[k] = "named"
      BY <1>10, <1>11, <2>2
    <2> QED BY <2>1, <2>3
  <1> QED BY <1>1, <1>2, <1>3, <1>4, <1>7, <1>8, <1>9, <1>12, TidyKeepsStop

LEMMA ClaimKeepsStop ==
  ASSUME Inv, TypeOK', StopInv, NEW h, Handle(h), h # <<"stop", None>>,
         UNCHANGED <<mStopped, service>>,
         NEW s \in Sessions, group[s].exists, NEW x \in Clients, NEW g \in Groups,
         g.mSockets = {}, NEW K \in SUBSET Connections, Claim(s, x, g, K),
         \A k \in K : stage[k] \in {"named", "read"},
         \/ ErasesSocket(h) /\ PromiseIfEmpty
         \/ ~ErasesSocket(h) /\ emptyProm' = emptyProm /\ \A k \in K : stage[k] = "named"
  PROVE  StopInv'
  <1> DEFINE M == Matches(g.mChannels, K)
             g1 == [g EXCEPT !.mSockets = @ \cup K]
             merged == Without(g1, M)
             stages == [k \in Connections |->
                          IF \E c \in Channels : <<c, k>> \in M THEN "given"
                          ELSE IF k \in K THEN "named" ELSE stage[k]]
  <1>1. Tidy([group EXCEPT ![s] = merged], s, stages)
    BY DEF Claim
  <1>2. g.mChannels \subseteq Channels /\ g1 \in Groups /\ g1.mSockets = K
    BY DEF Groups
  <1>3. /\ M \in SUBSET (Channels \X Connections)
        /\ \A c, k : <<c, k>> \in M => c \in Channels /\ k \in K
    BY <1>2, MatchFacts
  <1>4. merged \in Groups /\ merged.mSockets = {k \in K : \A c : <<c, k>> \notin M}
    <2> HIDE DEF M, g1
    <2> QED BY <1>2, <1>3, WithoutFacts
  <1>5. stages \in [Connections -> Stages]
    BY DEF Inv, TypeOK, Stages
  <1>6. \A k \in Connections :
          /\ (\E c \in Channels : <<c, k>> \in M) => stages[k] = "given"
          /\ (\A c : <<c, k>> \notin M) => stages[k] = IF k \in K THEN "named" ELSE stage[k]
    OBVIOUS
  <1> HIDE DEF M, g1, merged, stages
  <1>7. /\ \A k \in Connections :
             /\ k \in K => stages[k] \in {"named", "given"}
             /\ k \notin K => stages[k] = stage[k]
        /\ \A k \in merged.mSockets : stages[k] = "named"
    BY <1>3, <1>4, <1>6
  <1>8. /\ \A k \in Connections :
             stages[k] # stage[k] =>
               stage[k] \in {"named", "read"} /\ stages[k] \in {"named", "given"}
        /\ (\A k \in K : stage[k] = "named") =>
             \A k \in Connections : stage[k] = "read" => stages[k] = "read"
    BY <1>7
  <1> QED BY <1>1, <1>4, <1>5, <1>7, <1>8, TidyKeepsStop

LEMMA GetSocketKeepsStop ==
  ASSUME Inv, TypeOK', StopInv, NEW c \in Channels, GetSocket(c)
  PROVE  StopInv'
  <1> DEFINE h == <<"getSocket", c>>
             s == sessionOf[c]
             g == [group[s] EXCEPT !.mChannels = @ \cup {c}]
  <1>1. Handle(h) /\ mSessionID[s] = None /\ UNCHANGED <<service, mStopped, emptyProm>>
    BY DEF GetSocket, users, life
  <1>2. h # <<"stop", None>> /\ ~ErasesSocket(h)
    BY DEF ErasesSocket, Erase
  <1>3. s \in Sessions
    BY SessionOfType
  <1>4. group[s].exists /\ group[s].mSockets = {} /\ hasSubscriptions(group)
    <2>1. group[s].mBase
      BY <1>1, HandleInv DEF Inv, GroupsMapped, GroupsFound
    <2> QED
      BY <1>1, <1>3, <2>1
      DEF Inv, GroupsMapped, MapsAgree, groupHasSubscriptions, hasSubscriptions
  <1>5. g \in Groups /\ g.mSockets = group[s].mSockets
    <2>1. group \in [Sessions -> Groups]
      BY DEF Inv, TypeOK, Groups
    <2> HIDE DEF s
    <2>2. group[s] \in Groups
      BY <1>3, <2>1
    <2> QED BY <2>2 DEF Groups
  <1>6. ASSUME NEW x \in ClientsFor(c), Claim(s, x, g, mSockets[x])
        PROVE  StopInv'
    <2>1. x \in Clients /\ mSockets[x] \in SUBSET Connections
      BY <1>6 DEF Inv, TypeOK, ClientsFor
    <2>2. \A k \in mSockets[x] : stage[k] = "named"
      BY <2>1 DEF Inv, SocketInv
    <2> HIDE DEF h, s, g
    <2> QED BY <1>1, <1>2, <1>3, <1>4, <1>5, <1>6, <2>1, <2>2, ClaimKeepsStop
  <1>7. CASE UNCHANGED <<sockets, life>>
    <2>1. UNCHANGED <<stage, accepts, aborted, mListening, stoppedProm>>
      BY <1>7 DEF sockets, life
    <2>2. PendingSet' = PendingSet
      BY <2>1 DEF PendingSet
    <2>3. /\ ~mListening' => accepts' = 0 /\ \A k \in Connections : stage'[k] # "backlog"
          /\ mStopped => ~mListening' /\ accepts' = 0 /\ aborted' = aborted
      BY <2>1 DEF StopInv
    <2> HIDE DEF h
    <2> QED BY <1>1, <1>2, <1>4, <2>1, <2>2, <2>3, HandlerKeepsStop
  <1> QED BY <1>6, <1>7 DEF GetSocket

LEMMA SetSocketPairedKeepsStop ==
  ASSUME Inv, TypeOK', StopInv, UNCHANGED setting, NEW k \in Connections, NameSocket(k),
         SetSocketPaired(k)
  PROVE  StopInv'
  <1> DEFINE h == <<"read", k>>
             s == mClaimedGroups[clientOf(k)]
             M == Matches(group[s].mChannels, {k})
             g0 == [group[s] EXCEPT !.mSockets = @ \cup {k}]
             g == Without(g0, M)
             stages == [stage EXCEPT ![k] = IF M = {} THEN "named" ELSE "given"]
  <1>1. /\ Handle(h) /\ PromiseIfEmpty /\ h # <<"stop", None>> /\ ErasesSocket(h)
        /\ s # None
    BY DEF NameSocket, ErasesSocket, SetSocketPaired
  <1>2. /\ stage[k] = "read" /\ clientOf(k) \in Clients /\ UNCHANGED <<service, mStopped>>
    BY Naming
  <1>3. s \in Sessions /\ group[s].exists
    BY <1>1, <1>2 DEF Inv, TypeOK, GroupsMapped, MapsAgree
  <1>4. /\ group \in [Sessions -> Groups] /\ group[s] \in Groups /\ g0 \in Groups
        /\ g0.mSockets = group[s].mSockets \cup {k}
        /\ group[s].mSockets \subseteq Connections /\ group[s].mChannels \subseteq Channels
    <2>1. group \in [Sessions -> Groups]
      BY DEF Inv, TypeOK, Groups
    <2> HIDE DEF s
    <2>2. group[s] \in Groups
      BY <1>3, <2>1
    <2> QED BY <2>1, <2>2 DEF Groups
  <1>5. /\ M \in SUBSET (Channels \X Connections) /\ \A m \in M : m = <<m[1], k>>
    BY <1>4, MatchFacts DEF Matches
  <1>6. /\ g \in Groups /\ g.mSockets = {l \in g0.mSockets : \A d : <<d, l>> \notin M}
    <2> HIDE DEF M, g0
    <2> QED BY <1>4, <1>5, WithoutFacts
  <1>7. Tidy([group EXCEPT ![s] = g], s, stages)
    <2>1. TidyMapped([group EXCEPT ![s] = g], s, stages)
      BY DEF SetSocketPaired
    <2> HIDE DEF g, stages
    <2> QED BY <2>1 DEF TidyMapped
  <1>8. /\ stages \in [Connections -> Stages]
        /\ stages[k] = IF M = {} THEN "named" ELSE "given"
        /\ \A l \in Connections : l # k => stages[l] = stage[l]
    <2> HIDE DEF M
    <2> QED BY DEF Inv, TypeOK, Stages
  <1>9. \A l \in group[s].mSockets : stage[l] = "named"
    BY <1>3, <1>4 DEF Inv, SocketInv
  <1> HIDE DEF h, s, M, g0, g, stages
  <1>10. \A l \in Connections :
           stages[l] # stage[l] =>
             stage[l] \in {"named", "read"} /\ stages[l] \in {"named", "given"}
    BY <1>2, <1>8
  <1>11. ASSUME NEW l \in g.mSockets PROVE stages[l] = "named"
    <2>1. l \in Connections /\ (l = k \/ l \in group[s].mSockets) /\ \A d : <<d, l>> \notin M
      BY <1>4, <1>6
    <2>2. CASE l = k
      BY <1>5, <1>8, <2>1, <2>2
    <2>3. CASE l # k
      BY <1>8, <1>9, <2>1, <2>3
    <2> QED BY <2>2, <2>3
  <1> QED BY <1>1, <1>2, <1>3, <1>6, <1>7, <1>8, <1>10, <1>11, TidyKeepsStop

LEMMA NameSocketKeepsStop ==
  ASSUME Inv, TypeOK', StopInv, UNCHANGED setting, NEW k \in Connections, NameSocket(k)
  PROVE  StopInv'
  <1> DEFINE h == <<"read", k>>
             x == clientOf(k)
             K == mSockets[x] \cup {k}
  <1>1. /\ Handle(h) /\ PromiseIfEmpty /\ h # <<"stop", None>> /\ ErasesSocket(h)
    BY DEF NameSocket, ErasesSocket
  <1>2. /\ stage[k] = "read" /\ x \in Clients /\ UNCHANGED <<service, mStopped>>
    BY Naming
  <1>3. ASSUME SetSocketMatched(k) PROVE StopInv'
    <2>1. PICK s \in GroupsFor(k) : Claim(s, x, group[s], K)
      BY <1>3 DEF SetSocketMatched
    <2>2. s \in mUnclaimedGroups /\ s \in Sessions
      BY DEF GroupsFor, Inv, TypeOK
    <2>3. /\ group[s] \in Groups /\ group[s].exists /\ group[s].mSockets = {}
          /\ K \in SUBSET Connections
      BY <1>2, <2>2 DEF Inv, TypeOK, Groups, GroupsMapped, MapsAgree
    <2>4. \A l \in K : stage[l] \in {"named", "read"}
      BY <1>2, <2>3 DEF Inv, SocketInv
    <2> HIDE DEF h, x, K
    <2> QED BY <1>1, <1>2, <2>1, <2>2, <2>3, <2>4, ClaimKeepsStop
  <1>4. ASSUME SetSocketWaits(k) PROVE StopInv'
    <2>1. /\ stage' = [stage EXCEPT ![k] = "named"]
          /\ UNCHANGED <<group, accepts, aborted, mListening, stoppedProm>>
      BY <1>4 DEF SetSocketWaits
    <2>2. \A l \in Connections : stage'[l] = IF l = k THEN "named" ELSE stage[l]
      BY <2>1 DEF Inv, TypeOK
    <2>3. /\ \A l \in Connections : stage[l] \in Trying => stage'[l] \in Trying
          /\ PendingSet' \subseteq PendingSet
          /\ \A l \in Connections : stage'[l] = "backlog" => stage[l] = "backlog"
      BY <1>2, <2>2 DEF Trying, PendingSet, Pending
    <2>4. /\ ~mListening' => accepts' = 0 /\ \A l \in Connections : stage'[l] # "backlog"
          /\ mStopped => ~mListening' /\ accepts' = 0 /\ aborted' = aborted
      BY <2>1, <2>3 DEF StopInv
    <2> HIDE DEF h
    <2> QED BY <1>1, <1>2, <2>1, <2>3, <2>4, HandlerKeepsStop
  <1> QED BY <1>3, <1>4, SetSocketPairedKeepsStop DEF NameSocket

LEMMA RunStrandKeepsStop ==
  ASSUME Inv, TypeOK', StopInv, UNCHANGED setting, RunStrand
  PROVE  StopInv'
  <1>1. ASSUME NEW k \in Connections \cup {None}, EraseSocket(k) PROVE StopInv'
    BY <1>1, GivenUpKeepsStop
  <1>2. ASSUME NEW k \in Connections, DropSocket(k) PROVE StopInv'
    BY <1>2, AcceptorAssumption, GivenUpKeepsStop
  <1>3. ASSUME NEW k \in Connections, NameSocket(k) PROVE StopInv'
    BY <1>3, NameSocketKeepsStop
  <1>4. ASSUME NEW s \in Sessions, Subscribe(s) \/ Unsubscribe(s) PROVE StopInv'
    BY <1>4, SubscribeKeepsStop, UnsubscribeKeepsStop
  <1>5. ASSUME NEW c \in Channels, CancelPending(c) \/ GetSocketPaired(c) \/ GetSocket(c)
        PROVE  StopInv'
    BY <1>5, CancelPendingKeepsStop, GetSocketPairedKeepsStop, GetSocketKeepsStop
  <1> QED
    BY <1>1, <1>2, <1>3, <1>4, <1>5, StartKeepsStop, StopKeepsStop DEF RunStrand

LEMMA InitStop == Init => StopInv
  <1> SUFFICES ASSUME Init PROVE StopInv
    OBVIOUS
  <1>1. \A h : ~Queued(h)
    BY DEF Init, Queued
  <1>2. PendingSet = {}
    BY DEF Init, PendingSet, Pending
  <1>3. IsFiniteSet(PendingSet)
    BY <1>2, FS_EmptySet
  <1>4. StopsOnce /\ Followed
    BY DEF Init, StopsOnce, Followed
  <1> QED BY <1>1, <1>3, <1>4 DEF Init, StopInv

LEMMA NextStop == Inv /\ Inv' /\ StopInv /\ [Next]_vars => StopInv'
  <1> SUFFICES ASSUME Inv, Inv', StopInv, [Next]_vars PROVE StopInv'
    OBVIOUS
  <1>1. CASE Next
    BY <1>1, UsersKeepStop, NetworkKeepsStop, RunStrandKeepsStop DEF Next, Step, Inv
  <1>2. CASE UNCHANGED vars
    <2>1. UNCHANGED <<pairing, sockets, life, service, strand>>
      BY <1>2 DEF vars, users
    <2> QED BY <2>1, UserKeepsStop
  <1> QED BY <1>1, <1>2

(* What is left when stop() returns.                                       *)
LEMMA StopLeavesNothing == Inv /\ StopInv => StopIsLast
  <1> SUFFICES ASSUME Inv, StopInv PROVE StopIsLast
    OBVIOUS
  <1>1. emptyProm <= 1 /\ stoppedProm <= 1
    BY DEF StopInv
  <1>2. ASSUME service = "returned"
        PROVE  /\ pendingSockets = 0
               /\ \A i \in DOMAIN strand :
                    \/ strand[i][1] \in {"subscribe", "unsubscribe"} /\ ~group[strand[i][2]].exists
                    \/ strand[i][1] = "cancel" /\ ~group[sessionOf[strand[i][2]]].exists
    <2>1. mStopped /\ NoSockets /\ ~hasSubscriptions(group)
      BY <1>2 DEF StopInv
    <2>2. pendingSockets = 0
      BY <2>1, PendingCount DEF Inv, StopInv
    <2>3. \A s \in Sessions : ~group[s].exists /\ ~group[s].mBase
      BY <2>1 DEF Inv, GroupsMapped, MapsAgree, hasSubscriptions, groupHasSubscriptions,
                  SessionInv, NoGroup
    <2>4. \A h : Queued(h) => ~ErasesSocket(h)
      BY <2>1, ErasedIsPending
    <2>5. ~Queued(<<"stop", None>>)
      BY <2>1 DEF StopInv
    <2>6. ~Queued(<<"start", None>>)
      <3>1. Followed
        BY <2>1 DEF StopInv, NoSockets, PendingSet, Pending, Trying
      <3>2. strand \in Seq(Handlers)
        BY DEF Inv, TypeOK
      <3>3. \A i \in DOMAIN strand : Queued(strand[i]) /\ strand[i] \in Handlers
        BY <3>2 DEF Queued
      <3>4. \A h \in Handlers : h[1] \in {"erase", "read", "part"} => ErasesSocket(h)
        BY DEF Handlers, ErasesSocket, Erase
      <3> QED BY <2>4, <3>1, <3>3, <3>4 DEF Queued, Followed
    <2>7. ASSUME NEW i \in DOMAIN strand
          PROVE  \/ strand[i][1] \in {"subscribe", "unsubscribe"} /\ ~group[strand[i][2]].exists
                 \/ strand[i][1] = "cancel" /\ ~group[sessionOf[strand[i][2]]].exists
      <3>1. strand[i] \in Handlers /\ Queued(strand[i])
        BY DEF Inv, TypeOK, Queued
      <3>2. CASE strand[i] \in {"subscribe", "unsubscribe"} \X Sessions
        BY <2>3, <3>2
      <3>3. ASSUME NEW c \in Channels, strand[i] = <<"getSocket", c>> PROVE FALSE
        BY <2>3, <3>1, <3>3, SessionOfType DEF Inv, GroupsMapped, GroupsFound
      <3>4. CASE \E c \in Channels : strand[i] = <<"cancel", c>>
        BY <2>3, <3>4, SessionOfType
      <3>5. \/ strand[i] \in {"subscribe", "unsubscribe"} \X Sessions
            \/ \E c \in Channels : strand[i] = <<"getSocket", c>>
            \/ \E c \in Channels : strand[i] = <<"cancel", c>>
            \/ ErasesSocket(strand[i])
            \/ strand[i] = <<"start", None>>
            \/ strand[i] = <<"stop", None>>
        BY <3>1 DEF Handlers, ErasesSocket, Erase
      <3>6. ~ErasesSocket(strand[i])
        BY <2>4, <3>1
      <3>7. strand[i] # <<"start", None>> /\ strand[i] # <<"stop", None>>
        BY <2>5, <2>6, <3>1
      <3> QED BY <3>2, <3>3, <3>4, <3>5, <3>6, <3>7
    <2> QED BY <2>2, <2>7
  <1> QED BY <1>1, <1>2 DEF StopIsLast

(* IOService::stop destroys the acceptor when Acceptor::stop returns: no   *)
(* socket is pending then, no handler on the strand needs a group, and     *)
(* neither promise was set twice.                                          *)
THEOREM StopsLast == Spec => []StopIsLast
  <1>1. Init => Inv /\ StopInv
    BY InitInv, InitStop
  <1>2. Inv /\ StopInv /\ [Next]_vars => (Inv /\ StopInv)'
    BY NextInv, NextStop
  <1> QED BY <1>1, <1>2, StopLeavesNothing, PTL DEF Spec
=============================================================================
