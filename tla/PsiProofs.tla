----------------------------- MODULE PsiProofs -----------------------------
(***************************************************************************)
(* Proofs about PsiProtocol for all keys, codes, table sizes, message      *)
(* sizes and numbers of iterations: what the dictionary encodes is counted *)
(* in every iteration, the protocol implements PsiIdeal, and neither party *)
(* is ever left waiting.                                                   *)
(*                                                                         *)
(* The parties hear of one another only through the two channels, so the   *)
(* invariant says how far apart they can be (ControlInv) and what is under *)
(* way between them (MailInv, MessagesInv).  The rows follow the argument  *)
(* of PrtyMOtProofs, within one iteration; the outputs follow from the     *)
(* linearity of the code (LinearityProofs).                                *)
(***************************************************************************)
EXTENDS PsiProtocol, LinearityProofs

-----------------------------------------------------------------------------
(* The inductive invariant.                                                *)

\* The parties' places in the program.
rpc   == pc[Receiver]
spc   == pc[Sender]
rIt   == iteration[Receiver]
sIt   == iteration[Sender]
rRow  == row[Receiver]
sRow  == row[Sender]

Greeting == {"hello1", "hello2"}

ReceiverLabels ==
    Greeting \cup {"createDictionary", "runOOS", "setup", "corrections", "close",
                   "computeXors", "receiveSize", "receiveXors", "done"}

SenderLabels ==
    Greeting \cup {"runOOS", "setup", "corrections", "close", "computeXors", "sendSize",
                   "sendXors", "done"}

\* The matrices of either end are those of its iteration.
Encodes  == rpc \in {"corrections", "close", "computeXors", "receiveSize", "receiveXors"}
Corrects == spc \in {"corrections", "close", "computeXors", "sendSize", "sendXors"}

\* Both ends are in the same iteration, and the receiver's is initialised.
Together == Encodes /\ sIt = rIt

\* One can be ahead of the other by one iteration, and only the sender, after it
\* has sent its outputs.
ControlInv ==
    /\ rpc \in ReceiverLabels /\ spc \in SenderLabels
    /\ rIt \in 0 .. times /\ sIt \in {rIt, rIt + 1} /\ sIt <= times
    /\ (rpc = "done" <=> rIt = times)
    /\ (spc = "done" <=> sIt = times)
    /\ sIt = rIt + 1 => Encodes /\ rpc # "corrections" /\ spc \notin Greeting
    /\ rpc = "receiveXors" /\ sIt = rIt => spc = "sendXors"
    /\ rpc \in Greeting => rIt = 0
    /\ spc \in Greeting => sIt = 0
    /\ spc = "hello1" => rpc = "hello1"
    /\ rpc \in Greeting => spc \in Greeting
    /\ rpc = "hello2" => spc = "hello2"

\* What was written to a party and not read.
ToSender == IF spc = "hello2" /\ rpc \notin Greeting THEN <<"init times">> ELSE <<>>

ToReceiver ==
    IF rpc \in Greeting
    THEN IF rpc = "hello1" /\ spc = "hello2" THEN <<"init times">> ELSE <<>>
    ELSE IF sIt = rIt + 1
    THEN IF rpc = "receiveXors" THEN <<xors>> ELSE <<Cardinality(Keys), xors>>
    ELSE IF spc = "sendXors" /\ rpc # "receiveXors" THEN <<Cardinality(Keys)>> ELSE <<>>

MailInv == toParty = [p \in Parties |-> IF p = Receiver THEN ToReceiver ELSE ToSender]

\* The receiver's matrices, row by row.
ReceiverInv ==
    Encodes =>
        /\ rStage = "ready"
        /\ mT0 = base0
        /\ rCorrectionIdx <= rRow /\ rRow <= numOTs
        /\ \A i \in Rows : mT1[i] = IF i < rRow THEN Correction(i) ELSE base1[i]
        /\ \A i \in Rows : i < rRow => mW[i] = sigma[i]
        /\ (rpc = "corrections" <=> rCorrectionIdx # numOTs)

\* The sender's matrices, row by row.
SenderInv ==
    Corrects =>
        /\ sStage = "ready"
        /\ sRow <= sCorrectionIdx
        /\ IF Together THEN sCorrectionIdx <= rCorrectionIdx ELSE sCorrectionIdx = 0
        /\ \A i \in Rows : i < sCorrectionIdx => mCorrectionVals[i] = Correction(i)
        /\ \A i \in Rows :
             mT[i] = IF i < sRow THEN Chosen(i) (+) (Correction(i) \cap mChoiceBlks) ELSE Chosen(i)
        /\ spc # "corrections" => sRow = numOTs

\* The messages lead from the sender's index to the receiver's, and nothing is
\* left of an earlier iteration.
MessagesInv ==
    /\ Together => Continues(outbound, IF Corrects THEN sCorrectionIdx ELSE 0, rCorrectionIdx)
    /\ ~ Together => outbound = <<>>
    /\ \A m \in 1 .. Len(outbound) : outbound[m].kind = "corrections" /\ outbound[m].count > 0
    /\ WireRows

\* Who is connecting was not served by the sender of another iteration.
NetInv ==
    /\ client = "connecting" =>
         /\ rpc \in {"setup", "corrections", "close"}
         /\ onWire = 0
         /\ sIt = rIt
         /\ Corrects => sCorrectionIdx = 0
    /\ listener = IF spc \in {"setup", "corrections", "close"} THEN sIt ELSE -1
    /\ SessionsPair

\* What either party outputs for a key.
Out(k) == Output(XorOver(indices[k], base0, CodeBits))

OutputInv ==
    /\ indices \in [Keys -> SUBSET Variables] /\ vals \in [Keys -> Word]
    /\ xorsSet \in {{}, {Out(k) : k \in Keys}}
    /\ rpc \in {"receiveSize", "receiveXors"} => xorsSet = {Out(k) : k \in Keys}
    /\ spc \in {"sendSize", "sendXors"} \/ sIt = rIt + 1 =>
         \A k \in Keys : Decodes(k) => xors[k] = Out(k)

PsiInv ==
    /\ TypeOK /\ ControlInv /\ MailInv /\ ReceiverInv /\ SenderInv /\ MessagesInv
    /\ NetInv /\ OutputInv

-----------------------------------------------------------------------------
(* Facts about the constants and the two parties.                          *)

LEMMA Sizes ==
    /\ numOTs \in Nat \ {0} /\ numRows \in Nat /\ numOTs <= numRows
    /\ times \in Nat \ {0} /\ stepSize \in Nat \ {0}
    /\ \A i \in Nat : i < numOTs => i \in Rows /\ i \in Variables
    /\ Variables \subseteq Rows /\ IsFiniteSet(Variables)
    /\ IsFiniteSet(Keys) /\ Cardinality(Keys) \in Nat
<1>1. numOTs \in Nat \ {0} /\ mStatSecParam \in Nat /\ numRows \in Nat
      /\ numOTs + mStatSecParam <= numRows
  BY OtAssumption, RowsRoom
<1>2. numOTs <= numRows
  BY <1>1
<1>3. /\ \A i \in Nat : i < numOTs => i \in Rows /\ i \in Variables
      /\ Variables \subseteq Rows
  BY <1>1, <1>2 DEF Rows, Variables
<1>4. IsFiniteSet(Variables)
  BY <1>1, FS_Interval DEF Variables
<1>5. IsFiniteSet(Keys) /\ Cardinality(Keys) \in Nat
  BY PsiAssumption, FS_CardinalityType
<1>6. QED BY <1>1, <1>2, <1>3, <1>4, <1>5, PsiAssumption

LEMMA TwoParties == Receiver \in Parties /\ Sender \in Parties /\ Receiver # Sender
BY DEF Receiver, Sender, Parties

\* Who writes to whom, and first: the parties' ids are 0 and 1.
LEMMA Partners ==
    /\ Other(Receiver) = Sender /\ Other(Sender) = Receiver
    /\ WritesFirst(Receiver) = FALSE /\ WritesFirst(Sender) = TRUE
BY DEF Other, Receiver, Sender, WritesFirst

\* What is written to a channel is read in order.
LEMMA OneOrTwo ==
    ASSUME NEW x, NEW y
    PROVE  /\ Append(<<>>, x) = <<x>> /\ Append(<<x>>, y) = <<x, y>>
           /\ Tail(<<x>>) = <<>> /\ Tail(<<x, y>>) = <<y>>
           /\ Head(<<x>>) = x /\ Head(<<x, y>>) = x /\ <<x>> # <<>> /\ <<x, y>> # <<>>
<1>1. Append(<<>>, x) = <<x>> /\ Tail(<<x>>) = <<>>
  OBVIOUS
<1>2. Append(<<x>>, y) = <<x, y>>
  <2> DEFINE t == Append(<<x>>, y)
             u == <<x, y>>
  <2>1. <<x>> \in Seq({x, y}) /\ Len(<<x>>) = 1 /\ <<x>>[1] = x /\ u \in Seq({x, y})
        /\ Len(u) = 2 /\ u[1] = x /\ u[2] = y
    OBVIOUS
  <2>2. t \in Seq({x, y}) /\ Len(t) = 2 /\ t[1] = x /\ t[2] = y
    BY <2>1, AppendProperties
  <2> HIDE DEF t, u
  <2>3. t = u
    BY <2>1, <2>2, SeqEqual
  <2>4. QED BY <2>3 DEF t, u
<1>3. Tail(<<x, y>>) = <<y>>
  OBVIOUS
<1>4. Head(<<x>>) = x /\ Head(<<x, y>>) = x /\ <<x>> # <<>> /\ <<x, y>> # <<>>
  OBVIOUS
<1>5. QED BY <1>1, <1>2, <1>3, <1>4

\* What a step changes of one party only.
LEMMA Moves ==
    ASSUME TypeOK
    PROVE  /\ \A l : Goto(Receiver, l) => rpc' = l /\ spc' = spc
           /\ \A l : Goto(Sender, l) => spc' = l /\ rpc' = rpc
           /\ \A x : row' = [row EXCEPT ![Receiver] = x] => rRow' = x /\ sRow' = sRow
           /\ \A x : row' = [row EXCEPT ![Sender] = x] => sRow' = x /\ rRow' = rRow
           /\ \A x : iteration' = [iteration EXCEPT ![Receiver] = x] => rIt' = x /\ sIt' = sIt
           /\ \A x : iteration' = [iteration EXCEPT ![Sender] = x] => sIt' = x /\ rIt' = rIt
           /\ pc' = pc => rpc' = rpc /\ spc' = spc
           /\ row' = row => rRow' = rRow /\ sRow' = sRow
           /\ iteration' = iteration => rIt' = rIt /\ sIt' = sIt
BY TwoParties DEF TypeOK, Goto, rpc, spc, rRow, sRow, rIt, sIt

LEMMA Numbers ==
    ASSUME PsiInv
    PROVE  /\ rIt \in Nat /\ sIt \in Nat /\ rIt <= times /\ sIt <= times
           /\ rRow \in 0 .. numOTs /\ sRow \in 0 .. numOTs
           /\ rCorrectionIdx \in 0 .. numRows /\ sCorrectionIdx \in 0 .. numRows
           /\ rCorrectionIdx \in Nat /\ sCorrectionIdx \in Nat
           /\ outbound \in Seq(Messages) /\ Len(outbound) \in Nat
           /\ onWire \in Nat /\ onWire <= Len(outbound)
BY Sizes, TwoParties DEF PsiInv, TypeOK, OtTypeOK, ControlInv, rIt, sIt, rRow, sRow

\* When the sender has corrected all its rows, the receiver has sent all of the
\* same iteration and nothing is under way.
LEMMA AllCorrected ==
    ASSUME PsiInv, Corrects, spc # "corrections"
    PROVE  /\ Together /\ rpc # "corrections"
           /\ rRow = numOTs /\ sRow = numOTs
           /\ rCorrectionIdx = numOTs /\ sCorrectionIdx = numOTs
           /\ outbound = <<>> /\ onWire = 0
           /\ client # "connecting"
<1>1. sRow = numOTs /\ sRow <= sCorrectionIdx
  BY DEF PsiInv, SenderInv
<1>2. Together /\ sCorrectionIdx <= rCorrectionIdx
  BY <1>1, Numbers, Sizes DEF PsiInv, SenderInv
<1>3. rCorrectionIdx <= rRow /\ rRow <= numOTs
  BY <1>2 DEF PsiInv, ReceiverInv, Together
<1>4. rRow = numOTs /\ rCorrectionIdx = numOTs /\ sCorrectionIdx = numOTs
  BY <1>1, <1>2, <1>3, Numbers, Sizes
<1>5. rpc # "corrections"
  BY <1>2, <1>4 DEF PsiInv, ReceiverInv, Together
<1>6. outbound = <<>>
  <2>1. Continues(outbound, numOTs, numOTs)
    BY <1>2, <1>4 DEF PsiInv, MessagesInv
  <2>2. ASSUME outbound # <<>> PROVE FALSE
    <3>1. 1 \in 1 .. Len(outbound) /\ outbound[1] \in Messages
      BY <2>2, Numbers
    <3>2. /\ outbound[1].from = numOTs /\ outbound[1].from + outbound[1].count <= numOTs
          /\ outbound[1].count > 0
      BY <2>1, <2>2, <3>1 DEF Continues, PsiInv, MessagesInv
    <3>3. QED BY <3>1, <3>2, MessageType, Sizes
  <2>3. QED BY <2>2
<1>7. onWire = 0
  BY <1>6, Numbers
<1>8. client # "connecting"
  BY <1>4, Sizes DEF PsiInv, NetInv
<1>9. QED BY <1>1, <1>2, <1>4, <1>5, <1>6, <1>7, <1>8

\* When the sender is an iteration ahead it waits for the receiver.
LEMMA SenderAhead ==
    ASSUME PsiInv, sIt = rIt + 1
    PROVE  /\ spc \in {"runOOS", "setup", "corrections", "done"}
           /\ ~ Together /\ outbound = <<>>
<1>1. ~ Together
  BY Numbers DEF Together
<1>2. Corrects => spc = "corrections"
  BY <1>1, AllCorrected
<1>3. QED BY <1>1, <1>2 DEF PsiInv, ControlInv, MessagesInv, Corrects, SenderLabels, Greeting

\* Before the receiver has initialised its matrices, both are in the same iteration.
LEMMA NotEncoding ==
    ASSUME PsiInv, ~ Encodes
    PROVE  /\ sIt = rIt /\ ~ Together /\ outbound = <<>> /\ onWire = 0
           /\ Corrects => spc = "corrections" /\ sCorrectionIdx = 0 /\ sRow = 0
<1>1. sIt = rIt /\ ~ Together
  BY DEF PsiInv, ControlInv, Together
<1>2. outbound = <<>>
  BY <1>1 DEF PsiInv, MessagesInv
<1>3. onWire = 0
  BY <1>2, Numbers
<1>4. Corrects => spc = "corrections" /\ sCorrectionIdx = 0 /\ sRow = 0
  BY <1>1, AllCorrected, Numbers DEF PsiInv, SenderInv
<1>5. QED BY <1>1, <1>2, <1>3, <1>4

-----------------------------------------------------------------------------
(* What a step leaves alone.                                               *)

\* What each party will read next.
LEMMA Mail ==
    ASSUME PsiInv
    PROVE  /\ toParty[Receiver] = ToReceiver /\ toParty[Sender] = ToSender
           /\ toParty' = toParty /\ ToReceiver' = ToReceiver /\ ToSender' = ToSender => MailInv'
           /\ \A s : /\ toParty' = [toParty EXCEPT ![Receiver] = s]
                     /\ ToReceiver' = s /\ ToSender' = ToSender
                     => MailInv'
           /\ \A s : /\ toParty' = [toParty EXCEPT ![Sender] = s]
                     /\ ToReceiver' = ToReceiver /\ ToSender' = s
                     => MailInv'
BY TwoParties DEF PsiInv, MailInv, Parties, Receiver, Sender

\* The plain channel holds at most the size and the outputs.
LEMMA MailLength == ASSUME MailInv' PROVE \A p \in Parties : Len(toParty'[p]) <= 2
<1>1. Len(ToReceiver)' <= 2
  BY DEF ToReceiver
<1>2. Len(ToSender)' <= 2
  BY DEF ToSender
<1>3. QED BY <1>1, <1>2 DEF MailInv

\* The types that no step of the network or of the plain channel disturbs.
LEMMA TypeFrame ==
    ASSUME TypeOK, OtTypeOK', MailInv',
           \/ pc' = pc
           \/ \E l \in ReceiverLabels : Goto(Receiver, l)
           \/ \E l \in SenderLabels : Goto(Sender, l),
           \/ iteration' = iteration
           \/ \E p \in Parties, n \in 0 .. times : iteration' = [iteration EXCEPT ![p] = n],
           \/ row' = row
           \/ \E p \in Parties, n \in 0 .. numOTs : row' = [row EXCEPT ![p] = n],
           sigma' \in [Variables -> Word], xorsSet' \in SUBSET Row, xors' \in [Keys -> Row],
           count' \in -1 .. Cardinality(Keys),
           client' \in {"closed", "connecting", "open"},
           server' \in {"closed", "listening", "open"},
           listener' \in -1 .. times - 1, backlog' \in BOOLEAN
    PROVE  TypeOK'
<1> DEFINE L == {"hello1", "hello2", "createDictionary", "runOOS", "setup",
                 "corrections", "close", "computeXors", "receiveSize",
                 "receiveXors", "sendSize", "sendXors", "done"}
<1>1. ReceiverLabels \subseteq L /\ SenderLabels \subseteq L
  BY DEF ReceiverLabels, SenderLabels, Greeting
<1> HIDE DEF L
<1>2. pc' \in [Parties -> L]
  <2>1. pc \in [Parties -> L]
    BY DEF TypeOK, L
  <2>2. QED BY <1>1, <2>1 DEF Goto
<1>3. iteration' \in [Parties -> 0 .. times]
  BY DEF TypeOK
<1>4. row' \in [Parties -> 0 .. numOTs]
  BY DEF TypeOK
<1>5. \A p \in Parties : Len(toParty'[p]) <= 2
  BY MailLength
<1>6. QED BY <1>2, <1>3, <1>4, <1>5 DEF TypeOK, L

\* Steps that do not touch the OT.
LEMMA OtFrame ==
    ASSUME PsiInv, UNCHANGED otVars
    PROVE  /\ OtTypeOK' /\ WireRows'
           /\ \A i : Correction(i)' = Correction(i) /\ Chosen(i)' = Chosen(i)
<1>1. \A i : Correction(i)' = Correction(i) /\ Chosen(i)' = Chosen(i)
  BY CorrectionsFrame, ChosenFrame DEF otVars, recvVars
<1>2. OtTypeOK'
  BY DEF PsiInv, TypeOK, OtTypeOK, otVars, baseVars, recvVars, sendVars, chanVars, Messages
<1>3. WireRows'
  BY <1>1 DEF PsiInv, MessagesInv, WireRows, otVars, chanVars
<1>4. QED BY <1>1, <1>2, <1>3

\* A step may end an iteration of either party, but begins none.
LEMMA RowsFrame ==
    ASSUME PsiInv, UNCHANGED <<otVars, row>>,
           Encodes' => /\ Encodes /\ sigma' = sigma
                       /\ (rpc' = "corrections" <=> rpc = "corrections"),
           Corrects' => Corrects /\ (spc' = "corrections" <=> spc = "corrections"),
           Together' => Together /\ (Corrects' <=> Corrects),
           ~ Together' => outbound = <<>> /\ (Corrects' => sCorrectionIdx = 0)
    PROVE  OtTypeOK' /\ ReceiverInv' /\ SenderInv' /\ MessagesInv'
<1>1. /\ OtTypeOK' /\ WireRows'
      /\ \A i : Correction(i)' = Correction(i) /\ Chosen(i)' = Chosen(i)
  BY OtFrame
<1>2. UNCHANGED <<rStage, mT0, mT1, mW, rCorrectionIdx, base0, base1, mChoiceBlks, sStage, mT,
                  mCorrectionVals, sCorrectionIdx, outbound, onWire>>
  BY DEF otVars, baseVars, recvVars, sendVars, chanVars
<1>3. rRow' = rRow /\ sRow' = sRow
  BY Moves DEF PsiInv
<1>4. ReceiverInv'
  BY <1>1, <1>2, <1>3 DEF PsiInv, ReceiverInv, Rows, numRows, roundUpTo
<1>5. SenderInv'
  BY <1>1, <1>2, <1>3 DEF PsiInv, SenderInv, Rows, numRows, roundUpTo
<1>6. MessagesInv'
  BY <1>1, <1>2 DEF PsiInv, MessagesInv
<1>7. QED BY <1>1, <1>4, <1>5, <1>6

\* The outputs are made from the seeds, the dictionary and the keys alone.
LEMMA OutFrame ==
    ASSUME UNCHANGED <<base0, indices>>
    PROVE  \A k : Out(k)' = Out(k)
BY DEF Out, Output, XorOver

LEMMA DecodesFrame ==
    ASSUME UNCHANGED <<indices, sigma, vals>>
    PROVE  \A k : Decodes(k)' <=> Decodes(k)
BY DEF Decodes, XorOver

LEMMA OutputFrame ==
    ASSUME PsiInv, UNCHANGED <<base0, indices, vals, sigma, xorsSet, xors>>,
           rpc' \in {"receiveSize", "receiveXors"} => rpc \in {"receiveSize", "receiveXors"},
           spc' \in {"sendSize", "sendXors"} \/ sIt' = rIt' + 1 =>
             spc \in {"sendSize", "sendXors"} \/ sIt = rIt + 1
    PROVE  OutputInv'
<1>1. \A k : Out(k)' = Out(k) /\ (Decodes(k)' <=> Decodes(k))
  BY OutFrame, DecodesFrame
<1>2. {Out(k) : k \in Keys}' = {Out(k) : k \in Keys}
  BY <1>1
<1> DEFINE A == {Out(k) : k \in Keys}
<1> HIDE DEF A
<1>3. (indices \in [Keys -> SUBSET Variables] /\ vals \in [Keys -> Word])'
  BY DEF PsiInv, OutputInv
<1>4. xorsSet' \in {{}, A} /\ (rpc' \in {"receiveSize", "receiveXors"} => xorsSet' = A)
  BY DEF PsiInv, OutputInv, A
<1>5. spc' \in {"sendSize", "sendXors"} \/ sIt' = rIt' + 1 =>
        \A k \in Keys : Decodes(k)' => xors'[k] = Out(k)'
  BY <1>1 DEF PsiInv, OutputInv
<1>6. A' = A
  BY <1>2 DEF A
<1>7. QED BY <1>3, <1>4, <1>5, <1>6 DEF OutputInv, A

-----------------------------------------------------------------------------
(* The steps that do not touch the OT preserve the invariant.              *)

\* The greeting: who writes first reads last.
LEMMA GreetReceiver == ASSUME PsiInv, Greet(Receiver) PROVE PsiInv'
<1>1. /\ rpc \in Greeting /\ (rpc = "hello1" => toParty[Receiver] # <<>>)
      /\ IF rpc = "hello1" THEN toParty' = [toParty EXCEPT ![Receiver] = Tail(@)]
                           ELSE toParty' = [toParty EXCEPT ![Sender] = Append(@, "init times")]
      /\ Goto(Receiver, IF rpc = "hello1" THEN "hello2" ELSE "createDictionary")
      /\ UNCHANGED <<otVars, iteration, row, dataVars, netVars>>
  BY Partners DEF Greet, read, write, rpc, Greeting
<1>2. /\ rpc' = (IF rpc = "hello1" THEN "hello2" ELSE "createDictionary") /\ spc' = spc
      /\ rIt' = rIt /\ sIt' = sIt
  BY <1>1, Moves DEF PsiInv
<1>3. /\ ToReceiver = (IF spc = "hello2" /\ rpc = "hello1" THEN <<"init times">> ELSE <<>>)
      /\ ToSender = <<>> /\ spc \in Greeting /\ rIt = 0 /\ sIt = 0
      /\ (rpc = "hello2" => spc = "hello2")
  <2>1. rIt = 0 /\ spc \in Greeting /\ sIt = 0 /\ (rpc = "hello2" => spc = "hello2")
    BY <1>1 DEF PsiInv, ControlInv
  <2>2. QED BY <1>1, <2>1 DEF ToReceiver, ToSender, Greeting
<1>4. spc = "hello2"
  BY <1>1, <1>3, Mail DEF Greeting
<1>5. MailInv'
  <2>1. CASE rpc = "hello1"
    <3>1. toParty[Receiver] = <<"init times">> /\ Tail(<<"init times">>) = <<>>
      BY <1>3, <1>4, <2>1, Mail, OneOrTwo
    <3>2. toParty' = [toParty EXCEPT ![Receiver] = <<>>]
      BY <1>1, <2>1, <3>1
    <3>3. ToReceiver' = <<>> /\ ToSender' = ToSender
      BY <1>2, <1>3, <1>4, <2>1 DEF ToReceiver, ToSender, Greeting
    <3>4. QED BY <3>2, <3>3, Mail
  <2>2. CASE rpc = "hello2"
    <3>1. toParty[Sender] = <<>> /\ Append(<<>>, "init times") = <<"init times">>
      BY <1>3, Mail, OneOrTwo
    <3>2. toParty' = [toParty EXCEPT ![Sender] = <<"init times">>]
      BY <1>1, <2>2, <3>1
    <3>3. ToReceiver' = ToReceiver /\ ToSender' = <<"init times">>
      <4>1. rpc' = "createDictionary" /\ spc' = "hello2" /\ sIt' = 0 /\ rIt' = 0
        BY <1>2, <1>3, <1>4, <2>2
      <4>2. ToReceiver = <<>> /\ ToReceiver' = <<>>
        BY <1>3, <2>2, <4>1 DEF ToReceiver, Greeting
      <4>3. QED BY <4>1, <4>2 DEF ToSender, Greeting
    <3>4. QED BY <3>2, <3>3, Mail
  <2>3. QED BY <1>1, <2>1, <2>2 DEF Greeting
<1>6. ControlInv'
  BY <1>1, <1>2, <1>3, <1>4, Sizes DEF PsiInv, ControlInv, ReceiverLabels, Greeting, Encodes
<1>7. ~ Encodes /\ ~ Encodes' /\ ~ Corrects' /\ ~ Corrects /\ ~ Together' /\ ~ Together
  BY <1>1, <1>2, <1>4 DEF Encodes, Corrects, Together, Greeting
<1>8. OtTypeOK' /\ ReceiverInv' /\ SenderInv' /\ MessagesInv'
  BY <1>1, <1>7, NotEncoding, RowsFrame
<1>9. NetInv'
  BY <1>1, <1>2, <1>4 DEF PsiInv, NetInv, SessionsPair, netVars, Greeting
<1>10. OutputInv'
  BY <1>1, <1>2, <1>4, OutputFrame DEF dataVars, otVars, baseVars, Greeting
<1>11. TypeOK'
  <2>1. \E l \in ReceiverLabels : Goto(Receiver, l)
    BY <1>1 DEF ReceiverLabels, Greeting
  <2>2. QED BY <1>1, <1>5, <1>8, <2>1, TypeFrame DEF PsiInv, TypeOK, dataVars, netVars
<1>12. QED BY <1>5, <1>6, <1>8, <1>9, <1>10, <1>11 DEF PsiInv

LEMMA GreetSender == ASSUME PsiInv, Greet(Sender) PROVE PsiInv'
<1>1. /\ spc \in Greeting /\ (spc = "hello2" => toParty[Sender] # <<>>)
      /\ IF spc = "hello2" THEN toParty' = [toParty EXCEPT ![Sender] = Tail(@)]
                           ELSE toParty' = [toParty EXCEPT ![Receiver] = Append(@, "init times")]
      /\ Goto(Sender, IF spc = "hello1" THEN "hello2" ELSE "runOOS")
      /\ UNCHANGED <<otVars, iteration, row, dataVars, netVars>>
  BY Partners, TwoParties DEF Greet, read, write, spc, Greeting
<1>2. /\ spc' = (IF spc = "hello1" THEN "hello2" ELSE "runOOS") /\ rpc' = rpc
      /\ rIt' = rIt /\ sIt' = sIt
  BY <1>1, Moves DEF PsiInv
<1>3. /\ sIt = 0 /\ rIt = 0
      /\ spc = "hello1" => rpc = "hello1"
      /\ ToSender = IF spc = "hello2" /\ rpc \notin Greeting THEN <<"init times">> ELSE <<>>
      /\ rpc \in Greeting => ToReceiver = IF rpc = "hello1" /\ spc = "hello2"
                                          THEN <<"init times">> ELSE <<>>
  <2>1. sIt = 0 /\ rIt \in 0 .. times /\ sIt \in {rIt, rIt + 1}
    BY <1>1 DEF PsiInv, ControlInv
  <2>2. rIt = 0
    BY <2>1, Numbers, Sizes
  <2>3. QED BY <1>1, <2>1, <2>2 DEF PsiInv, ControlInv, ToReceiver, ToSender
<1>4. spc = "hello2" => rpc \notin Greeting
  BY <1>1, <1>3, Mail
<1>5. MailInv'
  <2>1. CASE spc = "hello1"
    <3>1. toParty[Receiver] = <<>> /\ Append(<<>>, "init times") = <<"init times">>
      BY <1>3, <2>1, Mail, OneOrTwo DEF Greeting
    <3>2. toParty' = [toParty EXCEPT ![Receiver] = <<"init times">>]
      BY <1>1, <2>1, <3>1
    <3>3. ToReceiver' = <<"init times">> /\ ToSender' = ToSender
      BY <1>2, <1>3, <2>1 DEF ToReceiver, ToSender, Greeting
    <3>4. QED BY <3>2, <3>3, Mail
  <2>2. CASE spc = "hello2"
    <3>1. toParty[Sender] = <<"init times">> /\ Tail(<<"init times">>) = <<>>
      BY <1>3, <1>4, <2>2, Mail, OneOrTwo
    <3>2. toParty' = [toParty EXCEPT ![Sender] = <<>>]
      BY <1>1, <2>2, <3>1
    <3>3. ToSender' = <<>> /\ ToReceiver' = ToReceiver
      <4>1. Cardinality(Keys)' = Cardinality(Keys) /\ xors' = xors
        BY <1>1 DEF dataVars
      <4>2. spc' = "runOOS" /\ spc # "sendXors" /\ rIt' = rIt /\ sIt' = sIt /\ rpc' = rpc
        BY <1>2, <2>2
      <4>3. QED BY <1>4, <2>2, <4>1, <4>2 DEF ToReceiver, ToSender
    <3>4. QED BY <3>2, <3>3, Mail
  <2>3. QED BY <1>1, <2>1, <2>2 DEF Greeting
<1>6. ControlInv'
  BY <1>1, <1>2, <1>3, <1>4, Sizes DEF PsiInv, ControlInv, SenderLabels, Greeting, Encodes
<1>7. /\ (Encodes' <=> Encodes) /\ ~ Corrects' /\ ~ Corrects /\ (Together' <=> Together)
      /\ rpc' = rpc
  BY <1>1, <1>2 DEF Encodes, Corrects, Together, Greeting
<1>8. OtTypeOK' /\ ReceiverInv' /\ SenderInv' /\ MessagesInv'
  <2>1. ~ Together => outbound = <<>>
    BY DEF PsiInv, MessagesInv
  <2>2. QED BY <1>1, <1>7, <2>1, RowsFrame DEF dataVars
<1>9. NetInv'
  BY <1>1, <1>2, <1>7 DEF PsiInv, NetInv, SessionsPair, netVars, Greeting, otVars, chanVars
<1>10. OutputInv'
  BY <1>1, <1>2, OutputFrame DEF dataVars, otVars, baseVars, Greeting
<1>11. TypeOK'
  <2>1. \E l \in SenderLabels : Goto(Sender, l)
    BY <1>1 DEF SenderLabels, Greeting
  <2>2. QED BY <1>1, <1>5, <1>8, <2>1, TypeFrame DEF PsiInv, TypeOK, dataVars, netVars
<1>12. QED BY <1>5, <1>6, <1>8, <1>9, <1>10, <1>11 DEF PsiInv

\* createDictionary gives the variables any values; nothing has used them yet.
LEMMA CreateStep == ASSUME PsiInv, createDictionary PROVE PsiInv'
<1>1. /\ rpc = "createDictionary" /\ rpc' = "runOOS" /\ spc' = spc
      /\ rIt' = rIt /\ sIt' = sIt
      /\ Goto(Receiver, "runOOS") /\ sigma' \in [Variables -> Word]
      /\ UNCHANGED <<otVars, indices, vals, iteration, row, xorsSet, xors, count, toParty, netVars>>
  BY Moves DEF createDictionary, rpc, PsiInv
<1>2. /\ ~ Encodes /\ ~ Encodes' /\ (Corrects' <=> Corrects) /\ ~ Together' /\ ~ Together
      /\ sIt = rIt /\ outbound = <<>>
      /\ Corrects => spc = "corrections" /\ sCorrectionIdx = 0
  BY <1>1, NotEncoding DEF Encodes, Corrects, Together
<1>3. MailInv'
  <2>1. ToReceiver' = ToReceiver /\ ToSender' = ToSender
    BY <1>1 DEF ToReceiver, ToSender, Greeting
  <2>2. QED BY <1>1, <2>1, Mail
<1>4. ControlInv'
  BY <1>1, <1>2 DEF PsiInv, ControlInv, ReceiverLabels, Greeting
<1>5. OtTypeOK' /\ ReceiverInv' /\ SenderInv' /\ MessagesInv'
  BY <1>1, <1>2, RowsFrame
<1>6. NetInv'
  BY <1>1 DEF PsiInv, NetInv, SessionsPair, netVars
<1>7. OutputInv'
  <2>1. spc \notin {"sendSize", "sendXors"} /\ sIt' # rIt' + 1
    BY <1>1, <1>2, Numbers DEF Corrects
  <2>2. \A k : Out(k)' = Out(k)
    BY <1>1, OutFrame DEF otVars, baseVars
  <2>3. xorsSet \in {{}, {Out(k) : k \in Keys}} /\ {Out(k) : k \in Keys}' = {Out(k) : k \in Keys}
    BY <2>2 DEF PsiInv, OutputInv
  <2> DEFINE A == {Out(k) : k \in Keys}
  <2> HIDE DEF A
  <2>4. (xorsSet \in {{}, A})'
    BY <1>1, <2>3 DEF A
  <2>5. QED BY <1>1, <2>1, <2>4 DEF PsiInv, OutputInv, A
<1>8. TypeOK'
  <2>1. \E l \in ReceiverLabels : Goto(Receiver, l)
    BY <1>1 DEF ReceiverLabels, Greeting
  <2>2. QED BY <1>1, <1>3, <1>5, <2>1, TypeFrame DEF PsiInv, TypeOK, netVars
<1>9. QED BY <1>3, <1>4, <1>5, <1>6, <1>7, <1>8 DEF PsiInv

LEMMA ReceiverCloseStep == ASSUME PsiInv, ReceiverClose PROVE PsiInv'
<1>1. /\ rpc = "close" /\ rpc' = "computeXors" /\ spc' = spc
      /\ rIt' = rIt /\ sIt' = sIt
      /\ Goto(Receiver, "computeXors") /\ client' = "closed"
      /\ UNCHANGED <<otVars, iteration, row, dataVars, toParty, server, listener, backlog, session>>
  BY Moves DEF ReceiverClose, rpc, PsiInv
<1>2. /\ Encodes /\ Encodes' /\ (Corrects' <=> Corrects) /\ (Together' <=> Together)
  BY <1>1 DEF Encodes, Corrects, Together
<1>3. MailInv'
  <2>1. ToReceiver' = ToReceiver /\ ToSender' = ToSender
    BY <1>1 DEF ToReceiver, ToSender, Greeting, dataVars
  <2>2. QED BY <1>1, <2>1, Mail
<1>4. ControlInv'
  BY <1>1, <1>2 DEF PsiInv, ControlInv, ReceiverLabels, Greeting
<1>5. OtTypeOK' /\ ReceiverInv' /\ SenderInv' /\ MessagesInv'
  <2>1. ~ Together => outbound = <<>> /\ (Corrects => sCorrectionIdx = 0)
    BY DEF PsiInv, MessagesInv, SenderInv
  <2>2. QED BY <1>1, <1>2, <2>1, RowsFrame DEF dataVars
<1>6. NetInv'
  BY <1>1 DEF PsiInv, NetInv, SessionsPair
<1>7. OutputInv'
  BY <1>1, OutputFrame DEF otVars, baseVars, dataVars
<1>8. TypeOK'
  <2>1. \E l \in ReceiverLabels : Goto(Receiver, l)
    BY <1>1 DEF ReceiverLabels, Greeting
  <2>2. QED BY <1>1, <1>3, <1>5, <2>1, TypeFrame DEF PsiInv, TypeOK, dataVars
<1>9. QED BY <1>3, <1>4, <1>5, <1>6, <1>7, <1>8 DEF PsiInv

\* T0 is still the row of the seeds when the Receiver makes its outputs.
LEMMA ReceiverXors == ASSUME PsiInv, Encodes PROVE \A k : ReceiverXor(k) = Out(k)
BY DEF PsiInv, ReceiverInv, ReceiverXor, Out

LEMMA OutputType == \A k : Out(k) \in Row
BY SumType DEF Out, Output, Row

LEMMA ReceiverComputeXorsStep == ASSUME PsiInv, ReceiverComputeXors PROVE PsiInv'
<1>1. /\ rpc = "computeXors" /\ rpc' = "receiveSize" /\ spc' = spc
      /\ rIt' = rIt /\ sIt' = sIt
      /\ Goto(Receiver, "receiveSize")
      /\ xorsSet' = xorsSet \cup {ReceiverXor(k) : k \in Keys}
      /\ UNCHANGED <<otVars, indices, vals, iteration, row, sigma, xors, count, toParty, netVars>>
  BY Moves DEF ReceiverComputeXors, rpc, PsiInv
<1>2. /\ Encodes /\ Encodes' /\ (Corrects' <=> Corrects) /\ (Together' <=> Together)
  BY <1>1 DEF Encodes, Corrects, Together
<1>3. MailInv'
  <2>1. ToReceiver' = ToReceiver /\ ToSender' = ToSender
    BY <1>1 DEF ToReceiver, ToSender, Greeting
  <2>2. QED BY <1>1, <2>1, Mail
<1>4. ControlInv'
  BY <1>1, <1>2 DEF PsiInv, ControlInv, ReceiverLabels, Greeting
<1>5. OtTypeOK' /\ ReceiverInv' /\ SenderInv' /\ MessagesInv'
  <2>1. ~ Together => outbound = <<>> /\ (Corrects => sCorrectionIdx = 0)
    BY DEF PsiInv, MessagesInv, SenderInv
  <2>2. QED BY <1>1, <1>2, <2>1, RowsFrame
<1>6. NetInv'
  BY <1>1 DEF PsiInv, NetInv, SessionsPair, netVars, otVars, chanVars, sendVars
<1> DEFINE A == {Out(k) : k \in Keys}
<1>7. /\ xorsSet' = A /\ A \subseteq Row /\ A' = A
  <2>1. {ReceiverXor(k) : k \in Keys} = A
    BY <1>2, ReceiverXors
  <2>2. xorsSet \in {{}, A}
    BY DEF PsiInv, OutputInv
  <2>3. A \subseteq Row
    BY OutputType
  <2>4. A' = A
    BY <1>1, OutFrame DEF otVars, baseVars
  <2> HIDE DEF A
  <2>5. QED BY <1>1, <2>1, <2>2, <2>3, <2>4
<1> HIDE DEF A
<1>8. OutputInv'
  <2>1. \A k : Out(k)' = Out(k) /\ (Decodes(k)' <=> Decodes(k))
    BY <1>1, OutFrame, DecodesFrame DEF otVars, baseVars
  <2>2. (/\ indices \in [Keys -> SUBSET Variables] /\ vals \in [Keys -> Word])'
    BY <1>1 DEF PsiInv, OutputInv
  <2>3. spc' \in {"sendSize", "sendXors"} \/ sIt' = rIt' + 1 =>
          \A k \in Keys : Decodes(k)' => xors'[k] = Out(k)'
    BY <1>1, <2>1 DEF PsiInv, OutputInv
  <2>4. QED BY <1>7, <2>2, <2>3 DEF OutputInv, A
<1>9. TypeOK'
  <2>1. \E l \in ReceiverLabels : Goto(Receiver, l)
    BY <1>1 DEF ReceiverLabels, Greeting
  <2>2. xorsSet' \in SUBSET Row
    BY <1>7
  <2>3. QED BY <1>1, <1>3, <1>5, <2>1, <2>2, TypeFrame DEF PsiInv, TypeOK, netVars
<1>10. QED BY <1>3, <1>4, <1>5, <1>6, <1>8, <1>9 DEF PsiInv

\* The size was written by the Sender of the same iteration, which may already
\* have written its outputs too.
LEMMA ReceiveSizeStep == ASSUME PsiInv, ReceiveSize PROVE PsiInv'
<1>1. /\ rpc = "receiveSize" /\ rpc' = "receiveXors" /\ spc' = spc
      /\ rIt' = rIt /\ sIt' = sIt
      /\ Goto(Receiver, "receiveXors")
      /\ toParty[Receiver] # <<>>
      /\ toParty' = [toParty EXCEPT ![Receiver] = Tail(@)]
      /\ UNCHANGED <<otVars, iteration, row, dataVars, netVars>>
  BY Moves DEF ReceiveSize, read, rpc, PsiInv
<1>2. /\ Encodes /\ Encodes' /\ (Corrects' <=> Corrects) /\ (Together' <=> Together)
  BY <1>1 DEF Encodes, Corrects, Together
<1>3. /\ sIt = rIt + 1 => ToReceiver = <<Cardinality(Keys), xors>>
      /\ sIt # rIt + 1 => ToReceiver = <<Cardinality(Keys)>> /\ spc = "sendXors"
  BY <1>1, Mail DEF ToReceiver, Greeting
<1>4. MailInv'
  <2>1. Tail(toParty[Receiver]) = IF sIt = rIt + 1 THEN <<xors>> ELSE <<>>
    <3>1. CASE sIt = rIt + 1
      <4>1. toParty[Receiver] = <<Cardinality(Keys), xors>>
        BY <1>3, <3>1, Mail
      <4>2. Tail(<<Cardinality(Keys), xors>>) = <<xors>>
        BY OneOrTwo
      <4>3. QED BY <3>1, <4>1, <4>2
    <3>2. CASE sIt # rIt + 1
      <4>1. toParty[Receiver] = <<Cardinality(Keys)>>
        BY <1>3, <3>2, Mail
      <4>2. Tail(<<Cardinality(Keys)>>) = <<>>
        BY OneOrTwo
      <4>3. QED BY <3>2, <4>1, <4>2
    <3>3. QED BY <3>1, <3>2
  <2>2. /\ ToReceiver' = (IF sIt = rIt + 1 THEN <<xors>> ELSE <<>>)
        /\ ToSender' = ToSender
    BY <1>1 DEF ToReceiver, ToSender, Greeting, dataVars
  <2>3. QED BY <1>1, <2>1, <2>2, Mail
<1>5. ControlInv'
  BY <1>1, <1>2, <1>3 DEF PsiInv, ControlInv, ReceiverLabels, Greeting
<1>6. OtTypeOK' /\ ReceiverInv' /\ SenderInv' /\ MessagesInv'
  <2>1. ~ Together => outbound = <<>> /\ (Corrects => sCorrectionIdx = 0)
    BY DEF PsiInv, MessagesInv, SenderInv
  <2>2. QED BY <1>1, <1>2, <2>1, RowsFrame DEF dataVars
<1>7. NetInv'
  BY <1>1 DEF PsiInv, NetInv, SessionsPair, netVars
<1>8. OutputInv'
  BY <1>1, OutputFrame DEF otVars, baseVars, dataVars
<1>9. TypeOK'
  <2>1. \E l \in ReceiverLabels : Goto(Receiver, l)
    BY <1>1 DEF ReceiverLabels, Greeting
  <2>2. QED BY <1>1, <1>4, <1>6, <2>1, TypeFrame DEF PsiInv, TypeOK, dataVars, netVars
<1>10. QED BY <1>4, <1>5, <1>6, <1>7, <1>8, <1>9 DEF PsiInv

\* What is read after the size are the outputs of this iteration.
LEMMA OutputsArrive ==
    ASSUME PsiInv, rpc = "receiveXors", toParty[Receiver] # <<>>
    PROVE  sIt = rIt + 1 /\ ToReceiver = <<xors>> /\ Head(toParty[Receiver]) = xors
<1>1. sIt = rIt + 1 /\ ToReceiver = <<xors>>
  BY Mail DEF ToReceiver, Greeting
<1>2. QED BY <1>1, Mail, OneOrTwo

\* A number of keys is a number between 0 and that of all keys.
LEMMA CountType ==
    ASSUME NEW S \in SUBSET Keys
    PROVE  Cardinality(S) \in 0 .. Cardinality(Keys)
<1>1. /\ IsFiniteSet(S) /\ Cardinality(S) <= Cardinality(Keys)
  BY Sizes, FS_Subset
<1>2. Cardinality(S) \in Nat /\ Cardinality(Keys) \in Nat
  BY <1>1, Sizes, FS_CardinalityType
<1>3. QED BY <1>1, <1>2

LEMMA ReceiveXorsStep == ASSUME PsiInv, ReceiveXors PROVE PsiInv'
<1>1. /\ rpc = "receiveXors" /\ spc' = spc
      /\ rpc' = IF rIt + 1 < times THEN "createDictionary" ELSE "done"
      /\ rIt' = rIt + 1 /\ sIt' = sIt
      /\ Goto(Receiver, IF rIt + 1 < times THEN "createDictionary" ELSE "done")
      /\ toParty[Receiver] # <<>>
      /\ toParty' = [toParty EXCEPT ![Receiver] = Tail(@)]
      /\ iteration' = [iteration EXCEPT ![Receiver] = rIt + 1]
      /\ count' = Cardinality(Matches(Head(toParty[Receiver])))
      /\ UNCHANGED <<otVars, indices, vals, row, sigma, xorsSet, xors, netVars>>
  <2>1. /\ iteration' = [iteration EXCEPT ![Receiver] = rIt + 1]
        /\ Goto(Receiver, IF rIt + 1 < times THEN "createDictionary" ELSE "done")
    BY DEF ReceiveXors, rIt
  <2>2. QED BY <2>1, Moves DEF ReceiveXors, read, rpc, PsiInv
<1>2. /\ sIt = rIt + 1 /\ ToReceiver = <<xors>>
      /\ spc \in {"runOOS", "setup", "corrections", "done"}
      /\ ~ Together /\ outbound = <<>> /\ rIt + 1 <= times
  BY <1>1, OutputsArrive, SenderAhead DEF PsiInv, ControlInv
<1>3. /\ ~ Encodes' /\ (Corrects' <=> Corrects) /\ ~ Together'
      /\ sIt' = rIt' /\ rIt' # rIt /\ (rIt' = times <=> rpc' = "done")
      /\ rpc' \in {"createDictionary", "done"} /\ sIt' # rIt' + 1
      /\ rIt' \in 0 .. times
  BY <1>1, <1>2, Numbers, Sizes DEF Encodes, Corrects, Together
<1>4. MailInv'
  <2>1. toParty' = [toParty EXCEPT ![Receiver] = <<>>]
    BY <1>1, <1>2, Mail, OneOrTwo
  <2>2. ToReceiver' = <<>> /\ ToSender' = ToSender
    BY <1>1, <1>2, <1>3 DEF ToReceiver, ToSender, Greeting
  <2>3. QED BY <2>1, <2>2, Mail
<1>5. ControlInv'
  BY <1>1, <1>2, <1>3 DEF PsiInv, ControlInv, ReceiverLabels, SenderLabels, Greeting
<1>6. OtTypeOK' /\ ReceiverInv' /\ SenderInv' /\ MessagesInv'
  <2>1. Corrects => sCorrectionIdx = 0
    BY <1>2 DEF PsiInv, SenderInv
  <2>2. QED BY <1>1, <1>2, <1>3, <2>1, RowsFrame
<1>7. NetInv'
  BY <1>1, <1>2 DEF PsiInv, NetInv, SessionsPair, netVars
<1>8. OutputInv'
  <2>1. spc' \notin {"sendSize", "sendXors"}
    BY <1>1, <1>2
  <2>2. QED BY <1>1, <1>3, <2>1, OutputFrame DEF otVars, baseVars
<1>9. TypeOK'
  <2>1. \E l \in ReceiverLabels : Goto(Receiver, l)
    BY <1>1 DEF ReceiverLabels, Greeting
  <2>2. \E p \in Parties, n \in 0 .. times : iteration' = [iteration EXCEPT ![p] = n]
    BY <1>1, <1>3, TwoParties
  <2>3. count' \in 0 .. Cardinality(Keys)
    BY <1>1, CountType DEF Matches
  <2>4. count' \in -1 .. Cardinality(Keys)
    BY <2>3, Sizes
  <2>5. QED BY <1>1, <1>4, <1>6, <2>1, <2>2, <2>4, TypeFrame DEF PsiInv, TypeOK, netVars
<1>10. QED BY <1>4, <1>5, <1>6, <1>7, <1>8, <1>9 DEF PsiInv

\* What the threads of the IOServices do to the connection.
LEMMA ConnectStep == ASSUME PsiInv, Connect PROVE PsiInv'
<1>1. /\ UNCHANGED <<otVars, pc, iteration, row, dataVars, toParty, server, listener>>
      /\ client = "connecting" /\ listener # -1 /\ client' = "open" /\ backlog' = TRUE
      /\ session' = <<rIt, listener>>
  BY DEF Connect, rIt
<1>2. /\ rpc' = rpc /\ spc' = spc /\ rIt' = rIt /\ sIt' = sIt
  BY <1>1, Moves DEF PsiInv
<1>3. (Encodes' <=> Encodes) /\ (Corrects' <=> Corrects) /\ (Together' <=> Together)
  BY <1>2 DEF Encodes, Corrects, Together
<1>4. MailInv'
  <2>1. ToReceiver' = ToReceiver /\ ToSender' = ToSender
    BY <1>1, <1>2 DEF ToReceiver, ToSender, dataVars
  <2>2. QED BY <1>1, <2>1, Mail
<1>5. ControlInv'
  BY <1>2, <1>3 DEF PsiInv, ControlInv
<1>6. OtTypeOK' /\ ReceiverInv' /\ SenderInv' /\ MessagesInv'
  <2>1. ~ Together => outbound = <<>> /\ (Corrects => sCorrectionIdx = 0)
    BY DEF PsiInv, MessagesInv, SenderInv
  <2>2. QED BY <1>1, <1>2, <1>3, <2>1, RowsFrame DEF dataVars
<1>7. NetInv'
  BY <1>1, <1>2 DEF PsiInv, NetInv, SessionsPair
<1>8. OutputInv'
  BY <1>1, <1>2, OutputFrame DEF otVars, baseVars, dataVars
<1>9. TypeOK'
  BY <1>1, <1>4, <1>6, TypeFrame DEF PsiInv, TypeOK, dataVars
<1>10. QED BY <1>4, <1>5, <1>6, <1>7, <1>8, <1>9 DEF PsiInv

LEMMA AcceptStep == ASSUME PsiInv, Accept PROVE PsiInv'
<1>1. /\ UNCHANGED <<otVars, pc, iteration, row, dataVars, toParty, client, listener, session>>
      /\ server' = "open" /\ backlog' = FALSE
  BY DEF Accept
<1>2. /\ rpc' = rpc /\ spc' = spc /\ rIt' = rIt /\ sIt' = sIt
  BY <1>1, Moves DEF PsiInv
<1>3. (Encodes' <=> Encodes) /\ (Corrects' <=> Corrects) /\ (Together' <=> Together)
  BY <1>2 DEF Encodes, Corrects, Together
<1>4. MailInv'
  <2>1. ToReceiver' = ToReceiver /\ ToSender' = ToSender
    BY <1>1, <1>2 DEF ToReceiver, ToSender, dataVars
  <2>2. QED BY <1>1, <2>1, Mail
<1>5. ControlInv'
  BY <1>2, <1>3 DEF PsiInv, ControlInv
<1>6. OtTypeOK' /\ ReceiverInv' /\ SenderInv' /\ MessagesInv'
  <2>1. ~ Together => outbound = <<>> /\ (Corrects => sCorrectionIdx = 0)
    BY DEF PsiInv, MessagesInv, SenderInv
  <2>2. QED BY <1>1, <1>2, <1>3, <2>1, RowsFrame DEF dataVars
<1>7. NetInv'
  BY <1>1, <1>2, <1>3 DEF PsiInv, NetInv, SessionsPair, otVars, chanVars, sendVars
<1>8. OutputInv'
  BY <1>1, <1>2, OutputFrame DEF otVars, baseVars, dataVars
<1>9. TypeOK'
  BY <1>1, <1>4, <1>6, TypeFrame DEF PsiInv, TypeOK, dataVars
<1>10. QED BY <1>4, <1>5, <1>6, <1>7, <1>8, <1>9 DEF PsiInv

LEMMA StutterStep == ASSUME PsiInv, UNCHANGED vars PROVE PsiInv'
<1>1. UNCHANGED otVars /\ UNCHANGED psiVars
  BY DEF vars
<1>2. /\ rpc' = rpc /\ spc' = spc /\ rIt' = rIt /\ sIt' = sIt
  BY <1>1, Moves DEF PsiInv, psiVars
<1>3. (Encodes' <=> Encodes) /\ (Corrects' <=> Corrects) /\ (Together' <=> Together)
  BY <1>2 DEF Encodes, Corrects, Together
<1>4. MailInv'
  <2>1. ToReceiver' = ToReceiver /\ ToSender' = ToSender
    BY <1>1, <1>2 DEF ToReceiver, ToSender, psiVars
  <2>2. QED BY <1>1, <2>1, Mail DEF psiVars
<1>5. ControlInv'
  BY <1>2, <1>3 DEF PsiInv, ControlInv
<1>6. OtTypeOK' /\ ReceiverInv' /\ SenderInv' /\ MessagesInv'
  <2>1. ~ Together => outbound = <<>> /\ (Corrects => sCorrectionIdx = 0)
    BY DEF PsiInv, MessagesInv, SenderInv
  <2>2. QED BY <1>1, <1>2, <1>3, <2>1, RowsFrame DEF psiVars
<1>7. NetInv'
  BY <1>1, <1>2, <1>3 DEF PsiInv, NetInv, SessionsPair, otVars, chanVars, sendVars, psiVars
<1>8. OutputInv'
  BY <1>1, <1>2, OutputFrame DEF otVars, baseVars, psiVars
<1>9. TypeOK'
  BY <1>1, <1>4, <1>6, TypeFrame DEF PsiInv, TypeOK, psiVars
<1>10. QED BY <1>4, <1>5, <1>6, <1>7, <1>8, <1>9 DEF PsiInv

\* The Sender after its loop: the Receiver has initialised the same iteration
\* and will not touch what the Sender reads.
LEMMA SenderCloseStep == ASSUME PsiInv, SenderClose PROVE PsiInv'
<1>1. /\ spc = "close" /\ spc' = "computeXors" /\ rpc' = rpc
      /\ rIt' = rIt /\ sIt' = sIt
      /\ Goto(Sender, "computeXors")
      /\ server' = "closed" /\ listener' = -1 /\ backlog' = FALSE
      /\ UNCHANGED <<otVars, iteration, row, dataVars, toParty, client, session>>
  BY Moves DEF SenderClose, spc, PsiInv
<1>2. /\ Corrects /\ Corrects' /\ (Encodes' <=> Encodes) /\ Together' /\ Together
      /\ client # "connecting"
  BY <1>1, AllCorrected DEF Encodes, Corrects, Together
<1>3. MailInv'
  <2>1. ToReceiver' = ToReceiver /\ ToSender' = ToSender
    BY <1>1 DEF ToReceiver, ToSender, Greeting, dataVars
  <2>2. QED BY <1>1, <2>1, Mail
<1>4. ControlInv'
  BY <1>1, <1>2 DEF PsiInv, ControlInv, SenderLabels, Greeting, Together
<1>5. OtTypeOK' /\ ReceiverInv' /\ SenderInv' /\ MessagesInv'
  BY <1>1, <1>2, RowsFrame DEF dataVars
<1>6. NetInv'
  BY <1>1, <1>2 DEF PsiInv, NetInv, SessionsPair
<1>7. OutputInv'
  BY <1>1, OutputFrame DEF otVars, baseVars, dataVars
<1>8. TypeOK'
  <2>1. \E l \in SenderLabels : Goto(Sender, l)
    BY <1>1 DEF SenderLabels, Greeting
  <2>2. listener' \in -1 .. times - 1
    BY <1>1, Sizes
  <2>3. QED BY <1>1, <1>3, <1>5, <2>1, <2>2, TypeFrame DEF PsiInv, TypeOK, dataVars
<1>9. QED BY <1>3, <1>4, <1>5, <1>6, <1>7, <1>8 DEF PsiInv

\* The Sender's output for a key that the dictionary encodes: over the key's
\* positions the corrected rows sum up to T0 and the key's codeword, which the
\* Sender adds again.
LEMMA SenderXorIsOut ==
    ASSUME PsiInv, Corrects, spc # "corrections", NEW k \in Keys, Decodes(k)
    PROVE  SenderXor(k) = Out(k)
<1> DEFINE S == indices[k]
<1>1. S \subseteq Variables /\ IsFiniteSet(S)
  BY Sizes, FS_Subset DEF PsiInv, OutputInv
<1>2. Together /\ sRow = numOTs /\ rRow = numOTs
  BY AllCorrected
<1>3. ASSUME NEW i \in S
      PROVE  sigma[i] \in Word /\ mT[i] = base0[i] (+) (Encode(sigma[i]) \cap mChoiceBlks)
  <2>1. i \in Rows /\ i < numOTs /\ i \in Variables
    BY <1>1, Sizes DEF Variables
  <2>2. mW[i] = sigma[i]
    BY <1>2, <2>1 DEF PsiInv, ReceiverInv, Together
  <2>3. mT[i] = Chosen(i) (+) (Correction(i) \cap mChoiceBlks)
    BY <1>2, <2>1 DEF PsiInv, SenderInv
  <2>4. mT[i] = base0[i] (+) (Encode(sigma[i]) \cap mChoiceBlks)
    <3> DEFINE a == base0[i]
               b == base1[i]
               c == Encode(sigma[i])
               ch == mChoiceBlks
    <3>1. mT[i] = ((a \ ch) \cup (b \cap ch)) (+) (((c (+) a) (+) b) \cap ch)
      BY <2>2, <2>3 DEF Chosen, Correction
    <3> HIDE DEF a, b, c, ch
    <3>2. ((a \ ch) \cup (b \cap ch)) (+) (((c (+) a) (+) b) \cap ch) = a (+) (c \cap ch)
      BY DEF (+)
    <3>3. QED BY <3>1, <3>2 DEF a, b, c, ch
  <2>5. QED BY <2>1, <2>4 DEF PsiInv, TypeOK
<1>4. CorrectedFor(S, sigma, base0, mT, mChoiceBlks)
  BY <1>3 DEF CorrectedFor
<1> HIDE DEF S
<1>5. XorOver(S, mT, CodeBits) =
        XorOver(S, base0, CodeBits) (+) (Encode(XorOver(S, sigma, WordBits)) \cap mChoiceBlks)
  BY <1>1, <1>4, CorrectedSum
<1>6. XorOver(S, sigma, WordBits) = vals[k]
  BY DEF Decodes, S
<1>7. XorOver(S, mT, CodeBits) (+) (Encode(vals[k]) \cap mChoiceBlks) = XorOver(S, base0, CodeBits)
  <2> DEFINE a == XorOver(S, base0, CodeBits)
             c == Encode(vals[k]) \cap mChoiceBlks
  <2>1. XorOver(S, mT, CodeBits) = a (+) c
    BY <1>5, <1>6
  <2> HIDE DEF a, c
  <2>2. (a (+) c) (+) c = a
    BY DEF (+)
  <2>3. QED BY <2>1, <2>2 DEF a, c
<1>8. QED BY <1>7 DEF SenderXor, Out, S

LEMMA SenderComputeXorsStep == ASSUME PsiInv, SenderComputeXors PROVE PsiInv'
<1>1. /\ spc = "computeXors" /\ spc' = "sendSize" /\ rpc' = rpc
      /\ rIt' = rIt /\ sIt' = sIt
      /\ Goto(Sender, "sendSize")
      /\ xors' = [k \in Keys |-> SenderXor(k)]
      /\ UNCHANGED <<otVars, indices, vals, iteration, row, sigma, xorsSet, count, toParty, netVars>>
  BY Moves DEF SenderComputeXors, spc, PsiInv
<1>2. /\ Corrects /\ Corrects' /\ (Encodes' <=> Encodes) /\ Together' /\ Together
      /\ client # "connecting"
  BY <1>1, AllCorrected DEF Encodes, Corrects, Together
<1>3. MailInv'
  <2>1. sIt # rIt + 1 /\ sIt' # rIt' + 1
    BY <1>1, <1>2, Numbers DEF Together
  <2>2. ToReceiver' = ToReceiver /\ ToSender' = ToSender
    BY <1>1, <2>1 DEF ToReceiver, ToSender, Greeting
  <2>3. QED BY <1>1, <2>2, Mail
<1>4. ControlInv'
  BY <1>1, <1>2 DEF PsiInv, ControlInv, SenderLabels, Greeting, Together
<1>5. OtTypeOK' /\ ReceiverInv' /\ SenderInv' /\ MessagesInv'
  BY <1>1, <1>2, RowsFrame
<1>6. NetInv'
  BY <1>1, <1>2 DEF PsiInv, NetInv, SessionsPair, netVars
<1>7. OutputInv'
  <2>1. \A k : Out(k)' = Out(k) /\ (Decodes(k)' <=> Decodes(k))
    BY <1>1, OutFrame, DecodesFrame DEF otVars, baseVars
  <2>2. \A k \in Keys : Decodes(k)' => xors'[k] = Out(k)'
    <3>1. ASSUME NEW k \in Keys, Decodes(k)' PROVE xors'[k] = Out(k)'
      <4>1. SenderXor(k) = Out(k)
        BY <1>1, <1>2, <2>1, <3>1, SenderXorIsOut
      <4>2. xors'[k] = SenderXor(k)
        BY <1>1
      <4>3. QED BY <2>1, <4>1, <4>2
    <3>2. QED BY <3>1
  <2> DEFINE A == {Out(k) : k \in Keys}
  <2>3. A' = A
    BY <2>1
  <2>4. xorsSet \in {{}, A} /\ (rpc \in {"receiveSize", "receiveXors"} => xorsSet = A)
    BY DEF PsiInv, OutputInv
  <2> HIDE DEF A
  <2>5. xorsSet' \in {{}, A'} /\ (rpc' \in {"receiveSize", "receiveXors"} => xorsSet' = A')
    BY <1>1, <2>3, <2>4
  <2>6. (indices \in [Keys -> SUBSET Variables] /\ vals \in [Keys -> Word])'
    BY <1>1 DEF PsiInv, OutputInv
  <2>7. QED BY <2>2, <2>5, <2>6 DEF OutputInv, A
<1>8. TypeOK'
  <2>1. \E l \in SenderLabels : Goto(Sender, l)
    BY <1>1 DEF SenderLabels, Greeting
  <2>2. \A k : SenderXor(k) \in Row
    <3>1. \A k : XorOver(indices[k], mT, CodeBits) \in Row /\ Encode(vals[k]) \cap mChoiceBlks \in Row
      BY SumType, EncodeType DEF Row
    <3>2. \A k : XorOver(indices[k], mT, CodeBits) (+) (Encode(vals[k]) \cap mChoiceBlks) \in Row
      BY <3>1, XorType
    <3>3. QED BY <3>2 DEF SenderXor, Output, Row
  <2>3. xors' \in [Keys -> Row]
    BY <1>1, <2>2
  <2>4. QED BY <1>1, <1>3, <1>5, <2>1, <2>3, TypeFrame DEF PsiInv, TypeOK, netVars
<1>9. QED BY <1>3, <1>4, <1>5, <1>6, <1>7, <1>8 DEF PsiInv

LEMMA SendSizeStep == ASSUME PsiInv, SendSize PROVE PsiInv'
<1>1. /\ spc = "sendSize" /\ spc' = "sendXors" /\ rpc' = rpc
      /\ rIt' = rIt /\ sIt' = sIt
      /\ Goto(Sender, "sendXors")
      /\ toParty' = [toParty EXCEPT ![Receiver] = Append(@, Cardinality(Keys))]
      /\ UNCHANGED <<otVars, iteration, row, dataVars, netVars>>
  BY Moves, Partners DEF SendSize, write, spc, PsiInv
<1>2. /\ Corrects /\ Corrects' /\ (Encodes' <=> Encodes) /\ Together' /\ Together
      /\ client # "connecting" /\ sIt = rIt /\ sIt # rIt + 1 /\ rpc \notin Greeting
      /\ rpc # "receiveXors"
  BY <1>1, AllCorrected, Numbers DEF Encodes, Corrects, Together, Greeting, PsiInv, ControlInv
<1>3. MailInv'
  <2>1. ToReceiver = <<>>
    BY <1>1, <1>2 DEF ToReceiver
  <2>2. toParty' = [toParty EXCEPT ![Receiver] = <<Cardinality(Keys)>>]
    BY <1>1, <2>1, Mail, OneOrTwo
  <2>3. ToReceiver' = <<Cardinality(Keys)>> /\ ToSender' = ToSender
    BY <1>1, <1>2 DEF ToReceiver, ToSender
  <2>4. QED BY <2>2, <2>3, Mail
<1>4. ControlInv'
  BY <1>1, <1>2 DEF PsiInv, ControlInv, SenderLabels, Greeting
<1>5. OtTypeOK' /\ ReceiverInv' /\ SenderInv' /\ MessagesInv'
  BY <1>1, <1>2, RowsFrame DEF dataVars
<1>6. NetInv'
  BY <1>1, <1>2 DEF PsiInv, NetInv, SessionsPair, netVars
<1>7. OutputInv'
  BY <1>1, OutputFrame DEF otVars, baseVars, dataVars
<1>8. TypeOK'
  <2>1. \E l \in SenderLabels : Goto(Sender, l)
    BY <1>1 DEF SenderLabels, Greeting
  <2>2. QED BY <1>1, <1>3, <1>5, <2>1, TypeFrame DEF PsiInv, TypeOK, dataVars, netVars
<1>9. QED BY <1>3, <1>4, <1>5, <1>6, <1>7, <1>8 DEF PsiInv

\* The end of the Sender's iteration.
LEMMA SendXorsStep == ASSUME PsiInv, SendXors PROVE PsiInv'
<1>1. /\ spc = "sendXors" /\ rpc' = rpc
      /\ spc' = IF sIt + 1 < times THEN "runOOS" ELSE "done"
      /\ sIt' = sIt + 1 /\ rIt' = rIt
      /\ Goto(Sender, IF sIt + 1 < times THEN "runOOS" ELSE "done")
      /\ iteration' = [iteration EXCEPT ![Sender] = sIt + 1]
      /\ toParty' = [toParty EXCEPT ![Receiver] = Append(@, xors)]
      /\ UNCHANGED <<otVars, row, dataVars, netVars>>
  <2>1. /\ iteration' = [iteration EXCEPT ![Sender] = sIt + 1]
        /\ Goto(Sender, IF sIt + 1 < times THEN "runOOS" ELSE "done")
    BY DEF SendXors, sIt
  <2>2. QED BY <2>1, Moves, Partners DEF SendXors, write, spc, PsiInv
<1>2. /\ Corrects /\ (Encodes' <=> Encodes) /\ Together /\ Encodes /\ rpc # "corrections"
      /\ client # "connecting" /\ sIt = rIt /\ sIt # rIt + 1 /\ rpc \notin Greeting
      /\ outbound = <<>> /\ sIt < times
  <2>1. /\ Corrects /\ (Encodes' <=> Encodes) /\ Together /\ Encodes /\ rpc # "corrections"
        /\ client # "connecting" /\ sIt = rIt /\ outbound = <<>>
    BY <1>1, AllCorrected DEF Encodes, Corrects, Together
  <2>2. rpc \notin Greeting /\ rpc # "done"
    BY <2>1 DEF Encodes, Greeting
  <2>3. rIt # times
    BY <2>2 DEF PsiInv, ControlInv
  <2>4. QED BY <2>1, <2>2, <2>3, Numbers, Sizes
<1>3. /\ ~ Corrects' /\ ~ Together' /\ sIt' = rIt' + 1 /\ spc' \in {"runOOS", "done"}
      /\ sIt' \in 0 .. times /\ (spc' = "done" <=> sIt' = times)
  BY <1>1, <1>2, Numbers, Sizes DEF Corrects, Together
<1>4. MailInv'
  <2>1. ToReceiver = IF rpc = "receiveXors" THEN <<>> ELSE <<Cardinality(Keys)>>
    BY <1>1, <1>2 DEF ToReceiver
  <2>2. Append(toParty[Receiver], xors) =
          IF rpc = "receiveXors" THEN <<xors>> ELSE <<Cardinality(Keys), xors>>
    <3>1. CASE rpc = "receiveXors"
      BY <2>1, <3>1, Mail, OneOrTwo
    <3>2. CASE rpc # "receiveXors"
      BY <2>1, <3>2, Mail, OneOrTwo
    <3>3. QED BY <3>1, <3>2
  <2>3. /\ ToReceiver' = (IF rpc = "receiveXors" THEN <<xors>> ELSE <<Cardinality(Keys), xors>>)
        /\ ToSender' = ToSender
    BY <1>1, <1>2, <1>3 DEF ToReceiver, ToSender, dataVars
  <2>4. QED BY <1>1, <2>2, <2>3, Mail
<1>5. ControlInv'
  BY <1>1, <1>2, <1>3, Numbers DEF PsiInv, ControlInv, SenderLabels, Greeting
<1>6. OtTypeOK' /\ ReceiverInv' /\ SenderInv' /\ MessagesInv'
  BY <1>1, <1>2, <1>3, RowsFrame DEF dataVars
<1>7. NetInv'
  BY <1>1, <1>2, <1>3 DEF PsiInv, NetInv, SessionsPair, netVars
<1>8. OutputInv'
  BY <1>1, OutputFrame DEF otVars, baseVars, dataVars
<1>9. TypeOK'
  <2>1. \E l \in SenderLabels : Goto(Sender, l)
    BY <1>1 DEF SenderLabels, Greeting
  <2>2. \E p \in Parties, n \in 0 .. times : iteration' = [iteration EXCEPT ![p] = n]
    BY <1>1, <1>3, TwoParties
  <2>3. QED BY <1>1, <1>4, <1>6, <2>1, <2>2, TypeFrame DEF PsiInv, TypeOK, dataVars, netVars
<1>10. QED BY <1>4, <1>5, <1>6, <1>7, <1>8, <1>9 DEF PsiInv

-----------------------------------------------------------------------------
(* The steps of the OT preserve the invariant.                             *)

\* configure() and setBaseOts() of either end, before its init().
LEMMA StageFrame ==
    ASSUME PsiInv,
           UNCHANGED <<baseVars, mT0, mT1, mW, mEncodeFlags, rCorrectionIdx, mT, mCorrectionVals,
                       sCorrectionIdx, corrected, relation, outbound, onWire, sigma, row>>,
           rStage' \in ReceiverStages, sStage' \in SenderStages,
           Encodes' <=> Encodes, Corrects' <=> Corrects, Together' <=> Together,
           Encodes => rStage' = rStage /\ rpc' = rpc,
           Corrects => sStage' = sStage /\ spc' = spc
    PROVE  OtTypeOK' /\ ReceiverInv' /\ SenderInv' /\ MessagesInv'
<1>1. \A i : Correction(i)' = Correction(i) /\ Chosen(i)' = Chosen(i)
  BY CorrectionsFrame, ChosenFrame
<1>2. rRow' = rRow /\ sRow' = sRow
  BY Moves DEF PsiInv
<1>3. OtTypeOK'
  BY DEF PsiInv, TypeOK, OtTypeOK, baseVars, Messages
<1>4. ReceiverInv'
  BY <1>1, <1>2 DEF PsiInv, ReceiverInv, Rows, numRows, roundUpTo, baseVars
<1>5. SenderInv'
  BY <1>1, <1>2 DEF PsiInv, SenderInv, Rows, numRows, roundUpTo, baseVars
<1>6. MessagesInv'
  BY <1>1 DEF PsiInv, MessagesInv, WireRows
<1>7. QED BY <1>3, <1>4, <1>5, <1>6

\* The OT steps leave the plain channel alone.
LEMMA MailFrame ==
    ASSUME PsiInv, UNCHANGED <<toParty, xors>>, rIt' = rIt, sIt' = sIt,
           rpc' = rpc \/ (rpc \notin Greeting \cup {"receiveXors"} /\
                          rpc' \notin Greeting \cup {"receiveXors"}),
           spc' = spc \/ (spc \notin {"hello2", "sendXors"} /\ spc' \notin {"hello2", "sendXors"})
    PROVE  MailInv'
<1>1. ToReceiver' = ToReceiver /\ ToSender' = ToSender
  BY DEF ToReceiver, ToSender, Greeting
<1>2. QED BY <1>1, Mail

LEMMA ReceiverConnectStep == ASSUME PsiInv, ReceiverConnect PROVE PsiInv'
<1>1. /\ rpc = "runOOS" /\ rpc' = "setup" /\ spc' = spc
      /\ rIt' = rIt /\ sIt' = sIt
      /\ Goto(Receiver, "setup") /\ client' = "connecting" /\ receiverConfigure
      /\ UNCHANGED <<iteration, row, dataVars, toParty, server, listener, backlog, session>>
  BY Moves DEF ReceiverConnect, rpc, PsiInv
<1>2. /\ ~ Encodes /\ ~ Encodes' /\ (Corrects' <=> Corrects) /\ ~ Together' /\ ~ Together
      /\ sIt = rIt /\ onWire = 0
      /\ Corrects => sCorrectionIdx = 0
  BY <1>1, NotEncoding DEF Encodes, Corrects, Together
<1>3. MailInv'
  BY <1>1, MailFrame DEF Greeting, dataVars
<1>4. ControlInv'
  BY <1>1, <1>2 DEF PsiInv, ControlInv, ReceiverLabels, Greeting
<1>5. OtTypeOK' /\ ReceiverInv' /\ SenderInv' /\ MessagesInv'
  <2>1. rStage' \in ReceiverStages /\ sStage' \in SenderStages
    BY <1>1 DEF receiverConfigure, ReceiverStages, sendVars, PsiInv, TypeOK, OtTypeOK
  <2>2. QED BY <1>1, <1>2, <2>1, StageFrame DEF receiverConfigure, sendVars, chanVars, dataVars
<1>6. NetInv'
  BY <1>1, <1>2 DEF PsiInv, NetInv, SessionsPair, receiverConfigure, sendVars, chanVars
<1>7. OutputInv'
  BY <1>1, OutputFrame DEF receiverConfigure, baseVars, dataVars
<1>8. TypeOK'
  <2>1. \E l \in ReceiverLabels : Goto(Receiver, l)
    BY <1>1 DEF ReceiverLabels
  <2>2. QED BY <1>1, <1>3, <1>5, <2>1, TypeFrame DEF PsiInv, TypeOK, dataVars
<1>9. QED BY <1>3, <1>4, <1>5, <1>6, <1>7, <1>8 DEF PsiInv

LEMMA ReceiverBaseStep ==
    ASSUME PsiInv, rpc = "setup", receiverSetBaseOts,
           UNCHANGED <<pc, row, iteration, dataVars, toParty, netVars>>
    PROVE  PsiInv'
<1>1. /\ rpc' = rpc /\ spc' = spc /\ rIt' = rIt /\ sIt' = sIt
  BY Moves DEF PsiInv
<1>2. ~ Encodes /\ ~ Encodes' /\ (Corrects' <=> Corrects) /\ ~ Together' /\ ~ Together
  BY <1>1 DEF Encodes, Corrects, Together
<1>3. MailInv'
  BY <1>1, MailFrame DEF dataVars
<1>4. ControlInv'
  BY <1>1, <1>2 DEF PsiInv, ControlInv, Greeting
<1>5. OtTypeOK' /\ ReceiverInv' /\ SenderInv' /\ MessagesInv'
  <2>1. rStage' \in ReceiverStages /\ sStage' \in SenderStages
    BY DEF receiverSetBaseOts, ReceiverStages, sendVars, PsiInv, TypeOK, OtTypeOK
  <2>2. QED BY <1>1, <1>2, <2>1, StageFrame DEF receiverSetBaseOts, sendVars, chanVars, dataVars
<1>6. NetInv'
  BY <1>1, <1>2 DEF PsiInv, NetInv, SessionsPair, receiverSetBaseOts, sendVars, chanVars, netVars,
                    Corrects
<1>7. OutputInv'
  BY <1>1, OutputFrame DEF receiverSetBaseOts, baseVars, dataVars
<1>8. TypeOK'
  BY <1>3, <1>5, TypeFrame DEF PsiInv, TypeOK, dataVars, netVars
<1>9. QED BY <1>3, <1>4, <1>5, <1>6, <1>7, <1>8 DEF PsiInv

\* The Receiver's init(): the Sender may wait already, but it has got nothing.
LEMMA ReceiverInitialised ==
    ASSUME PsiInv, rpc = "setup", receiverInit, row' = [row EXCEPT ![Receiver] = 0],
           Goto(Receiver, "corrections"), UNCHANGED <<iteration, dataVars, toParty, netVars>>
    PROVE  PsiInv'
<1>1. /\ rpc' = "corrections" /\ spc' = spc /\ rIt' = rIt /\ sIt' = sIt
      /\ rRow' = 0 /\ sRow' = sRow
  BY Moves DEF PsiInv
<1>2. /\ ~ Encodes /\ Encodes' /\ (Corrects' <=> Corrects) /\ Together'
      /\ sIt = rIt /\ outbound = <<>> /\ onWire = 0
      /\ Corrects => spc = "corrections" /\ sCorrectionIdx = 0 /\ sRow = 0
  BY <1>1, NotEncoding DEF Encodes, Corrects, Together
<1>3. MailInv'
  BY <1>1, MailFrame DEF Greeting, dataVars
<1>4. ControlInv'
  BY <1>1, <1>2 DEF PsiInv, ControlInv, ReceiverLabels, Greeting
<1>5. /\ UNCHANGED <<base0, base1, mChoiceBlks, sStage, mT, mCorrectionVals, sCorrectionIdx,
                     outbound, onWire, sigma, client, listener, session>>
      /\ rStage' = "ready" /\ rCorrectionIdx' = 0 /\ mT0' = base0 /\ mT1' = base1 /\ mW' = Zeros
  BY DEF receiverInit, baseVars, sendVars, chanVars, dataVars, netVars
<1>6. \A i : Chosen(i)' = Chosen(i)
  BY <1>5, ChosenFrame DEF baseVars
<1>7. OtTypeOK'
  BY ZerosType, RowsRoom DEF receiverInit, baseVars, sendVars, chanVars, PsiInv, TypeOK, OtTypeOK,
                             ReceiverStages, Messages
<1>8. ReceiverInv'
  <2>1. \A i \in Rows : ~ (i < 0)
    BY Sizes DEF Rows
  <2>2. Rows' = Rows /\ numOTs' = numOTs /\ 0 <= numOTs /\ numOTs # 0
    BY Sizes
  <2>3. QED BY <1>1, <1>5, <2>1, <2>2 DEF ReceiverInv
<1>9. SenderInv'
  <2>1. ASSUME Corrects PROVE SenderInv'
    <3>1. /\ sStage = "ready" /\ sCorrectionIdx = 0 /\ sRow = 0
          /\ \A i \in Rows : mT[i] = Chosen(i)
      <4>1. \A i \in Rows : ~ (i < 0)
        BY Sizes DEF Rows
      <4>2. QED BY <1>2, <2>1, <4>1 DEF PsiInv, SenderInv
    <3>2. \A i \in Rows : ~ (i < 0)
      BY Sizes DEF Rows
    <3>3. spc' = "corrections"
      BY <1>1, <1>2, <2>1
    <3>4. QED BY <1>1, <1>2, <1>5, <1>6, <3>1, <3>2, <3>3 DEF SenderInv
  <2>2. QED BY <1>2, <2>1 DEF SenderInv
<1>10. MessagesInv'
  <2>1. Continues(<<>>, 0, 0)
    BY DEF Continues
  <2>2. (IF Corrects' THEN sCorrectionIdx' ELSE 0) = 0
    BY <1>2, <1>5
  <2>3. outbound' = <<>> /\ onWire' = 0 /\ rCorrectionIdx' = 0 /\ 1 .. Len(outbound') = {}
        /\ 1 .. onWire' = {}
    BY <1>2, <1>5
  <2>4. QED BY <1>2, <2>1, <2>2, <2>3 DEF MessagesInv, WireRows
<1>11. NetInv'
  BY <1>1, <1>2, <1>5 DEF PsiInv, NetInv, SessionsPair
<1>12. OutputInv'
  BY <1>1, <1>5, OutputFrame DEF dataVars
<1>13. TypeOK'
  <2>1. \E l \in ReceiverLabels : Goto(Receiver, l)
    BY DEF ReceiverLabels
  <2>2. \E p \in Parties, n \in 0 .. numOTs : row' = [row EXCEPT ![p] = n]
    <3>1. 0 \in 0 .. numOTs
      BY Sizes
    <3>2. QED BY <3>1, TwoParties
  <2>3. QED BY <1>3, <1>7, <2>1, <2>2, TypeFrame DEF PsiInv, TypeOK, dataVars, netVars
<1>14. QED BY <1>3, <1>4, <1>7, <1>8, <1>9, <1>10, <1>11, <1>12, <1>13 DEF PsiInv

LEMMA ReceiverSetupStep == ASSUME PsiInv, ReceiverSetup PROVE PsiInv'
<1>1. rpc = "setup" /\ UNCHANGED <<iteration, dataVars, toParty, netVars>>
  BY DEF ReceiverSetup, rpc
<1>2. CASE receiverSetBaseOts /\ UNCHANGED <<pc, row>>
  BY <1>1, <1>2, ReceiverBaseStep
<1>3. CASE receiverInit /\ row' = [row EXCEPT ![Receiver] = 0] /\ Goto(Receiver, "corrections")
  BY <1>1, <1>3, ReceiverInitialised
<1>4. QED BY <1>2, <1>3 DEF ReceiverSetup

LEMMA SenderListenStep == ASSUME PsiInv, SenderListen PROVE PsiInv'
<1>1. /\ spc = "runOOS" /\ spc' = "setup" /\ rpc' = rpc
      /\ rIt' = rIt /\ sIt' = sIt
      /\ Goto(Sender, "setup") /\ server' = "listening" /\ listener' = sIt /\ senderConfigure
      /\ UNCHANGED <<iteration, row, dataVars, toParty, client, backlog, session>>
  BY Moves DEF SenderListen, spc, sIt, PsiInv
<1>2. ~ Corrects /\ ~ Corrects' /\ (Encodes' <=> Encodes) /\ (Together' <=> Together)
  BY <1>1 DEF Encodes, Corrects, Together
<1>3. MailInv'
  BY <1>1, MailFrame DEF dataVars
<1>4. ControlInv'
  BY <1>1, <1>2 DEF PsiInv, ControlInv, SenderLabels, Greeting
<1>5. OtTypeOK' /\ ReceiverInv' /\ SenderInv' /\ MessagesInv'
  <2>1. rStage' \in ReceiverStages /\ sStage' \in SenderStages
    BY <1>1 DEF senderConfigure, SenderStages, recvVars, PsiInv, TypeOK, OtTypeOK
  <2>2. QED BY <1>1, <1>2, <2>1, StageFrame DEF senderConfigure, recvVars, chanVars, dataVars
<1>6. NetInv'
  BY <1>1, <1>2 DEF PsiInv, NetInv, SessionsPair, senderConfigure, chanVars
<1>7. OutputInv'
  BY <1>1, OutputFrame DEF senderConfigure, baseVars, dataVars
<1>8. TypeOK'
  <2>1. \E l \in SenderLabels : Goto(Sender, l)
    BY <1>1 DEF SenderLabels
  <2>2. sIt # times /\ sIt \in Nat /\ sIt <= times
    BY <1>1, Numbers DEF PsiInv, ControlInv
  <2>3. listener' \in -1 .. times - 1
    BY <1>1, <2>2, Sizes
  <2>4. QED BY <1>1, <1>3, <1>5, <2>1, <2>3, TypeFrame DEF PsiInv, TypeOK, dataVars
<1>9. QED BY <1>3, <1>4, <1>5, <1>6, <1>7, <1>8 DEF PsiInv

LEMMA SenderBaseStep ==
    ASSUME PsiInv, spc = "setup", senderSetBaseOts,
           UNCHANGED <<pc, row, iteration, dataVars, toParty, netVars>>
    PROVE  PsiInv'
<1>1. /\ rpc' = rpc /\ spc' = spc /\ rIt' = rIt /\ sIt' = sIt
  BY Moves DEF PsiInv
<1>2. ~ Corrects /\ ~ Corrects' /\ (Encodes' <=> Encodes) /\ (Together' <=> Together)
  BY <1>1 DEF Encodes, Corrects, Together
<1>3. MailInv'
  BY <1>1, MailFrame DEF dataVars
<1>4. ControlInv'
  BY <1>1, <1>2 DEF PsiInv, ControlInv, Greeting
<1>5. OtTypeOK' /\ ReceiverInv' /\ SenderInv' /\ MessagesInv'
  <2>1. rStage' \in ReceiverStages /\ sStage' \in SenderStages
    BY DEF senderSetBaseOts, SenderStages, recvVars, PsiInv, TypeOK, OtTypeOK
  <2>2. QED BY <1>1, <1>2, <2>1, StageFrame DEF senderSetBaseOts, recvVars, chanVars, dataVars
<1>6. NetInv'
  BY <1>1, <1>2 DEF PsiInv, NetInv, SessionsPair, senderSetBaseOts, chanVars, netVars
<1>7. OutputInv'
  BY <1>1, OutputFrame DEF senderSetBaseOts, baseVars, dataVars
<1>8. TypeOK'
  BY <1>3, <1>5, TypeFrame DEF PsiInv, TypeOK, dataVars, netVars
<1>9. QED BY <1>3, <1>4, <1>5, <1>6, <1>7, <1>8 DEF PsiInv

\* The Sender's init(): the Receiver may have sent corrections already.
LEMMA SenderInitialised ==
    ASSUME PsiInv, spc = "setup", senderInit, row' = [row EXCEPT ![Sender] = 0],
           Goto(Sender, "corrections"), UNCHANGED <<iteration, dataVars, toParty, netVars>>
    PROVE  PsiInv'
<1>1. /\ spc' = "corrections" /\ rpc' = rpc /\ rIt' = rIt /\ sIt' = sIt
      /\ sRow' = 0 /\ rRow' = rRow
  BY Moves DEF PsiInv
<1>2. ~ Corrects /\ Corrects' /\ (Encodes' <=> Encodes) /\ (Together' <=> Together)
  BY <1>1 DEF Encodes, Corrects, Together
<1>3. MailInv'
  BY <1>1, MailFrame DEF dataVars
<1>4. ControlInv'
  BY <1>1, <1>2 DEF PsiInv, ControlInv, SenderLabels, Greeting
<1>5. /\ UNCHANGED <<base0, base1, mChoiceBlks, rStage, mT0, mT1, mW, rCorrectionIdx,
                     outbound, onWire, sigma, client, listener, session>>
      /\ sStage' = "ready" /\ sCorrectionIdx' = 0 /\ mT' = [i \in Rows |-> Chosen(i)]
  BY DEF senderInit, baseVars, recvVars, chanVars, dataVars, netVars
<1>6. \A i : Chosen(i)' = Chosen(i) /\ Correction(i)' = Correction(i)
  BY <1>5, ChosenFrame, CorrectionsFrame DEF baseVars
<1>7. OtTypeOK'
  BY ZerosType, RowsRoom, RowTypes DEF senderInit, baseVars, recvVars, chanVars, PsiInv, TypeOK,
                                       OtTypeOK, SenderStages, Messages
<1>8. ReceiverInv'
  BY <1>1, <1>2, <1>5, <1>6 DEF PsiInv, ReceiverInv, Rows, numRows, roundUpTo
<1>9. SenderInv'
  <2>1. \A i \in Rows : ~ (i < 0)
    BY Sizes DEF Rows
  <2>2. Rows' = Rows
    BY DEF Rows, numRows, roundUpTo
  <2>3. rCorrectionIdx \in Nat
    BY Numbers
  <2>4. QED BY <1>1, <1>5, <1>6, <2>1, <2>2, <2>3 DEF SenderInv
<1>10. MessagesInv'
  BY <1>2, <1>5, <1>6 DEF PsiInv, MessagesInv, WireRows, Rows, numRows, roundUpTo
<1>11. NetInv'
  BY <1>1, <1>5 DEF PsiInv, NetInv, SessionsPair
<1>12. OutputInv'
  BY <1>1, <1>5, OutputFrame DEF dataVars
<1>13. TypeOK'
  <2>1. \E l \in SenderLabels : Goto(Sender, l)
    BY DEF SenderLabels
  <2>2. \E p \in Parties, n \in 0 .. numOTs : row' = [row EXCEPT ![p] = n]
    <3>1. 0 \in 0 .. numOTs
      BY Sizes
    <3>2. QED BY <3>1, TwoParties
  <2>3. QED BY <1>3, <1>7, <2>1, <2>2, TypeFrame DEF PsiInv, TypeOK, dataVars, netVars
<1>14. QED BY <1>3, <1>4, <1>7, <1>8, <1>9, <1>10, <1>11, <1>12, <1>13 DEF PsiInv

LEMMA SenderSetupStep == ASSUME PsiInv, SenderSetup PROVE PsiInv'
<1>1. spc = "setup" /\ UNCHANGED <<iteration, dataVars, toParty, netVars>>
  BY DEF SenderSetup, spc
<1>2. CASE senderSetBaseOts /\ UNCHANGED <<pc, row>>
  BY <1>1, <1>2, SenderBaseStep
<1>3. CASE senderInit /\ row' = [row EXCEPT ![Sender] = 0] /\ Goto(Sender, "corrections")
  BY <1>1, <1>3, SenderInitialised
<1>4. QED BY <1>2, <1>3 DEF SenderSetup

\* What a party in its loop knows of the other.
LEMMA ReceiverEncoding ==
    ASSUME PsiInv, rpc = "corrections"
    PROVE  /\ Encodes /\ Together /\ sIt = rIt
           /\ rCorrectionIdx \in Nat /\ rRow \in Nat /\ rCorrectionIdx <= rRow /\ rRow <= numOTs
           /\ Continues(outbound, IF Corrects THEN sCorrectionIdx ELSE 0, rCorrectionIdx)
           /\ Corrects => sRow <= sCorrectionIdx /\ sCorrectionIdx <= rCorrectionIdx
<1>1. Encodes /\ Together /\ sIt = rIt
  BY DEF Encodes, PsiInv, ControlInv, Together
<1>2. rCorrectionIdx \in Nat /\ rRow \in Nat /\ rCorrectionIdx <= rRow /\ rRow <= numOTs
  BY <1>1, Numbers, Sizes DEF PsiInv, ReceiverInv
<1>3. Continues(outbound, IF Corrects THEN sCorrectionIdx ELSE 0, rCorrectionIdx)
  BY <1>1 DEF PsiInv, MessagesInv
<1>4. Corrects => sRow <= sCorrectionIdx /\ sCorrectionIdx <= rCorrectionIdx
  BY <1>1 DEF PsiInv, SenderInv
<1>5. QED BY <1>1, <1>2, <1>3, <1>4

LEMMA StepSize ==
    ASSUME NEW i \in Nat, i <= numOTs
    PROVE  CurStepSize(i) \in Nat /\ i + CurStepSize(i) <= numOTs
BY Sizes DEF CurStepSize

\* The loop of runOOS: the row is encoded before it is handed to the channel.
LEMMA ReceiverEncodeStep == ASSUME PsiInv, ReceiverEncodeRow PROVE PsiInv'
<1>0. PICK i \in Nat : i = rRow
  BY Numbers, Sizes
<1>1. /\ rpc = "corrections" /\ i < rCorrectionIdx + CurStepSize(rCorrectionIdx)
      /\ otCorrection(i, sigma[i]) /\ row' = [row EXCEPT ![Receiver] = i + 1]
      /\ UNCHANGED <<pc, iteration, dataVars, toParty, netVars>>
  BY <1>0 DEF ReceiverEncodeRow, rpc, rRow
<1>2. /\ rpc' = rpc /\ spc' = spc /\ rIt' = rIt /\ sIt' = sIt
      /\ rRow' = i + 1 /\ sRow' = sRow
  BY <1>1, Moves DEF PsiInv
<1>3. (Encodes' <=> Encodes) /\ (Corrects' <=> Corrects) /\ (Together' <=> Together)
  BY <1>2 DEF Encodes, Corrects, Together
<1>4. /\ Encodes /\ Together /\ rCorrectionIdx \in Nat /\ i \in Nat /\ rCorrectionIdx <= i
      /\ i + 1 <= numOTs /\ i \in Rows /\ i \in Variables
  <2>1. /\ Encodes /\ Together /\ rCorrectionIdx \in Nat /\ i \in Nat /\ rCorrectionIdx <= i
        /\ i <= numOTs
    BY <1>0, <1>1, ReceiverEncoding
  <2>2. /\ CurStepSize(rCorrectionIdx) \in Nat
        /\ rCorrectionIdx + CurStepSize(rCorrectionIdx) <= numOTs
    BY <2>1, StepSize, Sizes
  <2>3. i < numOTs
    BY <1>1, <2>1, <2>2, Sizes
  <2>4. QED BY <2>1, <2>3, Sizes
<1>5. /\ UNCHANGED <<base0, base1, mChoiceBlks, rStage, mT0, rCorrectionIdx, sStage, mT,
                     mCorrectionVals, sCorrectionIdx, corrected, relation, outbound, onWire,
                     sigma, client, listener, session>>
      /\ mW' = [mW EXCEPT ![i] = sigma[i]]
      /\ mT1' = [mT1 EXCEPT ![i] = (Encode(sigma[i]) (+) mT0[i]) (+) mT1[i]]
      /\ mEncodeFlags' = [mEncodeFlags EXCEPT ![i] = TRUE]
  BY <1>1 DEF otCorrection, EncodeRow, baseVars, sendVars, chanVars, dataVars, netVars
<1>6. /\ mT1 \in [Rows -> Row] /\ mT0 \in [Rows -> Row] /\ mW \in [Rows -> Word]
      /\ mEncodeFlags \in [Rows -> BOOLEAN] /\ sigma[i] \in Word
  BY <1>4 DEF PsiInv, TypeOK, OtTypeOK
<1>7. \A j \in Rows : j # i => Correction(j)' = Correction(j)
  BY <1>4, <1>5, <1>6 DEF Correction
<1>8. mT1'[i] = Correction(i)' /\ mW'[i] = sigma[i]
  <2>1. mT0 = base0 /\ mT1[i] = base1[i]
    BY <1>0, <1>4 DEF PsiInv, ReceiverInv
  <2>2. mW'[i] = sigma[i]
    BY <1>4, <1>5, <1>6
  <2>3. Correction(i)' = (Encode(sigma[i]) (+) base0[i]) (+) base1[i]
    BY <1>5, <2>2 DEF Correction, Encode, XorOver, (+)
  <2>4. QED BY <1>4, <1>5, <1>6, <2>1, <2>2, <2>3
<1>9. \A j : Chosen(j)' = Chosen(j)
  BY <1>5, ChosenFrame DEF baseVars
<1>10. OtTypeOK'
  <2>1. (Encode(sigma[i]) (+) mT0[i]) (+) mT1[i] \in Row
    BY <1>4, <1>6, EncodeType, XorType
  <2>2. mT1' \in [Rows -> Row] /\ mW' \in [Rows -> Word] /\ mEncodeFlags' \in [Rows -> BOOLEAN]
    BY <1>4, <1>5, <1>6, <2>1
  <2>3. QED BY <1>5, <2>2 DEF PsiInv, TypeOK, OtTypeOK, Messages
<1>11. ReceiverInv'
  <2>1. /\ rStage = "ready" /\ mT0 = base0
        /\ \A j \in Rows : mT1[j] = IF j < i THEN Correction(j) ELSE base1[j]
        /\ \A j \in Rows : j < i => mW[j] = sigma[j]
        /\ (rpc = "corrections" <=> rCorrectionIdx # numOTs)
    BY <1>0, <1>4 DEF PsiInv, ReceiverInv
  <2>2. ASSUME NEW j \in Rows
        PROVE  /\ mT1'[j] = IF j < i + 1 THEN Correction(j)' ELSE base1[j]
               /\ j < i + 1 => mW'[j] = sigma[j]
    <3>1. CASE j = i
      BY <1>4, <1>8, <3>1
    <3>2. CASE j # i
      <4>1. mT1'[j] = mT1[j] /\ mW'[j] = mW[j] /\ Correction(j)' = Correction(j)
        BY <1>5, <1>6, <1>7, <3>2
      <4>2. j < i + 1 <=> j < i
        BY <1>4, <3>2 DEF Rows
      <4>3. QED BY <2>1, <4>1, <4>2
    <3>3. QED BY <3>1, <3>2
  <2>3. rCorrectionIdx <= i + 1
    BY <1>4
  <2>4. Rows' = Rows
    BY DEF Rows, numRows, roundUpTo
  <2>5. QED BY <1>2, <1>4, <1>5, <2>1, <2>2, <2>3, <2>4 DEF ReceiverInv
<1>12. SenderInv'
  <2>1. ASSUME Corrects PROVE SenderInv'
    <3>1. sRow <= sCorrectionIdx /\ sCorrectionIdx <= rCorrectionIdx
          /\ sRow \in Nat /\ sCorrectionIdx \in Nat
      BY <1>1, <2>1, ReceiverEncoding, Numbers
    <3>2. \A j \in Rows : (j < sCorrectionIdx => j # i) /\ (j < sRow => j # i)
      BY <1>4, <3>1
    <3>3. \A j \in Rows : /\ j < sCorrectionIdx => Correction(j)' = Correction(j)
                          /\ j < sRow => Correction(j)' = Correction(j)
      BY <1>7, <3>2
    <3>4. Rows' = Rows
      BY DEF Rows, numRows, roundUpTo
    <3>5. QED BY <1>2, <1>3, <1>5, <1>9, <2>1, <3>3, <3>4 DEF PsiInv, SenderInv
  <2>2. QED BY <1>3, <2>1 DEF SenderInv
<1>13. MessagesInv'
  <2>1. WireRows'
    <3>1. SUFFICES ASSUME NEW m \in 1 .. onWire, outbound[m].kind = "corrections", NEW j \in Rows,
                          outbound[m].from <= j, j < outbound[m].from + outbound[m].count
                   PROVE  outbound[m].rows[j - outbound[m].from + 1] = Correction(j)'
      BY <1>5 DEF WireRows, Rows, numRows, roundUpTo
    <3>2. m \in 1 .. Len(outbound) /\ outbound[m] \in Messages
      BY Numbers
    <3>3. outbound[m].from + outbound[m].count <= rCorrectionIdx
      BY <1>1, <3>2, ReceiverEncoding DEF Continues
    <3>4. j # i
      <4>1. outbound[m].from \in Nat /\ outbound[m].count \in Nat /\ j \in Nat
        BY <3>2, MessageType, Sizes DEF Rows
      <4>2. QED BY <1>4, <3>1, <3>3, <4>1
    <3>5. QED BY <1>7, <3>1, <3>4 DEF PsiInv, MessagesInv, WireRows
  <2>2. QED BY <1>3, <1>5, <2>1 DEF PsiInv, MessagesInv
<1>14. MailInv'
  BY <1>1, <1>2, MailFrame DEF dataVars
<1>15. ControlInv'
  BY <1>2, <1>3 DEF PsiInv, ControlInv
<1>16. NetInv'
  BY <1>2, <1>3, <1>5 DEF PsiInv, NetInv, SessionsPair
<1>17. OutputInv'
  BY <1>1, <1>2, <1>5, OutputFrame DEF dataVars
<1>18. TypeOK'
  <2>1. \E p \in Parties, n \in 0 .. numOTs : row' = [row EXCEPT ![p] = n]
    <3>1. i + 1 \in 0 .. numOTs
      BY <1>4, Sizes
    <3>2. QED BY <1>1, <3>1, TwoParties
  <2>2. QED BY <1>1, <1>10, <1>14, <2>1, TypeFrame DEF PsiInv, TypeOK, dataVars, netVars
<1>19. QED BY <1>10, <1>11, <1>12, <1>13, <1>14, <1>15, <1>16, <1>17, <1>18 DEF PsiInv

\* The message is about the rows encoded since the last one.
LEMMA ReceiverSendStep == ASSUME PsiInv, ReceiverSend PROVE PsiInv'
<1>0. PICK c : c = CurStepSize(rCorrectionIdx)
  OBVIOUS
<1> DEFINE msg  == Corrections(rCorrectionIdx, c)
           next == IF rRow < numOTs THEN "corrections" ELSE "close"
           sent == IF Corrects THEN sCorrectionIdx ELSE 0
<1>1. /\ rpc = "corrections" /\ rRow = rCorrectionIdx + c /\ sendCorrection(c)
      /\ Goto(Receiver, next)
      /\ UNCHANGED <<iteration, row, dataVars, toParty, netVars>>
  BY <1>0 DEF ReceiverSend, rpc, rRow
<1> HIDE DEF next
<1>2. /\ rpc' = next /\ spc' = spc /\ rIt' = rIt /\ sIt' = sIt
      /\ rRow' = rRow /\ sRow' = sRow
  BY <1>1, Moves DEF PsiInv
<1>3. /\ Encodes /\ Together /\ sIt = rIt /\ rCorrectionIdx \in Nat /\ rRow \in Nat
      /\ rCorrectionIdx <= rRow /\ rRow <= numOTs
      /\ Continues(outbound, sent, rCorrectionIdx) /\ sent \in Nat
      /\ Corrects => sRow <= sCorrectionIdx /\ sCorrectionIdx <= rCorrectionIdx
  BY <1>1, ReceiverEncoding, Numbers
<1>4. c \in Nat /\ c > 0 /\ rCorrectionIdx + c <= numOTs /\ rCorrectionIdx + c <= numRows
  <2>1. c \in Nat
    BY <1>0, <1>3, StepSize, Sizes
  <2>2. QED BY <1>1, <1>3, <2>1, Sizes DEF sendCorrection
<1>5. /\ next \in {"corrections", "close"} /\ (next = "corrections" <=> rRow # numOTs)
      /\ Encodes' /\ (Corrects' <=> Corrects) /\ Together'
  <2>1. next \in {"corrections", "close"} /\ (next = "corrections" <=> rRow # numOTs)
    BY <1>3, Sizes DEF next
  <2>2. QED BY <1>2, <1>3, <2>1 DEF Encodes, Corrects, Together
<1>6. /\ UNCHANGED <<base0, base1, mChoiceBlks, rStage, mT0, mT1, mW, mEncodeFlags, sStage, mT,
                     mCorrectionVals, sCorrectionIdx, corrected, relation, onWire,
                     sigma, client, listener, session>>
      /\ outbound' = Append(outbound, msg) /\ rCorrectionIdx' = rCorrectionIdx + c
  BY <1>1 DEF sendCorrection, baseVars, sendVars, chanVars, dataVars, netVars
<1>7. msg \in Messages /\ msg.from = rCorrectionIdx /\ msg.count = c /\ msg.kind = "corrections"
  BY <1>3, <1>4, Sizes DEF Corrections, Message, NoSums, Messages, Row, Word
<1> HIDE DEF msg, sent
<1>8. /\ outbound \in Seq(Messages) /\ Len(outbound) \in Nat
      /\ onWire \in Nat /\ onWire <= Len(outbound)
      /\ outbound' \in Seq(Messages) /\ Len(outbound') = Len(outbound) + 1
      /\ \A m \in 1 .. Len(outbound) : outbound'[m] = outbound[m]
      /\ outbound'[Len(outbound) + 1] = msg
  BY <1>6, <1>7, Numbers, AppendProperties
<1>9. \A i : Correction(i)' = Correction(i) /\ Chosen(i)' = Chosen(i)
  BY <1>6, CorrectionsFrame, ChosenFrame DEF baseVars
<1>10. OtTypeOK'
  BY <1>3, <1>4, <1>6, <1>8 DEF PsiInv, TypeOK, OtTypeOK
<1>11. ReceiverInv'
  <2>1. rCorrectionIdx' = rRow
    BY <1>1, <1>6
  <2>2. /\ rStage = "ready" /\ mT0 = base0
        /\ \A i \in Rows : mT1[i] = IF i < rRow THEN Correction(i) ELSE base1[i]
        /\ \A i \in Rows : i < rRow => mW[i] = sigma[i]
    BY <1>3 DEF PsiInv, ReceiverInv
  <2>3. Rows' = Rows
    BY DEF Rows, numRows, roundUpTo
  <2>4. QED BY <1>2, <1>3, <1>5, <1>6, <1>9, <2>1, <2>2, <2>3 DEF ReceiverInv
<1>12. SenderInv'
  <2>1. Corrects => sCorrectionIdx <= rCorrectionIdx + c
    BY <1>3, <1>4, Numbers
  <2>2. Rows' = Rows
    BY DEF Rows, numRows, roundUpTo
  <2>3. QED BY <1>2, <1>3, <1>5, <1>6, <1>9, <2>1, <2>2 DEF PsiInv, SenderInv
<1>13. MessagesInv'
  <2>1. Continues(outbound', sent, rCorrectionIdx + c)
    <3>1. Continues(Append(outbound, msg), sent, rCorrectionIdx + msg.count)
      BY <1>3, <1>7, <1>8, ContinuesAppend
    <3>2. QED BY <1>6, <1>7, <3>1
  <2>2. sent = IF Corrects' THEN sCorrectionIdx' ELSE 0
    BY <1>5, <1>6 DEF sent
  <2>3. ASSUME NEW m \in 1 .. Len(outbound')
        PROVE  outbound'[m].kind = "corrections" /\ outbound'[m].count > 0
    <3>1. CASE m = Len(outbound) + 1
      BY <1>4, <1>7, <1>8, <3>1
    <3>2. CASE m # Len(outbound) + 1
      <4>1. m \in 1 .. Len(outbound)
        BY <1>8, <3>2
      <4>2. QED BY <1>8, <4>1 DEF PsiInv, MessagesInv
    <3>3. QED BY <3>1, <3>2
  <2>4. WireRows'
    <3>1. Rows' = Rows
      BY DEF Rows, numRows, roundUpTo
    <3>2. \A m \in 1 .. onWire : outbound'[m] = outbound[m]
      BY <1>8
    <3>3. WireRows
      BY DEF PsiInv, MessagesInv
    <3>4. onWire' = onWire
      BY <1>6
    <3>5. QED BY <1>9, <3>1, <3>2, <3>3, <3>4 DEF WireRows
  <2>5. QED BY <1>5, <1>6, <2>1, <2>2, <2>3, <2>4 DEF MessagesInv
<1>14. MailInv'
  BY <1>1, <1>2, <1>5, MailFrame DEF Greeting, dataVars
<1>15. ControlInv'
  BY <1>1, <1>2, <1>3, <1>5 DEF PsiInv, ControlInv, ReceiverLabels, Greeting
<1>16. NetInv'
  BY <1>1, <1>2, <1>5, <1>6 DEF PsiInv, NetInv, SessionsPair
<1>17. OutputInv'
  BY <1>1, <1>2, <1>5, <1>6, OutputFrame DEF dataVars
<1>18. TypeOK'
  <2>1. \E l \in ReceiverLabels : Goto(Receiver, l)
    BY <1>1, <1>5 DEF ReceiverLabels
  <2>2. QED BY <1>1, <1>10, <1>14, <2>1, TypeFrame DEF PsiInv, TypeOK, dataVars, netVars
<1>19. QED BY <1>10, <1>11, <1>12, <1>13, <1>14, <1>15, <1>16, <1>17, <1>18 DEF PsiInv

\* The Sender corrects a row that has come, once.
LEMMA SenderCorrectStep == ASSUME PsiInv, SenderCorrectRow PROVE PsiInv'
<1>0. PICK i \in Nat : i = sRow
  BY Numbers, Sizes
<1> DEFINE next == IF i + 1 < numOTs THEN "corrections" ELSE "close"
<1>1. /\ spc = "corrections" /\ i < sCorrectionIdx /\ senderOtCorrection(i)
      /\ row' = [row EXCEPT ![Sender] = i + 1] /\ Goto(Sender, next)
      /\ UNCHANGED <<iteration, dataVars, toParty, netVars>>
  BY <1>0 DEF SenderCorrectRow, spc, sRow
<1> HIDE DEF next
<1>2. /\ spc' = next /\ rpc' = rpc /\ rIt' = rIt /\ sIt' = sIt
      /\ sRow' = i + 1 /\ rRow' = rRow
  BY <1>1, Moves DEF PsiInv
<1>3. /\ Corrects /\ Together /\ sCorrectionIdx \in Nat /\ rCorrectionIdx \in Nat
      /\ sCorrectionIdx <= rCorrectionIdx /\ rCorrectionIdx <= numOTs
      /\ client # "connecting"
  <2>1. Corrects
    BY <1>1 DEF Corrects
  <2>2. sCorrectionIdx \in Nat /\ rCorrectionIdx \in Nat /\ sCorrectionIdx # 0
    BY <1>1, Numbers
  <2>3. Together /\ sCorrectionIdx <= rCorrectionIdx
    BY <2>1, <2>2 DEF PsiInv, SenderInv
  <2>4. rCorrectionIdx <= rRow /\ rRow <= numOTs
    BY <2>3 DEF PsiInv, ReceiverInv, Together
  <2>5. client # "connecting"
    BY <2>1, <2>2 DEF PsiInv, NetInv
  <2>6. QED BY <2>1, <2>2, <2>3, <2>4, <2>5, Numbers, Sizes
<1>4. i + 1 <= sCorrectionIdx /\ i + 1 <= numOTs /\ i \in Rows
  BY <1>1, <1>3, Sizes
<1>5. /\ next \in {"corrections", "close"} /\ (next # "corrections" => i + 1 = numOTs)
      /\ Corrects' /\ (Encodes' <=> Encodes) /\ Together'
  <2>1. next \in {"corrections", "close"} /\ (next # "corrections" => i + 1 = numOTs)
    BY <1>4, Sizes DEF next
  <2>2. QED BY <1>2, <1>3, <2>1 DEF Encodes, Corrects, Together
<1>6. /\ UNCHANGED <<base0, base1, mChoiceBlks, rStage, mT0, mT1, mW, mEncodeFlags, rCorrectionIdx,
                     sStage, mCorrectionVals, sCorrectionIdx, relation, outbound, onWire,
                     sigma, client, listener, session>>
      /\ mT' = [mT EXCEPT ![i] = mT[i] (+) (mCorrectionVals[i] \cap mChoiceBlks)]
      /\ corrected' = corrected \cup {i}
  BY <1>1 DEF senderOtCorrection, baseVars, recvVars, chanVars, dataVars, netVars
<1>7. \A j : Correction(j)' = Correction(j) /\ Chosen(j)' = Chosen(j)
  BY <1>6, CorrectionsFrame, ChosenFrame DEF baseVars
<1>8. /\ mT \in [Rows -> Row] /\ mT[i] = Chosen(i) /\ mCorrectionVals[i] = Correction(i)
  <2>1. mT \in [Rows -> Row]
    BY DEF PsiInv, TypeOK, OtTypeOK
  <2>2. /\ mT[i] = IF i < sRow THEN Chosen(i) (+) (Correction(i) \cap mChoiceBlks) ELSE Chosen(i)
        /\ i < sCorrectionIdx => mCorrectionVals[i] = Correction(i)
    BY <1>3, <1>4 DEF PsiInv, SenderInv
  <2>3. ~ (i < sRow)
    BY <1>0
  <2>4. QED BY <1>1, <2>1, <2>2, <2>3
<1>9. Chosen(i) (+) (Correction(i) \cap mChoiceBlks) \in Row
  <2>1. Chosen(i) \in Row /\ Correction(i) \in Row
    BY <1>4, RowTypes DEF PsiInv, TypeOK
  <2>2. Correction(i) \cap mChoiceBlks \in Row
    BY <2>1 DEF Row
  <2>3. QED BY <2>1, <2>2, XorType
<1>10. OtTypeOK'
  <2>1. mT' \in [Rows -> Row]
    BY <1>6, <1>8, <1>9
  <2>2. corrected' \in SUBSET Rows
    BY <1>4, <1>6 DEF PsiInv, TypeOK, OtTypeOK
  <2>3. QED BY <1>6, <2>1, <2>2 DEF PsiInv, TypeOK, OtTypeOK, Messages
<1>11. ReceiverInv'
  BY <1>2, <1>5, <1>6, <1>7 DEF PsiInv, ReceiverInv, Rows, numRows, roundUpTo
<1>12. SenderInv'
  <2>1. ASSUME NEW j \in Rows
        PROVE  mT'[j] = IF j < i + 1 THEN Chosen(j) (+) (Correction(j) \cap mChoiceBlks)
                        ELSE Chosen(j)
    <3>1. CASE j = i
      BY <1>4, <1>6, <1>8, <3>1
    <3>2. CASE j # i
      <4>1. mT'[j] = mT[j] /\ (j < i + 1 <=> j < i)
        BY <1>6, <1>8, <3>2, Sizes DEF Rows
      <4>2. mT[j] = IF j < i THEN Chosen(j) (+) (Correction(j) \cap mChoiceBlks) ELSE Chosen(j)
        BY <1>0, <1>3 DEF PsiInv, SenderInv
      <4>3. QED BY <4>1, <4>2
    <3>3. QED BY <3>1, <3>2
  <2>2. /\ sStage = "ready" /\ \A j \in Rows : j < sCorrectionIdx => mCorrectionVals[j] = Correction(j)
    BY <1>3 DEF PsiInv, SenderInv
  <2>3. Rows' = Rows
    BY DEF Rows, numRows, roundUpTo
  <2>4. QED BY <1>2, <1>3, <1>4, <1>5, <1>6, <1>7, <2>1, <2>2, <2>3 DEF SenderInv
<1>13. MessagesInv'
  BY <1>3, <1>5, <1>6, <1>7 DEF PsiInv, MessagesInv, WireRows, Rows, numRows, roundUpTo
<1>14. MailInv'
  BY <1>1, <1>2, <1>5, MailFrame DEF dataVars
<1>15. ControlInv'
  BY <1>1, <1>2, <1>3, <1>5 DEF PsiInv, ControlInv, SenderLabels, Greeting
<1>16. NetInv'
  BY <1>1, <1>2, <1>3, <1>5, <1>6 DEF PsiInv, NetInv, SessionsPair
<1>17. OutputInv'
  BY <1>1, <1>2, <1>5, <1>6, OutputFrame DEF dataVars
<1>18. TypeOK'
  <2>1. \E l \in SenderLabels : Goto(Sender, l)
    BY <1>1, <1>5 DEF SenderLabels
  <2>2. \E p \in Parties, n \in 0 .. numOTs : row' = [row EXCEPT ![p] = n]
    <3>1. i + 1 \in 0 .. numOTs
      BY <1>4, Sizes
    <3>2. QED BY <1>1, <3>1, TwoParties
  <2>3. QED BY <1>1, <1>10, <1>14, <2>1, <2>2, TypeFrame DEF PsiInv, TypeOK, dataVars, netVars
<1>19. QED BY <1>10, <1>11, <1>12, <1>13, <1>14, <1>15, <1>16, <1>17, <1>18 DEF PsiInv

\* A message on the wire is one of this iteration's.
LEMMA OnTheWire ==
    ASSUME PsiInv, outbound # <<>>
    PROVE  /\ Encodes /\ Together /\ sIt = rIt
           /\ rCorrectionIdx \in Nat /\ rCorrectionIdx <= rRow /\ rRow <= numOTs
           /\ Continues(outbound, IF Corrects THEN sCorrectionIdx ELSE 0, rCorrectionIdx)
           /\ \A m \in 1 .. Len(outbound) :
                /\ outbound[m] \in Messages /\ outbound[m].kind = "corrections"
                /\ outbound[m].from \in Nat /\ outbound[m].count \in Nat /\ outbound[m].count > 0
                /\ outbound[m].from + outbound[m].count <= rCorrectionIdx
<1>1. Encodes /\ Together /\ sIt = rIt
  BY DEF PsiInv, MessagesInv, Together
<1>2. rCorrectionIdx \in Nat /\ rCorrectionIdx <= rRow /\ rRow <= numOTs
  BY <1>1, Numbers DEF PsiInv, ReceiverInv
<1>3. Continues(outbound, IF Corrects THEN sCorrectionIdx ELSE 0, rCorrectionIdx)
  BY <1>1 DEF PsiInv, MessagesInv
<1>4. \A m \in 1 .. Len(outbound) :
        /\ outbound[m] \in Messages /\ outbound[m].kind = "corrections" /\ outbound[m].count > 0
        /\ outbound[m].from + outbound[m].count <= rCorrectionIdx
  BY <1>3, Numbers DEF PsiInv, MessagesInv, Continues
<1>5. QED BY <1>1, <1>2, <1>3, <1>4, MessageType

\* The message begins where the Sender's last one ended; its rows go there.
LEMMA SenderReceiveStep == ASSUME PsiInv, SenderReceive PROVE PsiInv'
<1> DEFINE msg == Head(outbound)
           new == sCorrectionIdx .. sCorrectionIdx + msg.count - 1
<1>1. /\ spc = "corrections" /\ sStage = "ready" /\ onWire > 0 /\ Store(msg)
      /\ outbound' = SubSeq(outbound, 1 + 1, Len(outbound)) /\ onWire' = onWire - 1
      /\ UNCHANGED <<baseVars, recvVars, sStage, mT, corrected, relation>>
      /\ UNCHANGED <<pc, iteration, row, dataVars, toParty, netVars>>
  BY DEF SenderReceive, spc, recvCorrection, Arrived, Received
<1>2. /\ outbound \in Seq(Messages) /\ Len(outbound) \in Nat /\ outbound # <<>>
      /\ onWire \in Nat /\ onWire <= Len(outbound) /\ msg = outbound[1]
      /\ 1 \in 1 .. Len(outbound) /\ 1 \in 1 .. onWire /\ 1 \in 0 .. Len(outbound)
  BY <1>1, Numbers
<1> HIDE DEF msg
<1>3. /\ rpc' = rpc /\ spc' = spc /\ rIt' = rIt /\ sIt' = sIt /\ rRow' = rRow /\ sRow' = sRow
  BY <1>1, Moves DEF PsiInv
<1>4. /\ Encodes /\ Together /\ sIt = rIt /\ Corrects
      /\ rCorrectionIdx \in Nat /\ rCorrectionIdx <= numRows /\ sCorrectionIdx \in Nat
      /\ sRow \in Nat /\ sRow <= sCorrectionIdx
      /\ Continues(outbound, sCorrectionIdx, rCorrectionIdx)
      /\ msg \in Messages /\ msg.kind = "corrections" /\ msg.count \in Nat
  <2>1. Corrects
    BY <1>1 DEF Corrects
  <2>2. sRow <= sCorrectionIdx
    BY <2>1 DEF PsiInv, SenderInv
  <2>3. QED BY <1>2, <2>1, <2>2, OnTheWire, Numbers, Sizes
<1>5. (Encodes' <=> Encodes) /\ (Corrects' <=> Corrects) /\ (Together' <=> Together)
  BY <1>3 DEF Encodes, Corrects, Together
<1>6. /\ outbound' \in Seq(Messages) /\ Len(outbound') = Len(outbound) - 1
      /\ \A i \in 1 .. Len(outbound) - 1 : outbound'[i] = outbound[i + 1]
  BY <1>1, <1>2, Drop
<1>7. /\ msg.from = sCorrectionIdx /\ sCorrectionIdx + msg.count <= rCorrectionIdx
      /\ Continues(outbound', sCorrectionIdx + msg.count, rCorrectionIdx)
  BY <1>2, <1>4, <1>6, ContinuesTail
<1>8. /\ UNCHANGED <<base0, base1, mChoiceBlks, rStage, mT0, mT1, mW, mEncodeFlags,
                     rCorrectionIdx, sigma, client, listener, session>>
      /\ sCorrectionIdx' = sCorrectionIdx + msg.count
      /\ mCorrectionVals' = [i \in Rows |-> IF i \in new THEN msg.rows[i - sCorrectionIdx + 1]
                                            ELSE mCorrectionVals[i]]
  BY <1>1 DEF Store, baseVars, recvVars, dataVars, netVars
<1>9. \A i : Correction(i)' = Correction(i) /\ Chosen(i)' = Chosen(i)
  BY <1>8, CorrectionsFrame, ChosenFrame DEF baseVars
<1>10. \A i \in Rows : i \in new => msg.rows[i - sCorrectionIdx + 1] = Correction(i)
  <2>1. \A i \in Rows : msg.from <= i /\ i < msg.from + msg.count =>
            msg.rows[i - msg.from + 1] = Correction(i)
    BY <1>2, <1>4 DEF PsiInv, MessagesInv, WireRows
  <2>2. \A i \in Rows : i \in new => sCorrectionIdx <= i /\ i < sCorrectionIdx + msg.count
    BY <1>4, Sizes DEF Rows
  <2>3. QED BY <1>7, <2>1, <2>2
<1>11. mCorrectionVals' \in [Rows -> Row]
       /\ \A i \in Rows : i < sCorrectionIdx + msg.count => mCorrectionVals'[i] = Correction(i)
  <2>1. \A i \in Rows : i < sCorrectionIdx + msg.count => i \in new \/ i < sCorrectionIdx
    BY <1>4, Sizes DEF Rows
  <2>2. \A i \in Rows : i < sCorrectionIdx => mCorrectionVals[i] = Correction(i)
    BY <1>4 DEF PsiInv, SenderInv
  <2>3. \A i \in Rows : mCorrectionVals[i] \in Row /\ Correction(i) \in Row
    BY RowTypes DEF PsiInv, TypeOK, OtTypeOK
  <2> HIDE DEF new
  <2>4. QED BY <1>8, <1>10, <2>1, <2>2, <2>3
<1> HIDE DEF new
<1>12. OtTypeOK'
  <2>1. onWire' \in 0 .. Len(outbound')
    BY <1>1, <1>2, <1>6
  <2>2. sCorrectionIdx' \in 0 .. numRows
    BY <1>4, <1>7, <1>8, Sizes
  <2>3. QED BY <1>1, <1>6, <1>8, <1>11, <2>1, <2>2 DEF PsiInv, TypeOK, OtTypeOK
<1>13. ReceiverInv'
  BY <1>3, <1>5, <1>8, <1>9 DEF PsiInv, ReceiverInv, Rows, numRows, roundUpTo
<1>14. SenderInv'
  <2>1. /\ mT' = mT /\ sStage = "ready" /\ sStage' = "ready"
        /\ \A i \in Rows :
             mT[i] = IF i < sRow THEN Chosen(i) (+) (Correction(i) \cap mChoiceBlks) ELSE Chosen(i)
    BY <1>1, <1>4 DEF PsiInv, SenderInv
  <2>2. sRow <= sCorrectionIdx + msg.count
    BY <1>4
  <2>3. Rows' = Rows
    BY DEF Rows, numRows, roundUpTo
  <2>4. QED BY <1>1, <1>3, <1>4, <1>5, <1>7, <1>8, <1>9, <1>11, <2>1, <2>2, <2>3 DEF SenderInv
<1>15. MessagesInv'
  <2>1. ASSUME NEW m \in 1 .. Len(outbound')
        PROVE  outbound'[m].kind = "corrections" /\ outbound'[m].count > 0
    <3>1. m \in 1 .. Len(outbound) - 1 /\ m + 1 \in 1 .. Len(outbound)
      BY <1>2, <1>6
    <3>2. QED BY <1>6, <3>1 DEF PsiInv, MessagesInv
  <2>2. WireRows'
    <3>1. ASSUME NEW m \in 1 .. onWire' PROVE m + 1 \in 1 .. onWire /\ outbound'[m] = outbound[m + 1]
      BY <1>1, <1>2, <1>6
    <3>2. Rows' = Rows
      BY DEF Rows, numRows, roundUpTo
    <3>3. QED BY <1>9, <3>1, <3>2 DEF PsiInv, MessagesInv, WireRows
  <2>3. QED BY <1>4, <1>5, <1>7, <1>8, <2>1, <2>2 DEF MessagesInv
<1>16. MailInv'
  BY <1>1, <1>3, MailFrame DEF dataVars
<1>17. ControlInv'
  BY <1>3, <1>5 DEF PsiInv, ControlInv
<1>18. NetInv'
  <2>1. client # "connecting"
    BY <1>1 DEF PsiInv, NetInv
  <2>2. QED BY <1>3, <1>8, <2>1 DEF PsiInv, NetInv, SessionsPair
<1>19. OutputInv'
  BY <1>1, <1>3, <1>8, OutputFrame DEF dataVars
<1>20. TypeOK'
  BY <1>1, <1>12, <1>16, TypeFrame DEF PsiInv, TypeOK, dataVars, netVars
<1>21. QED BY <1>12, <1>13, <1>14, <1>15, <1>16, <1>17, <1>18, <1>19, <1>20 DEF PsiInv

\* The channel reads the rows of a message from mT1 when it sends it.
LEMMA TransmitOneStep == ASSUME PsiInv, Transmit PROVE PsiInv'
<1>0. PICK n \in Nat : n = onWire + 1
  BY Numbers
<1> DEFINE op == outbound[n]
           rows  == [j \in 1 .. op.count |-> mT1[op.from + j - 1]]
           after == [op EXCEPT !.rows = rows]
<1>1. /\ client = "open" /\ onWire < Len(outbound) /\ UNCHANGED psiVars
      /\ outbound' = IF op.kind = "corrections" THEN [outbound EXCEPT ![n] = after] ELSE outbound
      /\ onWire' = n
      /\ UNCHANGED <<baseVars, recvVars, sendVars>>
  BY <1>0 DEF Transmit, asyncPerformSend
<1>2. /\ n \in 1 .. Len(outbound) /\ outbound \in Seq(Messages) /\ outbound # <<>>
      /\ onWire \in Nat /\ Len(outbound) \in Nat
  BY <1>0, <1>1, Numbers
<1>3. /\ rpc' = rpc /\ spc' = spc /\ rIt' = rIt /\ sIt' = sIt /\ rRow' = rRow /\ sRow' = sRow
  BY <1>1, Moves DEF PsiInv, psiVars
<1>4. (Encodes' <=> Encodes) /\ (Corrects' <=> Corrects) /\ (Together' <=> Together)
  BY <1>3 DEF Encodes, Corrects, Together
<1>5. /\ Encodes /\ Together /\ op \in Messages /\ op.kind = "corrections"
      /\ op.from \in Nat /\ op.count \in Nat /\ op.from + op.count <= rCorrectionIdx
      /\ rCorrectionIdx \in Nat /\ rRow \in Nat /\ rCorrectionIdx <= rRow /\ rRow <= numOTs
      /\ Continues(outbound, IF Corrects THEN sCorrectionIdx ELSE 0, rCorrectionIdx)
  BY <1>2, OnTheWire, Numbers
<1>6. op.from + op.count <= rRow /\ op.from + op.count <= numRows
  BY <1>5, Sizes
<1>7. \A i \in Rows : i < rRow => mT1[i] = Correction(i)
  BY <1>5 DEF PsiInv, ReceiverInv
<1>8. rows \in Seq(Row)
  <2>1. \A j \in 1 .. op.count : op.from + j - 1 \in Rows
    BY <1>5, <1>6, Sizes, RowNumber DEF Rows
  <2>2. \A j \in 1 .. op.count : mT1[op.from + j - 1] \in Row
    BY <2>1 DEF PsiInv, TypeOK, OtTypeOK
  <2>3. rows \in [1 .. op.count -> Row]
    BY <2>2
  <2> HIDE DEF rows
  <2>4. QED BY <1>5, <2>3, SeqDef
<1>9. /\ after \in Messages /\ after.from = op.from /\ after.count = op.count
      /\ after.kind = op.kind /\ after.rows = rows
  <2> HIDE DEF rows
  <2>1. QED BY <1>5, <1>8 DEF Messages
<1>10. /\ outbound' \in Seq(Messages) /\ Len(outbound') = Len(outbound)
       /\ \A m \in 1 .. Len(outbound) : outbound'[m] = IF m = n THEN after ELSE outbound[m]
  <2>1. outbound' = [outbound EXCEPT ![n] = after]
    BY <1>1, <1>5
  <2> HIDE DEF after
  <2>2. QED BY <1>2, <1>9, <2>1, ExceptSeq
<1>11. \A m \in 1 .. Len(outbound) :
         /\ outbound'[m].from = outbound[m].from /\ outbound'[m].count = outbound[m].count
         /\ outbound'[m].kind = outbound[m].kind
  <2> HIDE DEF after
  <2>1. QED BY <1>9, <1>10
<1>12. \A i : Correction(i)' = Correction(i) /\ Chosen(i)' = Chosen(i)
  BY <1>1, CorrectionsFrame, ChosenFrame DEF recvVars
<1>13. UNCHANGED <<base0, base1, mChoiceBlks, rStage, mT0, mT1, mW, mEncodeFlags, rCorrectionIdx,
                   sStage, mT, mCorrectionVals, sCorrectionIdx, corrected, relation>>
       /\ UNCHANGED <<sigma, client, listener, session, toParty, indices, vals, xorsSet, xors>>
  BY <1>1 DEF baseVars, recvVars, sendVars, psiVars
<1> HIDE DEF rows, after
<1>14. OtTypeOK'
  <2>1. onWire' \in 0 .. Len(outbound')
    BY <1>1, <1>2, <1>10
  <2>2. QED BY <1>10, <1>13, <2>1 DEF PsiInv, TypeOK, OtTypeOK
<1>15. ReceiverInv'
  BY <1>3, <1>4, <1>12, <1>13 DEF PsiInv, ReceiverInv, Rows, numRows, roundUpTo
<1>16. SenderInv'
  BY <1>3, <1>4, <1>12, <1>13 DEF PsiInv, SenderInv, Rows, numRows, roundUpTo
<1>17. MessagesInv'
  <2>1. Continues(outbound', IF Corrects THEN sCorrectionIdx ELSE 0, rCorrectionIdx)
    <3>1. outbound' # <<>>
      BY <1>2, <1>10
    <3> DEFINE sent == IF Corrects THEN sCorrectionIdx ELSE 0
    <3>2. Continues(outbound, sent, rCorrectionIdx)
      BY <1>5
    <3> HIDE DEF sent
    <3>3. Continues(outbound', sent, rCorrectionIdx)
      BY <1>2, <1>10, <1>11, <3>1, <3>2 DEF Continues
    <3>4. QED BY <3>3 DEF sent
  <2>2. \A m \in 1 .. Len(outbound') : outbound'[m].kind = "corrections" /\ outbound'[m].count > 0
    BY <1>10, <1>11 DEF PsiInv, MessagesInv
  <2>3. WireRows'
    <3>1. SUFFICES ASSUME NEW m \in 1 .. n, NEW i \in Rows,
                          outbound[m].from <= i, i < outbound[m].from + outbound[m].count,
                          outbound[m].kind = "corrections"
                   PROVE  outbound'[m].rows[i - outbound[m].from + 1] = Correction(i)
      <4>1. onWire' = n /\ Rows' = Rows /\ \A m \in 1 .. n : m \in 1 .. Len(outbound)
        BY <1>1, <1>2 DEF Rows, numRows, roundUpTo
      <4>2. QED BY <1>11, <1>12, <4>1 DEF WireRows
    <3>2. CASE m = n
      <4>1. outbound'[m].rows = rows
        BY <1>2, <1>9, <1>10, <3>2
      <4>2. i \in Nat /\ op.from <= i /\ i < op.from + op.count
        BY <3>1, <3>2, Sizes DEF Rows
      <4>3. /\ i - op.from + 1 \in 1 .. op.count /\ op.from + (i - op.from + 1) - 1 = i
            /\ i < rRow
        BY <1>5, <1>6, <4>2, RowNumber
      <4>4. rows[i - op.from + 1] = mT1[i]
        BY <4>3 DEF rows
      <4>5. QED BY <1>7, <3>2, <4>1, <4>3, <4>4
    <3>3. CASE m # n
      <4>1. m \in 1 .. onWire /\ outbound'[m] = outbound[m]
        BY <1>0, <1>2, <1>10, <3>3
      <4>2. QED BY <3>1, <4>1 DEF PsiInv, MessagesInv, WireRows
    <3>4. QED BY <3>2, <3>3
  <2>4. QED BY <1>4, <1>5, <1>13, <2>1, <2>2, <2>3 DEF MessagesInv
<1>18. MailInv'
  BY <1>3, <1>13, MailFrame
<1>19. ControlInv'
  BY <1>3, <1>4 DEF PsiInv, ControlInv
<1>20. NetInv'
  BY <1>1, <1>3, <1>13 DEF PsiInv, NetInv, SessionsPair
<1>21. OutputInv'
  BY <1>3, <1>13, OutputFrame
<1>22. TypeOK'
  BY <1>1, <1>14, <1>18, TypeFrame DEF PsiInv, TypeOK, psiVars
<1>23. QED BY <1>14, <1>15, <1>16, <1>17, <1>18, <1>19, <1>20, <1>21, <1>22 DEF PsiInv

-----------------------------------------------------------------------------
(* The invariant holds.                                                    *)

\* The positions of a key are variables of the dictionary.
LEMMA IndicesType == KeyIndices \subseteq SUBSET Variables
<1>1. tableRealSize \in Nat /\ gamma \in Nat /\ numOTs = 2 * tableRealSize + gamma
  BY PsiAssumption
<1>2. ASSUME NEW f \in 0 .. tableRealSize - 1, NEW s \in 0 .. tableRealSize - 1,
             NEW d \in SUBSET (0 .. gamma - 1)
      PROVE  {f, tableRealSize + s} \cup {2 * tableRealSize + j : j \in d} \subseteq Variables
  <2>1. f \in Variables /\ tableRealSize + s \in Variables
    BY <1>1 DEF Variables
  <2>2. \A j \in d : 2 * tableRealSize + j \in Variables
    BY <1>1 DEF Variables
  <2>3. QED BY <2>1, <2>2
<1>3. QED BY <1>2 DEF KeyIndices

LEMMA PsiInitially == Init => PsiInv
<1> SUFFICES ASSUME Init PROVE PsiInv
  OBVIOUS
<1>1. /\ rpc = "hello1" /\ spc = "hello1" /\ rIt = 0 /\ sIt = 0
      /\ ~ Encodes /\ ~ Corrects /\ ~ Together
  BY TwoParties DEF Init, rpc, spc, rIt, sIt, Encodes, Corrects, Together
<1>2. OtTypeOK
  BY ZerosType, RowsRoom DEF Init, OtInit, OtTypeOK, ReceiverStages, SenderStages, Messages
<1>3. ControlInv
  BY <1>1, Sizes DEF ControlInv, ReceiverLabels, SenderLabels, Greeting
<1>4. MailInv
  <2>1. ToReceiver = <<>> /\ ToSender = <<>>
    BY <1>1 DEF ToReceiver, ToSender, Greeting
  <2>2. QED BY <2>1 DEF Init, MailInv
<1>5. ReceiverInv /\ SenderInv
  BY <1>1 DEF ReceiverInv, SenderInv
<1>6. MessagesInv
  <2>1. outbound = <<>> /\ 1 .. Len(outbound) = {} /\ onWire = 0 /\ 1 .. onWire = {}
    BY DEF Init, OtInit
  <2>2. QED BY <1>1, <2>1 DEF MessagesInv, WireRows
<1>7. NetInv
  BY <1>1 DEF Init, NetInv, SessionsPair
<1>8. OutputInv
  <2>1. indices \in [Keys -> SUBSET Variables]
    BY IndicesType DEF Init
  <2>2. vals \in [Keys -> Word] /\ xorsSet = {}
    BY DEF Init
  <2>3. QED BY <1>1, <2>1, <2>2 DEF OutputInv
<1>9. TypeOK
  <2>1. \A p \in Parties : pc[p] = "hello1" /\ iteration[p] = 0 /\ row[p] = 0 /\ toParty[p] = <<>>
    BY DEF Init
  <2>2. iteration \in [Parties -> 0 .. times] /\ row \in [Parties -> 0 .. numOTs]
    BY Sizes DEF Init
  <2>3. sigma \in [Variables -> Word] /\ xors \in [Keys -> Row] /\ xorsSet \in SUBSET Row
    BY DEF Init, Word, Row
  <2>4. count \in -1 .. Cardinality(Keys) /\ listener \in -1 .. times - 1
    BY Sizes DEF Init
  <2>5. \A p \in Parties : Len(toParty[p]) <= 2
    BY <2>1
  <2>6. QED BY <1>2, <2>1, <2>2, <2>3, <2>4, <2>5 DEF Init, TypeOK
<1>10. QED BY <1>2, <1>3, <1>4, <1>5, <1>6, <1>7, <1>8, <1>9 DEF PsiInv

LEMMA PsiStep == ASSUME PsiInv, [Next]_vars PROVE PsiInv'
<1>1. ASSUME ReceiverNext PROVE PsiInv'
  BY <1>1, GreetReceiver, CreateStep, ReceiverConnectStep, ReceiverSetupStep, ReceiverEncodeStep,
     ReceiverSendStep, ReceiverCloseStep, ReceiverComputeXorsStep, ReceiveSizeStep,
     ReceiveXorsStep DEF ReceiverNext
<1>2. ASSUME SenderNext PROVE PsiInv'
  BY <1>2, GreetSender, SenderListenStep, SenderSetupStep, SenderReceiveStep, SenderCorrectStep,
     SenderCloseStep, SenderComputeXorsStep, SendSizeStep, SendXorsStep DEF SenderNext
<1>3. ASSUME Network PROVE PsiInv'
  BY <1>3, ConnectStep, AcceptStep, TransmitOneStep DEF Network
<1>4. ASSUME Terminated \/ UNCHANGED vars PROVE PsiInv'
  BY <1>4, StutterStep DEF Terminated
<1>5. QED BY <1>1, <1>2, <1>3, <1>4 DEF Next

\* Both processes, whatever their threads do (ProtocolParty::run), keep the
\* invariant: how far apart they are, and what is under way between them.
THEOREM PsiInvariance == Spec => []PsiInv
BY PsiInitially, PsiStep, PTL DEF Spec

\* The types, and that the plain channel holds at most the size and the outputs of
\* one iteration (sendXors, receiveSenderXors).
THEOREM PsiTypes == Spec => []TypeOK
<1>1. PsiInv => TypeOK
  BY DEF PsiInv
<1>2. QED BY <1>1, PsiInvariance, PTL

\* Every connection joins the two ends of the same iteration, although runOOS
\* makes them all on the same port and with the same name.
THEOREM SessionsMatch == Spec => []SessionsPair
<1>1. PsiInv => SessionsPair
  BY DEF PsiInv, NetInv
<1>2. QED BY <1>1, PsiInvariance, PTL

\* computeXors() of the Receiver never adds to the outputs of another iteration,
\* although it does not empty xorsSet: init() makes the same T0 every time.
THEOREM OutputsFresh == Spec => []XorsSetFresh
<1>1. ASSUME PsiInv PROVE XorsSetFresh
  <2>1. SUFFICES ASSUME rpc \in {"receiveSize", "receiveXors"}
                 PROVE  xorsSet = {ReceiverXor(k) : k \in Keys}
    BY DEF XorsSetFresh, rpc
  <2>2. \A k : ReceiverXor(k) = Out(k)
    BY <1>1, <2>1, ReceiverXors DEF Encodes
  <2>3. xorsSet = {Out(k) : k \in Keys}
    BY <1>1, <2>1 DEF PsiInv, OutputInv
  <2>4. QED BY <2>2, <2>3
<1>2. QED BY <1>1, PsiInvariance, PTL

\* When the Receiver compares, the outputs for the encoded keys are all there.
LEMMA EncodedAreMatched ==
    ASSUME PsiInv, rpc = "receiveXors", toParty[Receiver] # <<>>
    PROVE  \A k \in Keys : Decodes(k) => k \in Matches(Head(toParty[Receiver]))
<1>1. sIt = rIt + 1 /\ Head(toParty[Receiver]) = xors
  BY OutputsArrive
<1>2. xorsSet = {Out(k) : k \in Keys} /\ \A k \in Keys : Decodes(k) => xors[k] = Out(k)
  BY <1>1 DEF PsiInv, OutputInv
<1>3. QED BY <1>1, <1>2 DEF Matches

\* receiveSenderXors() counts every key that the dictionary encodes.
THEOREM EncodedMatch == Spec => []EncodedKeysMatch
<1>1. ASSUME PsiInv PROVE EncodedKeysMatch
  BY <1>1, EncodedAreMatched DEF EncodedKeysMatch, rpc
<1>2. QED BY <1>1, PsiInvariance, PTL

\* The rows of a queued message stay as they were encoded, across the iterations:
\* init() replaces mT1 only when the last message of the iteration before is gone,
\* and the loop of runOOS encodes only rows it has not yet sent.
THEOREM QueuedRowsStable == Spec => SendBuffersStable
<1> DEFINE Stable == \A m \in onWire + 1 .. Len(outbound) :
                        \A i \in outbound[m].from .. outbound[m].from + outbound[m].count - 1 :
                           mT1'[i] = mT1[i]
<1>1. ASSUME PsiInv, mT1' = mT1 PROVE Stable
  BY <1>1
<1>2. ASSUME PsiInv, [Next]_vars, mT1' # mT1 PROVE Stable
  <2>1. ReceiverSetup \/ ReceiverEncodeRow
    <3>1. ReceiverNext => ReceiverSetup \/ ReceiverEncodeRow
      BY <1>2 DEF ReceiverNext, Greet, createDictionary, ReceiverConnect, receiverConfigure,
                  ReceiverSend, sendCorrection, ReceiverClose, ReceiverComputeXors, ReceiveSize,
                  ReceiveXors, otVars, recvVars
    <3>2. ~ SenderNext
      BY <1>2 DEF SenderNext, Greet, SenderListen, senderConfigure, SenderSetup, senderSetBaseOts,
                  senderInit, SenderReceive, recvCorrection, SenderCorrectRow, senderOtCorrection,
                  SenderClose, SenderComputeXors, SendSize, SendXors, otVars, recvVars
    <3>3. ~ Network
      BY <1>2 DEF Network, Connect, Accept, Transmit, asyncPerformSend, otVars, recvVars
    <3>4. ~ (Terminated \/ UNCHANGED vars)
      BY <1>2 DEF Terminated, vars, otVars, recvVars
    <3>5. QED BY <1>2, <3>1, <3>2, <3>3, <3>4 DEF Next
  <2>2. CASE ReceiverSetup
    <3>1. ~ Encodes
      BY <2>2 DEF ReceiverSetup, Encodes, rpc
    <3>2. outbound = <<>> /\ onWire = 0
      BY <1>2, <3>1, NotEncoding
    <3>3. QED BY <3>2
  <2>3. CASE ReceiverEncodeRow
    <3>1. PICK n \in Nat : n = rRow
      BY <1>2, Numbers, Sizes
    <3>2. rpc = "corrections" /\ mT1' = [mT1 EXCEPT ![n] = (Encode(sigma[n]) (+) mT0[n]) (+) mT1[n]]
      BY <2>3, <3>1 DEF ReceiverEncodeRow, otCorrection, EncodeRow, rpc, rRow
    <3>3. rCorrectionIdx \in Nat /\ rCorrectionIdx <= n /\ rRow <= numOTs
          /\ rCorrectionIdx <= numRows
      BY <1>2, <3>1, <3>2, ReceiverEncoding, Sizes, Numbers
    <3>4. SUFFICES ASSUME NEW m \in onWire + 1 .. Len(outbound),
                          NEW i \in outbound[m].from .. outbound[m].from + outbound[m].count - 1
                   PROVE  mT1'[i] = mT1[i]
      OBVIOUS
    <3>5. m \in 1 .. Len(outbound) /\ outbound # <<>>
      BY <1>2, Numbers
    <3>6. /\ outbound[m].from \in Nat /\ outbound[m].count \in Nat
          /\ outbound[m].from + outbound[m].count <= rCorrectionIdx
      BY <1>2, <3>5, OnTheWire
    <3>7. i \in Nat /\ i < rCorrectionIdx
      <4>1. PICK a \in Nat, b \in Nat, k \in Nat :
              a = outbound[m].from /\ b = outbound[m].count /\ k = rCorrectionIdx
        BY <3>3, <3>6
      <4>2. a + b <= k /\ i \in a .. a + b - 1
        BY <3>6, <4>1
      <4>3. i \in Nat /\ i < k
        BY <4>2
      <4>4. QED BY <4>1, <4>3
    <3>8. i # n /\ i \in Rows
      BY <3>3, <3>7, Sizes DEF Rows
    <3>9. mT1 \in [Rows -> Row]
      BY <1>2 DEF PsiInv, TypeOK, OtTypeOK
    <3>10. QED BY <3>2, <3>8, <3>9
  <2>4. QED BY <2>1, <2>2, <2>3
<1>3. ASSUME PsiInv, [Next]_vars PROVE [Stable]_otVars
  BY <1>1, <1>2, <1>3
<1>4. QED BY <1>3, PsiInvariance, PTL DEF Spec, SendBuffersStable

-----------------------------------------------------------------------------
(* The protocol implements PsiIdeal.                                       *)

\* What the ideal protocol sees of a state.
Encoded == {k \in Keys : Decodes(k)}

LEMMA InRunLabels == InRun <=> rpc \notin Greeting \cup {"createDictionary", "done"}
BY DEF InRun, rpc, Greeting

\* Every step but two is one that the ideal protocol does not see.
LEMMA IdealStutter ==
    ASSUME UNCHANGED <<indices, sigma, vals, count, iteration>>, InRun' <=> InRun
    PROVE  UNCHANGED Ideal!idealVars
<1>1. {k \in Keys : Decodes(k)}' = {k \in Keys : Decodes(k)}
  <2>1. \A k : Decodes(k)' <=> Decodes(k)
    BY DecodesFrame
  <2>2. QED BY <2>1
<1>2. iteration[Receiver]' = iteration[Receiver]
  OBVIOUS
<1>3. QED BY <1>1, <1>2 DEF Ideal!idealVars

\* createDictionary fixes what the dictionary encodes.
LEMMA IdealPrepare == ASSUME PsiInv, createDictionary PROVE Ideal!Prepare
<1>1. /\ rpc = "createDictionary" /\ rpc' = "runOOS" /\ count' = count
      /\ iteration' = iteration
  BY Moves DEF createDictionary, rpc, PsiInv
<1>2. ~ InRun
  BY <1>1, InRunLabels
<1>3. InRun'
  BY <1>1 DEF InRun, rpc
<1>4. rIt # times /\ rIt \in Nat /\ rIt <= times
  BY <1>1, Numbers DEF PsiInv, ControlInv
<1>5. rIt < times
  BY <1>4, Sizes
<1>6. (IF InRun THEN {k \in Keys : Decodes(k)} ELSE {})' \in SUBSET Keys
  OBVIOUS
<1>7. QED BY <1>1, <1>2, <1>3, <1>5, <1>6 DEF Ideal!Prepare, rIt

\* The count at the end of an iteration is at least that of the encoded keys.
LEMMA IdealReport == ASSUME PsiInv, ReceiveXors PROVE Ideal!Report
<1>1. /\ rpc = "receiveXors" /\ toParty[Receiver] # <<>> /\ rIt' = rIt + 1
      /\ count' = Cardinality(Matches(Head(toParty[Receiver])))
      /\ rpc' \in {"createDictionary", "done"}
  <2>1. /\ iteration' = [iteration EXCEPT ![Receiver] = rIt + 1]
        /\ Goto(Receiver, IF rIt + 1 < times THEN "createDictionary" ELSE "done")
        /\ (IF rIt + 1 < times THEN "createDictionary" ELSE "done") \in {"createDictionary", "done"}
    BY DEF ReceiveXors, rIt
  <2>2. QED BY <2>1, Moves DEF ReceiveXors, read, rpc, PsiInv
<1>2. InRun
  BY <1>1, InRunLabels DEF Greeting
<1>3. ~ InRun'
  BY <1>1 DEF InRun, rpc
<1> DEFINE M == Matches(Head(toParty[Receiver]))
<1>4. Encoded \subseteq M /\ M \subseteq Keys
  BY <1>1, EncodedAreMatched DEF Encoded, Matches
<1> HIDE DEF M
<1>5. IsFiniteSet(M) /\ Cardinality(M) <= Cardinality(Keys) /\ Cardinality(M) \in Nat
  BY <1>4, Sizes, FS_Subset, FS_CardinalityType
<1>6. IsFiniteSet(Encoded) /\ Cardinality(Encoded) <= Cardinality(M)
      /\ Cardinality(Encoded) \in Nat
  BY <1>4, <1>5, FS_Subset, FS_CardinalityType
<1>7. count' = Cardinality(M)
  BY <1>1 DEF M
<1>8. Cardinality(Keys) \in Nat
  BY Sizes
<1>9. count' \in Cardinality(Encoded) .. Cardinality(Keys)
  <2>1. \A a, b, c \in Nat : a <= b /\ b <= c => b \in a .. c
    OBVIOUS
  <2>2. QED BY <1>5, <1>6, <1>7, <1>8, <2>1
<1>10. iteration[Receiver]' = iteration[Receiver] + 1
  BY <1>1 DEF rIt
<1>11. \A S : Ideal!Cardinality(S) = Cardinality(S)
  BY DEF Ideal!Cardinality, Cardinality
<1>12. count' \in Ideal!Cardinality(Encoded) .. Ideal!Cardinality(Keys)
  BY <1>9, <1>11
<1>13. QED BY <1>2, <1>3, <1>12, <1>10 DEF Ideal!Report, Encoded

\* The Receiver's other steps stay in the run or out of it.
LEMMA IdealReceiver ==
    ASSUME PsiInv, ReceiverNext, ~ createDictionary, ~ ReceiveXors
    PROVE  UNCHANGED Ideal!idealVars
<1>1. UNCHANGED <<indices, sigma, vals, count, iteration>>
  BY DEF ReceiverNext, Greet, ReceiverConnect, ReceiverSetup, ReceiverEncodeRow, ReceiverSend,
         ReceiverClose, ReceiverComputeXors, ReceiveSize, dataVars
<1>2. InRun' <=> InRun
  <2>1. CASE Greet(Receiver)
    <3>1. rpc \in Greeting /\ (Goto(Receiver, "hello2") \/ Goto(Receiver, "createDictionary"))
      BY <2>1, TwoParties DEF Greet, rpc, Greeting
    <3>2. rpc' \in {"hello2", "createDictionary"}
      BY <3>1, Moves DEF PsiInv
    <3>3. QED BY <3>1, <3>2 DEF InRun, rpc, Greeting
  <2>2. CASE ~ Greet(Receiver)
    <3> DEFINE R == {"runOOS", "setup", "corrections", "close", "computeXors", "receiveSize",
                     "receiveXors"}
    <3>1. rpc \in R /\ (rpc' = rpc \/ \E l \in R : Goto(Receiver, l))
      BY <2>2 DEF ReceiverNext, ReceiverConnect, ReceiverSetup, ReceiverEncodeRow, ReceiverSend,
                  ReceiverClose, ReceiverComputeXors, ReceiveSize, rpc
    <3>2. rpc' \in R
      BY <3>1, Moves DEF PsiInv
    <3>3. QED BY <3>1, <3>2 DEF InRun, rpc
  <2>3. QED BY <2>1, <2>2
<1>3. QED BY <1>1, <1>2, IdealStutter

\* The Sender's steps and the network's are not seen.
LEMMA IdealOthers ==
    ASSUME PsiInv, SenderNext \/ Network \/ Terminated \/ UNCHANGED vars
    PROVE  UNCHANGED Ideal!idealVars
<1>1. UNCHANGED <<indices, sigma, vals, count>> /\ rIt' = rIt /\ rpc' = rpc
  <2>1. CASE SenderNext
    <3>1. /\ UNCHANGED <<indices, sigma, vals, count>>
          /\ pc' = pc \/ \E l : Goto(Sender, l)
          /\ iteration' = iteration \/ \E n : iteration' = [iteration EXCEPT ![Sender] = n]
      BY <2>1 DEF SenderNext, Greet, SenderListen, SenderSetup, SenderReceive, SenderCorrectRow,
                  SenderClose, SenderComputeXors, SendSize, SendXors, dataVars
    <3>2. QED BY <3>1, Moves DEF PsiInv
  <2>2. CASE Network
    <3>1. UNCHANGED <<indices, sigma, vals, count, pc, iteration>>
      BY <2>2 DEF Network, Connect, Accept, Transmit, psiVars, dataVars
    <3>2. QED BY <3>1, Moves DEF PsiInv
  <2>3. CASE Terminated \/ UNCHANGED vars
    <3>1. UNCHANGED <<indices, sigma, vals, count, pc, iteration>>
      BY <2>3 DEF Terminated, vars, psiVars
    <3>2. QED BY <3>1, Moves DEF PsiInv
  <2>4. QED BY <2>1, <2>2, <2>3
<1>2. InRun' <=> InRun
  BY <1>1 DEF InRun, rpc
<1>3. {k \in Keys : Decodes(k)}' = {k \in Keys : Decodes(k)}
  <2>1. \A k : Decodes(k)' <=> Decodes(k)
    BY <1>1, DecodesFrame
  <2>2. QED BY <2>1
<1>4. QED BY <1>1, <1>2, <1>3 DEF Ideal!idealVars, rIt

\* ProtocolParty::run implements PsiIdeal: in every iteration one count, never less
\* than the number of the keys that the dictionary of the iteration encodes.
THEOREM ProtocolImplementsIdeal == Spec => ImplementsIdeal
<1>1. Init => Ideal!Init
  <2> SUFFICES ASSUME Init PROVE Ideal!Init
    OBVIOUS
  <2>1. pc[Receiver] = "hello1" /\ iteration[Receiver] = 0 /\ count = -1
    BY TwoParties DEF Init
  <2>2. ~ InRun
    BY <2>1 DEF InRun
  <2>3. QED BY <2>1, <2>2 DEF Ideal!Init
<1>2. ASSUME PsiInv, [Next]_vars PROVE [Ideal!Prepare \/ Ideal!Report]_(Ideal!idealVars)
  <2>1. CASE createDictionary
    BY <1>2, <2>1, IdealPrepare
  <2>2. CASE ReceiveXors
    BY <1>2, <2>2, IdealReport
  <2>3. CASE ReceiverNext /\ ~ createDictionary /\ ~ ReceiveXors
    BY <1>2, <2>3, IdealReceiver
  <2>4. CASE SenderNext \/ Network \/ Terminated \/ UNCHANGED vars
    BY <1>2, <2>4, IdealOthers
  <2>5. QED BY <1>2, <2>1, <2>2, <2>3, <2>4 DEF Next
<1>3. QED BY <1>1, <1>2, PsiInvariance, PTL DEF Spec, ImplementsIdeal, Ideal!Spec

-----------------------------------------------------------------------------
(* Nobody waits for ever, and the run is bounded: what Finishes rests on.  *)

\* The labels between making an end of the OT's channel and closing it.
Connected == {"setup", "corrections", "close"}

\* The objects are being set up, and say so.
StagesInv ==
    /\ rpc = "setup" => rStage \in {"configured", "base"}
    /\ spc = "setup" => sStage \in {"configured", "base"}

\* The debug build's flags are those of the encoded rows.
FlagsInv == Encodes => \A i \in Rows : mEncodeFlags[i] <=> i < rRow

\* Every message has the size that the sender will ask for.
CountsInv == \A m \in 1 .. Len(outbound) : outbound[m].count = CurStepSize(outbound[m].from)

\* The receiver connects to the session of its own iteration: the sender's
\* acceptor is there, and gives the sender the connection.
LinkInv ==
    /\ rpc \in Connected => client # "closed"
    /\ spc \in Connected => server # "closed"
    /\ (rpc = "setup" \/ Encodes) /\ client # "connecting" /\ sIt = rIt =>
         /\ spc \notin Greeting \cup {"runOOS"}
         /\ server = "listening" => backlog

\* The receiver encodes the rows of one message at a time and leaves the loop when
\* all it sent is on the wire; the sender leaves it with the last row.
LoopsInv ==
    /\ rpc = "corrections" => rRow <= rCorrectionIdx + CurStepSize(rCorrectionIdx)
    /\ spc = "corrections" => sRow < numOTs
    /\ rpc \in {"computeXors", "receiveSize", "receiveXors"} => onWire = Len(outbound)

\* A debug build finds no row that it takes for one without base OTs.
SeedsInv == NDEBUG \/ \A i \in Rows : base0[i] \cap FirstBlock # {}

MeetInv == PsiInv /\ StagesInv /\ FlagsInv /\ CountsInv /\ LinkInv /\ LoopsInv /\ SeedsInv

-----------------------------------------------------------------------------
(* Each step in terms of the parties' places.                              *)

LEMMA GreetReceiverMoves ==
    ASSUME PsiInv, Greet(Receiver)
    PROVE  /\ \/ rpc = "hello1" /\ rpc' = "hello2"
              \/ rpc = "hello2" /\ rpc' = "createDictionary"
           /\ UNCHANGED <<otVars, spc, rIt, sIt, rRow, sRow, netVars>>
BY Moves DEF PsiInv, Greet, rpc, Receiver

LEMMA GreetSenderMoves ==
    ASSUME PsiInv, Greet(Sender)
    PROVE  /\ \/ spc = "hello1" /\ spc' = "hello2"
              \/ spc = "hello2" /\ spc' = "runOOS"
           /\ UNCHANGED <<otVars, rpc, rIt, sIt, rRow, sRow, netVars>>
BY Moves, TwoParties DEF PsiInv, Greet, spc

LEMMA CreateMoves ==
    ASSUME PsiInv, createDictionary
    PROVE  /\ rpc = "createDictionary" /\ rpc' = "runOOS"
           /\ UNCHANGED <<otVars, spc, rIt, sIt, rRow, sRow, netVars>>
BY Moves DEF PsiInv, createDictionary, rpc

LEMMA ReceiverConnectMoves ==
    ASSUME PsiInv, ReceiverConnect
    PROVE  /\ rpc = "runOOS" /\ rpc' = "setup" /\ rStage' = "configured" /\ client' = "connecting"
           /\ UNCHANGED <<spc, rIt, sIt, rRow, sRow, server, listener, backlog, sendVars, chanVars,
                          rCorrectionIdx, mEncodeFlags>>
BY Moves DEF PsiInv, ReceiverConnect, receiverConfigure, rpc

LEMMA ReceiverSetupMoves ==
    ASSUME PsiInv, ReceiverSetup
    PROVE  /\ rpc = "setup"
           /\ \/ /\ rStage = "configured" /\ rStage' = "base" /\ rpc' = rpc
                 /\ UNCHANGED <<rRow, rCorrectionIdx, mEncodeFlags>>
              \/ /\ rStage = "base" /\ rStage' = "ready" /\ rpc' = "corrections"
                 /\ rRow' = 0 /\ rCorrectionIdx' = 0 /\ mEncodeFlags' = [i \in Rows |-> FALSE]
           /\ UNCHANGED <<spc, rIt, sIt, sRow, netVars, sendVars, chanVars>>
BY Moves DEF PsiInv, ReceiverSetup, receiverSetBaseOts, receiverInit, rpc

LEMMA ReceiverEncodeMoves ==
    ASSUME PsiInv, ReceiverEncodeRow
    PROVE  /\ rpc = "corrections" /\ rRow' = rRow + 1
           /\ rRow < rCorrectionIdx + CurStepSize(rCorrectionIdx)
           /\ mEncodeFlags' = [mEncodeFlags EXCEPT ![rRow] = TRUE]
           /\ UNCHANGED <<rpc, spc, rIt, sIt, sRow, netVars, sendVars, chanVars, rStage,
                          rCorrectionIdx>>
BY Moves DEF PsiInv, ReceiverEncodeRow, otCorrection, EncodeRow, rpc, rRow

LEMMA ReceiverSendMoves ==
    ASSUME PsiInv, ReceiverSend
    PROVE  /\ rpc = "corrections" /\ rpc' = IF rRow < numOTs THEN "corrections" ELSE "close"
           /\ rRow = rCorrectionIdx + CurStepSize(rCorrectionIdx)
           /\ CurStepSize(rCorrectionIdx) > 0
           /\ rCorrectionIdx' = rCorrectionIdx + CurStepSize(rCorrectionIdx)
           /\ outbound' = Append(outbound, Corrections(rCorrectionIdx, CurStepSize(rCorrectionIdx)))
           /\ UNCHANGED <<spc, rIt, sIt, rRow, sRow, netVars, sendVars, rStage, mEncodeFlags,
                          onWire, inbound>>
BY Moves DEF PsiInv, ReceiverSend, sendCorrection, rpc, rRow

LEMMA ReceiverCloseMoves ==
    ASSUME PsiInv, ReceiverClose
    PROVE  /\ rpc = "close" /\ rpc' = "computeXors"
           /\ client = "open" /\ client' = "closed" /\ onWire = Len(outbound)
           /\ UNCHANGED <<otVars, spc, rIt, sIt, rRow, sRow, server, listener, backlog>>
BY Moves DEF PsiInv, ReceiverClose, rpc

LEMMA ReceiverComputeXorsMoves ==
    ASSUME PsiInv, ReceiverComputeXors
    PROVE  /\ rpc = "computeXors" /\ rpc' = "receiveSize"
           /\ UNCHANGED <<otVars, spc, rIt, sIt, rRow, sRow, netVars>>
BY Moves DEF PsiInv, ReceiverComputeXors, rpc

LEMMA ReceiveSizeMoves ==
    ASSUME PsiInv, ReceiveSize
    PROVE  /\ rpc = "receiveSize" /\ rpc' = "receiveXors"
           /\ UNCHANGED <<otVars, spc, rIt, sIt, rRow, sRow, netVars>>
BY Moves DEF PsiInv, ReceiveSize, rpc

LEMMA ReceiveXorsMoves ==
    ASSUME PsiInv, ReceiveXors
    PROVE  /\ rpc = "receiveXors" /\ rIt' = rIt + 1
           /\ rpc' = IF rIt + 1 < times THEN "createDictionary" ELSE "done"
           /\ UNCHANGED <<otVars, spc, sIt, rRow, sRow, netVars>>
BY Moves DEF PsiInv, ReceiveXors, rpc, rIt

LEMMA SenderListenMoves ==
    ASSUME PsiInv, SenderListen
    PROVE  /\ spc = "runOOS" /\ spc' = "setup" /\ sStage' = "configured" /\ server' = "listening"
           /\ UNCHANGED <<rpc, rIt, sIt, rRow, sRow, client, backlog, recvVars, chanVars,
                          sCorrectionIdx>>
BY Moves DEF PsiInv, SenderListen, senderConfigure, spc

LEMMA SenderSetupMoves ==
    ASSUME PsiInv, SenderSetup
    PROVE  /\ spc = "setup"
           /\ \/ /\ sStage = "configured" /\ sStage' = "base" /\ spc' = spc
                 /\ UNCHANGED <<sRow, sCorrectionIdx>>
              \/ /\ sStage = "base" /\ sStage' = "ready" /\ spc' = "corrections"
                 /\ sRow' = 0 /\ sCorrectionIdx' = 0
           /\ UNCHANGED <<rpc, rIt, sIt, rRow, netVars, recvVars, chanVars>>
BY Moves DEF PsiInv, SenderSetup, senderSetBaseOts, senderInit, spc

LEMMA SenderReceiveMoves ==
    ASSUME PsiInv, SenderReceive
    PROVE  /\ spc = "corrections" /\ server = "open" /\ sRow = sCorrectionIdx /\ sRow < numOTs
           /\ onWire > 0 /\ onWire' = onWire - 1
           /\ outbound' = SubSeq(outbound, 2, Len(outbound))
           /\ sCorrectionIdx' = sCorrectionIdx + Head(outbound).count
           /\ UNCHANGED <<rpc, spc, rIt, sIt, rRow, sRow, netVars, recvVars, sStage, inbound>>
BY Moves DEF PsiInv, SenderReceive, recvCorrection, Arrived, Store, Received, spc, sRow

LEMMA SenderCorrectMoves ==
    ASSUME PsiInv, SenderCorrectRow
    PROVE  /\ spc = "corrections" /\ sRow < sCorrectionIdx /\ sRow' = sRow + 1
           /\ spc' = IF sRow + 1 < numOTs THEN "corrections" ELSE "close"
           /\ UNCHANGED <<rpc, rIt, sIt, rRow, netVars, recvVars, chanVars, sStage, sCorrectionIdx>>
BY Moves DEF PsiInv, SenderCorrectRow, senderOtCorrection, spc, sRow

LEMMA SenderCloseMoves ==
    ASSUME PsiInv, SenderClose
    PROVE  /\ spc = "close" /\ spc' = "computeXors" /\ server' = "closed"
           /\ UNCHANGED <<otVars, rpc, rIt, sIt, rRow, sRow, client>>
BY Moves DEF PsiInv, SenderClose, spc

LEMMA SenderComputeXorsMoves ==
    ASSUME PsiInv, SenderComputeXors
    PROVE  /\ spc = "computeXors" /\ spc' = "sendSize"
           /\ UNCHANGED <<otVars, rpc, rIt, sIt, rRow, sRow, netVars>>
BY Moves DEF PsiInv, SenderComputeXors, spc

LEMMA SendSizeMoves ==
    ASSUME PsiInv, SendSize
    PROVE  /\ spc = "sendSize" /\ spc' = "sendXors"
           /\ UNCHANGED <<otVars, rpc, rIt, sIt, rRow, sRow, netVars>>
BY Moves DEF PsiInv, SendSize, spc

LEMMA SendXorsMoves ==
    ASSUME PsiInv, SendXors
    PROVE  /\ spc = "sendXors" /\ sIt' = sIt + 1
           /\ spc' = IF sIt + 1 < times THEN "runOOS" ELSE "done"
           /\ UNCHANGED <<otVars, rpc, rIt, rRow, sRow, netVars>>
BY Moves DEF PsiInv, SendXors, spc, sIt

LEMMA ConnectMoves ==
    ASSUME PsiInv, Connect
    PROVE  /\ client = "connecting" /\ client' = "open" /\ listener # -1 /\ backlog'
           /\ UNCHANGED <<otVars, rpc, spc, rIt, sIt, rRow, sRow, server>>
BY Moves DEF PsiInv, Connect

LEMMA AcceptMoves ==
    ASSUME PsiInv, Accept
    PROVE  /\ server = "listening" /\ server' = "open"
           /\ UNCHANGED <<otVars, rpc, spc, rIt, sIt, rRow, sRow, client>>
BY Moves DEF PsiInv, Accept

LEMMA TransmitMoves ==
    ASSUME PsiInv, Transmit
    PROVE  /\ client = "open" /\ onWire < Len(outbound) /\ onWire' = onWire + 1
           /\ Len(outbound') = Len(outbound)
           /\ \A m \in 1 .. Len(outbound) :
                outbound'[m].from = outbound[m].from /\ outbound'[m].count = outbound[m].count
           /\ UNCHANGED <<rpc, spc, rIt, sIt, rRow, sRow, netVars, recvVars, sendVars>>
<1>0. PICK n \in Nat : n = onWire + 1
  BY Numbers
<1> DEFINE op    == outbound[n]
           after == [op EXCEPT !.rows = [j \in 1 .. op.count |-> mT1[op.from + j - 1]]]
<1>1. /\ client = "open" /\ onWire < Len(outbound) /\ onWire' = onWire + 1
      /\ outbound' = IF op.kind = "corrections" THEN [outbound EXCEPT ![n] = after] ELSE outbound
      /\ UNCHANGED <<psiVars, recvVars, sendVars>>
  BY <1>0 DEF Transmit, asyncPerformSend
<1>1a. UNCHANGED <<rpc, spc, rIt, sIt, rRow, sRow, netVars, recvVars, sendVars>>
  <2>1. UNCHANGED <<pc, iteration, row, netVars, recvVars, sendVars>>
    BY <1>1 DEF psiVars, netVars
  <2>2. UNCHANGED <<rpc, spc, rIt, sIt, rRow, sRow>>
    BY <2>1, Moves DEF PsiInv
  <2>3. QED BY <2>1, <2>2
<1>2. n \in 1 .. Len(outbound) /\ outbound \in Seq(Messages) /\ outbound' \in Seq(Messages)
  <2>1. onWire \in Nat /\ onWire < Len(outbound) /\ Len(outbound) \in Nat /\ outbound \in Seq(Messages)
    BY <1>1, Numbers
  <2>2. n \in 1 .. Len(outbound)
    BY <1>0, <2>1
  <2>3. outbound' \in Seq(Messages)
    BY TransmitOneStep DEF PsiInv, TypeOK, OtTypeOK
  <2>4. QED BY <2>1, <2>2, <2>3
<1>3. op.kind = "corrections" /\ op \in Messages
  BY <1>2 DEF PsiInv, MessagesInv
<1>4. after.from = op.from /\ after.count = op.count
  BY <1>3 DEF Messages
<1>5. outbound' = [outbound EXCEPT ![n] = after]
  BY <1>1, <1>3
<1> HIDE DEF after
<1>6. DOMAIN outbound' = DOMAIN outbound
  BY <1>5
<1>7. Len(outbound') = Len(outbound)
  BY <1>2, <1>6, LenProperties
<1>8. \A m \in 1 .. Len(outbound) : outbound'[m] = IF m = n THEN after ELSE outbound[m]
  BY <1>2, <1>5, LenProperties
<1>9. QED BY <1>1, <1>1a, <1>4, <1>7, <1>8

-----------------------------------------------------------------------------
(* The additional parts of the invariant.                                  *)

LEMMA StagesStep == ASSUME PsiInv, StagesInv, [Next]_vars PROVE StagesInv'
<1> USE DEF StagesInv, otVars, recvVars, sendVars
<1>1. ASSUME ReceiverNext PROVE StagesInv'
  BY <1>1, GreetReceiverMoves, CreateMoves, ReceiverConnectMoves, ReceiverSetupMoves,
     ReceiverEncodeMoves, ReceiverSendMoves, ReceiverCloseMoves, ReceiverComputeXorsMoves,
     ReceiveSizeMoves, ReceiveXorsMoves DEF ReceiverNext
<1>2. ASSUME SenderNext PROVE StagesInv'
  BY <1>2, GreetSenderMoves, SenderListenMoves, SenderSetupMoves, SenderReceiveMoves,
     SenderCorrectMoves, SenderCloseMoves, SenderComputeXorsMoves, SendSizeMoves, SendXorsMoves
     DEF SenderNext
<1>3. ASSUME Network PROVE StagesInv'
  BY <1>3, ConnectMoves, AcceptMoves, TransmitMoves DEF Network
<1>4. ASSUME UNCHANGED vars PROVE StagesInv'
  BY <1>4 DEF vars, psiVars, rpc, spc
<1>5. QED BY <1>1, <1>2, <1>3, <1>4 DEF Next, Terminated

LEMMA FlagsStep == ASSUME PsiInv, FlagsInv, [Next]_vars PROVE FlagsInv'
<1>0. /\ Rows' = Rows /\ rRow \in Nat /\ mEncodeFlags \in [Rows -> BOOLEAN]
      /\ \A i \in Rows : i \in Nat
  BY Numbers, Sizes DEF PsiInv, TypeOK, OtTypeOK, Rows
<1> USE <1>0 DEF FlagsInv, Encodes
<1>1. ASSUME UNCHANGED <<mEncodeFlags, rRow>>, Encodes' => Encodes PROVE FlagsInv'
  BY <1>1
<1>2. CASE ReceiverNext
  <2>1. CASE ReceiverSetup
    BY <2>1, ReceiverSetupMoves
  <2>2. CASE ReceiverEncodeRow
    <3>1. PICK n \in Nat : n = rRow
      OBVIOUS
    <3>2. /\ Encodes /\ mEncodeFlags' = [mEncodeFlags EXCEPT ![n] = TRUE] /\ rRow' = n + 1
      BY <2>2, <3>1, ReceiverEncodeMoves
    <3>3. QED BY <3>1, <3>2
  <2>3. CASE ~ (ReceiverSetup \/ ReceiverEncodeRow)
    BY <1>1, <1>2, <2>3, GreetReceiverMoves, CreateMoves, ReceiverConnectMoves,
       ReceiverSendMoves, ReceiverCloseMoves, ReceiverComputeXorsMoves, ReceiveSizeMoves,
       ReceiveXorsMoves DEF ReceiverNext, otVars, recvVars
  <2>4. QED BY <2>1, <2>2, <2>3
<1>3. CASE SenderNext
  BY <1>1, <1>3, GreetSenderMoves, SenderListenMoves, SenderSetupMoves, SenderReceiveMoves,
     SenderCorrectMoves, SenderCloseMoves, SenderComputeXorsMoves, SendSizeMoves, SendXorsMoves
     DEF SenderNext, otVars, recvVars
<1>4. CASE Network
  BY <1>1, <1>4, ConnectMoves, AcceptMoves, TransmitMoves DEF Network, otVars, recvVars
<1>5. CASE UNCHANGED vars
  BY <1>1, <1>5 DEF vars, otVars, recvVars, psiVars, rpc, rRow
<1>6. QED BY <1>2, <1>3, <1>4, <1>5 DEF Next, Terminated

LEMMA CountsStep == ASSUME PsiInv, CountsInv, [Next]_vars PROVE CountsInv'
<1>0. outbound \in Seq(Messages) /\ Len(outbound) \in Nat
  BY Numbers
<1> DEFINE Fits(s) == \A m \in 1 .. Len(s) : s[m].count = CurStepSize(s[m].from)
<1>1. CASE outbound' = outbound
  BY <1>1 DEF CountsInv, CurStepSize
<1>2. CASE ReceiverSend
  <2> DEFINE x == Corrections(rCorrectionIdx, CurStepSize(rCorrectionIdx))
  <2>1. outbound' = Append(outbound, x)
    BY <1>2, ReceiverSendMoves
  <2>2. x.from = rCorrectionIdx /\ x.count = CurStepSize(rCorrectionIdx)
    BY DEF Corrections, Message
  <2> HIDE DEF x
  <2>3. \A m \in 1 .. Len(outbound') : 
           \/ outbound'[m] = x
           \/ m \in 1 .. Len(outbound) /\ outbound'[m] = outbound[m]
    BY <1>0, <2>1
  <2>4. QED BY <2>2, <2>3 DEF CountsInv, CurStepSize
<1>3. CASE SenderReceive
  <2>1. outbound' = SubSeq(outbound, 2, Len(outbound)) /\ Len(outbound) > 0
    BY <1>0, <1>3, SenderReceiveMoves, Numbers
  <2>2. \A m \in 1 .. Len(outbound') : m + 1 \in 1 .. Len(outbound) /\ outbound'[m] = outbound[m + 1]
    BY <1>0, <2>1
  <2>3. QED BY <2>2 DEF CountsInv, CurStepSize
<1>4. CASE Transmit
  BY <1>4, TransmitMoves DEF CountsInv, CurStepSize
<1>5. CASE ReceiverNext /\ ~ ReceiverSend
  BY <1>1, <1>5, GreetReceiverMoves, CreateMoves, ReceiverConnectMoves, ReceiverSetupMoves,
     ReceiverEncodeMoves, ReceiverCloseMoves, ReceiverComputeXorsMoves,
     ReceiveSizeMoves, ReceiveXorsMoves DEF ReceiverNext, otVars, chanVars
<1>6. CASE SenderNext /\ ~ SenderReceive
  BY <1>1, <1>6, GreetSenderMoves, SenderListenMoves, SenderSetupMoves, SenderCorrectMoves,
     SenderCloseMoves, SenderComputeXorsMoves, SendSizeMoves, SendXorsMoves
     DEF SenderNext, otVars, chanVars
<1>7. CASE Connect \/ Accept
  BY <1>1, <1>7, ConnectMoves, AcceptMoves DEF otVars, chanVars
<1>8. CASE UNCHANGED vars
  BY <1>1, <1>8 DEF vars, otVars, chanVars
<1>9. QED BY <1>2, <1>3, <1>4, <1>5, <1>6, <1>7, <1>8 DEF Next, Terminated, Network

LEMMA LinkStep == ASSUME PsiInv, LinkInv, [Next]_vars PROVE LinkInv'
<1>0. /\ rpc \in ReceiverLabels /\ spc \in SenderLabels
      /\ rIt \in Nat /\ sIt \in Nat /\ rIt <= times /\ sIt <= times /\ sIt \in {rIt, rIt + 1}
      /\ spc = "hello1" => rpc = "hello1"
      /\ listener = IF spc \in {"setup", "corrections", "close"} THEN sIt ELSE -1
  BY Numbers DEF PsiInv, ControlInv, NetInv
<1> USE <1>0 DEF LinkInv, Connected, Greeting, Encodes, otVars, netVars, recvVars, sendVars, chanVars
<1>1. CASE ReceiverNext
  BY <1>1, GreetReceiverMoves, CreateMoves, ReceiverConnectMoves, ReceiverSetupMoves,
     ReceiverEncodeMoves, ReceiverSendMoves, ReceiverCloseMoves, ReceiverComputeXorsMoves,
     ReceiveSizeMoves, ReceiveXorsMoves DEF ReceiverNext
<1>2. CASE SenderNext
  BY <1>2, GreetSenderMoves, SenderListenMoves, SenderSetupMoves, SenderReceiveMoves,
     SenderCorrectMoves, SenderCloseMoves, SenderComputeXorsMoves, SendSizeMoves, SendXorsMoves
     DEF SenderNext
<1>3. CASE Network
  BY <1>3, ConnectMoves, AcceptMoves, TransmitMoves DEF Network
<1>4. CASE UNCHANGED vars
  BY <1>4 DEF vars, psiVars, rpc, spc, rIt, sIt
<1>5. QED BY <1>1, <1>2, <1>3, <1>4 DEF Next, Terminated

LEMMA LoopsStep == ASSUME PsiInv, LoopsInv, [Next]_vars PROVE LoopsInv'
<1>0. /\ sRow \in Nat /\ onWire \in Nat /\ Len(outbound) \in Nat /\ outbound \in Seq(Messages)
      /\ numOTs \in Nat \ {0} /\ rRow \in Nat /\ rCorrectionIdx \in Nat
      /\ stepSize \in Nat \ {0}
  BY Numbers, Sizes
<1> USE <1>0 DEF LoopsInv, otVars, recvVars, sendVars, chanVars
<1>1. CASE ReceiverNext
  <2>1. CASE ReceiverSetup
    BY <2>1, ReceiverSetupMoves DEF CurStepSize
  <2>2. CASE ReceiverEncodeRow
    <3>0. PICK m \in Nat, r \in Nat : m = rCorrectionIdx /\ r = rRow
      OBVIOUS
    <3>1. PICK c : m = rCorrectionIdx /\ r = rRow /\ c = CurStepSize(m)
      BY <3>0
    <3>2. CurStepSize(m)' = c
      BY <3>1 DEF CurStepSize
    <3>3. c \in Int
      BY <3>1 DEF CurStepSize
    <3>4. r < m + c /\ rRow' = r + 1 /\ rCorrectionIdx' = m
      BY <2>2, <3>1, ReceiverEncodeMoves
    <3>5. rRow' <= rCorrectionIdx' + c
      BY <3>3, <3>4
    <3>6. QED BY <2>2, <3>2, <3>4, <3>5, ReceiverEncodeMoves
  <2>3. CASE ReceiverSend
    <3>1. PICK m \in Nat, r \in Nat : m = rCorrectionIdx' /\ r = rRow
      BY <2>3, ReceiverSendMoves
    <3>2. m = r /\ rRow' = r /\ UNCHANGED <<spc, sRow>>
      BY <2>3, <3>1, ReceiverSendMoves
    <3>3. r < numOTs => r <= m + CurStepSize(m)'
      BY <3>2 DEF CurStepSize
    <3>4. QED BY <2>3, <3>1, <3>2, <3>3, ReceiverSendMoves
  <2>4. CASE ~ (ReceiverSetup \/ ReceiverEncodeRow \/ ReceiverSend)
    BY <1>1, <2>4, GreetReceiverMoves, CreateMoves, ReceiverConnectMoves, ReceiverCloseMoves,
       ReceiverComputeXorsMoves, ReceiveSizeMoves, ReceiveXorsMoves DEF ReceiverNext, CurStepSize
  <2>5. QED BY <2>1, <2>2, <2>3, <2>4
<1>2. CASE SenderReceive
  <2>1. Len(outbound') = Len(outbound) - 1
    BY <1>2, SenderReceiveMoves, Numbers
  <2>2. QED BY <1>2, <2>1, SenderReceiveMoves DEF CurStepSize
<1>3. CASE SenderNext /\ ~ SenderReceive
  BY <1>3, GreetSenderMoves, SenderListenMoves, SenderSetupMoves,
     SenderCorrectMoves, SenderCloseMoves, SenderComputeXorsMoves, SendSizeMoves, SendXorsMoves
     DEF SenderNext, CurStepSize
<1>4. CASE Network
  BY <1>4, ConnectMoves, AcceptMoves, TransmitMoves DEF Network, CurStepSize
<1>5. CASE UNCHANGED vars
  BY <1>5 DEF vars, psiVars, rpc, spc, sRow, rRow, CurStepSize
<1>6. QED BY <1>1, <1>2, <1>3, <1>4, <1>5 DEF Next, Terminated

LEMMA SeedsStep == ASSUME SeedsInv, [Next]_vars PROVE SeedsInv'
<1>1. base0' = base0
  <2>1. CASE UNCHANGED vars
    BY <2>1 DEF vars, otVars, baseVars
  <2>2. CASE ReceiverNext
    BY <2>2 DEF ReceiverNext, Greet, createDictionary, ReceiverConnect, ReceiverSetup,
       ReceiverEncodeRow, ReceiverSend, ReceiverClose, ReceiverComputeXors, ReceiveSize,
       ReceiveXors, receiverConfigure, receiverSetBaseOts, receiverInit, otCorrection,
       sendCorrection, otVars, baseVars
  <2>3. CASE SenderNext
    BY <2>3 DEF SenderNext, Greet, SenderListen, SenderSetup, SenderReceive, SenderCorrectRow,
       SenderClose, SenderComputeXors, SendSize, SendXors, senderConfigure, senderSetBaseOts,
       senderInit, recvCorrection, senderOtCorrection, otVars, baseVars
  <2>4. CASE Network
    BY <2>4 DEF Network, Connect, Accept, Transmit, asyncPerformSend, otVars, baseVars
  <2>5. QED BY <2>1, <2>2, <2>3, <2>4 DEF Next, Terminated
<1>2. QED BY <1>1 DEF SeedsInv, Rows, numRows, roundUpTo, FirstBlock

LEMMA MeetInitially == Init => MeetInv
<1>1. ASSUME Init PROVE MeetInv
  <2>1. rpc = "hello1" /\ spc = "hello1" /\ Len(outbound) = 0
    BY <1>1, TwoParties DEF Init, OtInit, rpc, spc
  <2>2. PsiInv
    BY <1>1, PsiInitially
  <2>3. SeedsInv
    BY <1>1 DEF Init, SeedsInv
  <2>4. QED BY <2>1, <2>2, <2>3 DEF MeetInv, StagesInv, FlagsInv, CountsInv, LinkInv, LoopsInv,
                              Encodes, Connected
<1>2. QED BY <1>1

LEMMA MeetStep == ASSUME MeetInv, [Next]_vars PROVE MeetInv'
BY PsiStep, StagesStep, FlagsStep, CountsStep, LinkStep, LoopsStep, SeedsStep DEF MeetInv

LEMMA MeetInvariance == Spec => []MeetInv
BY MeetInitially, MeetStep, PTL DEF Spec

-----------------------------------------------------------------------------
(* What each of the three can do next: the guards of its actions.          *)

GreetReady(p) ==
    /\ pc[p] \in Greeting
    /\ (pc[p] = "hello1") = WritesFirst(p) \/ toParty[p] # <<>>

\* The size of the receiver's next message.
NextSize == CurStepSize(rCorrectionIdx)

ReceiverReady ==
    \/ GreetReady(Receiver)
    \/ rpc \in {"createDictionary", "runOOS", "computeXors"}
    \/ rpc = "setup" /\ rStage \in {"configured", "base"}
    \/ /\ rpc = "corrections" /\ rStage = "ready"
       /\ rRow < rCorrectionIdx + NextSize
       /\ NDEBUG \/ (Initialized(rRow) /\ ~ mEncodeFlags[rRow])
    \/ /\ rpc = "corrections" /\ rStage = "ready"
       /\ rRow = rCorrectionIdx + NextSize /\ NextSize > 0
       /\ NDEBUG \/ \A i \in rCorrectionIdx .. rCorrectionIdx + NextSize - 1 : mEncodeFlags[i]
    \/ rpc = "close" /\ client = "open" /\ onWire = Len(outbound)
    \/ rpc \in {"receiveSize", "receiveXors"} /\ toParty[Receiver] # <<>>

SenderReady ==
    \/ GreetReady(Sender)
    \/ spc \in {"runOOS", "close", "computeXors", "sendSize", "sendXors"}
    \/ spc = "setup" /\ sStage \in {"configured", "base"}
    \/ /\ spc = "corrections" /\ server = "open" /\ sStage = "ready"
       /\ sRow = sCorrectionIdx /\ sRow < numOTs
       /\ Arrived("corrections") /\ CurStepSize(sRow) = Head(outbound).count
       /\ NDEBUG \/ sCorrectionIdx + CurStepSize(sRow) <= numRows
    \/ spc = "corrections" /\ sStage \in {"ready", "checked"} /\ sRow < sCorrectionIdx

NetworkReady ==
    \/ client = "connecting" /\ listener # -1
    \/ server = "listening" /\ backlog
    \/ client = "open" /\ onWire < Len(outbound)

\* Neither process waits for something that nobody will bring.
NeverStuck ==
    ReceiverReady \/ SenderReady \/ NetworkReady \/ \A p \in Parties : pc[p] = "done"

\* The receiver's loop always has a row to encode or a message to send.
LEMMA LoopOfReceiver == ASSUME MeetInv, rpc = "corrections" PROVE ReceiverReady
<1>1. PICK m \in Nat, r \in Nat : m = rCorrectionIdx /\ r = rRow
  BY Numbers DEF MeetInv
<1>2. /\ rStage = "ready" /\ m <= r /\ r <= numOTs /\ m # numOTs
      /\ \A i \in Rows : mEncodeFlags[i] <=> i < r
  BY <1>1 DEF MeetInv, PsiInv, ReceiverInv, FlagsInv, Encodes
<1>3. m \in Nat /\ r \in Nat /\ numOTs \in Nat \ {0} /\ stepSize \in Nat \ {0}
  BY Sizes
<1>4. PICK c \in Nat : c = NextSize /\ c > 0 /\ m + c <= numOTs
  BY <1>1, <1>2, <1>3 DEF NextSize, CurStepSize
<1>5. r <= m + c
  <2>1. rRow <= rCorrectionIdx + NextSize
    BY DEF MeetInv, LoopsInv, NextSize
  <2>2. QED BY <1>1, <1>4, <2>1
<1>6. CASE r < m + c
  <2>1. r \in Rows
    BY <1>3, <1>4, <1>6, Sizes
  <2>2. ~ mEncodeFlags[r]
    BY <1>2, <1>3, <2>1
  <2>3. NDEBUG \/ Initialized(r)
    BY <1>2, <2>1 DEF MeetInv, SeedsInv, PsiInv, ReceiverInv, Encodes, Initialized
  <2>4. QED BY <1>1, <1>2, <1>4, <1>6, <2>2, <2>3 DEF ReceiverReady
<1>7. CASE r = m + c
  <2>1. \A i \in m .. m + c - 1 : mEncodeFlags[i]
    BY <1>2, <1>3, <1>4, <1>7, Sizes
  <2>2. QED BY <1>1, <1>2, <1>4, <1>7, <2>1 DEF ReceiverReady
<1>8. QED BY <1>3, <1>4, <1>5, <1>6, <1>7

\* The sender's loop waits only for messages under way, and these are for it.
LEMMA LoopOfSender ==
    ASSUME MeetInv, spc = "corrections", ~ SenderReady, ~ NetworkReady
    PROVE  rpc \notin {"close", "computeXors", "receiveSize", "receiveXors"} \/ sIt # rIt
<1>0. SUFFICES ASSUME rpc \in {"close", "computeXors", "receiveSize", "receiveXors"}, sIt = rIt
               PROVE  FALSE
  OBVIOUS
<1>1. PICK s \in Nat, k \in Nat : s = sRow /\ k = sCorrectionIdx
  BY Numbers DEF MeetInv
<1>2. /\ sStage = "ready" /\ s <= k /\ k <= rCorrectionIdx /\ Together /\ Corrects
      /\ rCorrectionIdx = numOTs /\ s < numOTs /\ numOTs \in Nat
  BY <1>0, <1>1, Sizes DEF MeetInv, PsiInv, SenderInv, Corrects, Together, Encodes, ReceiverInv,
                      LoopsInv
<1>3. s = k
  BY <1>1, <1>2 DEF SenderReady
<1>4. Continues(outbound, k, numOTs)
  BY <1>1, <1>2 DEF MeetInv, PsiInv, MessagesInv
<1>5. outbound # <<>>
  BY <1>2, <1>3, <1>4 DEF Continues
<1>6. /\ outbound \in Seq(Messages) /\ 1 \in 1 .. Len(outbound) /\ Head(outbound) = outbound[1]
      /\ onWire \in Nat /\ onWire <= Len(outbound) /\ Len(outbound) > 0 /\ Len(outbound) \in Nat
  BY <1>5, Numbers DEF MeetInv
<1>7. /\ Head(outbound).kind = "corrections" /\ Head(outbound).from = k
      /\ Head(outbound).count = CurStepSize(k)
  BY <1>4, <1>5, <1>6 DEF Continues, MeetInv, PsiInv, MessagesInv, CountsInv
<1>8. server # "closed" /\ client \in {"closed", "connecting", "open"}
      /\ server \in {"closed", "listening", "open"}
  BY <1>0 DEF MeetInv, LinkInv, Connected, PsiInv, TypeOK
<1>9. listener # -1
  BY <1>0, Numbers DEF MeetInv, PsiInv, NetInv
<1>10. client # "connecting"
  BY <1>9 DEF NetworkReady
<1>11. server = "open"
  BY <1>0, <1>8, <1>10 DEF NetworkReady, MeetInv, LinkInv, Encodes
<1>12. onWire = Len(outbound)
  <2>1. CASE rpc = "close"
    BY <1>6, <1>8, <1>10, <2>1 DEF NetworkReady, MeetInv, LinkInv, Connected
  <2>2. CASE rpc # "close"
    BY <1>0, <2>2 DEF MeetInv, LoopsInv
  <2>3. QED BY <2>1, <2>2
<1>13. NDEBUG \/ sCorrectionIdx + CurStepSize(sRow) <= numRows
  BY <1>1, <1>2, <1>3, Sizes, StepSize
<1>14. QED BY <1>1, <1>2, <1>3, <1>6, <1>7, <1>11, <1>12, <1>13 DEF SenderReady, Arrived

\* One of the three can go on, or both processes are done.
LEMMA SomebodyCan == ASSUME MeetInv PROVE NeverStuck
<1>0. SUFFICES ASSUME ~ ReceiverReady, ~ SenderReady, ~ NetworkReady
               PROVE  rpc = "done" /\ spc = "done"
  BY DEF NeverStuck, Parties, Receiver, Sender, rpc, spc
<1>1. /\ ControlInv /\ rIt \in Nat /\ sIt \in Nat
      /\ toParty[Receiver] = ToReceiver /\ toParty[Sender] = ToSender
  BY Mail, Numbers DEF MeetInv, PsiInv
<1>2. spc \notin Greeting
  <2>1. spc # "hello1"
    BY <1>0, Partners DEF SenderReady, GreetReady, Greeting, spc
  <2>2. ASSUME spc = "hello2" PROVE FALSE
    <3>1. toParty[Sender] = <<>>
      BY <1>0, <2>2 DEF SenderReady, GreetReady, Greeting, spc
    <3>2. rpc \in Greeting
      BY <1>1, <2>2, <3>1, OneOrTwo DEF ToSender
    <3>3. rpc # "hello2"
      BY <1>0, Partners DEF ReceiverReady, GreetReady, Greeting, rpc
    <3>4. toParty[Receiver] # <<>>
      BY <1>1, <2>2, <3>2, <3>3, OneOrTwo DEF ToReceiver, Greeting
    <3>5. QED BY <1>0, <3>2, <3>4 DEF ReceiverReady, GreetReady, rpc
  <2>3. QED BY <2>1, <2>2 DEF Greeting
<1>3. rpc \notin Greeting
  BY <1>1, <1>2 DEF ControlInv
<1>4. spc \in {"corrections", "done"}
  BY <1>0, <1>1, <1>2 DEF SenderReady, ControlInv, SenderLabels, MeetInv, StagesInv
<1>5. rpc \in {"close", "receiveSize", "receiveXors", "done"}
  BY <1>0, <1>1, <1>3, LoopOfReceiver DEF ReceiverReady, ControlInv, ReceiverLabels, MeetInv,
                                           StagesInv
<1>6. rpc # "close"
  <2>1. ASSUME rpc = "close" PROVE FALSE
    <3>1. client \in {"connecting", "open"}
      BY <2>1 DEF MeetInv, LinkInv, Connected, PsiInv, TypeOK
    <3>2. onWire = Len(outbound) \/ client = "connecting"
      BY <1>0, <3>1, Numbers DEF NetworkReady, MeetInv
    <3>3. client = "connecting"
      BY <1>0, <2>1, <3>1, <3>2 DEF ReceiverReady
    <3>4. sIt = rIt /\ spc = "corrections"
      BY <1>1, <1>4, <2>1, <3>3 DEF MeetInv, PsiInv, NetInv, ControlInv
    <3>5. QED BY <1>0, <2>1, <3>4, LoopOfSender
  <2>2. QED BY <2>1
<1>7. rpc \notin {"receiveSize", "receiveXors"}
  <2>1. ASSUME rpc \in {"receiveSize", "receiveXors"} PROVE FALSE
    <3>1. ToReceiver = <<>>
      BY <1>0, <1>1, <2>1 DEF ReceiverReady
    <3>2. sIt = rIt
      BY <1>1, <2>1, <3>1, OneOrTwo DEF ToReceiver, Greeting, ControlInv
    <3>3. spc = "corrections"
      BY <1>1, <1>4, <2>1, <3>2 DEF ControlInv
    <3>4. QED BY <1>0, <2>1, <3>2, <3>3, LoopOfSender
  <2>2. QED BY <2>1
<1>8. rpc = "done" /\ spc = "done"
  BY <1>1, <1>4, <1>5, <1>6, <1>7 DEF ControlInv, Encodes
<1>9. QED BY <1>8

\* The two processes never wait for one another, for any number of keys, OTs and
\* iterations and any message size: until both are done, one of them or the network
\* can go on.  The hard cases are the accept of a session whose peer has already
\* left runOOS, and a recvCorrection() that asks for a size nobody sent.
THEOREM DeadlockFree == Spec => []NeverStuck
BY MeetInvariance, SomebodyCan, PTL

-----------------------------------------------------------------------------
(* The work that is left: every step reduces it.                           *)

\* Steps of the receiver to the end of an iteration; a message counts twice, as
\* it has to be transmitted too, and so does the connection.
ReceiverLeft ==
    CASE rpc = "hello1"           -> 3 * numOTs + 13
      [] rpc = "hello2"           -> 3 * numOTs + 12
      [] rpc = "createDictionary" -> 3 * numOTs + 11
      [] rpc = "runOOS"           -> 3 * numOTs + 10
      [] rpc = "setup"            -> 3 * numOTs + (IF rStage = "configured" THEN 8 ELSE 7)
      [] rpc = "corrections"      -> (numOTs - rRow) + 2 * (numOTs - rCorrectionIdx) + 5
      [] rpc = "close"            -> 4
      [] rpc = "computeXors"      -> 3
      [] rpc = "receiveSize"      -> 2
      [] rpc = "receiveXors"      -> 1
      [] rpc = "done"             -> 0

\* Steps of the sender to the end of an iteration.
SenderLeft ==
    CASE spc = "hello1"      -> 2 * numOTs + 11
      [] spc = "hello2"      -> 2 * numOTs + 10
      [] spc = "runOOS"      -> 2 * numOTs + 9
      [] spc = "setup"       -> 2 * numOTs + (IF sStage = "configured" THEN 7 ELSE 6)
      [] spc = "corrections" -> (numOTs - sRow) + (numOTs - sCorrectionIdx) + 5
      [] spc = "close"       -> 4
      [] spc = "computeXors" -> 3
      [] spc = "sendSize"    -> 2
      [] spc = "sendXors"    -> 1
      [] spc = "done"        -> 0

NetworkLeft ==
    (Len(outbound) - onWire) + (IF client = "connecting" THEN 1 ELSE 0)
                             + (IF server = "listening" THEN 1 ELSE 0)

Work ==
    (times - rIt) * (3 * numOTs + 11) + ReceiverLeft
      + (times - sIt) * (2 * numOTs + 9) + SenderLeft + NetworkLeft

\* What is left at every place.
ReceiverTable ==
    /\ rpc = "hello1" => ReceiverLeft = 3 * numOTs + 13
    /\ rpc = "hello2" => ReceiverLeft = 3 * numOTs + 12
    /\ rpc = "createDictionary" => ReceiverLeft = 3 * numOTs + 11
    /\ rpc = "runOOS" => ReceiverLeft = 3 * numOTs + 10
    /\ rpc = "setup" /\ rStage = "configured" => ReceiverLeft = 3 * numOTs + 8
    /\ rpc = "setup" /\ rStage # "configured" => ReceiverLeft = 3 * numOTs + 7
    /\ rpc = "corrections" =>
         ReceiverLeft = (numOTs - rRow) + 2 * (numOTs - rCorrectionIdx) + 5
    /\ rpc = "close" => ReceiverLeft = 4
    /\ rpc = "computeXors" => ReceiverLeft = 3
    /\ rpc = "receiveSize" => ReceiverLeft = 2
    /\ rpc = "receiveXors" => ReceiverLeft = 1
    /\ rpc = "done" => ReceiverLeft = 0

SenderTable ==
    /\ spc = "hello1" => SenderLeft = 2 * numOTs + 11
    /\ spc = "hello2" => SenderLeft = 2 * numOTs + 10
    /\ spc = "runOOS" => SenderLeft = 2 * numOTs + 9
    /\ spc = "setup" /\ sStage = "configured" => SenderLeft = 2 * numOTs + 7
    /\ spc = "setup" /\ sStage # "configured" => SenderLeft = 2 * numOTs + 6
    /\ spc = "corrections" => SenderLeft = (numOTs - sRow) + (numOTs - sCorrectionIdx) + 5
    /\ spc = "close" => SenderLeft = 4
    /\ spc = "computeXors" => SenderLeft = 3
    /\ spc = "sendSize" => SenderLeft = 2
    /\ spc = "sendXors" => SenderLeft = 1
    /\ spc = "done" => SenderLeft = 0

LEMMA TableNow == ReceiverTable /\ SenderTable
<1>1. ReceiverTable
  BY DEF ReceiverTable, ReceiverLeft
<1>2. SenderTable
  BY DEF SenderTable, SenderLeft
<1>3. QED BY <1>1, <1>2

LEMMA Tables == ReceiverTable /\ SenderTable /\ ReceiverTable' /\ SenderTable'
BY TableNow, PTL

LEMMA LeftTypes == ASSUME MeetInv PROVE ReceiverLeft \in Nat /\ SenderLeft \in Nat /\ NetworkLeft \in Nat
<1>1. PICK n \in Nat : n = numOTs
  BY Sizes
<1>2. ReceiverLeft \in Nat
  <2>1. CASE rpc = "corrections"
    <3>1. PICK m \in Nat, r \in Nat : m = rCorrectionIdx /\ r = rRow
      BY Numbers DEF MeetInv
    <3>2. m <= r /\ r <= n
      BY <1>1, <2>1, <3>1 DEF MeetInv, PsiInv, ReceiverInv, Encodes
    <3>3. QED BY <1>1, <2>1, <3>1, <3>2, Tables DEF ReceiverTable
  <2>2. CASE rpc # "corrections"
    <3>1. rpc \in ReceiverLabels
      BY DEF MeetInv, PsiInv, ControlInv
    <3>2. QED BY <1>1, <2>2, <3>1, Tables DEF ReceiverTable, ReceiverLabels, Greeting
  <2>3. QED BY <2>1, <2>2
<1>3. SenderLeft \in Nat
  <2>1. CASE spc = "corrections"
    <3>1. PICK k \in Nat, s \in Nat : k = sCorrectionIdx /\ s = sRow
      BY Numbers DEF MeetInv
    <3>2. s <= n /\ k <= n
      <4>1. s <= n
        BY <1>1, <3>1, Numbers DEF MeetInv
      <4>2. \/ k = 0
            \/ k <= rCorrectionIdx /\ Encodes
        <5>1. Corrects
          BY <2>1 DEF Corrects
        <5>2. IF Together THEN k <= rCorrectionIdx ELSE k = 0
          BY <3>1, <5>1 DEF MeetInv, PsiInv, SenderInv
        <5>3. QED BY <5>2 DEF Together
      <4>3. Encodes => rCorrectionIdx <= rRow /\ rRow <= numOTs
        BY DEF MeetInv, PsiInv, ReceiverInv
      <4>4. rCorrectionIdx \in Nat /\ rRow \in Nat
        BY Numbers DEF MeetInv
      <4>5. QED BY <1>1, <3>1, <4>1, <4>2, <4>3, <4>4
    <3>3. QED BY <1>1, <2>1, <3>1, <3>2, Tables DEF SenderTable
  <2>2. CASE spc # "corrections"
    <3>1. spc \in SenderLabels
      BY DEF MeetInv, PsiInv, ControlInv
    <3>2. QED BY <1>1, <2>2, <3>1, Tables DEF SenderTable, SenderLabels, Greeting
  <2>3. QED BY <2>1, <2>2
<1>4. NetworkLeft \in Nat
  BY Numbers DEF MeetInv, NetworkLeft
<1>5. QED BY <1>2, <1>3, <1>4

LEMMA LeftNat == MeetInv => ReceiverLeft \in Nat /\ SenderLeft \in Nat /\ NetworkLeft \in Nat
BY LeftTypes

LEMMA LeftNatNext == MeetInv' => (ReceiverLeft \in Nat /\ SenderLeft \in Nat /\ NetworkLeft \in Nat)'
BY LeftNat, PTL

\* An iteration less is as much less work as the iteration takes.
LEMMA OneLess ==
    ASSUME NEW t \in Nat, NEW i \in Nat, i < t, NEW w \in Nat
    PROVE  (t - (i + 1)) * w + w = (t - i) * w /\ (t - i) * w \in Nat /\ (t - (i + 1)) * w \in Nat
<1>1. PICK d \in Nat : d = t - (i + 1)
  OBVIOUS
<1>2. t - i = d + 1
  BY <1>1
<1>3. (d + 1) * w = d * w + w /\ d * w \in Nat
  OBVIOUS
<1>4. QED BY <1>1, <1>2, <1>3

LEMMA Product == ASSUME NEW t \in Nat, NEW i \in Nat, i <= t, NEW w \in Nat PROVE (t - i) * w \in Nat
<1>1. PICK d \in Nat : d = t - i
  OBVIOUS
<1>2. d * w \in Nat
  OBVIOUS
<1>3. QED BY <1>1, <1>2

LEMMA WorkType == ASSUME MeetInv PROVE Work \in Nat
<1>1. rIt \in Nat /\ sIt \in Nat /\ rIt <= times /\ sIt <= times /\ times \in Nat /\ numOTs \in Nat
  BY Numbers, Sizes DEF MeetInv
<1>2. 3 * numOTs + 11 \in Nat /\ 2 * numOTs + 9 \in Nat
  BY <1>1
<1>3. (times - rIt) * (3 * numOTs + 11) \in Nat /\ (times - sIt) * (2 * numOTs + 9) \in Nat
  BY <1>1, <1>2, Product
<1>4. QED BY <1>3, LeftTypes DEF Work

\* A step within an iteration: what one of the three has less, less what it gives
\* the network to do.
LEMMA LessWithin ==
    ASSUME MeetInv, MeetInv', UNCHANGED <<rIt, sIt>>,
           \/ /\ SenderLeft' = SenderLeft
              /\ \/ ReceiverLeft' < ReceiverLeft /\ NetworkLeft' = NetworkLeft
                 \/ ReceiverLeft' < ReceiverLeft - 1 /\ NetworkLeft' <= NetworkLeft + 1
           \/ /\ ReceiverLeft' = ReceiverLeft
              /\ \/ SenderLeft' < SenderLeft /\ NetworkLeft' = NetworkLeft
                 \/ SenderLeft' < SenderLeft - 1 /\ NetworkLeft' <= NetworkLeft + 1
                 \/ SenderLeft' <= SenderLeft /\ NetworkLeft' < NetworkLeft
    PROVE  Work' < Work
<1>1. PICK x \in Nat, y \in Nat : /\ x = (times - rIt) * (3 * numOTs + 11)
                                  /\ y = (times - sIt) * (2 * numOTs + 9)
  <2>1. rIt \in Nat /\ sIt \in Nat /\ rIt <= times /\ sIt <= times /\ times \in Nat
        /\ 3 * numOTs + 11 \in Nat /\ 2 * numOTs + 9 \in Nat
    BY Numbers, Sizes DEF MeetInv
  <2>2. QED BY <2>1, Product
<1>2. PICK a \in Nat, b \in Nat, c \in Nat : a = ReceiverLeft /\ b = SenderLeft /\ c = NetworkLeft
  BY LeftTypes
<1>3. PICK d \in Nat, e \in Nat, f \in Nat :
        d = ReceiverLeft' /\ e = SenderLeft' /\ f = NetworkLeft'
  BY LeftNatNext
<1>4. Work = x + a + y + b + c
  BY <1>1, <1>2 DEF Work
<1>5. Work' = x + d + y + e + f
  BY <1>1, <1>3 DEF Work
<1>6. \/ e = b /\ d < a /\ f = c
      \/ e = b /\ d < a - 1 /\ f <= c + 1
      \/ d = a /\ e < b /\ f = c
      \/ d = a /\ e < b - 1 /\ f <= c + 1
      \/ d = a /\ e <= b /\ f < c
  BY <1>2, <1>3
<1>7. QED BY <1>4, <1>5, <1>6

\* What the connection adds to the network's work.
LEMMA OneMore ==
    ASSUME PsiInv, UNCHANGED <<outbound, onWire>>
    PROVE  /\ server' = server => NetworkLeft' <= NetworkLeft + 1
           /\ client' = client => NetworkLeft' <= NetworkLeft + 1
           /\ client' = client /\ server' = "closed" => NetworkLeft' = NetworkLeft \/ NetworkLeft' < NetworkLeft
<1>1. PICK l \in Nat : l = Len(outbound) - onWire
  BY Numbers
<1>2. PICK x \in Nat, y \in Nat : /\ x = (IF client = "connecting" THEN 1 ELSE 0)
                                  /\ y = (IF server = "listening" THEN 1 ELSE 0)
  OBVIOUS
<1>3. PICK p \in Nat, q \in Nat : /\ p = (IF client' = "connecting" THEN 1 ELSE 0)
                                  /\ q = (IF server' = "listening" THEN 1 ELSE 0)
  OBVIOUS
<1>4. NetworkLeft = l + x + y /\ NetworkLeft' = l + p + q
  BY <1>1, <1>2, <1>3 DEF NetworkLeft
<1>5. /\ server' = server => q = y
      /\ client' = client => p = x
      /\ server' = "closed" => q = 0
      /\ p <= 1 /\ q <= 1
  BY <1>2, <1>3
<1>6. QED BY <1>4, <1>5

LEMMA ReceiverReduces == ASSUME MeetInv, MeetInv', ReceiverNext PROVE Work' < Work
<1>0. /\ PsiInv /\ numOTs \in Nat \ {0} /\ rRow \in Nat /\ rCorrectionIdx \in Nat /\ onWire \in Nat
      /\ Len(outbound) \in Nat /\ outbound \in Seq(Messages) /\ times \in Nat \ {0}
  BY Numbers, Sizes DEF MeetInv
<1>1. ReceiverLeft \in Nat /\ SenderLeft \in Nat /\ NetworkLeft \in Nat
  BY LeftTypes
<1> USE <1>0, <1>1 DEF otVars, recvVars, sendVars, chanVars, netVars
<1>2. ASSUME UNCHANGED <<spc, sStage, sRow, sCorrectionIdx>> PROVE SenderLeft' = SenderLeft
  BY <1>2 DEF SenderLeft
<1>3. ASSUME UNCHANGED <<outbound, onWire, client, server>> PROVE NetworkLeft' = NetworkLeft
  BY <1>3 DEF NetworkLeft
<1>4. ASSUME \/ Greet(Receiver) \/ createDictionary \/ ReceiverSetup \/ ReceiverEncodeRow
             \/ ReceiverComputeXors \/ ReceiveSize
      PROVE  Work' < Work
  <2>1. UNCHANGED <<rIt, sIt>> /\ SenderLeft' = SenderLeft /\ NetworkLeft' = NetworkLeft
    BY <1>2, <1>3, <1>4, GreetReceiverMoves, CreateMoves, ReceiverSetupMoves, ReceiverEncodeMoves,
       ReceiverComputeXorsMoves, ReceiveSizeMoves
  <2>2. ReceiverLeft' < ReceiverLeft
    <3>1. CASE Greet(Receiver)
      BY <3>1, GreetReceiverMoves, Tables DEF ReceiverTable
    <3>2. CASE createDictionary
      BY <3>2, CreateMoves, Tables DEF ReceiverTable
    <3>3. CASE ReceiverSetup
      <4>1. CASE rStage = "configured"
        BY <3>3, <4>1, ReceiverSetupMoves, Tables DEF ReceiverTable
      <4>2. CASE rStage # "configured"
        <5>1. /\ rpc = "setup" /\ rpc' = "corrections" /\ rRow' = 0 /\ rCorrectionIdx' = 0
          BY <3>3, <4>2, ReceiverSetupMoves
        <5>2. ReceiverLeft = 3 * numOTs + 7
          BY <4>2, <5>1, Tables DEF ReceiverTable
        <5>3. ReceiverLeft' = 3 * numOTs + 5
          BY <5>1, Tables DEF ReceiverTable
        <5>4. QED BY <5>2, <5>3
      <4>3. QED BY <4>1, <4>2
    <3>4. CASE ReceiverEncodeRow
      <4>1. PICK m \in Nat, r \in Nat : m = rCorrectionIdx /\ r = rRow
        OBVIOUS
      <4>2. rpc = "corrections" /\ rpc' = "corrections" /\ rRow' = r + 1 /\ rCorrectionIdx' = m
        BY <3>4, <4>1, ReceiverEncodeMoves
      <4>3. ReceiverLeft = (numOTs - r) + 2 * (numOTs - m) + 5
        BY <4>1, <4>2, Tables DEF ReceiverTable
      <4>4. ReceiverLeft' = (numOTs - (r + 1)) + 2 * (numOTs - m) + 5
        BY <4>2, Tables DEF ReceiverTable
      <4>5. QED BY <4>3, <4>4
    <3>5. CASE ReceiverComputeXors
      BY <3>5, ReceiverComputeXorsMoves, Tables DEF ReceiverTable
    <3>6. CASE ReceiveSize
      BY <3>6, ReceiveSizeMoves, Tables DEF ReceiverTable
    <3>7. QED BY <1>4, <3>1, <3>2, <3>3, <3>4, <3>5, <3>6
  <2>3. ReceiverLeft' \in Nat
    BY LeftTypes, LeftNatNext
  <2>4. QED BY <2>1, <2>2, <2>3, LessWithin
<1>5. CASE ReceiverConnect
  <2>0. UNCHANGED <<rIt, sIt, outbound, onWire, server>> /\ SenderLeft' = SenderLeft
    BY <1>2, <1>5, ReceiverConnectMoves
  <2>1. NetworkLeft' <= NetworkLeft + 1
    BY <2>0, OneMore
  <2>2. ReceiverLeft' < ReceiverLeft - 1
    BY <1>5, ReceiverConnectMoves, Tables DEF ReceiverTable
  <2>3. QED BY <2>0, <2>1, <2>2, LessWithin
<1>6. CASE ReceiverSend
  <2>0. PICK m \in Nat, r \in Nat : m = rCorrectionIdx /\ r = rRow
    OBVIOUS
  <2>1. PICK c : m = rCorrectionIdx /\ r = rRow /\ c = CurStepSize(m)
    BY <2>0
  <2>2. /\ rpc = "corrections" /\ rpc' = IF r < numOTs THEN "corrections" ELSE "close"
        /\ r = m + c /\ c > 0 /\ rCorrectionIdx' = m + c /\ rRow' = r
        /\ outbound' = Append(outbound, Corrections(m, c))
        /\ UNCHANGED <<rIt, sIt, spc, sRow, sStage, sCorrectionIdx, onWire, client, server>>
    BY <1>6, <2>1, ReceiverSendMoves
  <2>3. c \in Nat
    <3>1. m <= numOTs
      BY <2>1, <2>2, Sizes DEF PsiInv, ReceiverInv, Encodes
    <3>2. QED BY <2>1, <3>1, StepSize
  <2>4. r <= numOTs
    BY <2>1, <2>2 DEF PsiInv, ReceiverInv, Encodes
  <2>5. SenderLeft' = SenderLeft
    BY <1>2, <2>2
  <2>6. Len(outbound') = Len(outbound) + 1
    BY <2>2
  <2>7. NetworkLeft' <= NetworkLeft + 1
    <3>1. PICK l \in Nat, x \in Nat, z \in Nat :
            /\ l = Len(outbound) - onWire
            /\ x = (IF client = "connecting" THEN 1 ELSE 0)
            /\ z = (IF server = "listening" THEN 1 ELSE 0)
      BY Numbers
    <3>2. Len(outbound') - onWire' = l + 1
      BY <2>2, <2>6, <3>1
    <3>3. NetworkLeft = l + x + z
      BY <3>1 DEF NetworkLeft
    <3>4. NetworkLeft' = (l + 1) + x + z
      BY <2>2, <3>1, <3>2 DEF NetworkLeft
    <3>5. QED BY <3>3, <3>4
  <2>8. ReceiverLeft = (numOTs - r) + 2 * (numOTs - m) + 5
    BY <2>1, <2>2, Tables DEF ReceiverTable
  <2>9. ReceiverLeft' = IF r < numOTs THEN (numOTs - r) + 2 * (numOTs - (m + c)) + 5 ELSE 4
    BY <2>2, Tables DEF ReceiverTable
  <2>10. ReceiverLeft' < ReceiverLeft - 1
    BY <2>2, <2>3, <2>4, <2>8, <2>9
  <2>11. QED BY <2>2, <2>5, <2>7, <2>10, LessWithin
<1>7. CASE ReceiverClose
  <2>1. UNCHANGED <<rIt, sIt>> /\ SenderLeft' = SenderLeft /\ NetworkLeft' = NetworkLeft
    BY <1>2, <1>7, ReceiverCloseMoves DEF NetworkLeft
  <2>2. ReceiverLeft' < ReceiverLeft
    BY <1>7, ReceiverCloseMoves, Tables DEF ReceiverTable
  <2>3. ReceiverLeft' \in Nat
    BY LeftTypes, LeftNatNext
  <2>4. QED BY <2>1, <2>2, <2>3, LessWithin
<1>8. CASE ReceiveXors
  <2>0. PICK w \in Nat, i \in Nat : w = 3 * numOTs + 11 /\ i = rIt
    <3>1. rIt \in Nat /\ 3 * numOTs + 11 \in Nat
      BY Numbers
    <3>2. QED BY <3>1
  <2>1. PICK y : /\ w = 3 * numOTs + 11 /\ i = rIt
                 /\ y = (times - sIt) * (2 * numOTs + 9)
    BY <2>0
  <2>2. /\ SenderLeft' = SenderLeft /\ NetworkLeft' = NetworkLeft /\ rIt' = i + 1 /\ sIt' = sIt
        /\ rpc = "receiveXors" /\ rpc' = IF i + 1 < times THEN "createDictionary" ELSE "done"
    BY <1>2, <1>3, <1>8, <2>1, ReceiveXorsMoves
  <2>3. ReceiverLeft = 1 /\ ReceiverLeft' <= w
    BY <2>1, <2>2, Tables DEF ReceiverTable
  <2>4. i < times
    BY <2>1, <2>2, Numbers DEF PsiInv, ControlInv
  <2>5. y \in Nat
    <3>1. 2 * numOTs + 9 \in Nat /\ sIt \in Nat /\ sIt <= times
      BY Numbers
    <3>2. QED BY <2>1, <3>1, Product
  <2>6. (times - (i + 1)) * w + w = (times - i) * w /\ (times - i) * w \in Nat
        /\ (times - (i + 1)) * w \in Nat
    BY <2>4, OneLess
  <2>7. Work = (times - i) * w + 1 + y + SenderLeft + NetworkLeft
    BY <2>1, <2>3 DEF Work
  <2>8. Work' = (times - (i + 1)) * w + ReceiverLeft' + y + SenderLeft + NetworkLeft
    BY <2>1, <2>2 DEF Work
  <2>9. PICK a \in Nat, b \in Nat, c \in Nat, u \in Nat, v \in Nat :
          /\ a = ReceiverLeft' /\ b = SenderLeft /\ c = NetworkLeft
          /\ u = (times - (i + 1)) * w /\ v = (times - i) * w
    BY <2>6, LeftNatNext
  <2>10. a <= w /\ u + w = v
    BY <2>3, <2>6, <2>9
  <2>11. Work = v + 1 + y + b + c /\ Work' = u + a + y + b + c
    BY <2>7, <2>8, <2>9
  <2>12. QED BY <2>5, <2>10, <2>11
<1>9. QED BY <1>4, <1>5, <1>6, <1>7, <1>8 DEF ReceiverNext

LEMMA SenderReduces == ASSUME MeetInv, MeetInv', SenderNext PROVE Work' < Work
<1>0. /\ PsiInv /\ numOTs \in Nat \ {0} /\ sRow \in Nat /\ sCorrectionIdx \in Nat /\ onWire \in Nat
      /\ Len(outbound) \in Nat /\ outbound \in Seq(Messages) /\ times \in Nat \ {0}
  BY Numbers, Sizes DEF MeetInv
<1>1. ReceiverLeft \in Nat /\ SenderLeft \in Nat /\ NetworkLeft \in Nat
  BY LeftTypes
<1> USE <1>0, <1>1 DEF otVars, recvVars, sendVars, chanVars, netVars
<1>2. ASSUME UNCHANGED <<rpc, rStage, rRow, rCorrectionIdx>> PROVE ReceiverLeft' = ReceiverLeft
  BY <1>2 DEF ReceiverLeft
<1>3. ASSUME UNCHANGED <<outbound, onWire, client, server>> PROVE NetworkLeft' = NetworkLeft
  BY <1>3 DEF NetworkLeft
<1>4. ASSUME Greet(Sender) \/ SenderSetup \/ SenderCorrectRow \/ SenderComputeXors \/ SendSize
      PROVE  Work' < Work
  <2>1. UNCHANGED <<rIt, sIt>> /\ ReceiverLeft' = ReceiverLeft /\ NetworkLeft' = NetworkLeft
    BY <1>2, <1>3, <1>4, GreetSenderMoves, SenderSetupMoves, SenderCorrectMoves,
       SenderComputeXorsMoves, SendSizeMoves
  <2>2. SenderLeft' < SenderLeft
    <3>1. CASE SenderCorrectRow
      <4>1. SenderLeft' \in Nat
        BY LeftTypes, LeftNatNext
      <4>2. PICK k \in Nat, s \in Nat : k = sCorrectionIdx /\ s = sRow
        OBVIOUS
      <4>3. s < k /\ k <= numOTs
        <5>1. k = 0 \/ (k <= rCorrectionIdx /\ Encodes)
          BY <3>1, <4>2, SenderCorrectMoves DEF PsiInv, SenderInv, Corrects, Together
        <5>2. Encodes => rCorrectionIdx <= rRow /\ rRow <= numOTs
          BY DEF PsiInv, ReceiverInv
        <5>3. rCorrectionIdx \in Nat /\ rRow \in Nat
          BY Numbers
        <5>4. QED BY <3>1, <4>2, <5>1, <5>2, <5>3, SenderCorrectMoves
      <4>4. /\ spc = "corrections" /\ sRow' = s + 1 /\ sCorrectionIdx' = k
            /\ spc' = IF s + 1 < numOTs THEN "corrections" ELSE "close"
        BY <3>1, <4>2, SenderCorrectMoves
      <4>5. SenderLeft = (numOTs - s) + (numOTs - k) + 5
        BY <4>2, <4>4, Tables DEF SenderTable
      <4>6. SenderLeft' = IF s + 1 < numOTs THEN (numOTs - (s + 1)) + (numOTs - k) + 5 ELSE 4
        BY <4>4, Tables DEF SenderTable
      <4>7. QED BY <4>3, <4>5, <4>6
    <3>2. CASE SenderSetup
      <4>1. CASE sStage = "configured"
        BY <3>2, <4>1, SenderSetupMoves, Tables DEF SenderTable
      <4>2. CASE sStage # "configured"
        <5>1. /\ spc = "setup" /\ spc' = "corrections" /\ sRow' = 0 /\ sCorrectionIdx' = 0
          BY <3>2, <4>2, SenderSetupMoves
        <5>2. SenderLeft = 2 * numOTs + 6
          BY <4>2, <5>1, Tables DEF SenderTable
        <5>3. SenderLeft' = 2 * numOTs + 5
          BY <5>1, Tables DEF SenderTable
        <5>4. QED BY <5>2, <5>3
      <4>3. QED BY <4>1, <4>2
    <3>3. CASE Greet(Sender)
      BY <3>3, GreetSenderMoves, Tables DEF SenderTable
    <3>4. CASE SenderComputeXors
      BY <3>4, SenderComputeXorsMoves, Tables DEF SenderTable
    <3>5. CASE SendSize
      BY <3>5, SendSizeMoves, Tables DEF SenderTable
    <3>6. QED BY <1>4, <3>1, <3>2, <3>3, <3>4, <3>5
  <2>3. SenderLeft' \in Nat
    BY LeftTypes, LeftNatNext
  <2>4. QED BY <2>1, <2>2, <2>3, LessWithin
<1>5. CASE SenderListen
  <2>0. UNCHANGED <<rIt, sIt, outbound, onWire, client>> /\ ReceiverLeft' = ReceiverLeft
    BY <1>2, <1>5, SenderListenMoves
  <2>1. NetworkLeft' <= NetworkLeft + 1
    BY <2>0, OneMore
  <2>2. SenderLeft' < SenderLeft - 1
    BY <1>5, SenderListenMoves, Tables DEF SenderTable
  <2>3. QED BY <2>0, <2>1, <2>2, LessWithin
<1>6. CASE SenderReceive
  <2>1. Len(outbound') = Len(outbound) - 1 /\ outbound # <<>>
    BY <1>6, SenderReceiveMoves, Numbers
  <2>2. UNCHANGED <<rIt, sIt>> /\ ReceiverLeft' = ReceiverLeft /\ NetworkLeft' = NetworkLeft
    BY <1>2, <1>6, <2>1, SenderReceiveMoves DEF NetworkLeft
  <2>3. PICK c \in Nat : c = Head(outbound).count /\ c > 0
    BY <2>1, OnTheWire
  <2>4. PICK k \in Nat : k = sCorrectionIdx /\ sCorrectionIdx' = k + c
    BY <1>6, <2>3, SenderReceiveMoves
  <2>5. SenderLeft' < SenderLeft
    <3>1. spc = "corrections" /\ spc' = "corrections" /\ sRow' = sRow
      BY <1>6, SenderReceiveMoves
    <3>2. PICK x \in Nat : x = sRow
      OBVIOUS
    <3>3. SenderLeft = (numOTs - x) + (numOTs - k) + 5
      BY <2>4, <3>1, <3>2, Tables DEF SenderTable
    <3>4. SenderLeft' = (numOTs - x) + (numOTs - (k + c)) + 5
      BY <2>4, <3>1, <3>2, Tables DEF SenderTable
    <3>5. (numOTs - x) + (numOTs - (k + c)) + 5 < (numOTs - x) + (numOTs - k) + 5
      BY <2>3
    <3>6. QED BY <3>3, <3>4, <3>5
  <2>6. SenderLeft' \in Nat
    BY LeftTypes, LeftNatNext
  <2>7. QED BY <2>2, <2>5, <2>6, LessWithin
<1>7. CASE SenderClose
  <2>1. UNCHANGED <<rIt, sIt, outbound, onWire, client>> /\ ReceiverLeft' = ReceiverLeft
        /\ server' = "closed" /\ spc = "close" /\ spc' = "computeXors"
    BY <1>2, <1>7, SenderCloseMoves
  <2>2. SenderLeft = 4 /\ SenderLeft' = 3
    BY <2>1, Tables DEF SenderTable
  <2>3. NetworkLeft' = NetworkLeft \/ NetworkLeft' < NetworkLeft
    BY <2>1, OneMore
  <2>4. SenderLeft' < SenderLeft /\ SenderLeft' <= SenderLeft
    BY <2>2
  <2>5. QED BY <2>1, <2>3, <2>4, LessWithin
<1>8. CASE SendXors
  <2>0. PICK w \in Nat, i \in Nat : w = 2 * numOTs + 9 /\ i = sIt
    <3>1. sIt \in Nat /\ 2 * numOTs + 9 \in Nat
      BY Numbers
    <3>2. QED BY <3>1
  <2>1. PICK y : /\ w = 2 * numOTs + 9 /\ i = sIt
                 /\ y = (times - rIt) * (3 * numOTs + 11)
    BY <2>0
  <2>2. /\ ReceiverLeft' = ReceiverLeft /\ NetworkLeft' = NetworkLeft /\ sIt' = i + 1 /\ rIt' = rIt
        /\ spc = "sendXors" /\ spc' = IF i + 1 < times THEN "runOOS" ELSE "done"
    BY <1>2, <1>3, <1>8, <2>1, SendXorsMoves
  <2>3. SenderLeft = 1 /\ SenderLeft' <= w
    BY <2>1, <2>2, Tables DEF SenderTable
  <2>4. i < times
    BY <2>1, <2>2, Numbers DEF PsiInv, ControlInv
  <2>5. y \in Nat
    <3>1. 3 * numOTs + 11 \in Nat /\ rIt \in Nat /\ rIt <= times
      BY Numbers
    <3>2. QED BY <2>1, <3>1, Product
  <2>6. (times - (i + 1)) * w + w = (times - i) * w /\ (times - i) * w \in Nat
        /\ (times - (i + 1)) * w \in Nat
    BY <2>4, OneLess
  <2>7. Work = y + ReceiverLeft + (times - i) * w + 1 + NetworkLeft
    BY <2>1, <2>3 DEF Work
  <2>8. Work' = y + ReceiverLeft + (times - (i + 1)) * w + SenderLeft' + NetworkLeft
    BY <2>1, <2>2 DEF Work
  <2>9. PICK a \in Nat, b \in Nat, c \in Nat, u \in Nat, v \in Nat :
          /\ a = ReceiverLeft /\ b = SenderLeft' /\ c = NetworkLeft
          /\ u = (times - (i + 1)) * w /\ v = (times - i) * w
    BY <2>6, LeftNatNext
  <2>10. b <= w /\ u + w = v
    BY <2>3, <2>6, <2>9
  <2>11. Work = y + a + v + 1 + c /\ Work' = y + a + u + b + c
    BY <2>7, <2>8, <2>9
  <2>12. QED BY <2>5, <2>10, <2>11
<1>9. QED BY <1>4, <1>5, <1>6, <1>7, <1>8 DEF SenderNext

LEMMA NetworkReduces == ASSUME MeetInv, MeetInv', Network PROVE Work' < Work
<1>0. PsiInv /\ onWire \in Nat /\ Len(outbound) \in Nat
  BY Numbers DEF MeetInv
<1> USE <1>0 DEF otVars, recvVars, sendVars, chanVars, netVars
<1>1. UNCHANGED <<rIt, sIt, rpc, spc, rRow, sRow, rStage, sStage, rCorrectionIdx, sCorrectionIdx>>
  BY ConnectMoves, AcceptMoves, TransmitMoves DEF Network
<1>2. ReceiverLeft' = ReceiverLeft /\ SenderLeft' = SenderLeft
  BY <1>1 DEF ReceiverLeft, SenderLeft
<1>3. NetworkLeft' < NetworkLeft
  <2>1. PICK l \in Nat, x \in Nat, y \in Nat :
          /\ l = Len(outbound) - onWire
          /\ x = (IF client = "connecting" THEN 1 ELSE 0)
          /\ y = (IF server = "listening" THEN 1 ELSE 0)
    BY Numbers
  <2>2. NetworkLeft = l + x + y
    BY <2>1 DEF NetworkLeft
  <2>3. CASE Connect
    <3>1. UNCHANGED <<outbound, onWire, server>> /\ x = 1 /\ client' = "open"
      BY <2>1, <2>3, ConnectMoves
    <3>2. NetworkLeft' = l + 0 + y
      BY <2>1, <3>1 DEF NetworkLeft
    <3>3. QED BY <2>2, <3>1, <3>2
  <2>4. CASE Accept
    <3>1. UNCHANGED <<outbound, onWire, client>> /\ y = 1 /\ server' = "open"
      BY <2>1, <2>4, AcceptMoves
    <3>2. NetworkLeft' = l + x + 0
      BY <2>1, <3>1 DEF NetworkLeft
    <3>3. QED BY <2>2, <3>1, <3>2
  <2>5. CASE Transmit
    <3>1. /\ UNCHANGED <<client, server>> /\ onWire < Len(outbound)
          /\ Len(outbound') = Len(outbound) /\ onWire' = onWire + 1
      BY <2>5, TransmitMoves
    <3>2. Len(outbound') - onWire' = l - 1 /\ l > 0
      BY <2>1, <3>1
    <3>3. NetworkLeft' = (l - 1) + x + y
      BY <2>1, <3>1, <3>2 DEF NetworkLeft
    <3>4. QED BY <2>2, <3>2, <3>3
  <2>6. QED BY <2>3, <2>4, <2>5 DEF Network
<1>4. QED BY <1>1, <1>2, <1>3, LeftTypes, LessWithin

\* Every step of either process or of the network (ProtocolParty::run and the
\* threads of the IOServices) leaves less to do, so no run takes more steps than the
\* Work of its first state; with DeadlockFree, a run that stops has finished.
THEOREM RunBounded == Spec => [](Work \in Nat) /\ [][Work' < Work]_vars
<1>1. ASSUME MeetInv, [Next]_vars PROVE [Work' < Work]_vars
  BY <1>1, MeetStep, ReceiverReduces, SenderReduces, NetworkReduces DEF Next, Terminated
<1>2. QED BY <1>1, MeetInvariance, WorkType, PTL DEF Spec
=============================================================================
