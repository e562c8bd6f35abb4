---------------------------- MODULE PsiProtocol ----------------------------
(***************************************************************************)
(* The two processes of frontend/ProtocolParty.cpp: party 0, the Receiver, *)
(* and party 1, the Sender, which run the protocol `times' times over the  *)
(* OT extension of PrtyMOt.                                                *)
(*                                                                         *)
(* The parties have two connections: the plain channel of libscapi, for    *)
(* the whole run, and the channel of the OT, which every iteration makes   *)
(* anew on the same port, the Sender listening and the Receiver            *)
(* connecting.  A pc names the function to run next, or the loop it is in. *)
(*                                                                         *)
(* Both parties fill keys and vals from the same fixed seed, so the keys   *)
(* and values are the same on both sides, and so are the positions that    *)
(* the dictionary's hash functions give to a key.  createDictionary may    *)
(* leave a key that does not decode (see ObliviousDictionary); here it     *)
(* gives the variables any values, and the properties say what holds for   *)
(* the keys that do decode.                                                *)
(***************************************************************************)
EXTENDS PrtyMOt

CONSTANTS
    Keys,
    tableRealSize,
    gamma,
    stepSize,       \* number of corrections in a message; 1024 in the code
    times           \* number of iterations

ASSUME PsiAssumption ==
    /\ IsFiniteSet(Keys)
    /\ tableRealSize \in Nat \ {0}
    /\ gamma \in Nat
    /\ numOTs = 2 * tableRealSize + gamma
    /\ stepSize \in Nat \ {0}
    /\ times \in Nat \ {0}

VARIABLES
    indices,    \* what dec() gives for a key: the same for both parties
    vals,       \* the value of a key: the same for both parties
    pc,
    iteration,
    row,        \* the loops over the OTs: i + k
    sigma,      \* the variables of the Receiver's dictionary
    xorsSet,    \* the Receiver's outputs
    xors,       \* the Sender's outputs
    count,      \* auxiliary: the matches of the last iteration, -1 before the first
    toParty,    \* the plain channel: what was written to a party and not read
    client,     \* the Receiver's end of the OT channel
    server,     \* the Sender's end: its session and channel
    listener,   \* iteration of the session that has the port bound, or -1
    backlog,    \* a connection waits for the acceptor
    session     \* auxiliary: iterations of the two ends of the last connection

psiVars  == <<indices, vals, pc, iteration, row, sigma, xorsSet, xors, count,
              toParty, client, server, listener, backlog, session>>
vars     == <<otVars, psiVars>>
netVars  == <<client, server, listener, backlog, session>>
dataVars == <<indices, vals, sigma, xorsSet, xors, count>>

Receiver == 0
Sender   == 1
Parties  == {Receiver, Sender}
Other(p) == 1 - p

Goto(p, label) == pc' = [pc EXCEPT ![p] = label]

\* The plain channel: write() and read().
write(p, msg) == toParty' = [toParty EXCEPT ![Other(p)] = Append(@, msg)]
read(p)       == /\ toParty[p] # <<>>
                 /\ toParty' = [toParty EXCEPT ![p] = Tail(@)]

Variables == 0 .. numOTs - 1

-----------------------------------------------------------------------------

\* The variables whose sum is a key's value: a vertex in either half, and some of
\* the gamma extra ones.
KeyIndices ==
    {{f, tableRealSize + s} \cup {2 * tableRealSize + j : j \in d} :
        f \in 0 .. tableRealSize - 1, s \in 0 .. tableRealSize - 1, d \in SUBSET (0 .. gamma - 1)}

\* The constructors, up to the greeting.  (A row without a 1 in its first block is
\* taken for impossible where a debug build would throw for it.)
Init ==
    /\ OtInit
    /\ NDEBUG \/ \A i \in Rows : base0[i] \cap FirstBlock # {}
    /\ indices \in [Keys -> KeyIndices]
    /\ vals \in [Keys -> Word]
    /\ pc = [p \in Parties |-> "hello1"]
    /\ iteration = [p \in Parties |-> 0]
    /\ row = [p \in Parties |-> 0]
    /\ sigma = [i \in Variables |-> {}]
    /\ xorsSet = {}
    /\ xors = [k \in Keys |-> {}]
    /\ count = -1
    /\ toParty = [p \in Parties |-> <<>>]
    /\ client = "closed"
    /\ server = "closed"
    /\ listener = -1
    /\ backlog = FALSE
    /\ session = <<-1, -1>>

\* The party with the higher id writes its greeting first.
WritesFirst_Never(p) == FALSE

WritesFirst(p) == Other(p) < p

Greet(p) ==
    /\ pc[p] \in {"hello1", "hello2"}
    /\ IF (pc[p] = "hello1") = WritesFirst(p) THEN write(p, "init times") ELSE read(p)
    /\ Goto(p, IF pc[p] = "hello1" THEN "hello2"
               ELSE IF p = Receiver THEN "createDictionary" ELSE "runOOS")
    /\ UNCHANGED <<otVars, iteration, row, dataVars, netVars>>

-----------------------------------------------------------------------------
(* The Receiver.                                                           *)

createDictionary ==
    /\ pc[Receiver] = "createDictionary"
    /\ \E v \in [Variables -> Word] : sigma' = v
    /\ Goto(Receiver, "runOOS")
    /\ UNCHANGED <<otVars, indices, vals, iteration, row, xorsSet, xors, count, toParty, netVars>>

\* runOOS(): the session and its channel, which starts to connect, and the
\* OT object's configure, setBaseOts and init.
ReceiverConnect ==
    /\ pc[Receiver] = "runOOS"
    /\ client' = "connecting"
    /\ receiverConfigure
    /\ Goto(Receiver, "setup")
    /\ UNCHANGED <<iteration, row, dataVars, toParty, server, listener, backlog, session>>

ReceiverSetup ==
    /\ pc[Receiver] = "setup"
    /\ \/ receiverSetBaseOts /\ UNCHANGED <<pc, row>>
       \/ /\ receiverInit
          /\ row' = [row EXCEPT ![Receiver] = 0]
          /\ Goto(Receiver, "corrections")
    /\ UNCHANGED <<iteration, dataVars, toParty, netVars>>

\* The size of the message that begins at row i: curStepSize.
CurStepSize(i) == IF stepSize < numOTs - i THEN stepSize ELSE numOTs - i

\* The loop of runOOS: corrections for curStepSize rows, then a message.
ReceiverEncodeRow ==
    LET i == row[Receiver]
    IN  /\ pc[Receiver] = "corrections"
        /\ i < rCorrectionIdx + CurStepSize(rCorrectionIdx)
        /\ otCorrection(i, sigma[i])
        /\ row' = [row EXCEPT ![Receiver] = i + 1]
        /\ UNCHANGED <<pc, iteration, dataVars, toParty, netVars>>

ReceiverSend_BeforeEncoding ==
    /\ pc[Receiver] = "corrections"
    /\ sendCorrection(CurStepSize(rCorrectionIdx))
    /\ Goto(Receiver, IF row[Receiver] < numOTs THEN "corrections" ELSE "close")
    /\ UNCHANGED <<iteration, row, dataVars, toParty, netVars>>

ReceiverSend ==
    /\ pc[Receiver] = "corrections"
    /\ row[Receiver] = rCorrectionIdx + CurStepSize(rCorrectionIdx)
    /\ sendCorrection(CurStepSize(rCorrectionIdx))
    /\ Goto(Receiver, IF row[Receiver] < numOTs THEN "corrections" ELSE "close")
    /\ UNCHANGED <<iteration, row, dataVars, toParty, netVars>>

\* The end of runOOS destroys the channel: its destructor closes it, which
\* waits for the connection and for the send queue.
ReceiverClose ==
    /\ pc[Receiver] = "close"
    /\ client = "open"
    /\ onWire = Len(outbound)
    /\ client' = "closed"
    /\ Goto(Receiver, "computeXors")
    /\ UNCHANGED <<otVars, iteration, row, dataVars, toParty, server, listener, backlog, session>>

\* A row is encrypted block by block (ECB) and cut to the first 64 bits: they
\* are a function of its first block, taken for injective.
Output(r) == r \cap FirstBlock

ReceiverXor(k) == Output(XorOver(indices[k], mT0, CodeBits))

\* computeXors() of the Receiver; xorsSet is never emptied.
ReceiverComputeXors ==
    /\ pc[Receiver] = "computeXors"
    /\ xorsSet' = xorsSet \cup {ReceiverXor(k) : k \in Keys}
    /\ Goto(Receiver, "receiveSize")
    /\ UNCHANGED <<otVars, indices, vals, iteration, row, sigma, xors, count, toParty, netVars>>

\* receiveSenderXors(): the size, then the outputs; count is printed.
ReceiveSize ==
    /\ pc[Receiver] = "receiveSize"
    /\ read(Receiver)
    /\ Goto(Receiver, "receiveXors")
    /\ UNCHANGED <<otVars, iteration, row, dataVars, netVars>>

Matches(outputs) == {k \in Keys : outputs[k] \in xorsSet}

ReceiveXors_NoWait ==
    /\ pc[Receiver] = "receiveXors"
    /\ count' = 0
    /\ iteration' = [iteration EXCEPT ![Receiver] = @ + 1]
    /\ Goto(Receiver, IF iteration[Receiver] + 1 < times THEN "createDictionary" ELSE "done")
    /\ UNCHANGED <<otVars, toParty, indices, vals, row, sigma, xorsSet, xors, netVars>>

ReceiveXors ==
    /\ pc[Receiver] = "receiveXors"
    /\ read(Receiver)
    /\ count' = Cardinality(Matches(Head(toParty[Receiver])))
    /\ iteration' = [iteration EXCEPT ![Receiver] = @ + 1]
    /\ Goto(Receiver, IF iteration[Receiver] + 1 < times THEN "createDictionary" ELSE "done")
    /\ UNCHANGED <<otVars, indices, vals, row, sigma, xorsSet, xors, netVars>>

-----------------------------------------------------------------------------
(* The Sender.                                                             *)

SenderListen ==
    /\ pc[Sender] = "runOOS"
    /\ server' = "listening"
    /\ listener' = iteration[Sender]
    /\ senderConfigure
    /\ Goto(Sender, "setup")
    /\ UNCHANGED <<iteration, row, dataVars, toParty, client, backlog, session>>

SenderSetup ==
    /\ pc[Sender] = "setup"
    /\ \/ senderSetBaseOts /\ UNCHANGED <<pc, row>>
       \/ /\ senderInit
          /\ row' = [row EXCEPT ![Sender] = 0]
          /\ Goto(Sender, "corrections")
    /\ UNCHANGED <<iteration, dataVars, toParty, netVars>>

\* The loop of runOOS: wait for a message, then correct its rows.
SenderReceive ==
    /\ pc[Sender] = "corrections"
    /\ server = "open"
    /\ row[Sender] = sCorrectionIdx
    /\ row[Sender] < numOTs
    /\ recvCorrection(CurStepSize(row[Sender]))
    /\ UNCHANGED <<pc, iteration, row, dataVars, toParty, netVars>>

SenderCorrectRow_KeepOpen ==
    /\ pc[Sender] = "corrections"
    /\ row[Sender] < sCorrectionIdx
    /\ senderOtCorrection(row[Sender])
    /\ row' = [row EXCEPT ![Sender] = @ + 1]
    /\ Goto(Sender, IF row[Sender] + 1 < numOTs THEN "corrections" ELSE "computeXors")
    /\ UNCHANGED <<iteration, dataVars, toParty, netVars>>

SenderCorrectRow ==
    /\ pc[Sender] = "corrections"
    /\ row[Sender] < sCorrectionIdx
    /\ senderOtCorrection(row[Sender])
    /\ row' = [row EXCEPT ![Sender] = @ + 1]
    /\ Goto(Sender, IF row[Sender] + 1 < numOTs THEN "corrections" ELSE "close")
    /\ UNCHANGED <<iteration, dataVars, toParty, netVars>>

\* The end of runOOS: the channel, the session and the acceptor are closed.
SenderClose ==
    /\ pc[Sender] = "close"
    /\ server' = "closed"
    /\ listener' = -1
    /\ backlog' = FALSE
    /\ Goto(Sender, "computeXors")
    /\ UNCHANGED <<otVars, iteration, row, dataVars, toParty, client, session>>

SenderXor_NoChoice(k) == Output(XorOver(indices[k], mT, CodeBits) (+) Encode(vals[k]))

SenderXor(k) ==
    Output(XorOver(indices[k], mT, CodeBits) (+) (Encode(vals[k]) \cap mChoiceBlks))

SenderComputeXors ==
    /\ pc[Sender] = "computeXors"
    /\ xors' = [k \in Keys |-> SenderXor(k)]
    /\ Goto(Sender, "sendSize")
    /\ UNCHANGED <<otVars, indices, vals, iteration, row, sigma, xorsSet, count, toParty, netVars>>

SendSize ==
    /\ pc[Sender] = "sendSize"
    /\ write(Sender, Cardinality(Keys))
    /\ Goto(Sender, "sendXors")
    /\ UNCHANGED <<otVars, iteration, row, dataVars, netVars>>

SendXors ==
    /\ pc[Sender] = "sendXors"
    /\ write(Sender, xors)
    /\ iteration' = [iteration EXCEPT ![Sender] = @ + 1]
    /\ Goto(Sender, IF iteration[Sender] + 1 < times THEN "runOOS" ELSE "done")
    /\ UNCHANGED <<otVars, row, dataVars, netVars>>

-----------------------------------------------------------------------------
(* The threads of the IOServices.                                          *)

\* A connect succeeds while the port is bound; asyncConnectToServer tries again
\* until then.
Connect ==
    /\ client = "connecting"
    /\ listener # -1
    /\ client' = "open"
    /\ backlog' = TRUE
    /\ session' = <<iteration[Receiver], listener>>
    /\ UNCHANGED <<otVars, pc, iteration, row, dataVars, toParty, server, listener>>

\* The acceptor gives the connection to the Sender's channel.
Accept ==
    /\ server = "listening"
    /\ backlog
    /\ server' = "open"
    /\ backlog' = FALSE
    /\ UNCHANGED <<otVars, pc, iteration, row, dataVars, toParty, client, listener, session>>

Transmit ==
    /\ client = "open"
    /\ asyncPerformSend
    /\ UNCHANGED psiVars

-----------------------------------------------------------------------------

ReceiverNext ==
    \/ Greet(Receiver) \/ createDictionary \/ ReceiverConnect \/ ReceiverSetup
    \/ ReceiverEncodeRow \/ ReceiverSend \/ ReceiverClose \/ ReceiverComputeXors
    \/ ReceiveSize \/ ReceiveXors

SenderNext ==
    \/ Greet(Sender) \/ SenderListen \/ SenderSetup \/ SenderReceive
    \/ SenderCorrectRow \/ SenderClose \/ SenderComputeXors \/ SendSize \/ SendXors

Network == Connect \/ Accept \/ Transmit

Terminated == (\A p \in Parties : pc[p] = "done") /\ UNCHANGED vars

Next == ReceiverNext \/ SenderNext \/ Network \/ Terminated

Spec == Init /\ [][Next]_vars

\* Both processes run, and the network connects and delivers.
FairSpec == Spec /\ WF_vars(ReceiverNext) /\ WF_vars(SenderNext) /\ WF_vars(Network)

-----------------------------------------------------------------------------
(* Properties.                                                             *)

\* The dictionary of this iteration gives the key its value.
Decodes(k) == XorOver(indices[k], sigma, WordBits) = vals[k]

InRun == pc[Receiver] \notin {"hello1", "hello2", "createDictionary", "done"}

\* Besides the types: the plain channel never holds more than the size and the
\* outputs of one iteration (sendXors, receiveSenderXors).
TypeOK ==
    /\ OtTypeOK
    /\ pc \in [Parties -> {"hello1", "hello2", "createDictionary", "runOOS", "setup",
                           "corrections", "close", "computeXors", "receiveSize",
                           "receiveXors", "sendSize", "sendXors", "done"}]
    /\ iteration \in [Parties -> 0 .. times]
    /\ row \in [Parties -> 0 .. numOTs]
    /\ sigma \in [Variables -> Word]
    /\ xorsSet \in SUBSET Row
    /\ xors \in [Keys -> Row]
    /\ count \in -1 .. Cardinality(Keys)
    /\ \A p \in Parties : Len(toParty[p]) <= 2
    /\ client \in {"closed", "connecting", "open"}
    /\ server \in {"closed", "listening", "open"}
    /\ listener \in -1 .. times - 1
    /\ backlog \in BOOLEAN

\* Every key that the dictionary encodes is counted as a match: the Sender's
\* output for it, made from its corrected rows and the key's codeword, is one of
\* the outputs the Receiver made from T0 (computeXors of either party,
\* receiveSenderXors).
EncodedKeysMatch ==
    pc[Receiver] = "receiveXors" /\ toParty[Receiver] # <<>> =>
        \A k \in Keys : Decodes(k) => k \in Matches(Head(toParty[Receiver]))

\* xorsSet, which no iteration empties, never holds an output of an earlier
\* iteration that is not one of this iteration too (Receiver::computeXors).
XorsSetFresh ==
    pc[Receiver] \in {"receiveSize", "receiveXors"} =>
        xorsSet = {ReceiverXor(k) : k \in Keys}

\* A connection joins the two ends of the same iteration, although all sessions
\* use the same port and name (Session and addChannel in runOOS).
SessionsPair == session[1] = session[2]

\* Both parties run all iterations to the end.
Finishes == <>(\A p \in Parties : pc[p] = "done")

-----------------------------------------------------------------------------
(* What the protocol promises.                                             *)

Ideal == INSTANCE PsiIdeal WITH
    stage   <- IF InRun THEN "running" ELSE "idle",
    round   <- iteration[Receiver],
    encoded <- IF InRun THEN {k \in Keys : Decodes(k)} ELSE {}

\* The protocol implements PsiIdeal: one count per iteration, never less than
\* the number of keys the dictionary encodes (ProtocolParty::run, runOnline).
ImplementsIdeal == Ideal!Spec
=============================================================================
