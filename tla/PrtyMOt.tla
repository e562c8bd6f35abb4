------------------------------ MODULE PrtyMOt ------------------------------
(***************************************************************************)
(* The OT extension of libPSI/PRTY2: a PrtyMOtReceiver and a PrtyMOtSender *)
(* joined by a Channel.                                                    *)
(*                                                                         *)
(* Both ends expand the base OTs to a matrix with one row per OT.  The     *)
(* receiver has both rows T0 and T1, the sender, for every column, the bit *)
(* of T0 or of T1 that its choice bit of the column selects.  To encode    *)
(* the word w the receiver sends the correction T0 + T1 + C(w), and the    *)
(* sender adds it to its row in the columns it chose T1 of; its row is     *)
(* then T0 + (C(w) & choice), so that both ends agree on the hash of w's   *)
(* encoding and on no other.                                               *)
(*                                                                         *)
(* A row or a word is the set of the columns that hold a 1: addition is    *)
(* symmetric difference and & is intersection.  A column is the pair of a  *)
(* block of 128 bits and a bit of it.  C is linear.  The hash is taken for *)
(* injective, so an encoding stands for its own hash.                      *)
(*                                                                         *)
(* The caller's part of the interface (NcoOtExt.h) is in OtNext: every     *)
(* index is encoded once, corrections are used once they have come.        *)
(***************************************************************************)
EXTENDS Integers, Sequences, FiniteSets

CONSTANTS
    WordBits,       \* the inputBitCount bits of a word: <<block, bit>>
    CodeBits,       \* the columns: <<block, bit>>
    plaintextBlkSize,   \* the number of blocks of a word
    Generator,      \* the generator matrix of mCode: a codeword per bit
    numOTs,         \* the argument of init
    mStatSecParam,  \* 40 in the code; a multiple of 8, so check goes on
    RowBlock,       \* rows are made 128 at a time
    mMalicious,
    NDEBUG          \* the build: TRUE for Release, without the debug checks

ASSUME OtAssumption ==
    /\ IsFiniteSet(WordBits) /\ WordBits \subseteq (0 .. plaintextBlkSize - 1) \X Nat
    /\ IsFiniteSet(CodeBits) /\ CodeBits \subseteq Nat \X Nat
    /\ plaintextBlkSize \in Nat \ {0}
    /\ Generator \in [WordBits -> SUBSET CodeBits]
    /\ numOTs \in Nat \ {0}
    /\ mStatSecParam \in Nat \ {0}
    /\ RowBlock \in Nat \ {0}
    /\ mMalicious \in BOOLEAN
    /\ NDEBUG \in BOOLEAN

VARIABLES
    base0, base1,       \* the rows that the two seeds of the base OTs expand to
    mChoiceBlks,        \* the sender's choice bits
    rStage,             \* how far the receiver object is
    mT0, mT1, mW,       \* the receiver's matrices
    mEncodeFlags,       \* the rows that were encoded (a check of debug builds)
    rCorrectionIdx,     \* mCorrectionIdx of the receiver
    sStage,             \* how far the sender object is
    mT, mCorrectionVals,
    sCorrectionIdx,     \* mCorrectionIdx of the sender
    qSum,               \* the sums of check
    corrected,          \* auxiliary: the rows the sender has corrected
    relation,           \* auxiliary: what the comparison in check found
    outbound,           \* receiver to sender: first the messages on the wire,
    onWire,             \*   then the send operations still in mSendQueue
    inbound             \* sender to receiver: the challenge

baseVars == <<base0, base1, mChoiceBlks>>
recvVars == <<rStage, mT0, mT1, mW, mEncodeFlags, rCorrectionIdx>>
sendVars == <<sStage, mT, mCorrectionVals, sCorrectionIdx, qSum, corrected, relation>>
chanVars == <<outbound, onWire, inbound>>
otVars   == <<baseVars, recvVars, sendVars, chanVars>>

-----------------------------------------------------------------------------
(* Rows, words and codewords.                                              *)

Row  == SUBSET CodeBits
Word == SUBSET WordBits

FirstBlock == {c \in CodeBits : c[1] = 0}

a (+) b == (a \ b) \cup (b \ a)

\* The sum of f[i], i in S, over the columns Bits.
XorOver(S, f, Bits) == {c \in Bits : Cardinality({i \in S : c \in f[i]}) % 2 = 1}

Encode(w) == XorOver(w, Generator, CodeBits)

roundUpTo(val, step) == ((val + step - 1) \div step) * step

\* The number of rows of every matrix: those of check come on top.
numRows_NoExtra == roundUpTo(numOTs, RowBlock)

numRows == roundUpTo(numOTs + mStatSecParam, RowBlock)
Rows    == 0 .. numRows - 1
Extra   == 0 .. mStatSecParam - 1
Zeros   == [i \in Rows |-> {}]

\* The row the sender gets: the choice bit selects a seed for every column.
Chosen(i) == (base0[i] \ mChoiceBlks) \cup (base1[i] \cap mChoiceBlks)

-----------------------------------------------------------------------------
(* The messages from the receiver to the sender.  A sendCorrection only    *)
(* enqueues a pointer into mT1: the rows are read when they are sent.      *)
(* `from' and `count' say which rows a message is about; the ones without  *)
(* rows have their place in between.                                       *)

Message(kind, i, c, t, w) ==
    [kind |-> kind, from |-> i, count |-> c, rows |-> <<>>, tSum |-> t, wSum |-> w]
NoSums            == [l \in Extra |-> {}]
Corrections(i, c) == Message("corrections", i, c, NoSums, NoSums)
ZeroByte(i)       == Message("byte", i, 0, NoSums, NoSums)
Sums(i, t, w)     == Message("sums", i, 0, t, w)

\* The message is on the wire and the sender's next recv gets it.
Arrived(kind) == onWire > 0 /\ Head(outbound).kind = kind

Received(n) ==
    /\ outbound' = SubSeq(outbound, n + 1, Len(outbound))
    /\ onWire' = onWire - n

-----------------------------------------------------------------------------

OtInit ==
    /\ base0 \in [Rows -> Row]
    /\ base1 \in [Rows -> Row]
    /\ mChoiceBlks \in Row
    /\ rStage = "new"
    /\ mT0 = Zeros /\ mT1 = Zeros /\ mW = Zeros
    /\ mEncodeFlags = [i \in Rows |-> FALSE]
    /\ rCorrectionIdx = 0
    /\ sStage = "new"
    /\ mT = Zeros /\ mCorrectionVals = Zeros
    /\ sCorrectionIdx = 0
    /\ qSum = <<>>
    /\ corrected = {}
    /\ relation = "unknown"
    /\ outbound = <<>> /\ onWire = 0 /\ inbound = <<>>

-----------------------------------------------------------------------------
(* The receiver.                                                           *)

receiverConfigure ==
    /\ rStage' = "configured"
    /\ UNCHANGED <<baseVars, mT0, mT1, mW, mEncodeFlags, rCorrectionIdx, sendVars, chanVars>>

\* setBaseOts(): throws when the number of seeds is not the configured one.
receiverSetBaseOts ==
    /\ rStage = "configured"
    /\ rStage' = "base"
    /\ UNCHANGED <<baseVars, mT0, mT1, mW, mEncodeFlags, rCorrectionIdx, sendVars, chanVars>>

receiverInit_NextRows ==
    /\ rStage = "base"
    /\ rStage' = "ready"
    /\ rCorrectionIdx' = 0
    /\ mT0' = IF mT0 = base0 THEN base1 ELSE base0
    /\ mT1' = IF mT0 = base0 THEN base0 ELSE base1
    /\ mW' = Zeros
    /\ mEncodeFlags' = [i \in Rows |-> FALSE]
    /\ UNCHANGED <<baseVars, sendVars, chanVars>>

receiverInit ==
    /\ rStage = "base"
    /\ rStage' = "ready"
    /\ rCorrectionIdx' = 0
    /\ mT0' = base0
    /\ mT1' = base1
    /\ mW' = Zeros
    /\ mEncodeFlags' = [i \in Rows |-> FALSE]
    /\ UNCHANGED <<baseVars, sendVars, chanVars>>

\* The part of otCorrection and zeroEncode that prepares row i for the word w.
EncodeRow_KeepT1(i, w) ==
    /\ mW' = [mW EXCEPT ![i] = w]
    /\ mT1' = [mT1 EXCEPT ![i] = Encode(w) (+) mT0[i]]
    /\ mEncodeFlags' = [mEncodeFlags EXCEPT ![i] = TRUE]

EncodeRow(i, w) ==
    /\ mW' = [mW EXCEPT ![i] = w]
    /\ mT1' = [mT1 EXCEPT ![i] = (Encode(w) (+) mT0[i]) (+) mT1[i]]
    /\ mEncodeFlags' = [mEncodeFlags EXCEPT ![i] = TRUE]

\* Debug builds take a row whose first block is zero for one without base OTs.
Initialized(i) == mT0[i] \cap FirstBlock # {}

otCorrection(i, w) ==
    /\ rStage = "ready"
    /\ NDEBUG \/ (Initialized(i) /\ ~ mEncodeFlags[i])
    /\ EncodeRow(i, w)
    /\ UNCHANGED <<baseVars, rStage, mT0, rCorrectionIdx, sendVars, chanVars>>

zeroEncode(i) ==
    /\ rStage = "ready"
    /\ NDEBUG \/ Initialized(i)
    /\ EncodeRow(i, {})
    /\ UNCHANGED <<baseVars, rStage, mT0, rCorrectionIdx, sendVars, chanVars>>

\* asyncSend() wants a message that is not empty.
sendCorrection(c) ==
    /\ rStage = "ready"
    /\ c > 0
    /\ NDEBUG \/ \A i \in rCorrectionIdx .. rCorrectionIdx + c - 1 : mEncodeFlags[i]
    /\ outbound' = Append(outbound, Corrections(rCorrectionIdx, c))
    /\ rCorrectionIdx' = rCorrectionIdx + c
    /\ UNCHANGED <<baseVars, rStage, mT0, mT1, mW, mEncodeFlags, sendVars, onWire, inbound>>

\* check() as far as its recv: random words in the extra rows, and their
\* corrections.
receiverCheck(words) ==
    LET extra == rCorrectionIdx .. rCorrectionIdx + mStatSecParam - 1
    IN  /\ mMalicious
        /\ rStage = "ready"
        /\ NDEBUG \/ /\ \A i \in 0 .. rCorrectionIdx - 1 : mEncodeFlags[i]
                     /\ \A i \in extra : Initialized(i) /\ ~ mEncodeFlags[i]
        /\ rStage' = "asked"
        /\ mW' = [i \in Rows |-> IF i \in extra THEN words[i - rCorrectionIdx] ELSE mW[i]]
        /\ mT1' = [i \in Rows |-> IF i \in extra
                                  THEN (Encode(words[i - rCorrectionIdx]) (+) mT0[i]) (+) mT1[i]
                                  ELSE mT1[i]]
        /\ mEncodeFlags' = [i \in Rows |-> i \in extra \/ mEncodeFlags[i]]
        /\ outbound' = outbound \o <<ZeroByte(rCorrectionIdx),
                                       Corrections(rCorrectionIdx, mStatSecParam)>>
        /\ rCorrectionIdx' = rCorrectionIdx + mStatSecParam
        /\ UNCHANGED <<baseVars, mT0, sendVars, onWire, inbound>>

\* Challenge l selects the rows of f that are added to the extra row l; the
\* extra rows begin at n.
ChallengeSums(x, n, f, Bits) == [l \in Extra |-> f[n + l] (+) XorOver(x[l], f, Bits)]

\* The sums of the words.  mW and the sums are read and written as arrays of
\* blocks, a block per row and a block per challenge, whatever the size of a word:
\* block i of mW is added to block s of the sums when challenge s selects row i.
BlockOfW(i, b) ==
    {c \in WordBits : c[1] = b /\ <<i % plaintextBlkSize, c[2]>> \in mW[i \div plaintextBlkSize]}

WordSums(x, n) ==
    LET s(l, b) == l * plaintextBlkSize + b     \* block b of the sum l
        Added(l, c) == XorOver(x[s(l, c[1])], [i \in 0 .. n - 1 |-> BlockOfW(i, c[1])], {c})
    IN  [l \in Extra |-> mW[n + l] (+)
                            {c \in WordBits : s(l, c[1]) \in Extra /\ c \in Added(l, c)}]

\* The rest of check().
receiverAnswer ==
    /\ rStage = "asked"
    /\ inbound # <<>>
    /\ LET x == Head(inbound)
           n == rCorrectionIdx - mStatSecParam
       IN  outbound' = Append(outbound, Sums(rCorrectionIdx,
                                             ChallengeSums(x, n, mT0, CodeBits),
                                             WordSums(x, n)))
    /\ inbound' = Tail(inbound)
    /\ rStage' = "checked"
    /\ UNCHANGED <<baseVars, mT0, mT1, mW, mEncodeFlags, rCorrectionIdx, sendVars, onWire>>

\* encode(): the hash of T0.
ReceiverEncode(i) == mT0[i]

-----------------------------------------------------------------------------
(* The channel carries out the send operations one by one (asyncPerform).  *)

asyncPerformSend ==
    /\ onWire < Len(outbound)
    /\ LET op == outbound[onWire + 1]
       IN  outbound' =
             IF op.kind = "corrections"
             THEN [outbound EXCEPT ![onWire + 1] =
                     [op EXCEPT !.rows = [j \in 1 .. op.count |-> mT1[op.from + j - 1]]]]
             ELSE outbound
    /\ onWire' = onWire + 1
    /\ UNCHANGED <<baseVars, recvVars, sendVars, inbound>>

-----------------------------------------------------------------------------
(* The sender.                                                             *)

senderConfigure ==
    /\ sStage' = "configured"
    /\ UNCHANGED <<baseVars, recvVars, mT, mCorrectionVals, sCorrectionIdx, qSum,
                   corrected, relation, chanVars>>

senderSetBaseOts ==
    /\ sStage = "configured"
    /\ sStage' = "base"
    /\ UNCHANGED <<baseVars, recvVars, mT, mCorrectionVals, sCorrectionIdx, qSum,
                   corrected, relation, chanVars>>

senderInit ==
    /\ sStage = "base"
    /\ sStage' = "ready"
    /\ mCorrectionVals' = Zeros
    /\ mT' = [i \in Rows |-> Chosen(i)]
    /\ sCorrectionIdx' = 0
    /\ corrected' = {}
    /\ UNCHANGED <<baseVars, recvVars, qSum, relation, chanVars>>

\* The rows of a message go where the last ones ended.
Store_AtStart(msg) ==
    /\ mCorrectionVals' =
         [i \in Rows |-> IF i \in 0 .. msg.count - 1
                         THEN msg.rows[i + 1]
                         ELSE mCorrectionVals[i]]
    /\ sCorrectionIdx' = sCorrectionIdx + msg.count

Store(msg) ==
    /\ mCorrectionVals' =
         [i \in Rows |-> IF i \in sCorrectionIdx .. sCorrectionIdx + msg.count - 1
                         THEN msg.rows[i - sCorrectionIdx + 1]
                         ELSE mCorrectionVals[i]]
    /\ sCorrectionIdx' = sCorrectionIdx + msg.count

\* Both recvCorrection()s: the message must have the size that was asked for, or
\* fit in the rows that are left (a check of debug builds in the first).
recvCorrection(c) ==
    /\ sStage = "ready"
    /\ Arrived("corrections")
    /\ c = Head(outbound).count
    /\ NDEBUG \/ sCorrectionIdx + c <= numRows
    /\ Store(Head(outbound))
    /\ Received(1)
    /\ UNCHANGED <<baseVars, recvVars, sStage, mT, qSum, corrected, relation, inbound>>

senderOtCorrection(i) ==
    /\ sStage \in {"ready", "checked"}
    /\ mT' = [mT EXCEPT ![i] = mT[i] (+) (mCorrectionVals[i] \cap mChoiceBlks)]
    /\ corrected' = corrected \cup {i}
    /\ UNCHANGED <<baseVars, recvVars, sStage, mCorrectionVals, sCorrectionIdx, qSum,
                   relation, chanVars>>

\* encode(): what is hashed for the word w.
SenderEncode(i, w) == mT[i] (+) (Encode(w) \cap mChoiceBlks)

\* q_i = (u_i & choice) ^ T_i
Q_Plain(i, u) == mT[i]

Q(i, u) == (u[i] \cap mChoiceBlks) (+) mT[i]

\* zeroAndQ[0], which is added for a challenge bit 0, is cleared in its first four
\* blocks; the rest is whatever the stack holds.
UnclearedColumns == {c \in CodeBits : c[1] >= 4}

SenderSums(x, n, q, zero) ==
    [l \in Extra |-> q[n + l] (+)
        XorOver(0 .. n - 1, [i \in 0 .. n - 1 |-> IF i \in x[l] THEN q[i] ELSE zero], CodeBits)]

\* check() as far as its second recv: the extra corrections, the challenge x
\* that the seed expands to, and the sums of the rows.
senderCheck(x) ==
    /\ mMalicious
    /\ sStage = "ready"
    /\ onWire > 1
    /\ outbound[1].kind = "byte"
    /\ outbound[2].kind = "corrections"
    /\ outbound[2].count = mStatSecParam
    /\ NDEBUG \/ sCorrectionIdx + mStatSecParam <= numRows
    /\ Store(outbound[2])
    /\ Received(2)
    /\ inbound' = Append(inbound, x)
    /\ LET q == [i \in Rows |-> Q(i, mCorrectionVals')]
       IN  \E zero \in SUBSET UnclearedColumns :
               qSum' = SenderSums(x, sCorrectionIdx, q, zero)
    /\ sStage' = "challenged"
    /\ UNCHANGED <<baseVars, recvVars, mT, corrected, relation>>

\* The rest of check().  A mismatch has no consequence: the throw is commented
\* out.
senderVerify ==
    /\ sStage = "challenged"
    /\ Arrived("sums")
    /\ LET s == Head(outbound)
       IN  relation' =
             IF \A l \in Extra :
                   s.tSum[l] (+) qSum[l] = Encode(s.wSum[l]) \cap mChoiceBlks
             THEN "holds" ELSE "fails"
    /\ Received(1)
    /\ sStage' = "checked"
    /\ UNCHANGED <<baseVars, recvVars, mT, mCorrectionVals, sCorrectionIdx, qSum,
                   corrected, inbound>>

-----------------------------------------------------------------------------
(* The two ends used as NcoOtExt.h says.                                   *)

ReceiverStep ==
    \/ rStage = "new" /\ receiverConfigure
    \/ receiverSetBaseOts
    \/ receiverInit
    \/ \E i \in 0 .. numOTs - 1, w \in Word : ~ mEncodeFlags[i] /\ otCorrection(i, w)
    \/ \E i \in 0 .. numOTs - 1 : ~ mEncodeFlags[i] /\ zeroEncode(i)
    \/ \E c \in 1 .. numOTs - rCorrectionIdx :
          /\ \A i \in rCorrectionIdx .. rCorrectionIdx + c - 1 : mEncodeFlags[i]
          /\ sendCorrection(c)
    \/ \E words \in [Extra -> Word] :
          rCorrectionIdx = numOTs /\ receiverCheck(words)
    \/ receiverAnswer

SenderStep ==
    \/ sStage = "new" /\ senderConfigure
    \/ senderSetBaseOts
    \/ senderInit
    \/ \E c \in 1 .. numOTs : recvCorrection(c)
    \/ \E i \in (0 .. numOTs - 1) \ corrected : i < sCorrectionIdx /\ senderOtCorrection(i)
    \/ \E x \in [Extra -> SUBSET (0 .. numOTs - 1)] :
          sCorrectionIdx = numOTs /\ senderCheck(x)
    \/ senderVerify

OtNext == ReceiverStep \/ SenderStep \/ asyncPerformSend

OtSpec == OtInit /\ [][OtNext]_otVars

-----------------------------------------------------------------------------
(* Properties.                                                             *)

ReceiverStages == {"new", "configured", "base", "ready", "asked", "checked"}
SenderStages   == {"new", "configured", "base", "ready", "challenged", "checked"}
Messages == [kind : {"corrections", "byte", "sums"}, from : 0 .. numRows,
             count : 0 .. numRows, rows : Seq(Row),
             tSum : [Extra -> Row], wSum : [Extra -> Word]]

\* The indices stay inside the matrices: no sendCorrection, recvCorrection or
\* check goes past the rows that init() made, the extra rows of check included.
OtTypeOK ==
    /\ base0 \in [Rows -> Row] /\ base1 \in [Rows -> Row] /\ mChoiceBlks \in Row
    /\ rStage \in ReceiverStages /\ sStage \in SenderStages
    /\ mT0 \in [Rows -> Row] /\ mT1 \in [Rows -> Row] /\ mW \in [Rows -> Word]
    /\ mEncodeFlags \in [Rows -> BOOLEAN]
    /\ rCorrectionIdx \in 0 .. numRows
    /\ mT \in [Rows -> Row] /\ mCorrectionVals \in [Rows -> Row]
    /\ sCorrectionIdx \in 0 .. numRows
    /\ corrected \in SUBSET Rows
    /\ relation \in {"unknown", "holds", "fails"}
    /\ outbound \in Seq(Messages)
    /\ onWire \in 0 .. Len(outbound)

\* For a row that both ends have encoded, the sender computes the receiver's
\* encoding for the receiver's word, and for another word only if the choice
\* bits hide the difference (encode of either end; NcoOtExt.h).
EncodingsAgree ==
    \A i \in corrected : \A w \in Word :
        (SenderEncode(i, w) = ReceiverEncode(i))
            <=> (Encode(w) \cap mChoiceBlks = Encode(mW[i]) \cap mChoiceBlks)

\* Words of one block and codewords of at most four: the codes of 65 to 90 bits.
\* Those of 132 bits and more have two and five to seven.
NarrowCode == plaintextBlkSize = 1 /\ UnclearedColumns = {}

\* With honest ends and a narrow code, check() finds that the linear relation holds
\* if the sender has not yet called otCorrection, which adds the corrections for
\* good.  (For a wider code neither end adds up what the relation is about.)
CheckHoldsBeforeCorrection ==
    NarrowCode /\ relation = "fails" => corrected # {}

\* "check that the linear relation holds" (PrtyMOtSender.cpp, check), called last
\* as NcoOtExt.h says, with honest ends.
LinearRelationHolds == relation # "fails"

\* The rows a queued send operation points to do not change before it is carried
\* out, not even when a further init() replaces mT1 (sendCorrection: "We don't
\* have a guarantee that mT1 will still exist when the network gets around to
\* sending this").
SendBuffersStable ==
    [][\A m \in onWire + 1 .. Len(outbound) :
          \A i \in outbound[m].from .. outbound[m].from + outbound[m].count - 1 :
             mT1'[i] = mT1[i]]_otVars
=============================================================================
