--------------------------- MODULE PrtyMOtProofs ---------------------------
(***************************************************************************)
(* Proofs about PrtyMOt for every code, every number of OTs and every size *)
(* of the messages.                                                        *)
(*                                                                         *)
(* EncodingsAgree is not inductive: it speaks of the rows the sender has   *)
(* corrected, and a correction is made from what the receiver wrote to mT1 *)
(* much earlier.  The invariant follows a correction on its way: in mT1    *)
(* (ReceiverRows), in the messages on the wire (WireRows), in              *)
(* mCorrectionVals (SenderRows); and it says that the messages continue    *)
(* one another (Stream), so that the sender, which only counts, stores a   *)
(* row where it belongs.                                                   *)
(***************************************************************************)
EXTENDS PrtyMOt, TLAPS, SequenceTheorems

\* u_i = T0 + T1 + C(w), as the receiver computes it.
Correction(i) == (Encode(mW[i]) (+) base0[i]) (+) base1[i]

Encoding == rStage \in {"ready", "asked", "checked"}
Correcting == sStage \in {"ready", "challenged", "checked"}

\* The receiver's matrices from init() on.
ReceiverRows ==
    Encoding =>
        /\ mT0 = base0
        /\ \A i \in Rows : mT1[i] = IF mEncodeFlags[i] THEN Correction(i) ELSE base1[i]

\* What was handed to the channel was encoded; check() alone uses the extra rows.
Progress ==
    /\ \A i \in Rows : i < rCorrectionIdx => mEncodeFlags[i]
    /\ ~ Encoding => rCorrectionIdx = 0 /\ outbound = <<>>
    /\ rStage = "ready" => /\ rCorrectionIdx <= numOTs
                           /\ \A i \in Rows : i >= numOTs => ~ mEncodeFlags[i]
    /\ rStage \in {"asked", "checked"} => rCorrectionIdx = numOTs + mStatSecParam

\* The messages s continue one another from row a to row b.
Continues(s, a, b) ==
    /\ s = <<>> => a = b
    /\ s # <<>> => s[1].from = a /\ s[Len(s)].from + s[Len(s)].count = b
    /\ \A m \in 1 .. Len(s) :
         /\ s[m].from + s[m].count <= b
         /\ s[m].kind # "corrections" => s[m].count = 0
         /\ m < Len(s) => s[m + 1].from = s[m].from + s[m].count

\* Those on their way lead from the sender's index to the receiver's.
Stream ==
    /\ sCorrectionIdx <= rCorrectionIdx
    /\ Continues(outbound, sCorrectionIdx, rCorrectionIdx)

\* A message on the wire carries the corrections of its rows.
WireRows ==
    \A m \in 1 .. onWire : outbound[m].kind = "corrections" =>
        \A i \in Rows :
            outbound[m].from <= i /\ i < outbound[m].from + outbound[m].count =>
                outbound[m].rows[i - outbound[m].from + 1] = Correction(i)

\* The sender's matrices.
SenderRows ==
    /\ \A i \in Rows : i < sCorrectionIdx => mCorrectionVals[i] = Correction(i)
    /\ \A i \in corrected : i < sCorrectionIdx
    /\ ~ Correcting => sCorrectionIdx = 0 /\ corrected = {}
    /\ Correcting => \A i \in Rows :
         mT[i] = IF i \in corrected
                 THEN Chosen(i) (+) (Correction(i) \cap mChoiceBlks)
                 ELSE Chosen(i)

IndInv == OtTypeOK /\ ReceiverRows /\ Progress /\ Stream /\ WireRows /\ SenderRows

-----------------------------------------------------------------------------
(* Lemmas about the operators.                                             *)

\* Addition stays inside the rows.
LEMMA XorType == \A a, b \in Row : a (+) b \in Row
BY DEF (+), Row

\* A codeword is a row, and so is every sum over the columns.
LEMMA SumType == \A S, f, B : XorOver(S, f, B) \in SUBSET B
BY DEF XorOver

\* LinearCode::encode gives a row.
LEMMA EncodeType == \A w : Encode(w) \in Row
BY SumType DEF Encode, Row

\* roundUpTo() does not round down.
LEMMA RoundUp ==
    ASSUME NEW val \in Nat, NEW step \in Nat \ {0}
    PROVE  roundUpTo(val, step) \in Nat /\ val <= roundUpTo(val, step)
<1> DEFINE n == val + step - 1
           q == n \div step
           r == n % step
<1>1. n \in Nat
  OBVIOUS
<1>2. q \in Nat /\ r \in 0 .. step - 1 /\ n = step * q + r
  BY <1>1
<1> HIDE DEF q, r
<1>3. step * q \in Nat /\ q * step = step * q
  BY <1>2
<1>4. val <= step * q
  BY <1>2, <1>3
<1>5. roundUpTo(val, step) = q * step
  BY DEF roundUpTo, q
<1>6. QED BY <1>3, <1>4, <1>5

\* The matrices have room for all OTs and for the extra rows of check().
LEMMA RowsRoom == numRows \in Nat /\ numOTs + mStatSecParam <= numRows
<1>1. numOTs + mStatSecParam \in Nat /\ RowBlock \in Nat \ {0}
  BY OtAssumption
<1>2. QED BY <1>1, RoundUp DEF numRows

\* What remains of a correction: with a = T0, b = T1, c the codeword of the
\* receiver's word and d that of the sender's, the sender's sum is T0 just when
\* the choice bits do not tell c from d.
LEMMA Cancellation ==
    ASSUME NEW a, NEW b, NEW c, NEW d, NEW ch
    PROVE  ((((a \ ch) \cup (b \cap ch)) (+) (((c (+) a) (+) b) \cap ch)) (+) (d \cap ch) = a)
              <=> (d \cap ch = c \cap ch)
<1> DEFINE sum == (((a \ ch) \cup (b \cap ch)) (+) (((c (+) a) (+) b) \cap ch)) (+) (d \cap ch)
<1>1. \A x : x \in sum <=> IF x \in ch /\ ((x \in c /\ x \notin d) \/ (x \in d /\ x \notin c))
                           THEN x \notin a ELSE x \in a
  BY DEF (+)
<1> HIDE DEF sum
<1>2. ASSUME sum = a PROVE d \cap ch = c \cap ch
  BY <1>1, <1>2
<1>3. ASSUME d \cap ch = c \cap ch PROVE sum = a
  <2>1. \A x : x \in ch => (x \in c <=> x \in d)
    BY <1>3
  <2>2. \A x : x \in sum <=> x \in a
    BY <1>1, <2>1
  <2>3. QED BY <2>2
<1>4. QED BY <1>2, <1>3 DEF sum

\* Row i is number i - a + 1 of the c rows that begin with row a.
LEMMA RowNumber ==
    ASSUME NEW a \in Nat, NEW c \in Nat, NEW i \in Nat
    PROVE  /\ a <= i /\ i < a + c => i - a + 1 \in 1 .. c /\ a + (i - a + 1) - 1 = i
           /\ \A b \in Nat, j \in 1 .. c : a + c <= b => a + j - 1 \in 0 .. b - 1
           /\ \A b \in Nat : i < a + c /\ a + c <= b => i < b
OBVIOUS

\* What Received(n) leaves of the messages.
LEMMA Drop ==
    ASSUME NEW S, NEW s \in Seq(S), NEW n \in 0 .. Len(s)
    PROVE  /\ SubSeq(s, n + 1, Len(s)) \in Seq(S)
           /\ Len(SubSeq(s, n + 1, Len(s))) = Len(s) - n
           /\ \A i \in 1 .. Len(s) - n : SubSeq(s, n + 1, Len(s))[i] = s[i + n]
<1>1. Len(s) \in Nat /\ n + 1 \in Int /\ \A i \in n + 1 .. Len(s) : s[i] \in S
  BY LenProperties
<1>2. /\ SubSeq(s, n + 1, Len(s)) \in Seq(S)
      /\ Len(SubSeq(s, n + 1, Len(s))) = IF n + 1 <= Len(s) THEN Len(s) - (n + 1) + 1 ELSE 0
      /\ \A i \in 1 .. Len(s) - (n + 1) + 1 : SubSeq(s, n + 1, Len(s))[i] = s[(n + 1) + i - 1]
  BY <1>1, SubSeqProperties
<1>3. QED BY <1>1, <1>2

\* The parts of a message that say which rows it is about.
LEMMA MessageType ==
    ASSUME NEW msg \in Messages
    PROVE  /\ msg.from \in Nat /\ msg.count \in Nat /\ msg.from <= numRows
           /\ msg.rows \in Seq(Row)
BY RowsRoom DEF Messages

\* A bound that grows stays a bound.
LEMMA StillBelow ==
    ASSUME NEW x \in Nat, NEW y \in Nat, NEW b \in Nat, NEW c \in Nat, x + y <= b
    PROVE  x + y <= b + c
OBVIOUS

\* A message that is about the next rows continues the others.
LEMMA ContinuesAppend ==
    ASSUME NEW s \in Seq(Messages), NEW msg \in Messages, NEW a \in Nat, NEW b \in Nat,
           Continues(s, a, b), msg.from = b, msg.kind # "corrections" => msg.count = 0
    PROVE  Continues(Append(s, msg), a, b + msg.count)
<1> DEFINE t == Append(s, msg)
<1>1. msg.from \in Nat /\ msg.count \in Nat /\ Len(s) \in Nat
  BY MessageType, LenProperties
<1>2. /\ t # <<>> /\ Len(t) = Len(s) + 1 /\ t[Len(s) + 1] = msg
      /\ \A m \in 1 .. Len(s) : t[m] = s[m] /\ s[m] \in Messages
  BY AppendProperties
<1> HIDE DEF t
<1>3. t[1].from = a
  BY <1>1, <1>2 DEF Continues
<1>4. ASSUME NEW m \in 1 .. Len(s) + 1
      PROVE  /\ t[m].from + t[m].count <= b + msg.count
             /\ t[m].kind # "corrections" => t[m].count = 0
             /\ m < Len(s) + 1 => t[m + 1].from = t[m].from + t[m].count
  <2>1. CASE m = Len(s) + 1
    BY <2>1, <1>1, <1>2
  <2>2. CASE m < Len(s)
    <3>1. m \in 1 .. Len(s) /\ m + 1 \in 1 .. Len(s)
      BY <1>1, <2>2
    <3>2. t[m] = s[m] /\ t[m + 1] = s[m + 1] /\ s[m].from \in Nat /\ s[m].count \in Nat
      BY <1>2, <3>1, MessageType
    <3>3. /\ s[m].from + s[m].count <= b
          /\ s[m].kind # "corrections" => s[m].count = 0
          /\ s[m + 1].from = s[m].from + s[m].count
      BY <2>2, <3>1 DEF Continues
    <3>4. s[m].from + s[m].count <= b + msg.count
      BY <1>1, <3>2, <3>3, StillBelow
    <3>5. QED BY <3>2, <3>3, <3>4
  <2>3. CASE m = Len(s)
    <3>1. m \in 1 .. Len(s) /\ s # <<>> /\ t[m] = s[m] /\ t[m + 1] = msg
      BY <1>1, <1>2, <2>3
    <3>2. /\ s[m].from + s[m].count = b
          /\ s[m].kind # "corrections" => s[m].count = 0
      BY <2>3, <3>1 DEF Continues
    <3>3. QED BY <1>1, <3>1, <3>2
  <2>4. QED BY <1>1, <2>1, <2>2, <2>3
<1>5. Continues(t, a, b + msg.count)
  BY <1>1, <1>2, <1>3, <1>4 DEF Continues
<1>6. QED BY <1>5 DEF t

\* When the first message is taken, the others continue where it ended.
LEMMA ContinuesTail ==
    ASSUME NEW s \in Seq(Messages), s # <<>>, NEW a \in Nat, NEW b \in Nat, Continues(s, a, b),
           NEW t \in Seq(Messages), Len(t) = Len(s) - 1,
           \A i \in 1 .. Len(s) - 1 : t[i] = s[i + 1]
    PROVE  /\ s[1].from = a /\ a + s[1].count <= b
           /\ Continues(t, a + s[1].count, b)
<1>1. Len(s) \in Nat \ {0} /\ \A m \in 1 .. Len(s) : s[m] \in Messages
  BY EmptySeq
<1>2. s[1].from = a /\ a + s[1].count <= b
  BY <1>1 DEF Continues
<1>3. CASE Len(s) = 1
  <2>1. t = <<>> /\ Len(t) = 0
    BY <1>3, EmptySeq
  <2>2. a + s[1].count = b
    BY <1>2, <1>3 DEF Continues
  <2>3. QED BY <1>2, <2>1, <2>2 DEF Continues
<1>4. CASE Len(s) > 1
  <2>1. Len(t) \in Nat \ {0} /\ t # <<>> /\ Len(t) + 1 = Len(s)
    BY <1>1, <1>4
  <2>2. t[1] = s[2] /\ t[Len(t)] = s[Len(s)]
    BY <1>1, <1>4, <2>1
  <2>3. t[1].from = a + s[1].count
    BY <1>1, <1>2, <1>4, <2>2 DEF Continues
  <2>4. ASSUME NEW m \in 1 .. Len(t)
        PROVE  /\ t[m].from + t[m].count <= b
               /\ t[m].kind # "corrections" => t[m].count = 0
               /\ m < Len(t) => t[m + 1].from = t[m].from + t[m].count
    <3>1. m + 1 \in 1 .. Len(s) /\ t[m] = s[m + 1]
      BY <1>1, <2>1
    <3>2. /\ s[m + 1].from + s[m + 1].count <= b
          /\ s[m + 1].kind # "corrections" => s[m + 1].count = 0
          /\ m + 1 < Len(s) => s[(m + 1) + 1].from = s[m + 1].from + s[m + 1].count
      BY <3>1 DEF Continues
    <3>3. ASSUME m < Len(t) PROVE t[m + 1] = s[(m + 1) + 1] /\ m + 1 < Len(s)
      <4>1. m + 1 \in 1 .. Len(s) - 1 /\ m + 1 < Len(s)
        BY <2>1, <3>3
      <4>2. QED BY <4>1
    <3>4. QED BY <3>1, <3>2, <3>3
  <2>5. QED BY <1>2, <2>1, <2>2, <2>3, <2>4 DEF Continues
<1>5. QED BY <1>1, <1>3, <1>4

-----------------------------------------------------------------------------
(* Every step preserves the invariant.                                     *)

\* A correction depends on the seeds and on the receiver's word alone.
LEMMA CorrectionFrame ==
    ASSUME baseVars' = baseVars, NEW i, mW'[i] = mW[i]
    PROVE  Correction(i)' = Correction(i)
BY DEF Correction, baseVars

LEMMA CorrectionsFrame ==
    ASSUME baseVars' = baseVars, mW' = mW
    PROVE  \A i : Correction(i)' = Correction(i)
BY DEF Correction, baseVars

LEMMA ChosenFrame ==
    ASSUME baseVars' = baseVars
    PROVE  \A i : Chosen(i)' = Chosen(i)
BY DEF Chosen, baseVars

LEMMA RowTypes ==
    ASSUME OtTypeOK, NEW i \in Rows
    PROVE  Chosen(i) \in Row /\ Correction(i) \in Row
<1>1. Chosen(i) \in Row
  BY DEF OtTypeOK, Chosen, Row
<1>2. Correction(i) \in Row
  BY EncodeType, XorType DEF OtTypeOK, Correction
<1>3. QED BY <1>1, <1>2

\* Zeroed matrices have the types of matrices.
LEMMA ZerosType == Zeros \in [Rows -> Row] /\ Zeros \in [Rows -> Word]
BY DEF Zeros, Row, Word

\* The steps that only move the receiver's stage, before init().
LEMMA ReceiverStageStep ==
    ASSUME IndInv, ~ Encoding, rStage' \in {"configured", "base"},
           UNCHANGED <<baseVars, mT0, mT1, mW, mEncodeFlags, rCorrectionIdx, sendVars, chanVars>>
    PROVE  IndInv'
<1> USE DEF IndInv, baseVars, sendVars, chanVars
<1>1. OtTypeOK'
  BY DEF OtTypeOK, ReceiverStages, Messages
<1>2. ReceiverRows' /\ Progress'
  BY DEF ReceiverRows, Progress, Encoding
<1>3. \A i : Correction(i)' = Correction(i) /\ Chosen(i)' = Chosen(i)
  BY CorrectionsFrame, ChosenFrame
<1>4. Stream' /\ WireRows' /\ SenderRows'
  BY <1>3 DEF Stream, WireRows, SenderRows, Correcting
<1>5. QED BY <1>1, <1>2, <1>4

\* The steps that only move the sender's stage, before init().
LEMMA SenderStageStep ==
    ASSUME IndInv, ~ Correcting, sStage' \in {"configured", "base"},
           UNCHANGED <<baseVars, recvVars, mT, mCorrectionVals, sCorrectionIdx, qSum,
                       corrected, relation, chanVars>>
    PROVE  IndInv'
<1> USE DEF IndInv, baseVars, recvVars, chanVars
<1>1. OtTypeOK'
  BY DEF OtTypeOK, SenderStages, Messages
<1>2. \A i : Correction(i)' = Correction(i) /\ Chosen(i)' = Chosen(i)
  BY CorrectionsFrame, ChosenFrame
<1>3. ReceiverRows' /\ Progress' /\ Stream' /\ WireRows'
  BY <1>2 DEF ReceiverRows, Progress, Stream, WireRows, Encoding
<1>4. SenderRows'
  BY <1>2 DEF SenderRows, Correcting
<1>5. QED BY <1>1, <1>3, <1>4

LEMMA ReceiverInitStep == ASSUME IndInv, receiverInit PROVE IndInv'
<1> USE DEF IndInv, receiverInit, baseVars, sendVars, chanVars
<1>1. OtTypeOK'
  BY ZerosType, RowsRoom DEF OtTypeOK, ReceiverStages, Messages
<1>2. ~ Encoding /\ outbound = <<>> /\ rCorrectionIdx = 0 /\ sCorrectionIdx = 0
      /\ onWire = 0 /\ corrected = {}
  BY DEF Encoding, Progress, Stream, Continues, OtTypeOK, SenderRows, Rows
<1>3. ReceiverRows'
  BY DEF ReceiverRows
<1>8. Progress'
  BY <1>2, RowsRoom, OtAssumption DEF Progress, Encoding, Rows
<1>4. Stream' /\ WireRows'
  BY <1>2 DEF Stream, Continues, WireRows
<1>5. \A i : Chosen(i)' = Chosen(i)
  BY ChosenFrame
<1>6. SenderRows'
  BY <1>2, <1>5 DEF SenderRows, Correcting, Rows
<1>7. QED BY <1>1, <1>3, <1>4, <1>6, <1>8

LEMMA SenderInitStep == ASSUME IndInv, senderInit PROVE IndInv'
<1> USE DEF IndInv, senderInit, baseVars, recvVars, chanVars
<1>1. sCorrectionIdx = 0
  BY DEF SenderRows, Correcting
<1>2. \A i : Correction(i)' = Correction(i) /\ Chosen(i)' = Chosen(i)
  BY CorrectionsFrame, ChosenFrame
<1>3. OtTypeOK'
  BY ZerosType, RowsRoom, RowTypes DEF OtTypeOK, SenderStages, Messages
<1>4. ReceiverRows' /\ Progress' /\ Stream' /\ WireRows'
  BY <1>1, <1>2 DEF ReceiverRows, Progress, Stream, WireRows, Encoding
<1>5. SenderRows'
  BY <1>2 DEF SenderRows, Correcting, Rows
<1>6. QED BY <1>3, <1>4, <1>5
\* otCorrection and zeroEncode, called once for a row.
LEMMA EncodeRowStep ==
    ASSUME IndInv, rStage = "ready",
           NEW i \in 0 .. numOTs - 1, NEW w \in Word, ~ mEncodeFlags[i],
           EncodeRow(i, w),
           UNCHANGED <<baseVars, rStage, mT0, rCorrectionIdx, sendVars, chanVars>>
    PROVE  IndInv'
<1> USE DEF IndInv, baseVars, sendVars, chanVars
<1>1. i \in Rows /\ rCorrectionIdx <= i /\ rCorrectionIdx \in Nat
  BY RowsRoom, OtAssumption DEF Progress, Rows, OtTypeOK
<1>2. mT1 \in [Rows -> Row] /\ mT0 \in [Rows -> Row] /\ mW \in [Rows -> Word]
      /\ mEncodeFlags \in [Rows -> BOOLEAN]
  BY DEF OtTypeOK
<1>3. \A j \in Rows : j # i => Correction(j)' = Correction(j)
  BY <1>1, <1>2 DEF EncodeRow, Correction
<1>4. mT0 = base0 /\ mT1[i] = base1[i] /\ mW'[i] = w
  BY <1>1, <1>2 DEF ReceiverRows, Encoding, EncodeRow
<1>5. mT1'[i] = Correction(i)'
  BY <1>1, <1>2, <1>4 DEF EncodeRow, Correction
<1>6. OtTypeOK'
  <2>1. (Encode(w) (+) mT0[i]) (+) mT1[i] \in Row
    BY <1>1, <1>2, EncodeType, XorType
  <2>2. mT1' \in [Rows -> Row] /\ mW' \in [Rows -> Word] /\ mEncodeFlags' \in [Rows -> BOOLEAN]
    BY <1>2, <2>1 DEF EncodeRow
  <2>3. QED BY <2>2 DEF OtTypeOK, Messages
<1>7. ReceiverRows'
  <2>1. \A j \in Rows : j # i => mT1'[j] = mT1[j] /\ mEncodeFlags'[j] = mEncodeFlags[j]
    BY <1>2 DEF EncodeRow
  <2>2. mEncodeFlags'[i]
    BY <1>1, <1>2 DEF EncodeRow
  <2>3. QED BY <1>3, <1>4, <1>5, <2>1, <2>2 DEF ReceiverRows, Encoding
<1>8. Progress'
  BY <1>1, <1>2, OtAssumption DEF Progress, Encoding, EncodeRow, Rows
<1>9. Stream'
  BY DEF Stream
<1>10. WireRows'
  <2>1. SUFFICES ASSUME NEW m \in 1 .. onWire, outbound[m].kind = "corrections", NEW j \in Rows,
                        outbound[m].from <= j, j < outbound[m].from + outbound[m].count
                 PROVE  outbound[m].rows[j - outbound[m].from + 1] = Correction(j)'
    BY DEF WireRows
  <2>2. m \in 1 .. Len(outbound) /\ outbound[m] \in Messages
    BY DEF OtTypeOK
  <2>3. outbound[m].from + outbound[m].count <= rCorrectionIdx
    BY <2>2 DEF Stream, Continues
  <2>4. j # i
    BY <1>1, <2>1, <2>2, <2>3, MessageType DEF Rows
  <2>5. QED BY <1>3, <2>1, <2>4 DEF WireRows
<1>11. SenderRows'
  <2>1. \A j \in Rows : j < sCorrectionIdx => j # i
    BY <1>1 DEF Stream, OtTypeOK
  <2>2. \A j \in Rows : Chosen(j)' = Chosen(j)
    BY ChosenFrame
  <2>3. QED BY <1>3, <2>1, <2>2 DEF SenderRows, Correcting, OtTypeOK
<1>12. QED BY <1>6, <1>7, <1>8, <1>9, <1>10, <1>11

LEMMA SendCorrectionStep ==
    ASSUME IndInv, NEW c \in 1 .. numOTs - rCorrectionIdx,
           \A i \in rCorrectionIdx .. rCorrectionIdx + c - 1 : mEncodeFlags[i],
           sendCorrection(c)
    PROVE  IndInv'
<1> USE DEF IndInv, sendCorrection, baseVars, sendVars
<1> DEFINE msg == Corrections(rCorrectionIdx, c)
<1>1. /\ rCorrectionIdx \in Nat /\ rCorrectionIdx + c <= numOTs /\ c \in Nat
      /\ rCorrectionIdx + c <= numRows /\ numOTs \in Nat /\ numRows \in Nat
      /\ outbound \in Seq(Messages) /\ Len(outbound) \in Nat
  BY RowsRoom, OtAssumption DEF OtTypeOK
<1>2. msg \in Messages /\ msg.from = rCorrectionIdx /\ msg.count = c /\ msg.kind = "corrections"
  BY <1>1 DEF Corrections, Message, NoSums, Messages, Row, Word
<1> HIDE DEF msg
<1>3. /\ outbound' \in Seq(Messages) /\ Len(outbound') = Len(outbound) + 1 /\ outbound' # <<>>
      /\ \A m \in 1 .. Len(outbound) : outbound'[m] = outbound[m]
      /\ outbound'[Len(outbound) + 1] = msg
  BY <1>1, <1>2, AppendProperties DEF msg
<1>4. \A i : Correction(i)' = Correction(i) /\ Chosen(i)' = Chosen(i)
  BY CorrectionsFrame, ChosenFrame
<1>5. OtTypeOK'
  BY <1>1, <1>3 DEF OtTypeOK
<1>6. ReceiverRows'
  BY <1>4 DEF ReceiverRows, Encoding
<1>7. Progress'
  BY <1>1 DEF Progress, Encoding, Rows
<1>8. Stream'
  <2>1. sCorrectionIdx <= rCorrectionIdx'
    BY <1>1 DEF Stream, OtTypeOK
  <2>2. sCorrectionIdx \in Nat /\ Continues(outbound, sCorrectionIdx, rCorrectionIdx)
    BY DEF Stream, OtTypeOK
  <2>3. Continues(Append(outbound, msg), sCorrectionIdx, rCorrectionIdx + msg.count)
    BY <1>1, <1>2, <2>2, ContinuesAppend
  <2>4. QED BY <1>2, <2>1, <2>3 DEF Stream, msg
<1>9. WireRows'
  BY <1>1, <1>3, <1>4 DEF WireRows, OtTypeOK
<1>10. SenderRows'
  BY <1>4 DEF SenderRows, Correcting
<1>11. QED BY <1>5, <1>6, <1>7, <1>8, <1>9, <1>10
LEMMA ReceiverCheckStep ==
    ASSUME IndInv, NEW words \in [Extra -> Word], rCorrectionIdx = numOTs, receiverCheck(words)
    PROVE  IndInv'
<1> USE DEF IndInv, receiverCheck, baseVars, sendVars
<1> DEFINE extra == rCorrectionIdx .. rCorrectionIdx + mStatSecParam - 1
           byte  == ZeroByte(rCorrectionIdx)
           msg   == Corrections(rCorrectionIdx, mStatSecParam)
           mid   == Append(outbound, byte)
<1>1. /\ numOTs \in Nat /\ mStatSecParam \in Nat \ {0} /\ numRows \in Nat
      /\ numOTs + mStatSecParam <= numRows /\ sCorrectionIdx \in Nat /\ rCorrectionIdx \in Nat
      /\ outbound \in Seq(Messages) /\ Len(outbound) \in Nat
  BY RowsRoom, OtAssumption DEF OtTypeOK
<1>2. /\ byte \in Messages /\ byte.from = rCorrectionIdx /\ byte.count = 0 /\ byte.kind = "byte"
      /\ msg \in Messages /\ msg.from = rCorrectionIdx /\ msg.count = mStatSecParam
      /\ msg.kind = "corrections"
  BY <1>1 DEF Corrections, ZeroByte, Message, NoSums, Messages, Row, Word
<1>3. outbound' = Append(mid, msg)
  <2>1. byte \in Messages /\ msg \in Messages /\ outbound' = outbound \o <<byte, msg>>
    BY <1>2
  <2> HIDE DEF byte, msg
  <2>2. QED BY <1>1, <2>1
<1> HIDE DEF byte, msg
<1>4. /\ mid \in Seq(Messages) /\ Len(mid) = Len(outbound) + 1
      /\ \A m \in 1 .. Len(outbound) : mid[m] = outbound[m]
  BY <1>1, <1>2, AppendProperties
<1> HIDE DEF mid
<1>5. /\ outbound' \in Seq(Messages) /\ Len(outbound') = Len(outbound) + 2 /\ outbound' # <<>>
      /\ \A m \in 1 .. Len(outbound) : outbound'[m] = outbound[m]
  <2>1. /\ Append(mid, msg) \in Seq(Messages) /\ Append(mid, msg) # <<>>
        /\ Len(Append(mid, msg)) = Len(mid) + 1
        /\ \A m \in 1 .. Len(mid) : Append(mid, msg)[m] = mid[m]
    BY <1>2, <1>4, AppendProperties
  <2>2. \A m \in 1 .. Len(outbound) : m \in 1 .. Len(mid)
    BY <1>1, <1>4
  <2> HIDE DEF receiverCheck
  <2>3. /\ outbound' \in Seq(Messages) /\ outbound' # <<>>
        /\ Len(outbound') = Len(outbound) + 2
    BY <1>1, <1>3, <1>4, <2>1
  <2>4. \A m \in 1 .. Len(outbound) : outbound'[m] = outbound[m]
    BY <1>3, <1>4, <2>1, <2>2
  <2>5. QED BY <2>3, <2>4
<1>6. /\ mT1 \in [Rows -> Row] /\ mT0 \in [Rows -> Row] /\ mW \in [Rows -> Word]
      /\ mEncodeFlags \in [Rows -> BOOLEAN]
      /\ mT0 = base0
      /\ \A i \in extra : i \in Rows /\ mT1[i] = base1[i] /\ i - rCorrectionIdx \in Extra
  BY <1>1 DEF OtTypeOK, ReceiverRows, Encoding, Progress, Rows, Extra
<1>7. \A i \in Rows : i \notin extra => Correction(i)' = Correction(i)
  BY <1>6 DEF Correction
<1>8. \A i \in extra : mT1'[i] = Correction(i)'
  BY <1>6 DEF Correction
<1>9. OtTypeOK'
  <2>1. \A i \in extra : (Encode(words[i - rCorrectionIdx]) (+) mT0[i]) (+) mT1[i] \in Row
    BY <1>6, EncodeType, XorType
  <2>2. mT1' \in [Rows -> Row]
    BY <1>6, <2>1
  <2>3. mW' \in [Rows -> Word] /\ mEncodeFlags' \in [Rows -> BOOLEAN]
    BY <1>6
  <2>4. QED BY <1>1, <1>5, <2>2, <2>3 DEF OtTypeOK, ReceiverStages
<1>10. ReceiverRows'
  <2>1. \A i \in Rows : i \notin extra => mT1'[i] = mT1[i] /\ (mEncodeFlags'[i] <=> mEncodeFlags[i])
    BY <1>6
  <2>2. \A i \in extra : mEncodeFlags'[i]
    BY <1>6
  <2>3. QED BY <1>6, <1>7, <1>8, <2>1, <2>2 DEF ReceiverRows, Encoding
<1>11. Progress'
  <2>1. \A i \in Rows : mEncodeFlags'[i] <=> (i \in extra \/ mEncodeFlags[i])
    BY <1>6
  <2>2. \A i \in Rows : i < rCorrectionIdx' => i < rCorrectionIdx \/ i \in extra
    BY <1>1 DEF Rows
  <2>3. \A i \in Rows : i < rCorrectionIdx' => mEncodeFlags'[i]
    BY <2>1, <2>2 DEF Progress
  <2>4. QED BY <1>1, <2>3 DEF Progress, Encoding
<1>12. Stream'
  <2>1. Continues(mid, sCorrectionIdx, rCorrectionIdx)
    <3>1. Continues(mid, sCorrectionIdx, rCorrectionIdx + byte.count)
      BY <1>1, <1>2, ContinuesAppend DEF Stream, mid
    <3>2. QED BY <1>1, <1>2, <3>1
  <2>2. Continues(outbound', sCorrectionIdx, rCorrectionIdx + msg.count)
    <3>1. Continues(Append(mid, msg), sCorrectionIdx, rCorrectionIdx + msg.count)
      BY <1>1, <1>2, <1>4, <2>1, ContinuesAppend
    <3>2. QED BY <1>3, <3>1
  <2>3. QED BY <1>1, <1>2, <2>2 DEF Stream
<1>13. WireRows'
  <2>1. SUFFICES ASSUME NEW m \in 1 .. onWire, outbound[m].kind = "corrections", NEW j \in Rows,
                        outbound[m].from <= j, j < outbound[m].from + outbound[m].count
                 PROVE  outbound[m].rows[j - outbound[m].from + 1] = Correction(j)'
    BY <1>5 DEF WireRows, OtTypeOK
  <2>2. m \in 1 .. Len(outbound) /\ outbound[m] \in Messages
    BY DEF OtTypeOK
  <2>3. outbound[m].from + outbound[m].count <= rCorrectionIdx
    BY <2>2 DEF Stream, Continues
  <2>4. j < rCorrectionIdx
    <3>1. outbound[m].from \in Nat /\ outbound[m].count \in Nat /\ j \in Nat
      BY <1>1, <2>2, MessageType DEF Rows
    <3>2. QED BY <1>1, <2>1, <2>3, <3>1, RowNumber
  <2>5. j \notin extra
    BY <1>1, <2>4
  <2>6. QED BY <1>7, <2>1, <2>5 DEF WireRows
<1>14. SenderRows'
  <2>1. \A j \in Rows : j < sCorrectionIdx => j \notin extra
    BY <1>1 DEF Stream, OtTypeOK
  <2>2. \A j \in Rows : Chosen(j)' = Chosen(j)
    BY ChosenFrame
  <2>3. QED BY <1>7, <2>1, <2>2 DEF SenderRows, Correcting, OtTypeOK
<1>15. QED BY <1>9, <1>10, <1>11, <1>12, <1>13, <1>14

\* The sums of the words are words.
LEMMA WordSumsType ==
    ASSUME NEW x, NEW n, \A l \in Extra : mW[n + l] \in Word
    PROVE  WordSums(x, n) \in [Extra -> Word]
<1> DEFINE s(l, b) == l * plaintextBlkSize + b
           Added(l, c) == XorOver(x[s(l, c[1])], [i \in 0 .. n - 1 |-> BlockOfW(i, c[1])], {c})
           add(l) == {c \in WordBits : s(l, c[1]) \in Extra /\ c \in Added(l, c)}
<1>1. WordSums(x, n) = [l \in Extra |-> mW[n + l] (+) add(l)]
  BY DEF WordSums
<1>2. \A l : add(l) \subseteq WordBits
  OBVIOUS
<1> HIDE DEF add
<1>3. \A l \in Extra : mW[n + l] (+) add(l) \in Word
  BY <1>2 DEF Word, (+)
<1>4. QED BY <1>1, <1>3

LEMMA ReceiverAnswerStep == ASSUME IndInv, receiverAnswer PROVE IndInv'
<1> USE DEF IndInv, receiverAnswer, baseVars, sendVars
<1> DEFINE x   == Head(inbound)
           n   == rCorrectionIdx - mStatSecParam
           t   == ChallengeSums(x, n, mT0, CodeBits)
           w   == WordSums(x, n)
           msg == Sums(rCorrectionIdx, t, w)
<1>1. /\ rCorrectionIdx \in Nat /\ rCorrectionIdx <= numRows /\ sCorrectionIdx \in Nat
      /\ numRows \in Nat /\ rCorrectionIdx = numOTs + mStatSecParam
      /\ mStatSecParam \in Nat /\ numOTs \in Nat
      /\ outbound \in Seq(Messages) /\ Len(outbound) \in Nat
  BY RowsRoom, OtAssumption DEF OtTypeOK, Progress
<1>2. \A l \in Extra : n + l \in Rows
  BY <1>1 DEF Extra, Rows
<1>3. t \in [Extra -> Row] /\ w \in [Extra -> Word]
  <2>1. \A l \in Extra : mT0[n + l] (+) XorOver(x[l], mT0, CodeBits) \in Row
    BY <1>2, SumType, XorType DEF OtTypeOK, Row
  <2>2. t \in [Extra -> Row]
    BY <2>1 DEF ChallengeSums
  <2>3. \A l \in Extra : mW[n + l] \in Word
    BY <1>2 DEF OtTypeOK
  <2>4. w \in [Extra -> Word]
    BY <2>3, WordSumsType
  <2>5. QED BY <2>2, <2>4
<1> HIDE DEF t, w
<1>4. msg \in Messages /\ msg.from = rCorrectionIdx /\ msg.count = 0 /\ msg.kind = "sums"
  BY <1>1, <1>3 DEF Sums, Message, Messages
<1>5. outbound' = Append(outbound, msg)
  BY DEF t, w
<1> HIDE DEF msg
<1>6. /\ outbound' \in Seq(Messages) /\ Len(outbound') = Len(outbound) + 1 /\ outbound' # <<>>
      /\ \A m \in 1 .. Len(outbound) : outbound'[m] = outbound[m]
  BY <1>1, <1>4, <1>5, AppendProperties
<1>7. \A i : Correction(i)' = Correction(i) /\ Chosen(i)' = Chosen(i)
  BY CorrectionsFrame, ChosenFrame
<1>8. OtTypeOK'
  BY <1>1, <1>6 DEF OtTypeOK, ReceiverStages
<1>9. ReceiverRows' /\ Progress'
  BY <1>7 DEF ReceiverRows, Progress, Encoding
<1>10. Stream'
  <2>1. Continues(outbound', sCorrectionIdx, rCorrectionIdx + msg.count)
    BY <1>1, <1>4, <1>5, ContinuesAppend DEF Stream
  <2>2. QED BY <1>1, <1>4, <2>1 DEF Stream
<1>11. WireRows'
  BY <1>1, <1>6, <1>7 DEF WireRows, OtTypeOK
<1>12. SenderRows'
  BY <1>7 DEF SenderRows, Correcting
<1>13. QED BY <1>8, <1>9, <1>10, <1>11, <1>12
LEMMA TransmitStep == ASSUME IndInv, asyncPerformSend PROVE IndInv'
<1> USE DEF IndInv, asyncPerformSend, baseVars, recvVars, sendVars
<1> DEFINE n   == onWire + 1
           op  == outbound[n]
           new == outbound'[n]
<1>1. /\ n \in 1 .. Len(outbound) /\ outbound \in Seq(Messages) /\ op \in Messages
      /\ onWire \in Nat /\ Len(outbound) \in Nat
  BY DEF OtTypeOK
<1>2. /\ op.from \in Nat /\ op.count \in Nat /\ op.from + op.count <= rCorrectionIdx
      /\ rCorrectionIdx \in Nat /\ rCorrectionIdx <= numRows /\ numRows \in Nat
  BY <1>1, MessageType, RowsRoom DEF Stream, Continues, OtTypeOK
<1>3. Encoding
  BY <1>1 DEF Progress
<1>4. \A i \in Rows : i < rCorrectionIdx => mT1[i] = Correction(i)
  BY <1>3 DEF ReceiverRows, Progress
<1> DEFINE rows  == [j \in 1 .. op.count |-> mT1[op.from + j - 1]]
           after == IF op.kind = "corrections" THEN [op EXCEPT !.rows = rows] ELSE op
<1>5. rows \in Seq(Row)
  <2>1. \A j \in 1 .. op.count : op.from + j - 1 \in Rows
    <3>1. op.from + op.count <= numRows
      BY <1>2
    <3>2. QED BY <1>2, <3>1, RowNumber, SMTT(30) DEF Rows
  <2>2. \A j \in 1 .. op.count : mT1[op.from + j - 1] \in Row
    BY <2>1 DEF OtTypeOK
  <2>3. rows \in [1 .. op.count -> Row]
    BY <2>2
  <2> HIDE DEF rows
  <2>4. QED BY <1>2, <2>3, SeqDef
<1>6. after \in Messages
  BY <1>1, <1>5 DEF Messages
<1>7. outbound' = [outbound EXCEPT ![n] = after]
  <2>1. CASE op.kind = "corrections"
    BY <2>1
  <2>2. CASE op.kind # "corrections"
    <3>1. outbound \in [1 .. Len(outbound) -> Messages]
      BY <1>1, LenProperties
    <3>2. QED BY <1>1, <2>2, <3>1
  <2>3. QED BY <2>1, <2>2
<1>8. /\ outbound' \in Seq(Messages) /\ Len(outbound') = Len(outbound)
      /\ \A m \in 1 .. Len(outbound) : outbound'[m] = IF m = n THEN after ELSE outbound[m]
  BY <1>1, <1>6, <1>7, ExceptSeq
<1>9. \A m \in 1 .. Len(outbound) :
        /\ outbound'[m].from = outbound[m].from /\ outbound'[m].count = outbound[m].count
        /\ outbound'[m].kind = outbound[m].kind
  <2>1. after.from = op.from /\ after.count = op.count /\ after.kind = op.kind
    BY <1>1 DEF Messages
  <2> HIDE DEF after
  <2>2. QED BY <1>8, <2>1
<1>10. \A i : Correction(i)' = Correction(i) /\ Chosen(i)' = Chosen(i)
  BY CorrectionsFrame, ChosenFrame
<1>11. OtTypeOK'
  BY <1>1, <1>8 DEF OtTypeOK
<1>12. outbound # <<>> /\ outbound' # <<>>
  BY <1>1, <1>8
<1>13. ReceiverRows' /\ Progress'
  BY <1>3, <1>10 DEF ReceiverRows, Progress, Encoding
<1>14. Stream'
  <2>1. Continues(outbound', sCorrectionIdx, rCorrectionIdx)
    BY <1>1, <1>8, <1>9, <1>12 DEF Stream, Continues
  <2>2. QED BY <2>1 DEF Stream
<1>15. WireRows'
  <2>1. SUFFICES ASSUME NEW m \in 1 .. n, outbound'[m].kind = "corrections", NEW i \in Rows,
                        outbound[m].from <= i, i < outbound[m].from + outbound[m].count
                 PROVE  outbound'[m].rows[i - outbound[m].from + 1] = Correction(i)
    BY <1>1, <1>9, <1>10 DEF WireRows
  <2>2. CASE m = n
    <3>1. outbound'[m].rows = rows
      BY <1>1, <1>8, <2>1, <2>2, <1>9 DEF Messages
    <3>2. i \in Nat /\ op.from <= i /\ i < op.from + op.count
      BY <1>2, <2>1, <2>2 DEF Rows
    <3>3. /\ i - op.from + 1 \in 1 .. op.count /\ op.from + (i - op.from + 1) - 1 = i
          /\ i < rCorrectionIdx
      BY <1>2, <3>2, RowNumber
    <3>4. rows[i - op.from + 1] = mT1[i]
      BY <3>3
    <3> HIDE DEF rows
    <3>5. QED BY <1>4, <2>2, <3>1, <3>3, <3>4
  <2>3. CASE m # n
    <3>1. m \in 1 .. onWire /\ outbound'[m] = outbound[m]
      BY <1>1, <1>8, <2>3
    <3>2. QED BY <2>1, <3>1 DEF WireRows
  <2>4. QED BY <2>2, <2>3
<1>16. SenderRows'
  BY <1>10 DEF SenderRows, Correcting
<1>17. QED BY <1>11, <1>13, <1>14, <1>15, <1>16
\* The sender takes the n first messages, of which only the last has rows.
LEMMA ReceivedStream ==
    ASSUME IndInv, UNCHANGED <<baseVars, recvVars>>, NEW n \in {1, 2}, n <= onWire,
           n = 2 => outbound[1].kind # "corrections",
           Received(n), sCorrectionIdx' = sCorrectionIdx + outbound[n].count
    PROVE  /\ outbound' \in Seq(Messages) /\ onWire' \in 0 .. Len(outbound')
           /\ outbound[n] \in Messages /\ outbound[n].from = sCorrectionIdx
           /\ sCorrectionIdx' \in Nat /\ sCorrectionIdx' <= rCorrectionIdx
           /\ ReceiverRows' /\ Progress' /\ Stream' /\ WireRows'
<1> USE DEF IndInv, baseVars, recvVars
<1> DEFINE s == outbound
           t == SubSeq(outbound, 1 + 1, Len(outbound))
           u == SubSeq(outbound, n + 1, Len(outbound))
           b == rCorrectionIdx
<1>1. /\ s \in Seq(Messages) /\ Len(s) \in Nat /\ n <= Len(s) /\ n \in Nat /\ s # <<>>
      /\ onWire \in Nat /\ onWire <= Len(s) /\ sCorrectionIdx \in Nat /\ b \in Nat
      /\ \A m \in 1 .. Len(s) : s[m] \in Messages
  BY RowsRoom DEF OtTypeOK
<1>2. /\ t \in Seq(Messages) /\ Len(t) = Len(s) - 1
      /\ \A i \in 1 .. Len(s) - 1 : t[i] = s[i + 1]
  <2>1. 1 \in 0 .. Len(s)
    BY <1>1
  <2>2. QED BY <1>1, <2>1, Drop
<1>3. /\ u \in Seq(Messages) /\ Len(u) = Len(s) - n
      /\ \A i \in 1 .. Len(s) - n : u[i] = s[i + n]
  <2>1. n \in 0 .. Len(s)
    BY <1>1
  <2>2. QED BY <1>1, <2>1, Drop
<1>4. outbound' = u /\ onWire' = onWire - n
  BY DEF Received
<1> HIDE DEF t, u
<1>5. Continues(s, sCorrectionIdx, b)
  BY DEF Stream
<1>6. /\ s[1].from = sCorrectionIdx /\ sCorrectionIdx + s[1].count <= b
      /\ Continues(t, sCorrectionIdx + s[1].count, b)
  BY <1>1, <1>2, <1>5, ContinuesTail
<1>7. /\ s[n].from = sCorrectionIdx /\ sCorrectionIdx + s[n].count <= b
      /\ Continues(u, sCorrectionIdx + s[n].count, b)
  <2>1. CASE n = 1
    BY <1>6, <2>1 DEF t, u
  <2>2. CASE n = 2
    <3>1. s[1].count = 0 /\ sCorrectionIdx + s[1].count = sCorrectionIdx
      BY <1>1, <1>5, <2>2 DEF Continues
    <3>2. t # <<>> /\ t[1] = s[2] /\ Len(u) = Len(t) - 1
          /\ \A i \in 1 .. Len(t) - 1 : u[i] = t[i + 1]
      BY <1>1, <1>2, <1>3, <2>2
    <3>3. t \in Seq(Messages) /\ u \in Seq(Messages) /\ sCorrectionIdx \in Nat /\ b \in Nat
      BY <1>1, <1>2, <1>3
    <3>4. Continues(t, sCorrectionIdx, b)
      BY <1>6, <3>1
    <3> HIDE DEF s, b
    <3>5. /\ t[1].from = sCorrectionIdx /\ sCorrectionIdx + t[1].count <= b
          /\ Continues(u, sCorrectionIdx + t[1].count, b)
      BY <3>2, <3>3, <3>4, ContinuesTail
    <3>6. QED BY <2>2, <3>2, <3>5
  <2>3. QED BY <2>1, <2>2
<1>8. s[n] \in Messages /\ s[n].count \in Nat
  BY <1>1, MessageType
<1>9. onWire' \in 0 .. Len(outbound')
  BY <1>1, <1>3, <1>4
<1>10. Stream'
  BY <1>4, <1>7 DEF Stream
<1>11. \A i : Correction(i)' = Correction(i)
  BY CorrectionsFrame
<1>12. ReceiverRows'
  BY <1>11 DEF ReceiverRows, Encoding
<1>13. Progress'
  <2>1. Encoding
    BY <1>1 DEF Progress
  <2>2. QED BY <2>1 DEF Progress, Encoding
<1>14. WireRows'
  <2>1. SUFFICES ASSUME NEW m \in 1 .. onWire - n
                 PROVE  outbound'[m].kind = "corrections" =>
                          \A i \in Rows :
                            outbound'[m].from <= i /\ i < outbound'[m].from + outbound'[m].count =>
                              outbound'[m].rows[i - outbound'[m].from + 1] = Correction(i)
    BY <1>4, <1>11 DEF WireRows
  <2>2. m + n \in 1 .. onWire /\ m \in 1 .. Len(s) - n
    BY <1>1
  <2>3. outbound'[m] = s[m + n]
    BY <1>3, <1>4, <2>2
  <2>4. QED BY <2>2, <2>3 DEF WireRows
<1>15. QED BY <1>1, <1>3, <1>4, <1>7, <1>8, <1>9, <1>10, <1>12, <1>13, <1>14

\* Its rows go to their places.
LEMMA StoreRows ==
    ASSUME IndInv, UNCHANGED <<baseVars, recvVars>>, NEW n \in 1 .. onWire,
           outbound[n].kind = "corrections", outbound[n] \in Messages,
           outbound[n].from = sCorrectionIdx,
           sCorrectionIdx + outbound[n].count <= rCorrectionIdx,
           Store(outbound[n])
    PROVE  /\ mCorrectionVals' \in [Rows -> Row]
           /\ sCorrectionIdx' = sCorrectionIdx + outbound[n].count
           /\ \A i \in Rows : i < sCorrectionIdx' => mCorrectionVals'[i] = Correction(i)'
<1> USE DEF IndInv, baseVars, recvVars
<1> DEFINE msg == outbound[n]
           new == sCorrectionIdx .. sCorrectionIdx + msg.count - 1
<1>1. sCorrectionIdx \in Nat /\ msg.count \in Nat /\ msg.from = sCorrectionIdx
  BY MessageType DEF OtTypeOK
<1>2. /\ sCorrectionIdx' = sCorrectionIdx + msg.count
      /\ mCorrectionVals' = [i \in Rows |-> IF i \in new THEN msg.rows[i - sCorrectionIdx + 1]
                                            ELSE mCorrectionVals[i]]
  BY DEF Store
<1> HIDE DEF msg
<1>3. \A i \in Rows : i \in new => msg.rows[i - sCorrectionIdx + 1] = Correction(i)
  BY <1>1 DEF WireRows, msg
<1>4. \A i \in Rows : i < sCorrectionIdx' => i \in new \/ i < sCorrectionIdx
  BY <1>1, <1>2 DEF Rows
<1>5. \A i : Correction(i)' = Correction(i)
  BY CorrectionsFrame
<1>6. \A i \in Rows : i < sCorrectionIdx' => mCorrectionVals'[i] = Correction(i)'
  BY <1>1, <1>2, <1>3, <1>4, <1>5 DEF SenderRows
<1>7. mCorrectionVals' \in [Rows -> Row]
  BY <1>2, <1>3, RowTypes DEF OtTypeOK
<1>8. QED BY <1>2, <1>6, <1>7 DEF msg

LEMMA RecvCorrectionStep ==
    ASSUME IndInv, NEW c \in 1 .. numOTs, recvCorrection(c)
    PROVE  IndInv'
<1> USE DEF IndInv, recvCorrection, Arrived
<1>1. /\ onWire \in Nat /\ 1 <= onWire /\ 1 \in 1 .. onWire /\ outbound # <<>>
      /\ Head(outbound) = outbound[1] /\ outbound[1].kind = "corrections"
      /\ corrected' = corrected /\ sStage' = sStage /\ mT' = mT /\ relation' = relation
      /\ UNCHANGED <<baseVars, recvVars>> /\ Received(1)
  BY DEF OtTypeOK
<1>2. Store(outbound[1]) /\ sCorrectionIdx' = sCorrectionIdx + outbound[1].count
  BY <1>1 DEF Store
<1> HIDE DEF recvCorrection
<1>3. /\ outbound' \in Seq(Messages) /\ onWire' \in 0 .. Len(outbound')
      /\ outbound[1] \in Messages /\ outbound[1].from = sCorrectionIdx
      /\ sCorrectionIdx' \in Nat /\ sCorrectionIdx' <= rCorrectionIdx
      /\ ReceiverRows' /\ Progress' /\ Stream' /\ WireRows'
  BY <1>1, <1>2, ReceivedStream
<1>4. /\ mCorrectionVals' \in [Rows -> Row]
      /\ \A i \in Rows : i < sCorrectionIdx' => mCorrectionVals'[i] = Correction(i)'
  BY <1>1, <1>2, <1>3, StoreRows
<1>5. OtTypeOK'
  BY <1>1, <1>3, <1>4, RowsRoom DEF OtTypeOK, baseVars, recvVars
<1>6. SenderRows'
  <2>1. Correcting /\ Correcting'
    BY <1>1 DEF Correcting, recvCorrection
  <2>2. \A i : Correction(i)' = Correction(i) /\ Chosen(i)' = Chosen(i)
    BY <1>1, CorrectionsFrame, ChosenFrame DEF recvVars
  <2>3. \A i \in corrected : i < sCorrectionIdx'
    <3>1. outbound[1].count \in Nat /\ sCorrectionIdx \in Nat
      BY <1>3, MessageType DEF OtTypeOK
    <3>2. \A i \in corrected : i \in Int /\ i < sCorrectionIdx
      BY RowsRoom DEF OtTypeOK, SenderRows, Rows
    <3>3. QED BY <1>2, <3>1, <3>2
  <2>4. mChoiceBlks' = mChoiceBlks
    BY <1>1 DEF baseVars
  <2>5. QED BY <1>1, <1>4, <2>1, <2>2, <2>3, <2>4 DEF SenderRows
<1>7. QED BY <1>3, <1>5, <1>6
LEMMA SenderCheckStep ==
    ASSUME IndInv, NEW x, senderCheck(x)
    PROVE  IndInv'
<1> USE DEF IndInv
<1>1. /\ onWire \in Nat /\ 2 <= onWire /\ 2 \in 1 .. onWire
      /\ outbound[1].kind # "corrections" /\ outbound[2].kind = "corrections"
      /\ corrected' = corrected /\ sStage = "ready" /\ sStage' = "challenged"
      /\ mT' = mT /\ relation' = relation
      /\ UNCHANGED <<baseVars, recvVars>> /\ Received(2)
  BY DEF OtTypeOK, senderCheck
<1>2. Store(outbound[2]) /\ sCorrectionIdx' = sCorrectionIdx + outbound[2].count
  BY DEF Store, senderCheck
<1>3. /\ outbound' \in Seq(Messages) /\ onWire' \in 0 .. Len(outbound')
      /\ outbound[2] \in Messages /\ outbound[2].from = sCorrectionIdx
      /\ sCorrectionIdx' \in Nat /\ sCorrectionIdx' <= rCorrectionIdx
      /\ ReceiverRows' /\ Progress' /\ Stream' /\ WireRows'
  BY <1>1, <1>2, ReceivedStream
<1>4. /\ mCorrectionVals' \in [Rows -> Row]
      /\ \A i \in Rows : i < sCorrectionIdx' => mCorrectionVals'[i] = Correction(i)'
  BY <1>1, <1>2, <1>3, StoreRows
<1>5. OtTypeOK'
  BY <1>1, <1>3, <1>4, RowsRoom DEF OtTypeOK, SenderStages, baseVars, recvVars
<1>6. SenderRows'
  <2>1. Correcting /\ Correcting'
    BY <1>1 DEF Correcting
  <2>2. \A i : Correction(i)' = Correction(i) /\ Chosen(i)' = Chosen(i)
    BY <1>1, CorrectionsFrame, ChosenFrame DEF recvVars
  <2>3. \A i \in corrected : i < sCorrectionIdx'
    <3>1. outbound[2].count \in Nat /\ sCorrectionIdx \in Nat
      BY <1>3, MessageType DEF OtTypeOK
    <3>2. \A i \in corrected : i \in Int /\ i < sCorrectionIdx
      BY RowsRoom DEF OtTypeOK, SenderRows, Rows
    <3>3. QED BY <1>2, <3>1, <3>2
  <2>4. mChoiceBlks' = mChoiceBlks
    BY <1>1 DEF baseVars
  <2>5. QED BY <1>1, <1>4, <2>1, <2>2, <2>3, <2>4 DEF SenderRows
<1>7. QED BY <1>3, <1>5, <1>6

LEMMA SenderVerifyStep == ASSUME IndInv, senderVerify PROVE IndInv'
<1> USE DEF IndInv
<1>1. /\ onWire \in Nat /\ 1 <= onWire /\ 1 \in 1 .. Len(outbound)
      /\ outbound[1].kind = "sums"
      /\ corrected' = corrected /\ sStage = "challenged" /\ sStage' = "checked"
      /\ mT' = mT /\ relation' \in {"holds", "fails"}
      /\ mCorrectionVals' = mCorrectionVals /\ sCorrectionIdx' = sCorrectionIdx
      /\ UNCHANGED <<baseVars, recvVars>> /\ Received(1)
  BY DEF OtTypeOK, senderVerify, Arrived
<1>2. sCorrectionIdx' = sCorrectionIdx + outbound[1].count
  <2>1. outbound[1].count = 0
    BY <1>1 DEF Stream, Continues
  <2>2. QED BY <1>1, <2>1 DEF OtTypeOK
<1>3. /\ outbound' \in Seq(Messages) /\ onWire' \in 0 .. Len(outbound')
      /\ ReceiverRows' /\ Progress' /\ Stream' /\ WireRows'
  BY <1>1, <1>2, ReceivedStream
<1>4. OtTypeOK'
  BY <1>1, <1>3 DEF OtTypeOK, SenderStages, baseVars, recvVars
<1>5. \A i : Correction(i)' = Correction(i) /\ Chosen(i)' = Chosen(i)
  BY <1>1, CorrectionsFrame, ChosenFrame DEF recvVars
<1>6. SenderRows'
  BY <1>1, <1>5 DEF SenderRows, Correcting, baseVars
<1>7. QED BY <1>3, <1>4, <1>6

LEMMA SenderCorrectionStep ==
    ASSUME IndInv, NEW i \in (0 .. numOTs - 1) \ corrected, i < sCorrectionIdx,
           senderOtCorrection(i)
    PROVE  IndInv'
<1> USE DEF IndInv, senderOtCorrection, baseVars, recvVars, chanVars
<1>1. i \in Rows
  BY RowsRoom, OtAssumption DEF Rows
<1>2. \A j : Correction(j)' = Correction(j) /\ Chosen(j)' = Chosen(j)
  BY CorrectionsFrame, ChosenFrame
<1>3. mT \in [Rows -> Row] /\ mT[i] = Chosen(i) /\ mCorrectionVals[i] = Correction(i)
      /\ Correcting /\ Correcting'
  BY <1>1 DEF OtTypeOK, SenderRows, Correcting
<1>4. Correction(i) \cap mChoiceBlks \in Row /\ Chosen(i) \in Row
  BY <1>1, RowTypes DEF Row
<1>5. OtTypeOK'
  <2>1. mT' \in [Rows -> Row]
    BY <1>3, <1>4, XorType
  <2>2. corrected' \in SUBSET Rows
    BY <1>1 DEF OtTypeOK
  <2>3. QED BY <2>1, <2>2 DEF OtTypeOK, Messages
<1>6. ReceiverRows' /\ Progress' /\ Stream' /\ WireRows'
  BY <1>2 DEF ReceiverRows, Progress, Stream, WireRows, Encoding
<1>7. SenderRows'
  BY <1>1, <1>2, <1>3 DEF SenderRows
<1>8. QED BY <1>5, <1>6, <1>7

LEMMA InitInv == OtInit => IndInv
<1> SUFFICES ASSUME OtInit PROVE IndInv
  OBVIOUS
<1> USE DEF OtInit
<1>1. OtTypeOK
  BY ZerosType, RowsRoom DEF OtTypeOK, ReceiverStages, SenderStages
<1>2. ReceiverRows /\ Progress /\ Stream /\ WireRows /\ SenderRows
  BY RowsRoom DEF ReceiverRows, Progress, Stream, Continues, WireRows, SenderRows, Encoding,
     Correcting, Rows
<1>3. QED BY <1>1, <1>2 DEF IndInv

LEMMA NextInv == IndInv /\ [OtNext]_otVars => IndInv'
<1> SUFFICES ASSUME IndInv, [OtNext]_otVars PROVE IndInv'
  OBVIOUS
<1>1. CASE rStage = "new" /\ receiverConfigure
  BY <1>1, ReceiverStageStep DEF receiverConfigure, Encoding
<1>2. CASE receiverSetBaseOts
  BY <1>2, ReceiverStageStep DEF receiverSetBaseOts, Encoding
<1>3. CASE receiverInit
  BY <1>3, ReceiverInitStep
<1>4. ASSUME NEW i \in 0 .. numOTs - 1, NEW w \in Word, ~ mEncodeFlags[i], otCorrection(i, w)
      PROVE  IndInv'
  BY <1>4, EncodeRowStep DEF otCorrection
<1>5. ASSUME NEW i \in 0 .. numOTs - 1, ~ mEncodeFlags[i], zeroEncode(i)
      PROVE  IndInv'
  <2>1. {} \in Word
    BY DEF Word
  <2>2. QED BY <1>5, <2>1, EncodeRowStep DEF zeroEncode
<1>6. ASSUME NEW c \in 1 .. numOTs - rCorrectionIdx,
             \A i \in rCorrectionIdx .. rCorrectionIdx + c - 1 : mEncodeFlags[i],
             sendCorrection(c)
      PROVE  IndInv'
  BY <1>6, SendCorrectionStep
<1>7. ASSUME NEW words \in [Extra -> Word], rCorrectionIdx = numOTs, receiverCheck(words)
      PROVE  IndInv'
  BY <1>7, ReceiverCheckStep
<1>8. CASE receiverAnswer
  BY <1>8, ReceiverAnswerStep
<1>9. CASE sStage = "new" /\ senderConfigure
  BY <1>9, SenderStageStep DEF senderConfigure, Correcting
<1>10. CASE senderSetBaseOts
  BY <1>10, SenderStageStep DEF senderSetBaseOts, Correcting
<1>11. CASE senderInit
  BY <1>11, SenderInitStep
<1>12. ASSUME NEW c \in 1 .. numOTs, recvCorrection(c) PROVE IndInv'
  BY <1>12, RecvCorrectionStep
<1>13. ASSUME NEW i \in (0 .. numOTs - 1) \ corrected, i < sCorrectionIdx, senderOtCorrection(i)
       PROVE  IndInv'
  BY <1>13, SenderCorrectionStep
<1>14. ASSUME NEW x, senderCheck(x) PROVE IndInv'
  BY <1>14, SenderCheckStep
<1>15. CASE senderVerify
  BY <1>15, SenderVerifyStep
<1>16. CASE asyncPerformSend
  BY <1>16, TransmitStep
<1>17. CASE UNCHANGED otVars
  <2> USE <1>17 DEF otVars, baseVars, recvVars, sendVars, chanVars, IndInv
  <2>1. \A i : Correction(i)' = Correction(i) /\ Chosen(i)' = Chosen(i)
    BY CorrectionsFrame, ChosenFrame
  <2>2. OtTypeOK'
    BY DEF OtTypeOK, Messages
  <2>3. ReceiverRows' /\ Progress'
    BY <2>1 DEF ReceiverRows, Progress, Encoding
  <2>4. Stream' /\ WireRows'
    BY <2>1 DEF Stream, WireRows
  <2>5. SenderRows'
    BY <2>1 DEF SenderRows, Correcting
  <2>6. QED BY <2>2, <2>3, <2>4, <2>5
<1>18. QED
  BY <1>1, <1>2, <1>3, <1>4, <1>5, <1>6, <1>7, <1>8, <1>9, <1>10, <1>11, <1>12, <1>13, <1>14,
     <1>15, <1>16, <1>17 DEF OtNext, ReceiverStep, SenderStep

-----------------------------------------------------------------------------
(* The results.                                                            *)

\* The invariant holds of every behaviour.
THEOREM OtInvariance == OtSpec => []IndInv
BY InitInv, NextInv, PTL DEF OtSpec

\* Every state has its type: in particular no send, receive or check of either
\* end goes past the rows that init() made.
THEOREM OtTypeCorrect == OtSpec => []OtTypeOK
<1>1. IndInv => OtTypeOK
  BY DEF IndInv
<1>2. QED BY <1>1, OtInvariance, PTL

\* For every code and every word, encode() of the two ends agree on a row just
\* when the choice bits do not tell their codewords apart.
THEOREM EncodingCorrect == OtSpec => []EncodingsAgree
<1>1. IndInv => EncodingsAgree
  <2> SUFFICES ASSUME IndInv, NEW i \in corrected, NEW w \in Word
               PROVE  (SenderEncode(i, w) = ReceiverEncode(i))
                        <=> (Encode(w) \cap mChoiceBlks = Encode(mW[i]) \cap mChoiceBlks)
    BY DEF EncodingsAgree
  <2>1. /\ i \in Rows /\ i < sCorrectionIdx /\ sCorrectionIdx \in Nat
        /\ sCorrectionIdx <= rCorrectionIdx /\ rCorrectionIdx \in Nat /\ i \in Nat
    BY RowsRoom DEF IndInv, OtTypeOK, SenderRows, Stream, Rows
  <2>2. Encoding /\ Correcting
    BY <2>1 DEF IndInv, Progress, SenderRows
  <2>3. /\ mT[i] = Chosen(i) (+) (Correction(i) \cap mChoiceBlks)
        /\ mT0[i] = base0[i]
    BY <2>1, <2>2 DEF IndInv, ReceiverRows, SenderRows
  <2> DEFINE a == base0[i]
             b == base1[i]
             c == Encode(mW[i])
             d == Encode(w)
             ch == mChoiceBlks
  <2>4. /\ SenderEncode(i, w) = (((a \ ch) \cup (b \cap ch)) (+) (((c (+) a) (+) b) \cap ch))
                                   (+) (d \cap ch)
        /\ ReceiverEncode(i) = a
    BY <2>3 DEF SenderEncode, ReceiverEncode, Chosen, Correction
  <2> HIDE DEF a, b, c, d, ch
  <2>5. (SenderEncode(i, w) = ReceiverEncode(i)) <=> (d \cap ch = c \cap ch)
    BY <2>4, Cancellation
  <2>6. QED BY <2>5 DEF c, d, ch
<1>2. QED BY <1>1, OtInvariance, PTL

\* No step of either end changes a row that waits in the send queue.
THEOREM SendBuffersSafe == OtSpec => SendBuffersStable
<1> DEFINE Waiting(i) == \E m \in onWire + 1 .. Len(outbound) :
                            i \in outbound[m].from .. outbound[m].from + outbound[m].count - 1
<1>1. ASSUME IndInv, OtNext, NEW i, Waiting(i) PROVE mT1'[i] = mT1[i]
  <2>1. PICK m \in onWire + 1 .. Len(outbound) :
                 i \in outbound[m].from .. outbound[m].from + outbound[m].count - 1
    BY <1>1
  <2>2. m \in 1 .. Len(outbound) /\ outbound[m] \in Messages /\ outbound # <<>>
    BY <1>1, <2>1 DEF IndInv, OtTypeOK
  <2>3. /\ i \in Rows /\ i < rCorrectionIdx /\ rCorrectionIdx \in Nat
    <3>1. outbound[m].from + outbound[m].count <= rCorrectionIdx
      BY <1>1, <2>2 DEF IndInv, Stream, Continues
    <3>2. rCorrectionIdx \in Nat /\ rCorrectionIdx <= numRows /\ numRows \in Nat
      BY <1>1, RowsRoom DEF IndInv, OtTypeOK
    <3>3. /\ outbound[m].from \in Nat /\ outbound[m].count \in Nat /\ i \in Nat
          /\ i < outbound[m].from + outbound[m].count
      BY <2>1, <2>2, MessageType
    <3>4. i < rCorrectionIdx
      BY <3>1, <3>2, <3>3, RowNumber
    <3>5. QED BY <3>2, <3>3, <3>4 DEF Rows
  <2>4. Encoding /\ mEncodeFlags[i] /\ mT1 \in [Rows -> Row]
    BY <1>1, <2>2, <2>3 DEF IndInv, Progress, OtTypeOK
  <2>5. ASSUME NEW j, NEW w, ~ mEncodeFlags[j], EncodeRow(j, w) PROVE mT1'[i] = mT1[i]
    BY <2>3, <2>4, <2>5 DEF EncodeRow
  <2>6. ASSUME NEW words, receiverCheck(words) PROVE mT1'[i] = mT1[i]
    <3>1. i \notin rCorrectionIdx .. rCorrectionIdx + mStatSecParam - 1
      BY <2>3
    <3>2. QED BY <2>3, <2>6, <3>1 DEF receiverCheck
  <2>7. ~ receiverInit
    BY <2>4 DEF receiverInit, Encoding
  <2>8. QED
    BY <1>1, <2>5, <2>6, <2>7 DEF OtNext, ReceiverStep, SenderStep, receiverConfigure,
       receiverSetBaseOts, otCorrection, zeroEncode, sendCorrection, receiverAnswer,
       asyncPerformSend, senderConfigure, senderSetBaseOts, senderInit, recvCorrection,
       senderOtCorrection, senderCheck, senderVerify, recvVars
<1>2. IndInv /\ [OtNext]_otVars =>
        [\A m \in onWire + 1 .. Len(outbound) :
           \A i \in outbound[m].from .. outbound[m].from + outbound[m].count - 1 :
              mT1'[i] = mT1[i]]_otVars
  BY <1>1
<1>3. QED BY <1>2, OtInvariance, PTL DEF OtSpec, SendBuffersStable
=============================================================================
