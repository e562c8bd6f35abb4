-------------------------- MODULE LinearityProofs --------------------------
(***************************************************************************)
(* What the OT ends and the dictionary share is a code that is linear over *)
(* sums of any number of rows.  Here this is proved of XorOver and Encode, *)
(* and used for check() of the OT ends: with honest ends and a code that   *)
(* is not too wide for what check() adds up (NarrowCode), the relation     *)
(* that the sender compares holds, whatever the code, the words, the       *)
(* challenge and the size of the messages.                                 *)
(*                                                                         *)
(* A statement about all finite sets is proved by looking at a smallest    *)
(* set of which it fails (Smallest).                                       *)
(***************************************************************************)
EXTENDS PrtyMOtProofs, FiniteSetTheorems

-----------------------------------------------------------------------------
(* Sums.                                                                   *)

\* A family of finite sets has a smallest member.
LEMMA Smallest ==
    ASSUME NEW S, IsFiniteSet(S), NEW F, F \subseteq SUBSET S, F # {}
    PROVE  \E T \in F : \A U \in F : ~ (U \subseteq T /\ U # T)
<1>1. IsWellFoundedOn(StrictSubsetOrdering(S), FiniteSubsetsOf(S))
  BY FS_StrictSubsetOrderingWellFounded
<1>2. FiniteSubsetsOf(S) = SUBSET S
  BY FS_FiniteSubsetsOfFinite
<1>3. \E T \in F : \A U \in F : ~ (<<U, T>> \in StrictSubsetOrdering(S))
  BY <1>1, <1>2, WFMin
<1>4. \A T, U \in SUBSET S : U \subseteq T /\ U # T => <<U, T>> \in StrictSubsetOrdering(S)
  BY DEF StrictSubsetOrdering
<1>5. QED BY <1>3, <1>4

Odd(S) == Cardinality(S) % 2 = 1

\* The parity of a symmetric difference.
LEMMA OddSum ==
    ASSUME NEW A, NEW B, IsFiniteSet(A), IsFiniteSet(B)
    PROVE  IsFiniteSet(A (+) B) /\ (Odd(A (+) B) <=> ~ (Odd(A) <=> Odd(B)))
<1>1. /\ IsFiniteSet(A \cap B) /\ IsFiniteSet(A \ B) /\ IsFiniteSet(B \ A)
      /\ Cardinality(A \ B) = Cardinality(A) - Cardinality(A \cap B)
      /\ Cardinality(B \ A) = Cardinality(B) - Cardinality(B \cap A)
  BY FS_Difference, FS_Intersection
<1>2. /\ IsFiniteSet((A \ B) \cup (B \ A))
      /\ Cardinality((A \ B) \cup (B \ A)) =
           Cardinality(A \ B) + Cardinality(B \ A) - Cardinality((A \ B) \cap (B \ A))
  BY <1>1, FS_Union
<1>3. (A \ B) \cap (B \ A) = {} /\ B \cap A = A \cap B
  OBVIOUS
<1>4. PICK a \in Nat, b \in Nat, c \in Nat :
           a = Cardinality(A) /\ b = Cardinality(B) /\ c = Cardinality(A \cap B)
  BY <1>1, FS_CardinalityType
<1>5. Cardinality(A (+) B) = (a - c) + (b - c)
  <2>1. Cardinality((A \ B) \cap (B \ A)) = 0
    BY <1>3, FS_EmptySet
  <2>2. Cardinality((A \ B) \cup (B \ A)) = Cardinality(A \ B) + Cardinality(B \ A)
    <3>1. Cardinality(A \ B) \in Nat /\ Cardinality(B \ A) \in Nat
      BY <1>1, FS_CardinalityType
    <3>2. QED BY <1>2, <2>1, <3>1
  <2>3. QED BY <1>1, <1>3, <1>4, <2>2 DEF (+)
<1>6. ((a - c) + (b - c)) % 2 = 1 <=> ~ (a % 2 = 1 <=> b % 2 = 1)
  BY <1>4
<1>7. QED BY <1>2, <1>4, <1>5, <1>6 DEF Odd, (+)

\* Addition of a column.
LEMMA XorMember == \A a, b, c : c \in a (+) b <=> ~ (c \in a <=> c \in b)
BY DEF (+)

LEMMA SumMember == \A S, f, B, c : c \in XorOver(S, f, B) <=> c \in B /\ Odd({i \in S : c \in f[i]})
BY DEF XorOver, Odd

\* XorOver is linear in the set of rows that are added.
LEMMA SumOfSets ==
    ASSUME NEW S, NEW T, IsFiniteSet(S), IsFiniteSet(T), NEW f, NEW B
    PROVE  XorOver(S (+) T, f, B) = XorOver(S, f, B) (+) XorOver(T, f, B)
<1> DEFINE In(U, c) == {i \in U : c \in f[i]}
<1>1. ASSUME NEW c PROVE c \in XorOver(S (+) T, f, B) <=> c \in XorOver(S, f, B) (+) XorOver(T, f, B)
  <2>1. In(S (+) T, c) = In(S, c) (+) In(T, c)
    BY DEF (+)
  <2>2. IsFiniteSet(In(S, c)) /\ IsFiniteSet(In(T, c))
    BY FS_Subset
  <2> HIDE DEF In
  <2>3. Odd(In(S (+) T, c)) <=> ~ (Odd(In(S, c)) <=> Odd(In(T, c)))
    BY <2>1, <2>2, OddSum
  <2>4. QED BY <2>3, XorMember, SumMember DEF In
<1>2. QED BY <1>1

\* XorOver is linear in the rows.
LEMMA SumOfRows ==
    ASSUME NEW S, IsFiniteSet(S), NEW f, NEW g, NEW h, NEW B,
           \A i \in S : h[i] = f[i] (+) g[i]
    PROVE  XorOver(S, h, B) = XorOver(S, f, B) (+) XorOver(S, g, B)
<1> DEFINE In(r, c) == {i \in S : c \in r[i]}
<1>1. ASSUME NEW c PROVE c \in XorOver(S, h, B) <=> c \in XorOver(S, f, B) (+) XorOver(S, g, B)
  <2>1. In(h, c) = In(f, c) (+) In(g, c)
    BY DEF (+)
  <2>2. IsFiniteSet(In(f, c)) /\ IsFiniteSet(In(g, c))
    BY FS_Subset
  <2> HIDE DEF In
  <2>3. Odd(In(h, c)) <=> ~ (Odd(In(f, c)) <=> Odd(In(g, c)))
    BY <2>1, <2>2, OddSum
  <2>4. QED BY <2>3, XorMember, SumMember DEF In
<1>2. QED BY <1>1

\* The choice bits select columns of a sum as they select those of its rows.
LEMMA SumMasked ==
    ASSUME NEW S, NEW f, NEW g, NEW ch, NEW B, \A i \in S : g[i] = f[i] \cap ch
    PROVE  XorOver(S, g, B) = XorOver(S, f, B) \cap ch
<1> DEFINE In(r, c) == {i \in S : c \in r[i]}
<1>1. ASSUME NEW c PROVE c \in XorOver(S, g, B) <=> c \in XorOver(S, f, B) \cap ch
  <2>1. CASE c \in ch
    <3>1. In(g, c) = In(f, c)
      BY <2>1
    <3> HIDE DEF In
    <3>2. Odd(In(g, c)) <=> Odd(In(f, c))
      BY <3>1
    <3>3. QED BY <2>1, <3>2, SumMember DEF In
  <2>2. CASE c \notin ch
    <3>1. In(g, c) = {}
      BY <2>2
    <3> HIDE DEF In
    <3>2. ~ Odd(In(g, c))
      BY <3>1, FS_EmptySet DEF Odd
    <3>3. QED BY <2>2, <3>2, SumMember DEF In
  <2>3. QED BY <2>1, <2>2
<1>2. QED BY <1>1

\* Rows that agree have the same sum.
LEMMA SumSame ==
    ASSUME NEW S, NEW f, NEW g, NEW B, \A i \in S : f[i] = g[i]
    PROVE  XorOver(S, f, B) = XorOver(S, g, B)
<1>1. \A c : {i \in S : c \in f[i]} = {i \in S : c \in g[i]}
  OBVIOUS
<1>2. QED BY <1>1 DEF XorOver

LEMMA SumOfNone == \A f, B : XorOver({}, f, B) = {}
<1>1. \A f, c : {i \in {} : c \in f[i]} = {}
  OBVIOUS
<1>2. QED BY <1>1, FS_EmptySet DEF XorOver

LEMMA SumOfOne == ASSUME NEW x, NEW f, NEW B PROVE XorOver({x}, f, B) = f[x] \cap B
<1> DEFINE In(c) == {i \in {x} : c \in f[i]}
<1>1. ASSUME NEW c PROVE Odd(In(c)) <=> c \in f[x]
  <2>1. CASE c \in f[x]
    <3>1. In(c) = {x}
      BY <2>1
    <3>2. QED BY <2>1, <3>1, FS_Singleton DEF Odd
  <2>2. CASE c \notin f[x]
    <3>1. In(c) = {}
      BY <2>2
    <3>2. QED BY <2>2, <3>1, FS_EmptySet DEF Odd
  <2>3. QED BY <2>1, <2>2
<1> HIDE DEF In
<1>2. \A c : c \in XorOver({x}, f, B) <=> c \in f[x] \cap B
  <2>1. ASSUME NEW S, S = {x}, NEW c PROVE c \in XorOver(S, f, B) <=> c \in f[x] \cap B
    <3>1. c \in XorOver(S, f, B) <=> c \in B /\ Odd({i \in S : c \in f[i]})
      BY SumMember
    <3>2. {i \in S : c \in f[i]} = In(c)
      BY <2>1 DEF In
    <3>3. QED BY <1>1, <3>1, <3>2
  <2>2. QED BY <2>1
<1>3. QED BY <1>2

\* LinearCode::encode() is linear.
LEMMA EncodeSum ==
    ASSUME NEW v \in Word, NEW w \in Word
    PROVE  v (+) w \in Word /\ Encode(v (+) w) = Encode(v) (+) Encode(w)
<1>1. IsFiniteSet(v) /\ IsFiniteSet(w)
  BY OtAssumption, FS_Subset DEF Word
<1>2. v (+) w \in Word
  BY DEF (+), Word
<1>3. QED BY <1>1, <1>2, SumOfSets DEF Encode

\* A codeword of a sum is the sum of the codewords.
LEMMA EncodeOver ==
    ASSUME NEW S, IsFiniteSet(S), NEW f, \A i \in S : f[i] \in Word,
           NEW g, \A i \in S : g[i] = Encode(f[i])
    PROVE  /\ XorOver(S, f, WordBits) \in Word
           /\ Encode(XorOver(S, f, WordBits)) = XorOver(S, g, CodeBits)
<1> DEFINE Agrees(U) == Encode(XorOver(U, f, WordBits)) = XorOver(U, g, CodeBits)
           Bad == {U \in SUBSET S : ~ Agrees(U)}
<1>1. \A U : XorOver(U, f, WordBits) \in Word
  BY SumType DEF Word
<1>2. Agrees({})
  BY SumOfNone DEF Encode
<1>3. ASSUME NEW U \in SUBSET S, NEW x \in U, Agrees(U \ {x}) PROVE Agrees(U)
  <2> DEFINE V == U \ {x}
  <2>1. U = V (+) {x} /\ x \in S
    BY DEF (+)
  <2>2. IsFiniteSet(V) /\ IsFiniteSet({x})
    BY FS_Subset, FS_Singleton
  <2> HIDE DEF V
  <2>3. \A h, B : XorOver(U, h, B) = XorOver(V, h, B) (+) (h[x] \cap B)
    <3> SUFFICES ASSUME NEW h, NEW B PROVE XorOver(U, h, B) = XorOver(V, h, B) (+) (h[x] \cap B)
      OBVIOUS
    <3>1. XorOver(V (+) {x}, h, B) = XorOver(V, h, B) (+) XorOver({x}, h, B)
      BY <2>2, SumOfSets
    <3>2. XorOver({x}, h, B) = h[x] \cap B
      BY SumOfOne
    <3>3. QED BY <2>1, <3>1, <3>2
  <2>4. f[x] \in Word /\ f[x] \cap WordBits = f[x]
    BY <2>1 DEF Word
  <2>5. g[x] = Encode(f[x]) /\ g[x] \cap CodeBits = g[x]
    BY <2>1, EncodeType DEF Row
  <2>6. Encode(XorOver(U, f, WordBits)) = Encode(XorOver(V, f, WordBits)) (+) Encode(f[x])
    <3>1. XorOver(U, f, WordBits) = XorOver(V, f, WordBits) (+) f[x]
      BY <2>3, <2>4
    <3>2. XorOver(V, f, WordBits) \in Word
      BY <1>1
    <3>3. QED BY <2>4, <3>1, <3>2, EncodeSum
  <2>7. QED BY <1>3, <2>3, <2>5, <2>6 DEF V
<1>4. Bad = {}
  <2> SUFFICES ASSUME Bad # {} PROVE FALSE
    OBVIOUS
  <2>1. PICK U \in Bad : \A V \in Bad : ~ (V \subseteq U /\ V # U)
    <3>1. Bad \subseteq SUBSET S
      OBVIOUS
    <3> HIDE DEF Bad
    <3>2. QED BY <3>1, Smallest
  <2>2. PICK x \in U : TRUE
    BY <1>2, <2>1
  <2>3. U \ {x} \notin Bad
    BY <2>1, <2>2
  <2>4. QED BY <1>3, <2>1, <2>2, <2>3
<1>5. QED BY <1>1, <1>4

-----------------------------------------------------------------------------
(* Corrected rows.                                                         *)

\* Sums of corrected rows are those of T0 and of the codewords.
LEMMA Rearranged ==
    ASSUME NEW a, NEW b, NEW c, NEW d, NEW ch
    PROVE  (a (+) b) (+) ((a (+) (c \cap ch)) (+) (b (+) (d \cap ch))) = (c (+) d) \cap ch
<1> DEFINE lhs == (a (+) b) (+) ((a (+) (c \cap ch)) (+) (b (+) (d \cap ch)))
<1>1. \A x : x \in lhs <=> x \in (c (+) d) \cap ch
  BY XorMember
<1> HIDE DEF lhs
<1>2. lhs = (c (+) d) \cap ch
  BY <1>1
<1>3. QED BY <1>2 DEF lhs

\* The rows t of S are those of t0, corrected for the words w.
CorrectedFor(S, w, t0, t, ch) ==
    \A i \in S : w[i] \in Word /\ t[i] = t0[i] (+) (Encode(w[i]) \cap ch)

\* The sum of corrected rows tells the sum of their words.
LEMMA CorrectedSum ==
    ASSUME NEW S, IsFiniteSet(S), NEW w, NEW t0, NEW t, NEW ch, CorrectedFor(S, w, t0, t, ch)
    PROVE  /\ XorOver(S, w, WordBits) \in Word
           /\ XorOver(S, t, CodeBits) =
                XorOver(S, t0, CodeBits) (+) (Encode(XorOver(S, w, WordBits)) \cap ch)
<1> DEFINE g == [i \in S |-> Encode(w[i])]
           h == [i \in S |-> g[i] \cap ch]
<1>1. \A i \in S : /\ g[i] = Encode(w[i]) /\ h[i] = g[i] \cap ch
                    /\ w[i] \in Word /\ t[i] = t0[i] (+) h[i]
  BY DEF CorrectedFor
<1> HIDE DEF g, h
<1>2. XorOver(S, t, CodeBits) = XorOver(S, t0, CodeBits) (+) XorOver(S, h, CodeBits)
  BY <1>1, SumOfRows
<1>3. XorOver(S, h, CodeBits) = XorOver(S, g, CodeBits) \cap ch
  BY <1>1, SumMasked
<1>4. /\ XorOver(S, w, WordBits) \in Word
      /\ Encode(XorOver(S, w, WordBits)) = XorOver(S, g, CodeBits)
  BY <1>1, EncodeOver
<1>5. QED BY <1>2, <1>3, <1>4

-----------------------------------------------------------------------------
(* check() of the OT ends.                                                 *)

\* q_i of the sender when it has not corrected row i.
Uncorrected == [i \in Rows |-> base0[i] (+) (Encode(mW[i]) \cap mChoiceBlks)]

\* What either end makes of the challenge x.
QSums(x) == ChallengeSums(x, numOTs, Uncorrected, CodeBits)
TSums(x) == ChallengeSums(x, numOTs, mT0, CodeBits)
WSums(x) == WordSums(x, numOTs)

Challenges == [Extra -> SUBSET (0 .. numOTs - 1)]

\* The answer is on its way only after a challenge.
NoAnswer == \A m \in 1 .. Len(outbound) : outbound[m].kind # "sums"

Answers(x) ==
    \A m \in 1 .. Len(outbound) :
        outbound[m].kind = "sums" => outbound[m].tSum = TSums(x) /\ outbound[m].wSum = WSums(x)

Challenged(x) ==
    /\ NarrowCode /\ corrected = {} => \A l \in Extra : qSum[l] = QSums(x)[l]
    /\ \A j \in 1 .. Len(inbound) : inbound[j] = x
    /\ Answers(x)

LEMMA NarrowSame == NarrowCode' = NarrowCode
BY DEF NarrowCode, UnclearedColumns

\* What is compared in the end was made from one challenge and the same rows.
CheckInv ==
    /\ inbound \in Seq(Challenges)
    /\ sStage \notin {"challenged", "checked"} => inbound = <<>> /\ NoAnswer /\ rStage # "checked"
    /\ sStage # "checked" => relation = "unknown"
    /\ sStage \in {"challenged", "checked"} => sCorrectionIdx = numOTs + mStatSecParam
    /\ sStage = "challenged" => \E x \in Challenges : Challenged(x)
    /\ CheckHoldsBeforeCorrection

\* The rows a challenge speaks of.
LEMMA ChallengedRows ==
    ASSUME NEW x \in Challenges, NEW l \in Extra
    PROVE  /\ x[l] \subseteq Rows /\ IsFiniteSet(x[l])
           /\ x[l] \subseteq 0 .. numOTs - 1
           /\ numOTs + l \in Rows
<1>1. /\ numOTs \in Nat /\ mStatSecParam \in Nat /\ numRows \in Nat
      /\ numOTs + mStatSecParam <= numRows
  BY OtAssumption, RowsRoom
<1>2. x[l] \in SUBSET (0 .. numOTs - 1)
  BY DEF Challenges
<1>3. l \in 0 .. mStatSecParam - 1
  BY DEF Extra
<1>4. numOTs + l \in 0 .. numRows - 1
  BY <1>1, <1>3
<1>5. 0 .. numOTs - 1 \subseteq 0 .. numRows - 1
  BY <1>1
<1>6. IsFiniteSet(0 .. numOTs - 1)
  BY <1>1, FS_Interval
<1>7. QED BY <1>2, <1>4, <1>5, <1>6, FS_Subset DEF Rows

\* For a word of one block, the blocks that the receiver adds are words.
LEMMA NarrowWordSums ==
    ASSUME NarrowCode, mW \in [Rows -> Word], NEW x \in Challenges, NEW l \in Extra
    PROVE  WSums(x)[l] = mW[numOTs + l] (+) XorOver(x[l], mW, WordBits)
<1> DEFINE s(m, b) == m * plaintextBlkSize + b
           f(b) == [i \in 0 .. numOTs - 1 |-> BlockOfW(i, b)]
           Added(m, c) == XorOver(x[s(m, c[1])], f(c[1]), {c})
           add(m) == {c \in WordBits : s(m, c[1]) \in Extra /\ c \in Added(m, c)}
<1>1. WSums(x)[l] = mW[numOTs + l] (+) add(l)
  BY DEF WSums, WordSums
<1>2. plaintextBlkSize = 1 /\ numOTs \in Nat /\ l \in Nat
  BY OtAssumption DEF NarrowCode, Extra
<1>3. ASSUME NEW c \in WordBits PROVE c[1] = 0 /\ c = <<0, c[2]>> /\ s(l, c[1]) = l
  <2>1. c \in (0 .. 0) \X Nat
    BY <1>2, OtAssumption
  <2>2. c[1] = 0 /\ c = <<0, c[2]>>
    BY <2>1
  <2>3. QED BY <1>2, <2>2
<1>4. ASSUME NEW i \in 0 .. numOTs - 1 PROVE BlockOfW(i, 0) = mW[i]
  <2>1. i % 1 = 0 /\ i \div 1 = i /\ i \in Rows
    <3>1. 0 .. numOTs - 1 \subseteq 0 .. numRows - 1
      BY OtAssumption, RowsRoom
    <3>2. QED BY <1>2, <3>1 DEF Rows
  <2>2. mW[i] \subseteq WordBits
    BY <2>1 DEF Word
  <2>3. BlockOfW(i, 0) = {c \in WordBits : c[1] = 0 /\ <<0, c[2]>> \in mW[i]}
    BY <1>2, <2>1 DEF BlockOfW
  <2>4. QED BY <1>3, <2>2, <2>3
<1>5. x[l] \subseteq 0 .. numOTs - 1
  BY ChallengedRows
<1>6. ASSUME NEW c \in WordBits PROVE c \in Added(l, c) <=> c \in XorOver(x[l], mW, WordBits)
  <2>1. Added(l, c) = XorOver(x[l], f(0), {c})
    BY <1>3
  <2>2. \A i \in x[l] : f(0)[i] = mW[i]
    BY <1>4, <1>5
  <2> HIDE DEF f, Added
  <2>3. XorOver(x[l], f(0), {c}) = XorOver(x[l], mW, {c})
    BY <2>2, SumSame
  <2>4. c \in XorOver(x[l], mW, {c}) <=> c \in XorOver(x[l], mW, WordBits)
    BY DEF XorOver
  <2>5. QED BY <2>1, <2>3, <2>4
<1>7. add(l) = XorOver(x[l], mW, WordBits)
  <2>1. \A c : c \in add(l) <=> c \in WordBits /\ c \in Added(l, c)
    BY <1>3
  <2> HIDE DEF add, Added
  <2>2. \A c : c \in add(l) <=> c \in XorOver(x[l], mW, WordBits)
    BY <1>6, <2>1, SumMember
  <2>3. QED BY <2>2
<1>8. QED BY <1>1, <1>7

\* For a codeword of at most four blocks, the row for a challenge bit 0 is zero.
LEMMA NarrowSenderSums ==
    ASSUME NarrowCode, NEW x \in Challenges, NEW q, NEW zero \in SUBSET UnclearedColumns
    PROVE  SenderSums(x, numOTs, q, zero) = ChallengeSums(x, numOTs, q, CodeBits)
<1>1. zero = {}
  BY DEF NarrowCode
<1>2. ASSUME NEW l \in Extra
      PROVE  XorOver(0 .. numOTs - 1,
                     [i \in 0 .. numOTs - 1 |-> IF i \in x[l] THEN q[i] ELSE zero], CodeBits)
               = XorOver(x[l], q, CodeBits)
  <2> DEFINE f == [i \in 0 .. numOTs - 1 |-> IF i \in x[l] THEN q[i] ELSE zero]
  <2>1. x[l] \subseteq 0 .. numOTs - 1
    BY ChallengedRows
  <2>2. \A c : {i \in 0 .. numOTs - 1 : c \in f[i]} = {i \in x[l] : c \in q[i]}
    BY <1>1, <2>1
  <2> HIDE DEF f
  <2>3. XorOver(0 .. numOTs - 1, f, CodeBits) = XorOver(x[l], q, CodeBits)
    BY <2>2 DEF XorOver
  <2>4. QED BY <2>3 DEF f
<1>3. QED BY <1>2 DEF SenderSums, ChallengeSums

\* The relation of one extra row.
LEMMA RelationHolds ==
    ASSUME NarrowCode, IndInv, Encoding, NEW x \in Challenges, NEW l \in Extra
    PROVE  TSums(x)[l] (+) QSums(x)[l] = Encode(WSums(x)[l]) \cap mChoiceBlks
<1> DEFINE n  == numOTs + l
           S  == x[l]
           q  == Uncorrected
           ch == mChoiceBlks
<1>1. /\ TSums(x)[l] = mT0[n] (+) XorOver(S, mT0, CodeBits)
      /\ WSums(x)[l] = mW[n] (+) XorOver(S, mW, WordBits)
      /\ QSums(x)[l] = q[n] (+) XorOver(S, q, CodeBits)
  <2>1. mW \in [Rows -> Word]
    BY DEF IndInv, OtTypeOK
  <2>2. QED BY <2>1, NarrowWordSums DEF TSums, QSums, ChallengeSums
<1>2. S \subseteq Rows /\ IsFiniteSet(S) /\ n \in Rows
  BY ChallengedRows
<1>3. \A i \in Rows : mW[i] \in Word /\ q[i] = mT0[i] (+) (Encode(mW[i]) \cap ch)
  BY DEF IndInv, OtTypeOK, ReceiverRows, Uncorrected
<1> HIDE DEF n, S, q, ch
<1>4. /\ XorOver(S, mW, WordBits) \in Word
      /\ XorOver(S, q, CodeBits) =
           XorOver(S, mT0, CodeBits) (+) (Encode(XorOver(S, mW, WordBits)) \cap ch)
  <2>1. CorrectedFor(S, mW, mT0, q, ch)
    BY <1>2, <1>3 DEF CorrectedFor
  <2>2. QED BY <1>2, <2>1, CorrectedSum
<1>5. Encode(WSums(x)[l]) = Encode(mW[n]) (+) Encode(XorOver(S, mW, WordBits))
  BY <1>1, <1>2, <1>3, <1>4, EncodeSum
<1>6. q[n] = mT0[n] (+) (Encode(mW[n]) \cap ch)
  BY <1>2, <1>3
<1>7. TSums(x)[l] (+) QSums(x)[l] = (Encode(mW[n]) (+) Encode(XorOver(S, mW, WordBits))) \cap ch
  BY <1>1, <1>4, <1>6, Rearranged
<1>8. QED BY <1>5, <1>7 DEF ch

\* What the sender adds up in check() when it has corrected nothing.
LEMMA SenderCheckSums ==
    ASSUME NarrowCode, IndInv, IndInv', NEW x \in Challenges, senderCheck(x),
           sCorrectionIdx = numOTs, corrected = {}
    PROVE  \A l \in Extra : qSum'[l] = QSums(x)[l]
<1> DEFINE q == [i \in Rows |-> Q(i, mCorrectionVals')]
<1>1. qSum' = ChallengeSums(x, numOTs, q, CodeBits)
  BY NarrowSenderSums DEF senderCheck
<1>2. \A i \in Rows : q[i] = Q(i, mCorrectionVals')
  OBVIOUS
<1> HIDE DEF q
<1>3. /\ numOTs \in Nat /\ mStatSecParam \in Nat
      /\ sCorrectionIdx' = numOTs + mStatSecParam
  BY OtAssumption DEF senderCheck, Store
<1>4. ASSUME NEW i \in Rows, i < numOTs + mStatSecParam PROVE q[i] = Uncorrected[i]
  <2>1. mCorrectionVals'[i] = Correction(i)'
    BY <1>3, <1>4 DEF IndInv, SenderRows, Rows
  <2>2. Correction(i)' = Correction(i)
    BY CorrectionFrame DEF senderCheck, recvVars, baseVars
  <2>3. mT[i] = Chosen(i)
    BY DEF IndInv, SenderRows, Correcting, senderCheck
  <2>4. q[i] = (Correction(i) \cap mChoiceBlks) (+) Chosen(i)
    BY <1>2, <2>1, <2>2, <2>3 DEF Q
  <2> DEFINE a  == base0[i]
             b  == base1[i]
             c  == Encode(mW[i])
             ch == mChoiceBlks
  <2>5. q[i] = (((c (+) a) (+) b) \cap ch) (+) ((a \ ch) \cup (b \cap ch))
    BY <2>4 DEF Correction, Chosen
  <2>6. Uncorrected[i] = a (+) (c \cap ch)
    BY DEF Uncorrected
  <2> HIDE DEF a, b, c, ch
  <2>7. (((c (+) a) (+) b) \cap ch) (+) ((a \ ch) \cup (b \cap ch)) = a (+) (c \cap ch)
    BY DEF (+)
  <2>8. QED BY <2>5, <2>6, <2>7
<1>5. ASSUME NEW l \in Extra PROVE qSum'[l] = QSums(x)[l]
  <2>1. x[l] \subseteq Rows /\ x[l] \subseteq 0 .. numOTs - 1 /\ numOTs + l \in Rows
    BY ChallengedRows
  <2>2. \A i \in x[l] : i \in Rows /\ i < numOTs + mStatSecParam
    BY <1>3, <2>1
  <2>3. numOTs + l < numOTs + mStatSecParam
    BY <1>3 DEF Extra
  <2>4. q[numOTs + l] = Uncorrected[numOTs + l] /\ \A i \in x[l] : q[i] = Uncorrected[i]
    BY <1>4, <2>1, <2>2, <2>3
  <2>5. XorOver(x[l], q, CodeBits) = XorOver(x[l], Uncorrected, CodeBits)
    BY <2>4, SumSame
  <2>6. QED BY <1>1, <2>4, <2>5 DEF QSums, ChallengeSums
<1>6. QED BY <1>5

LEMMA CheckInit == OtInit => CheckInv
<1> SUFFICES ASSUME OtInit PROVE CheckInv
  OBVIOUS
<1>1. inbound = <<>> /\ outbound = <<>> /\ sStage = "new" /\ rStage = "new" /\ relation = "unknown"
  BY DEF OtInit
<1>2. \A m \in 1 .. Len(outbound) : FALSE
  BY <1>1
<1>3. QED BY <1>1, <1>2 DEF CheckInv, NoAnswer, CheckHoldsBeforeCorrection

\* What is on its way when the sender waits for the answer.
LEMMA WaitingForAnswer ==
    ASSUME IndInv, CheckInv, sStage = "challenged"
    PROVE  rStage \in {"asked", "checked"} /\ rCorrectionIdx = numOTs + mStatSecParam /\ Encoding
<1>1. /\ numOTs \in Nat \ {0} /\ mStatSecParam \in Nat \ {0}
      /\ sCorrectionIdx = numOTs + mStatSecParam
      /\ sCorrectionIdx <= rCorrectionIdx
  BY OtAssumption DEF CheckInv, IndInv, Stream
<1>2. rStage \in {"asked", "checked"}
  BY <1>1 DEF IndInv, Progress, Encoding, OtTypeOK, ReceiverStages
<1>3. QED BY <1>2 DEF IndInv, Progress, Encoding

\* Steps after which a pending answer is made from the same rows.
LEMMA SameSums ==
    ASSUME UNCHANGED <<base0, mChoiceBlks, mT0, mW>>
    PROVE  \A x : TSums(x)' = TSums(x) /\ WSums(x)' = WSums(x) /\ QSums(x)' = QSums(x)
BY DEF TSums, WSums, QSums, ChallengeSums, WordSums, BlockOfW, Uncorrected, Extra, Rows, numRows, XorOver,
       Encode, (+), roundUpTo

LEMMA AnswersKept ==
    ASSUME UNCHANGED <<base0, mChoiceBlks, mT0, mW>>,
           outbound \in Seq(Messages), outbound' \in Seq(Messages),
           \A m \in 1 .. Len(outbound') : outbound'[m].kind = "sums" =>
               \E j \in 1 .. Len(outbound) :
                   /\ outbound[j].kind = "sums"
                   /\ outbound'[m].tSum = outbound[j].tSum
                   /\ outbound'[m].wSum = outbound[j].wSum
    PROVE  /\ \A x : Answers(x) => Answers(x)'
           /\ NoAnswer => NoAnswer'
<1>1. ASSUME NEW x, Answers(x) PROVE Answers(x)'
  BY <1>1, SameSums DEF Answers
<1>2. ASSUME NoAnswer PROVE NoAnswer'
  BY <1>2 DEF NoAnswer
<1>3. QED BY <1>1, <1>2

\* Steps of the receiver before check().
LEMMA EarlyReceiverStep ==
    ASSUME IndInv, CheckInv, rStage \notin {"asked", "checked"}, rStage' # "checked",
           UNCHANGED <<sendVars, inbound>>, NoAnswer => NoAnswer'
    PROVE  CheckInv'
<1>1. sStage # "challenged"
  BY WaitingForAnswer
<1>2. QED BY <1>1, NarrowSame DEF CheckInv, sendVars, CheckHoldsBeforeCorrection, Challenges, Extra

LEMMA NoAnswerAppend ==
    ASSUME NoAnswer, NEW M, outbound \in Seq(M), NEW s \in Seq(M),
           \A m \in 1 .. Len(s) : s[m].kind # "sums",
           outbound' = outbound \o s
    PROVE  NoAnswer'
<1>1. \A m \in 1 .. Len(outbound \o s) :
         (outbound \o s)[m] = IF m <= Len(outbound) THEN outbound[m] ELSE s[m - Len(outbound)]
  OBVIOUS
<1>2. QED BY <1>1 DEF NoAnswer

\* The last step of the receiver: its answer is made from the only challenge.
LEMMA AnswerStep == ASSUME IndInv, CheckInv, receiverAnswer PROVE CheckInv'
<1>1. /\ rStage = "asked" /\ Encoding /\ rCorrectionIdx = numOTs + mStatSecParam
      /\ inbound # <<>> /\ inbound \in Seq(Challenges)
      /\ outbound \in Seq(Messages)
  BY DEF receiverAnswer, IndInv, Progress, Encoding, CheckInv, OtTypeOK
<1>2. sStage \in {"challenged", "checked"}
  BY <1>1 DEF CheckInv
<1>3. inbound' \in Seq(Challenges) /\ UNCHANGED sendVars
  BY <1>1 DEF receiverAnswer
<1>4. CASE sStage = "checked"
  BY <1>3, <1>4, NarrowSame DEF CheckInv, sendVars, CheckHoldsBeforeCorrection, Challenges, Extra
<1>5. CASE sStage = "challenged"
  <2>1. PICK x \in Challenges : Challenged(x)
    BY <1>5 DEF CheckInv
  <2>2. UNCHANGED <<base0, mChoiceBlks, mT0, mW>>
    BY DEF receiverAnswer, baseVars
  <2>3. Head(inbound) = x /\ \A j \in 1 .. Len(inbound') : inbound'[j] = x
    BY <1>1, <2>1 DEF Challenged, receiverAnswer
  <2>4. rCorrectionIdx - mStatSecParam = numOTs
    BY <1>1, OtAssumption
  <2>5. outbound' = Append(outbound, Sums(rCorrectionIdx, TSums(x), WSums(x)))
    <3>1. outbound' = Append(outbound, Sums(rCorrectionIdx,
                ChallengeSums(Head(inbound), rCorrectionIdx - mStatSecParam, mT0, CodeBits),
                WordSums(Head(inbound), rCorrectionIdx - mStatSecParam)))
      BY DEF receiverAnswer
    <3>2. QED BY <2>3, <2>4, <3>1 DEF TSums, WSums
  <2>6. Answers(x)'
    <3> DEFINE s == Sums(rCorrectionIdx, TSums(x), WSums(x))
    <3>1. s.tSum = TSums(x) /\ s.wSum = WSums(x)
      BY DEF Sums, Message
    <3> HIDE DEF s
    <3>2. \A m \in 1 .. Len(outbound') :
             outbound'[m] = s \/ (m \in 1 .. Len(outbound) /\ outbound'[m] = outbound[m])
      BY <1>1, <2>5 DEF s
    <3>3. \A m \in 1 .. Len(outbound') : outbound'[m].kind = "sums" =>
             outbound'[m].tSum = TSums(x) /\ outbound'[m].wSum = WSums(x)
      BY <2>1, <3>1, <3>2 DEF Challenged, Answers
    <3>4. TSums(x)' = TSums(x) /\ WSums(x)' = WSums(x)
      BY <2>2, SameSums
    <3>5. QED BY <3>3, <3>4 DEF Answers
  <2>7. Challenged(x)'
    <3>1. UNCHANGED <<corrected, qSum>> /\ QSums(x)' = QSums(x)
      BY <1>3, <2>2, SameSums DEF sendVars
    <3>2. Extra' = Extra
      BY DEF Extra
    <3>3. QED BY <2>1, <2>3, <2>6, <3>1, <3>2 DEF Challenged
  <2>8. Challenges' = Challenges
    BY DEF Challenges, Extra
  <2>9. QED BY <1>3, <1>5, <2>7, <2>8, NarrowSame DEF CheckInv, sendVars, CheckHoldsBeforeCorrection
<1>6. QED BY <1>2, <1>4, <1>5

\* The send operations are carried out.
LEMMA CheckTransmit == ASSUME IndInv, CheckInv, asyncPerformSend, outbound' \in Seq(Messages) PROVE CheckInv'
<1>1. /\ UNCHANGED <<base0, mChoiceBlks, mT0, mW, rStage, inbound>> /\ UNCHANGED sendVars
      /\ outbound \in Seq(Messages) /\ onWire \in Nat
  BY DEF asyncPerformSend, baseVars, recvVars, IndInv, OtTypeOK
<1>2. \A m \in 1 .. Len(outbound') : /\ m \in 1 .. Len(outbound)
                                    /\ outbound'[m].kind = outbound[m].kind
                                    /\ outbound'[m].tSum = outbound[m].tSum
                                    /\ outbound'[m].wSum = outbound[m].wSum
  <2>1. CASE outbound' = outbound
    BY <1>1, <2>1
  <2>2. CASE outbound[onWire + 1].kind = "corrections"
    <3> DEFINE op == outbound[onWire + 1]
               r  == [j \in 1 .. op.count |-> mT1[op.from + j - 1]]
               e  == [op EXCEPT !.rows = r]
    <3>1. outbound' = [outbound EXCEPT ![onWire + 1] = e]
      BY <2>2 DEF asyncPerformSend
    <3>2. onWire + 1 \in 1 .. Len(outbound) /\ op \in Messages
      BY <1>1 DEF asyncPerformSend
    <3> HIDE DEF r, op
    <3>3. e.kind = op.kind /\ e.tSum = op.tSum /\ e.wSum = op.wSum
      BY <3>2 DEF Messages
    <3> HIDE DEF e
    <3>4. /\ Len(outbound') = Len(outbound)
          /\ \A m \in 1 .. Len(outbound) :
               outbound'[m] = IF m = onWire + 1 THEN e ELSE outbound[m]
      BY <1>1, <3>1
    <3>5. QED BY <3>3, <3>4 DEF op
  <2>3. QED BY <2>1, <2>2 DEF asyncPerformSend
<1>3. /\ \A x : Answers(x) => Answers(x)'
      /\ NoAnswer => NoAnswer'
  <2>1. \A m \in 1 .. Len(outbound') : outbound'[m].kind = "sums" =>
           \E j \in 1 .. Len(outbound) :
               /\ outbound[j].kind = "sums"
               /\ outbound'[m].tSum = outbound[j].tSum
               /\ outbound'[m].wSum = outbound[j].wSum
    BY <1>2
  <2>2. QED BY <1>1, <2>1, AnswersKept
<1>4. \A x : QSums(x)' = QSums(x)
  BY <1>1, SameSums
<1>5. Challenges' = Challenges /\ Extra' = Extra
  BY DEF Challenges, Extra
<1>6. \A x : Challenged(x) => Challenged(x)'
  BY <1>1, <1>3, <1>4, <1>5 DEF Challenged, sendVars
<1>7. QED BY <1>1, <1>3, <1>5, <1>6, NarrowSame DEF CheckInv, sendVars, CheckHoldsBeforeCorrection

\* A message that was received is gone.
LEMMA ReceivedKeeps ==
    ASSUME IndInv, NEW n \in Nat, n <= Len(outbound), Received(n),
           UNCHANGED <<base0, mChoiceBlks, mT0, mW>>, outbound' \in Seq(Messages)
    PROVE  /\ \A x : Answers(x) => Answers(x)'
           /\ NoAnswer => NoAnswer'
<1>1. outbound \in Seq(Messages)
  BY DEF IndInv, OtTypeOK
<1>2. outbound' = SubSeq(outbound, n + 1, Len(outbound))
  BY DEF Received
<1>3. \A m \in 1 .. Len(outbound') : m + n \in 1 .. Len(outbound) /\ outbound'[m] = outbound[m + n]
  BY <1>1, <1>2
<1>4. \A m \in 1 .. Len(outbound') : outbound'[m].kind = "sums" =>
         \E j \in 1 .. Len(outbound) :
             /\ outbound[j].kind = "sums"
             /\ outbound'[m].tSum = outbound[j].tSum
             /\ outbound'[m].wSum = outbound[j].wSum
  BY <1>3
<1>5. QED BY <1>1, <1>4, AnswersKept

\* The challenge.
LEMMA ChallengeStep ==
    ASSUME IndInv, IndInv', CheckInv, NEW x \in Challenges, sCorrectionIdx = numOTs, senderCheck(x)
    PROVE  CheckInv'
<1>1. /\ sStage = "ready" /\ sStage' = "challenged"
      /\ inbound = <<>> /\ NoAnswer /\ relation = "unknown"
      /\ inbound' = Append(inbound, x)
      /\ UNCHANGED <<base0, mChoiceBlks, mT0, mW, corrected, relation>>
      /\ Received(2) /\ onWire > 1
  BY DEF senderCheck, CheckInv, baseVars, recvVars
<1>2. /\ outbound' \in Seq(Messages) /\ 2 <= Len(outbound)
      /\ sCorrectionIdx' = numOTs + mStatSecParam
  <2>1. onWire \in 0 .. Len(outbound) /\ outbound \in Seq(Messages)
    BY DEF IndInv, OtTypeOK
  <2>2. outbound[2].count = mStatSecParam
    BY DEF senderCheck
  <2>3. sCorrectionIdx' = numOTs + mStatSecParam
    BY <2>2 DEF senderCheck, Store
  <2>4. QED BY <1>1, <2>1, <2>3 DEF IndInv, OtTypeOK
<1>3. NoAnswer'
  BY <1>1, <1>2, ReceivedKeeps
<1>4. inbound' = <<x>> /\ inbound' \in Seq(Challenges)
  BY <1>1
<1>5. Answers(x)'
  BY <1>3 DEF NoAnswer, Answers
<1>6. NarrowCode /\ corrected' = {} => \A l \in Extra : qSum'[l] = QSums(x)'[l]
  BY <1>1, SenderCheckSums, SameSums
<1>7. Challenged(x)'
  BY <1>4, <1>5, <1>6 DEF Challenged, Extra
<1>8. QED BY <1>1, <1>2, <1>4, <1>7, NarrowSame DEF CheckInv, CheckHoldsBeforeCorrection, Challenges, Extra

\* The comparison.
LEMMA VerifyStep == ASSUME IndInv, CheckInv, senderVerify PROVE CheckInv'
<1>1. /\ sStage = "challenged" /\ sStage' = "checked"
      /\ UNCHANGED <<corrected, inbound, sCorrectionIdx>>
      /\ Arrived("sums")
  BY DEF senderVerify
<1>2. PICK x \in Challenges : Challenged(x)
  BY <1>1 DEF CheckInv
<1>3. /\ Head(outbound).tSum = TSums(x) /\ Head(outbound).wSum = WSums(x)
  <2>1. /\ outbound \in Seq(Messages) /\ onWire \in 0 .. Len(outbound) /\ onWire > 0
        /\ Head(outbound).kind = "sums"
    BY <1>1 DEF IndInv, OtTypeOK, Arrived
  <2>2. 1 \in 1 .. Len(outbound) /\ Head(outbound) = outbound[1]
    BY <2>1
  <2>3. QED BY <1>2, <2>1, <2>2 DEF Challenged, Answers
<1>4. ASSUME NarrowCode, corrected = {} PROVE relation' = "holds"
  <2>1. ASSUME NEW l \in Extra
        PROVE  Head(outbound).tSum[l] (+) qSum[l] = Encode(Head(outbound).wSum[l]) \cap mChoiceBlks
    <3>1. qSum[l] = QSums(x)[l]
      BY <1>2, <1>4 DEF Challenged
    <3>2. Encoding
      BY <1>1, WaitingForAnswer
    <3>3. TSums(x)[l] (+) QSums(x)[l] = Encode(WSums(x)[l]) \cap mChoiceBlks
      BY <1>4, <3>2, RelationHolds
    <3>4. QED BY <1>3, <3>1, <3>3
  <2>2. QED BY <2>1 DEF senderVerify
<1>5. CheckHoldsBeforeCorrection'
  BY <1>1, <1>4, NarrowSame DEF CheckHoldsBeforeCorrection
<1>6. QED BY <1>1, <1>5, NarrowSame DEF CheckInv, CheckHoldsBeforeCorrection, Challenges, Extra

\* Steps of the sender that neither check nor wait.
LEMMA EarlySenderStep ==
    ASSUME CheckInv, sStage \notin {"challenged", "checked"},
           sStage' \notin {"challenged", "checked"},
           UNCHANGED <<rStage, relation, inbound>>, NoAnswer'
    PROVE  CheckInv'
BY NarrowSame DEF CheckInv, CheckHoldsBeforeCorrection, Challenges, Extra

LEMMA RecvStep ==
    ASSUME IndInv, IndInv', CheckInv, NEW c, recvCorrection(c)
    PROVE  CheckInv'
<1>1. /\ sStage = "ready" /\ onWire > 0 /\ Received(1)
      /\ UNCHANGED <<base0, mChoiceBlks, mT0, mW, rStage, sStage, relation, inbound>>
  BY DEF recvCorrection, Arrived, baseVars, recvVars
<1>2. 1 <= Len(outbound) /\ outbound' \in Seq(Messages)
  <2>1. onWire \in 0 .. Len(outbound) /\ outbound \in Seq(Messages)
    BY DEF IndInv, OtTypeOK
  <2>2. QED BY <1>1, <2>1 DEF IndInv, OtTypeOK
<1>3. NoAnswer'
  BY <1>1, <1>2, ReceivedKeeps DEF CheckInv
<1>4. QED BY <1>1, <1>3, EarlySenderStep

LEMMA CorrectionStep == ASSUME CheckInv, NEW i, senderOtCorrection(i) PROVE CheckInv'
<1>1. /\ sStage \in {"ready", "checked"} /\ corrected' # {}
      /\ UNCHANGED <<rStage, sStage, sCorrectionIdx, relation, inbound, outbound>>
  BY DEF senderOtCorrection, recvVars, chanVars
<1>2. NoAnswer' <=> NoAnswer
  BY <1>1 DEF NoAnswer
<1>3. QED BY <1>1, <1>2, NarrowSame DEF CheckInv, CheckHoldsBeforeCorrection, Challenges, Extra

\* The receiver's part of check().
LEMMA AskStep == ASSUME IndInv, CheckInv, NEW words, receiverCheck(words) PROVE CheckInv'
<1> DEFINE s == <<ZeroByte(rCorrectionIdx), Corrections(rCorrectionIdx, mStatSecParam)>>
<1>1. /\ rStage = "ready" /\ rStage' = "asked" /\ UNCHANGED <<sendVars, inbound>>
      /\ outbound' = outbound \o s
  BY DEF receiverCheck
<1>2. NoAnswer => NoAnswer'
  <2> SUFFICES ASSUME NoAnswer PROVE NoAnswer'
    OBVIOUS
  <2>1. s[1].kind = "byte" /\ s[2].kind = "corrections" /\ Len(s) = 2
    BY DEF ZeroByte, Corrections, Message
  <2>2. outbound \in Seq(Messages)
    BY DEF IndInv, OtTypeOK
  <2> DEFINE M == Messages \cup {s[1], s[2]}
  <2>3. s \in Seq(M)
    OBVIOUS
  <2>4. outbound \in Seq(M)
    BY <2>2
  <2> HIDE DEF s, M
  <2>5. \A m \in 1 .. Len(s) : s[m].kind # "sums"
    BY <2>1
  <2>6. QED BY <1>1, <2>3, <2>4, <2>5, NoAnswerAppend
<1>3. QED BY <1>1, <1>2, EarlyReceiverStep

LEMMA SendStep == ASSUME IndInv, CheckInv, NEW c, sendCorrection(c) PROVE CheckInv'
<1> DEFINE s == <<Corrections(rCorrectionIdx, c)>>
<1>1. /\ rStage = "ready" /\ rStage' = "ready" /\ UNCHANGED <<sendVars, inbound>>
      /\ outbound' = Append(outbound, Corrections(rCorrectionIdx, c))
  BY DEF sendCorrection
<1>2. NoAnswer => NoAnswer'
  <2>1. Corrections(rCorrectionIdx, c).kind = "corrections"
    BY DEF Corrections, Message
  <2>2. outbound \in Seq(Messages)
    BY DEF IndInv, OtTypeOK
  <2>3. QED BY <1>1, <2>1, <2>2 DEF NoAnswer
<1>3. QED BY <1>1, <1>2, EarlyReceiverStep

LEMMA CheckNext == IndInv /\ IndInv' /\ CheckInv /\ [OtNext]_otVars => CheckInv'
<1> SUFFICES ASSUME IndInv, IndInv', CheckInv, [OtNext]_otVars PROVE CheckInv'
  OBVIOUS
<1>1. ASSUME rStage \notin {"asked", "checked"}, rStage' # "checked",
             UNCHANGED <<sendVars, chanVars>>
      PROVE  CheckInv'
  BY <1>1, EarlyReceiverStep DEF chanVars, NoAnswer
<1>2. ASSUME sStage \notin {"challenged", "checked"}, sStage' \notin {"challenged", "checked"},
             UNCHANGED <<recvVars, relation, chanVars>>
      PROVE  CheckInv'
  BY <1>2, EarlySenderStep DEF recvVars, chanVars, NoAnswer, CheckInv
<1>3. CASE (rStage = "new" /\ receiverConfigure) \/ receiverSetBaseOts \/ receiverInit
  BY <1>1, <1>3 DEF receiverConfigure, receiverSetBaseOts, receiverInit
<1>4. ASSUME NEW i, NEW w, otCorrection(i, w) PROVE CheckInv'
  BY <1>1, <1>4 DEF otCorrection, chanVars
<1>5. ASSUME NEW i, zeroEncode(i) PROVE CheckInv'
  BY <1>1, <1>5 DEF zeroEncode, chanVars
<1>6. CASE (sStage = "new" /\ senderConfigure) \/ senderSetBaseOts \/ senderInit
  BY <1>2, <1>6 DEF senderConfigure, senderSetBaseOts, senderInit
<1>7. CASE UNCHANGED otVars
  <2>1. UNCHANGED <<base0, mChoiceBlks, mT0, mW, outbound>>
    BY <1>7 DEF otVars, baseVars, recvVars, chanVars
  <2>2. outbound \in Seq(Messages)
    BY DEF IndInv, OtTypeOK
  <2>3. (NoAnswer => NoAnswer') /\ \A x : Answers(x) => Answers(x)'
    BY <2>1, <2>2, AnswersKept DEF IndInv, OtTypeOK
  <2>4. \A x : QSums(x)' = QSums(x)
    BY <2>1, SameSums
  <2>5. UNCHANGED <<inbound, sStage, rStage, relation, sCorrectionIdx, corrected, qSum>>
    BY <1>7 DEF otVars, recvVars, sendVars, chanVars
  <2>6. Extra' = Extra /\ Challenges' = Challenges
    BY DEF Extra, Challenges
  <2>7. \A x : Challenged(x) => Challenged(x)'
    BY <2>3, <2>4, <2>5, <2>6 DEF Challenged
  <2>8. QED BY <2>3, <2>5, <2>6, <2>7, NarrowSame DEF CheckInv, CheckHoldsBeforeCorrection
<1>8. ASSUME NEW x \in Challenges, sCorrectionIdx = numOTs, senderCheck(x) PROVE CheckInv'
  BY <1>8, ChallengeStep
<1>9. CASE asyncPerformSend
  BY <1>9, CheckTransmit DEF IndInv, OtTypeOK
<1>10. QED
  BY <1>3, <1>4, <1>5, <1>6, <1>7, <1>8, <1>9, SendStep, AskStep, AnswerStep, RecvStep,
     CorrectionStep, VerifyStep DEF OtNext, ReceiverStep, SenderStep, Challenges

-----------------------------------------------------------------------------

\* With honest ends check() finds that the linear relation holds, for every code
\* with words of one block and codewords of at most four (those of 65 to 90 bits),
\* all words, seeds and challenges, if the sender calls it before otCorrection:
\* the sums of either end, made of the same rows at different times, are linear.
\* A longer word is added up block by block (PrtyMOtReceiver::check), and a longer
\* codeword with blocks nobody cleared (zeroAndQ in PrtyMOtSender::check).
THEOREM CheckCorrect == OtSpec => []CheckHoldsBeforeCorrection
<1>1. OtInit => IndInv /\ CheckInv
  BY InitInv, CheckInit
<1>2. (IndInv /\ CheckInv) /\ [OtNext]_otVars => (IndInv /\ CheckInv)'
  BY NextInv, CheckNext
<1>3. CheckInv => CheckHoldsBeforeCorrection
  BY DEF CheckInv
<1>4. QED BY <1>1, <1>2, <1>3, PTL DEF OtSpec
=============================================================================
