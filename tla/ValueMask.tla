----------------------------- MODULE ValueMask -----------------------------
(***************************************************************************)
(* The values of the keys, as the constructor of ProtocolParty draws them: *)
(* fieldSizeBytes random bytes for a value, the last of which is then      *)
(* shifted to the right so that only bits of the field are left.           *)
(*                                                                         *)
(* A byte is the set of the numbers of its bits that are 1.                *)
(***************************************************************************)
EXTENDS Integers, TLAPS

CONSTANTS
    ByteSize,       \* 8
    hashSize,       \* the number of values
    FieldSizes      \* the field sizes that are supported

MaskParameters ==
    /\ ByteSize \in Nat \ {0}
    /\ hashSize \in Nat \ {0}
    /\ FieldSizes \subseteq Nat \ {0}

VARIABLES fieldSize, vals, i

vars == <<fieldSize, vals, i>>

Byte == SUBSET (0 .. ByteSize - 1)

fieldSizeBytes ==
    IF fieldSize % ByteSize = 0 THEN fieldSize \div ByteSize ELSE fieldSize \div ByteSize + 1

zeroBits == ByteSize - (fieldSize % ByteSize)

ShiftRight(b, n) == {k - n : k \in {j \in b : j >= n}}

\* getPRGBytes fills vals with any bytes.
Init ==
    /\ fieldSize \in FieldSizes
    /\ vals \in [0 .. hashSize * fieldSizeBytes - 1 -> Byte]
    /\ i = 0

\* The last byte of value i.
Last(n) == (n + 1) * fieldSizeBytes - 1

Mask ==
    /\ i < hashSize
    /\ vals' = [vals EXCEPT ![Last(i)] = ShiftRight(@, zeroBits)]
    /\ i' = i + 1
    /\ UNCHANGED fieldSize

Spec == Init /\ [][Mask]_vars

-----------------------------------------------------------------------------

\* The bits of the last byte that belong to the field.
FieldBits == {k \in 0 .. ByteSize - 1 : (fieldSizeBytes - 1) * ByteSize + k < fieldSize}

\* A masked value is an element of the field: "masking the values so they will
\* not have random in the padding bits" (constructor of ProtocolParty).
PaddingClear == \A n \in 0 .. i - 1 : vals[Last(n)] \subseteq FieldBits

\* The mask takes away no more than that: every element of the field is the
\* masked form of some value.
EveryElementDrawn == i > 0 => {ShiftRight(b, zeroBits) : b \in Byte} = SUBSET FieldBits

-----------------------------------------------------------------------------
(* Proof that the padding is clear, whatever the sizes.                    *)

TypeOK ==
    /\ fieldSize \in FieldSizes
    /\ vals \in [0 .. hashSize * fieldSizeBytes - 1 -> SUBSET (0 .. ByteSize - 1)]
    /\ i \in 0 .. hashSize

\* A value has at least one byte, and its last byte starts at a bit of the field.
LEMMA SizesFit ==
    ASSUME MaskParameters, fieldSize \in FieldSizes
    PROVE  /\ fieldSizeBytes \in Nat \ {0}
           /\ fieldSize % ByteSize \in 0 .. ByteSize - 1
           /\ fieldSize % ByteSize # 0 =>
                 (fieldSizeBytes - 1) * ByteSize = fieldSize - (fieldSize % ByteSize)
  <1> DEFINE r == fieldSize % ByteSize  q == fieldSize \div ByteSize
  <1>1. fieldSize \in Nat \ {0} /\ ByteSize \in Nat \ {0}
    BY DEF MaskParameters
  <1>2. q \in Nat /\ r \in 0 .. ByteSize - 1 /\ fieldSize = q * ByteSize + r
    BY <1>1, Z3
  <1>3. r = 0 => q # 0
    BY <1>1, <1>2, Z3
  <1> QED
    BY <1>1, <1>2, <1>3, Z3 DEF fieldSizeBytes

\* What is left of a shifted byte belongs to the field.
LEMMA ShiftedFits ==
    ASSUME MaskParameters, fieldSize \in FieldSizes, NEW b \in Byte
    PROVE  ShiftRight(b, zeroBits) \subseteq FieldBits
  <1> SUFFICES ASSUME NEW k \in b, k >= zeroBits
               PROVE  k - zeroBits \in FieldBits
    BY DEF ShiftRight
  <1> DEFINE r == fieldSize % ByteSize
  <1>1. /\ k \in 0 .. ByteSize - 1 /\ ByteSize \in Nat \ {0} /\ fieldSize \in Nat
        /\ r \in 0 .. ByteSize - 1 /\ zeroBits = ByteSize - r
    BY SizesFit DEF MaskParameters, Byte, zeroBits
  <1>2. r # 0 /\ k - zeroBits \in 0 .. r - 1
    BY <1>1
  <1>3. (fieldSizeBytes - 1) * ByteSize = fieldSize - r
    BY <1>2, SizesFit
  <1> QED
    BY <1>1, <1>2, <1>3 DEF FieldBits

\* Values do not share their last byte.
LEMMA LastApart ==
    ASSUME MaskParameters, fieldSize \in FieldSizes,
           NEW n \in Nat, n < hashSize
    PROVE  /\ Last(n) \in 0 .. hashSize * fieldSizeBytes - 1
           /\ \A m \in 0 .. n - 1 : Last(m) # Last(n)
  <1>1. fieldSizeBytes \in Nat \ {0} /\ hashSize \in Nat
    BY SizesFit DEF MaskParameters
  <1> DEFINE w == fieldSizeBytes
  <1> HIDE DEF w
  <1>2. (n + 1) * w \in Nat \ {0} /\ (n + 1) * w <= hashSize * w
    BY <1>1, Z3 DEF w
  <1>3. \A m \in 0 .. n - 1 : (m + 1) * w \in Int /\ (m + 1) * w < (n + 1) * w
    BY <1>1, Z3 DEF w
  <1> QED
    BY <1>1, <1>2, <1>3 DEF Last, w

\* No value that was masked has random bits in its padding (constructor of
\* ProtocolParty), for all supported sizes of fields.
THEOREM PaddingIsClear ==
    ASSUME MaskParameters
    PROVE  Spec => []PaddingClear
  <1>1. Init => TypeOK /\ PaddingClear
    BY DEF Init, TypeOK, PaddingClear, Byte, MaskParameters
  <1>2. TypeOK /\ PaddingClear /\ [Mask]_vars => TypeOK' /\ PaddingClear'
    <2> SUFFICES ASSUME TypeOK, PaddingClear, [Mask]_vars PROVE TypeOK' /\ PaddingClear'
      OBVIOUS
    <2>1. CASE UNCHANGED vars
      BY <2>1 DEF TypeOK, PaddingClear, vars, Last, FieldBits, fieldSizeBytes
    <2>2. CASE Mask
      <3>1. /\ fieldSize' = fieldSize /\ fieldSizeBytes' = fieldSizeBytes /\ FieldBits' = FieldBits
            /\ \A n : Last(n)' = Last(n)
        BY <2>2 DEF Mask, fieldSizeBytes, FieldBits, Last
      <3>2. /\ i \in Nat /\ i < hashSize /\ i' = i + 1 /\ hashSize \in Nat
            /\ Last(i) \in 0 .. hashSize * fieldSizeBytes - 1
            /\ \A m \in 0 .. i - 1 : Last(m) # Last(i)
        BY <2>2, LastApart DEF Mask, TypeOK, MaskParameters
      <3>3. vals[Last(i)] \in Byte /\ ByteSize \in Nat
        BY <3>2 DEF TypeOK, Byte, MaskParameters
      <3>4. ShiftRight(vals[Last(i)], zeroBits) \subseteq FieldBits
        BY <3>3, ShiftedFits DEF TypeOK
      <3>5. FieldBits \subseteq 0 .. ByteSize - 1
        BY DEF FieldBits
      <3>6. vals' = [vals EXCEPT ![Last(i)] = ShiftRight(vals[Last(i)], zeroBits)]
        BY <2>2 DEF Mask
      <3>7. TypeOK'
        <4>1. vals' \in [0 .. hashSize * fieldSizeBytes - 1 -> SUBSET (0 .. ByteSize - 1)]
          BY <3>2, <3>4, <3>5, <3>6 DEF TypeOK
        <4> QED BY <4>1, <3>1, <3>2 DEF TypeOK
      <3>8. ASSUME NEW n \in 0 .. i' - 1 PROVE vals'[Last(n)] \subseteq FieldBits
        <4>1. n \in 0 .. i - 1 \/ n = i
          BY <3>2, <3>8
        <4>2. CASE n = i
          BY <4>2, <3>2, <3>4, <3>6 DEF TypeOK
        <4>3. CASE n \in 0 .. i - 1
          BY <4>3, <3>2, <3>6 DEF TypeOK, PaddingClear
        <4> QED BY <4>1, <4>2, <4>3
      <3> QED
        BY <3>1, <3>7, <3>8 DEF PaddingClear
    <2> QED BY <2>1, <2>2
  <1> QED
    BY <1>1, <1>2, PTL DEF Spec
=============================================================================
