--------------------- MODULE ObliviousDictionaryProofs ---------------------
(***************************************************************************)
(* Proofs about the oblivious dictionary, for every finite set of keys,    *)
(* every table size, every gamma and every field.                          *)
(***************************************************************************)
EXTENDS ObliviousDictionary, TLAPS, FiniteSetTheorems

USE DictionaryAssumption

\* Addition stays inside the field.
LEMMA AddType == ASSUME NEW x \in GF2E, NEW y \in GF2E PROVE x (+) y \in GF2E
BY DEF (+), GF2E

\* So does a sum of variables.
LEMMA SumType == ASSUME NEW S, NEW v PROVE Sum(S, v) \in GF2E
BY DEF Sum, GF2E

\* A key's buckets are indices of variables, below the DH variables.
LEMMA IndexType ==
    ASSUME TypeOK, NEW k \in Keys
    PROVE  /\ FirstIndex(k) \in 0 .. tableRealSize - 1
           /\ SecondIndex(k) \in tableRealSize .. 2 * tableRealSize - 1
           /\ FirstIndex(k) \in Buckets
           /\ SecondIndex(k) \in Buckets
           /\ FirstIndex(k) # SecondIndex(k)
BY DEF TypeOK, FirstIndex, SecondIndex, Positions, Buckets

-----------------------------------------------------------------------------
(* Peeling.                                                                *)

\* The first key is fixed: a sequence with one more element at the end.
LEMMA AppendFacts ==
    ASSUME NEW v \in Seq(Keys), NEW k \in Keys
    PROVE  /\ Append(v, k) \in Seq(Keys)
           /\ Len(Append(v, k)) = Len(v) + 1
           /\ DOMAIN v = 1 .. Len(v)
           /\ DOMAIN Append(v, k) = 1 .. Len(v) + 1
           /\ \A i \in 1 .. Len(v) : Append(v, k)[i] = v[i]
           /\ Append(v, k)[Len(v) + 1] = k
           /\ Range(Append(v, k)) = Range(v) \cup {k}
<1>1. /\ Append(v, k) \in Seq(Keys)
      /\ Len(Append(v, k)) = Len(v) + 1
      /\ DOMAIN v = 1 .. Len(v)
      /\ DOMAIN Append(v, k) = 1 .. Len(v) + 1
      /\ \A i \in 1 .. Len(v) : Append(v, k)[i] = v[i]
      /\ Append(v, k)[Len(v) + 1] = k
      /\ Len(v) \in Nat
  OBVIOUS
<1>2. Range(Append(v, k)) = Range(v) \cup {k}
  <2>1. ASSUME NEW x \in Range(Append(v, k)) PROVE x \in Range(v) \cup {k}
    <3>1. PICK i \in 1 .. Len(v) + 1 : x = Append(v, k)[i]
      BY <1>1, <2>1 DEF Range
    <3>2. CASE i = Len(v) + 1
      BY <1>1, <3>1, <3>2
    <3>3. CASE i \in 1 .. Len(v)
      BY <1>1, <3>1, <3>3 DEF Range
    <3>4. QED BY <1>1, <3>1, <3>2, <3>3
  <2>2. ASSUME NEW x \in Range(v) \cup {k} PROVE x \in Range(Append(v, k))
    <3>1. CASE x = k
      BY <1>1, <3>1 DEF Range
    <3>2. CASE x \in Range(v)
      <4>1. PICK i \in 1 .. Len(v) : x = v[i]
        BY <1>1, <3>2 DEF Range
      <4>2. i \in 1 .. Len(v) + 1 /\ x = Append(v, k)[i]
        BY <1>1, <4>1
      <4>3. QED BY <1>1, <4>2 DEF Range
    <3>3. QED BY <2>2, <3>1, <3>2
  <2>3. QED BY <2>1, <2>2
<1>3. QED BY <1>1, <1>2

\* The heart of peeling: a key alone in one of its buckets may be peeled.
LEMMA PeelAlone ==
    ASSUME TypeOK, NEW S \in SUBSET Keys, NEW v \in Seq(Keys), NEW k \in S,
           Partition(S, v), PeelingOrder(S, v), CoreStays(S),
           Bucket(S, h1, h1[k]) = {k} \/ Bucket(S, h2, h2[k]) = {k}
    PROVE  /\ Partition(S \ {k}, Append(v, k))
           /\ PeelingOrder(S \ {k}, Append(v, k))
           /\ CoreStays(S \ {k})
<1> DEFINE w == Append(v, k)
           T == S \ {k}
<1>0. k \in Keys
  OBVIOUS
<1>1. /\ w \in Seq(Keys)
      /\ Len(w) = Len(v) + 1
      /\ DOMAIN v = 1 .. Len(v)
      /\ DOMAIN w = 1 .. Len(v) + 1
      /\ \A i \in 1 .. Len(v) : w[i] = v[i]
      /\ w[Len(v) + 1] = k
      /\ Range(w) = Range(v) \cup {k}
      /\ Len(v) \in Nat
  BY <1>0, AppendFacts
<1> HIDE DEF w
<1>2. Partition(T, w)
  <2>1. Keys = T \cup Range(w) /\ T \cap Range(w) = {}
    BY <1>1 DEF Partition
  <2>2. ASSUME NEW i \in DOMAIN w, NEW j \in DOMAIN w, i # j PROVE w[i] # w[j]
    <3>1. \A n \in 1 .. Len(v) : v[n] # k
      BY <1>1 DEF Partition, Range
    <3>2. \A n \in 1 .. Len(v) + 1 : n = Len(v) + 1 \/ n \in 1 .. Len(v)
      BY <1>1
    <3>3. \A m, n \in 1 .. Len(v) : m # n => v[m] # v[n]
      BY <1>1 DEF Partition
    <3>4. QED BY <1>1, <2>2, <3>1, <3>2, <3>3
  <2>3. Len(w) + Cardinality(T) = hashSize
    <3>1. IsFiniteSet(S)
      BY FS_Subset
    <3>2. Cardinality(T) = Cardinality(S) - 1 /\ Cardinality(S) \in Nat
      BY <3>1, FS_RemoveElement, FS_CardinalityType
    <3>3. QED BY <1>1, <3>2 DEF Partition
  <2>4. QED BY <2>1, <2>2, <2>3 DEF Partition
<1>3. PeelingOrder(T, w)
  <2> SUFFICES ASSUME NEW i \in DOMAIN w
               PROVE  \/ \A l \in PeeledAfter(T, w, i) : h1[l] # h1[w[i]]
                      \/ \A l \in PeeledAfter(T, w, i) : h2[l] # h2[w[i]]
    BY DEF PeelingOrder
  <2>1. CASE i = Len(v) + 1
    <3>1. PeeledAfter(T, w, i) = T
      BY <1>1, <2>1 DEF PeeledAfter
    <3>2. QED BY <1>1, <2>1, <3>1 DEF Bucket
  <2>2. CASE i \in 1 .. Len(v)
    <3>1. ASSUME NEW l \in PeeledAfter(T, w, i) PROVE l \in PeeledAfter(S, v, i)
      <4>1. CASE l \in T
        BY <4>1 DEF PeeledAfter
      <4>2. CASE l \notin T
        <5>1. PICK j \in i + 1 .. Len(v) + 1 : l = w[j]
          BY <1>1, <3>1, <4>2 DEF PeeledAfter
        <5>2. CASE j = Len(v) + 1
          BY <1>1, <5>1, <5>2 DEF PeeledAfter
        <5>3. CASE j \in i + 1 .. Len(v)
          BY <1>1, <2>2, <5>1, <5>3 DEF PeeledAfter
        <5>4. QED BY <1>1, <2>2, <5>1, <5>2, <5>3
      <4>3. QED BY <4>1, <4>2
    <3>2. w[i] = v[i] /\ i \in DOMAIN v
      BY <1>1, <2>2
    <3>3. QED BY <3>1, <3>2 DEF PeelingOrder
  <2>3. i = Len(v) + 1 \/ i \in 1 .. Len(v)
    BY <1>1
  <2>4. QED BY <2>1, <2>2, <2>3
<1>4. CoreStays(T)
  <2> SUFFICES ASSUME NEW C \in SUBSET Keys, MinDegreeTwo(C) PROVE k \notin C
    BY DEF CoreStays
  <2> SUFFICES ASSUME k \in C PROVE FALSE
    OBVIOUS
  <2>1. C \subseteq S
    BY DEF CoreStays
  <2>2. PICK a \in C : a # k /\ h1[a] = h1[k]
    BY DEF MinDegreeTwo, Crowded, Bucket
  <2>3. PICK b \in C : b # k /\ h2[b] = h2[k]
    BY DEF MinDegreeTwo, Crowded, Bucket
  <2>4. QED BY <2>1, <2>2, <2>3 DEF Bucket
<1>5. QED BY <1>2, <1>3, <1>4 DEF w

\* What Peel does for one key.
LEMMA PeelOneKey ==
    ASSUME TypeOK, NEW k \in Keys, Peel(<<k>>)
    PROVE  /\ peelingVector' = Append(peelingVector, k)
           /\ peelingCounter' = peelingCounter + 1
           /\ first' = first \ {k}
           /\ second' = second \ {k}
<1>1. Range(<<k>>) = {k}
  BY DEF Range
<1>2. peelingVector \o <<k>> = Append(peelingVector, k)
  BY DEF TypeOK
<1>3. QED BY <1>1, <1>2 DEF Peel

\* What Peel does for two keys.
LEMMA PeelTwoKeys ==
    ASSUME TypeOK, NEW k \in Keys, NEW l \in Keys, Peel(<<k, l>>)
    PROVE  /\ peelingVector' = Append(Append(peelingVector, k), l)
           /\ peelingCounter' = peelingCounter + 2
           /\ first' = (first \ {k}) \ {l}
           /\ second' = (second \ {k}) \ {l}
<1>1. Range(<<k, l>>) = {k, l}
  BY DEF Range
<1>2. peelingVector \o <<k, l>> = Append(Append(peelingVector, k), l)
  BY DEF TypeOK
<1>3. QED BY <1>1, <1>2 DEF Peel

LEMMA UnpeelKeyType ==
    ASSUME TypeOK, NEW k \in Keys, UnpeelKey(k)
    PROVE  variables' \in [Buckets \cup DHPositions -> GF2E]
<1> DEFINE a == FirstIndex(k)
           b == SecondIndex(k)
           s == Sum(DHIndices(k), variables)
           va(r) == IF Unset(a, r) THEN (vals[k] (+) variables[b]) (+) s ELSE r
           vb(r) == IF Unset(b, variables[b]) THEN (vals[k] (+) va(r)) (+) s ELSE variables[b]
<1>1. a \in Buckets /\ b \in Buckets
  BY IndexType
<1>2. variables[a] \in GF2E /\ variables[b] \in GF2E /\ vals[k] \in GF2E /\ s \in GF2E
  BY <1>1, SumType DEF TypeOK
<1>3. PICK r \in GF2E : variables' = [variables EXCEPT ![a] = va(r), ![b] = vb(r)]
  BY <1>1, <1>2 DEF UnpeelKey
<1>4. va(r) \in GF2E
  BY <1>2, AddType
<1>5. vb(r) \in GF2E
  BY <1>2, <1>4, AddType
<1>6. QED
  <2> HIDE DEF va, vb, a, b
  <2> QED BY <1>1, <1>3, <1>4, <1>5 DEF TypeOK


\* The shape of the predicates about peeling does not depend on the step, as the
\* hash functions are fixed.
LEMMA HashesFixed ==
    ASSUME UNCHANGED hashVars, PeelingOrder(first', peelingVector'), CoreStays(first'),
           Partition(first', peelingVector')
    PROVE  /\ Partition(first, peelingVector)'
           /\ PeelingOrder(first, peelingVector)'
           /\ CoreStays(first)'
<1>1. Partition(first, peelingVector)'
  BY DEF Partition
<1>2. PeelingOrder(first, peelingVector)'
  BY DEF PeelingOrder, PeeledAfter, hashVars
<1>3. CoreStays(first)'
  <2>1. ASSUME NEW C \in SUBSET Keys, MinDegreeTwo(C)' PROVE MinDegreeTwo(C)
    <3>1. h1' = h1 /\ h2' = h2
      BY DEF hashVars
    <3>2. \A k \in C : Crowded(C, h1', h1'[k]) /\ Crowded(C, h2', h2'[k])
      BY <2>1 DEF MinDegreeTwo, Crowded, Bucket
    <3>3. QED BY <3>1, <3>2 DEF MinDegreeTwo
  <2>2. QED BY <2>1 DEF CoreStays
<1>4. QED BY <1>1, <1>2, <1>3

LEMMA InitPeelInv == Init => PeelInv
<1> SUFFICES ASSUME Init PROVE PeelInv
  OBVIOUS
<1>1. TypeOK
  <2>1. peelingVector \in Seq(Keys) /\ Len(peelingVector) = 0
    BY DEF Init
  <2>2. variables \in [Buckets \cup DHPositions -> GF2E]
    BY DEF Init, GF2E, Zero
  <2>3. zeroHit \in BOOLEAN /\ sign \in [Buckets -> {0, 1}]
    BY DEF Init
  <2>4. position \in 0 .. tableRealSize /\ run \in 0 .. Times /\ peelingCounter \in 0 .. Len(peelingVector)
    BY <2>1 DEF Init
  <2>5. QED BY <2>1, <2>2, <2>3, <2>4 DEF Init, TypeOK
<1>2. TablesAgree /\ PeelingSound /\ FirstScanned /\ SecondScanned
  BY DEF Init, TablesAgree, PeelingSound, FirstScanned, SecondScanned, Scanning, Peeled
<1>3. QED BY <1>1, <1>2 DEF PeelInv

LEMMA initKeepsPeelInv == PeelInv /\ init => PeelInv'
<1> SUFFICES ASSUME PeelInv, init PROVE PeelInv'
  OBVIOUS
<1>1. TypeOK'
  <2>1. peelingVector' \in Seq(Keys) /\ Len(peelingVector') = 0
    BY DEF init
  <2>2. variables' \in [Buckets \cup DHPositions -> GF2E]
    BY DEF init, GF2E, Zero
  <2>3. zeroHit' \in BOOLEAN
    BY DEF init
  <2>4. peelingCounter' \in 0 .. Len(peelingVector')
    BY <2>1 DEF init
  <2>5. run' \in 0 .. Times
    BY DEF init, PeelInv, TypeOK
  <2>6. QED BY <2>1, <2>2, <2>3, <2>4, <2>5 DEF init, TypeOK, PeelInv, hashVars
<1>2. TablesAgree' /\ PeelingSound' /\ FirstScanned' /\ SecondScanned'
  BY DEF init, TablesAgree, PeelingSound, FirstScanned, SecondScanned, Scanning, Peeled
<1>3. QED BY <1>1, <1>2 DEF PeelInv

LEMMA fillTablesKeepsPeelInv == PeelInv /\ fillTables => PeelInv'
<1> SUFFICES ASSUME PeelInv, fillTables PROVE PeelInv'
  OBVIOUS
<1> USE DEF PeelInv
<1>1. TypeOK'
  BY DEF TypeOK, TablesAgree, fillTables, hashVars
<1>2. TablesAgree'
  BY DEF TablesAgree, fillTables
<1>3. PeelingSound'
  <2>1. first' = Keys /\ peelingVector' = <<>>
    BY DEF fillTables, TablesAgree
  <2>2. Partition(first', peelingVector')
    <3>1. Range(<<>>) = {} /\ DOMAIN <<>> = {} /\ Len(<<>>) = 0
      BY DEF Range
    <3>2. Cardinality(Keys) \in Nat
      BY FS_CardinalityType
    <3>3. QED BY <2>1, <3>1, <3>2 DEF Partition, hashSize
  <2>3. PeelingOrder(first', peelingVector') /\ CoreStays(first')
    BY <2>1 DEF PeelingOrder, CoreStays
  <2>4. QED BY <2>2, <2>3, HashesFixed DEF PeelingSound, fillTables
<1>4. FirstScanned' /\ SecondScanned'
  BY DEF FirstScanned, SecondScanned, fillTables, Peeled, TypeOK, Positions, hashVars
<1>5. QED BY <1>1, <1>2, <1>3, <1>4


\* Peeling one key of the tables keeps the part of the invariant about the vector.
LEMMA PeelOneSound ==
    ASSUME PeelInv, Scanning, NEW k \in first, Peel(<<k>>), UNCHANGED hashVars,
           Bucket(first, h1, h1[k]) = {k} \/ Bucket(first, h2, h2[k]) = {k}
    PROVE  /\ Partition(first, peelingVector)'
           /\ PeelingOrder(first, peelingVector)'
           /\ CoreStays(first)'
           /\ first' = first \ {k}
           /\ first' = second'
           /\ first' \subseteq Keys
           /\ peelingVector' \in Seq(Keys)
           /\ peelingCounter' = Len(peelingVector')
           /\ peelingCounter' \in Nat
<1>1. k \in Keys /\ first = second /\ peelingCounter = Len(peelingVector)
      /\ first \in SUBSET Keys /\ peelingVector \in Seq(Keys)
  BY DEF PeelInv, TypeOK, TablesAgree, Scanning
<1>2. /\ peelingVector' = Append(peelingVector, k)
      /\ peelingCounter' = peelingCounter + 1
      /\ first' = first \ {k}
      /\ second' = second \ {k}
  BY <1>1, PeelOneKey DEF PeelInv
<1>3. /\ Partition(first', peelingVector')
      /\ PeelingOrder(first', peelingVector')
      /\ CoreStays(first')
  BY <1>1, <1>2, PeelAlone DEF PeelInv, PeelingSound
<1>4. /\ Partition(first, peelingVector)'
      /\ PeelingOrder(first, peelingVector)'
      /\ CoreStays(first)'
  BY <1>3, HashesFixed
<1>5. peelingVector' \in Seq(Keys) /\ Len(peelingVector') = Len(peelingVector) + 1
  BY <1>1, <1>2, AppendFacts
<1>6. QED BY <1>1, <1>2, <1>4, <1>5

LEMMA PeelFirstKeepsPeelInv == PeelInv /\ PeelFirst => PeelInv'
<1> SUFFICES ASSUME PeelInv, PeelFirst PROVE PeelInv'
  OBVIOUS
<1>1. PICK k \in first : Bucket(first, h1, position) = {k} /\ Peel(<<k>>)
  BY DEF PeelFirst
<1>2. h1[k] = position
  BY <1>1 DEF Bucket
<1>3. Scanning /\ UNCHANGED hashVars
  BY DEF PeelFirst, Scanning
<1>4. /\ Partition(first, peelingVector)'
      /\ PeelingOrder(first, peelingVector)'
      /\ CoreStays(first)'
      /\ first' = first \ {k}
      /\ first' = second'
      /\ first' \subseteq Keys
      /\ peelingVector' \in Seq(Keys)
      /\ peelingCounter' = Len(peelingVector')
      /\ peelingCounter' \in Nat
  BY <1>1, <1>2, <1>3, PeelOneSound
<1>5. TypeOK'
  BY <1>4 DEF PeelInv, TypeOK, PeelFirst, hashVars
<1>6. TablesAgree' /\ PeelingSound' /\ SecondScanned'
  BY <1>4 DEF TablesAgree, PeelingSound, SecondScanned, PeelFirst, Peeled
<1>7. FirstScanned'
  <2> SUFFICES ASSUME NEW j \in first', h1[j] < position + 1
               PROVE  Crowded(first', h1, h1[j])
    BY DEF FirstScanned, PeelFirst, hashVars, Peeled, Crowded, Bucket
  <2>1. j \in first /\ h1[j] # position /\ j # k
    BY <1>1, <1>4 DEF Bucket
  <2>2. h1[j] < position
    BY <2>1 DEF PeelInv, TypeOK, Positions
  <2>3. Crowded(first, h1, h1[j])
    BY <2>1, <2>2 DEF PeelInv, FirstScanned, PeelFirst
  <2>4. QED BY <1>2, <1>4, <2>1, <2>3 DEF Crowded, Bucket
<1>8. QED BY <1>5, <1>6, <1>7 DEF PeelInv

LEMMA SkipFirstKeepsPeelInv == PeelInv /\ SkipFirst => PeelInv'
<1> SUFFICES ASSUME PeelInv, SkipFirst PROVE PeelInv'
  OBVIOUS
<1>1. TypeOK' /\ TablesAgree' /\ SecondScanned'
  BY DEF PeelInv, TypeOK, TablesAgree, SecondScanned, SkipFirst, hashVars, Peeled
<1>2. PeelingSound'
  BY HashesFixed DEF PeelInv, PeelingSound, SkipFirst, Scanning
<1>3. FirstScanned'
  <2> SUFFICES ASSUME NEW j \in first, h1[j] < position + 1
               PROVE  Crowded(first, h1, h1[j])
    BY DEF FirstScanned, SkipFirst, hashVars, Peeled, Crowded, Bucket
  <2>1. CASE h1[j] < position
    BY <2>1 DEF PeelInv, FirstScanned, SkipFirst
  <2>2. CASE h1[j] = position
    BY <2>2 DEF SkipFirst, Crowded, Bucket
  <2>3. QED BY <2>1, <2>2 DEF PeelInv, TypeOK, Positions
<1>4. QED BY <1>1, <1>2, <1>3 DEF PeelInv

LEMMA EndFirstKeepsPeelInv == PeelInv /\ EndFirst => PeelInv'
<1> SUFFICES ASSUME PeelInv, EndFirst PROVE PeelInv'
  OBVIOUS
<1>1. TypeOK' /\ TablesAgree'
  BY DEF PeelInv, TypeOK, TablesAgree, EndFirst, hashVars
<1>2. PeelingSound'
  BY HashesFixed DEF PeelInv, PeelingSound, EndFirst, Scanning
<1>3. FirstScanned'
  <2> SUFFICES ASSUME NEW j \in first PROVE Crowded(first, h1, h1[j])
    BY DEF FirstScanned, EndFirst, hashVars, Crowded, Bucket
  <2>1. h1[j] < position
    BY DEF PeelInv, TypeOK, EndFirst, Positions
  <2>2. QED BY <2>1 DEF PeelInv, FirstScanned, EndFirst
<1>4. SecondScanned'
  <2>1. \A j \in first' : ~ (h2'[j] < position')
    BY DEF PeelInv, TypeOK, EndFirst, Positions, hashVars
  <2>2. QED BY <2>1 DEF SecondScanned, EndFirst, Peeled
<1>5. QED BY <1>1, <1>2, <1>3, <1>4 DEF PeelInv

LEMMA StartChainKeepsPeelInv == PeelInv /\ StartChain => PeelInv'
<1> SUFFICES ASSUME PeelInv, StartChain PROVE PeelInv'
  OBVIOUS
<1>0. PICK k \in second : Bucket(second, h2, position) = {k} /\ key' = k
  BY DEF StartChain
<1>1. TypeOK' /\ TablesAgree' /\ FirstScanned'
  BY <1>0 DEF PeelInv, TypeOK, TablesAgree, FirstScanned, StartChain, hashVars, Peeled, Crowded, Bucket
<1>2. PeelingSound'
  BY HashesFixed DEF PeelInv, PeelingSound, StartChain, Scanning
<1>3. SecondScanned'
  <2>1. first = second /\ k \in first /\ h2[k] = position
    BY <1>0 DEF PeelInv, TablesAgree, Bucket
  <2>2. ASSUME NEW j \in first, h2[j] <= position, j # k PROVE Crowded(first, h2, h2[j])
    <3>1. h2[j] < position
      BY <1>0, <2>1, <2>2 DEF Bucket, PeelInv, TypeOK, Positions
    <3>2. QED BY <3>1 DEF PeelInv, SecondScanned, StartChain
  <2>3. QED BY <1>0, <2>1, <2>2 DEF SecondScanned, StartChain, hashVars, Peeled, Crowded, Bucket
<1>4. QED BY <1>1, <1>2, <1>3 DEF PeelInv

LEMMA SkipSecondKeepsPeelInv == PeelInv /\ SkipSecond => PeelInv'
<1> SUFFICES ASSUME PeelInv, SkipSecond PROVE PeelInv'
  OBVIOUS
<1>1. TypeOK' /\ TablesAgree' /\ FirstScanned'
  BY DEF PeelInv, TypeOK, TablesAgree, FirstScanned, SkipSecond, hashVars, Peeled, Crowded, Bucket
<1>2. PeelingSound'
  BY HashesFixed DEF PeelInv, PeelingSound, SkipSecond, Scanning
<1>3. SecondScanned'
  <2> SUFFICES ASSUME NEW j \in first, h2[j] < position + 1
               PROVE  Crowded(first, h2, h2[j])
    BY DEF SecondScanned, SkipSecond, hashVars, Peeled, Crowded, Bucket
  <2>1. CASE h2[j] < position
    BY <2>1 DEF PeelInv, SecondScanned, SkipSecond
  <2>2. CASE h2[j] = position
    BY <2>2 DEF SkipSecond, Crowded, Bucket, PeelInv, TablesAgree
  <2>3. QED BY <2>1, <2>2 DEF PeelInv, TypeOK, Positions
<1>4. QED BY <1>1, <1>2, <1>3 DEF PeelInv

LEMMA PeelOneKeepsPeelInv == PeelInv /\ PeelOne => PeelInv'
<1> SUFFICES ASSUME PeelInv, PeelOne PROVE PeelInv'
  OBVIOUS
<1>1. /\ key \in first
      /\ Bucket(first, h2, h2[key]) = {key}
      /\ Scanning
      /\ position < tableRealSize
      /\ Peel(<<key>>)
      /\ UNCHANGED hashVars
      /\ phase' = "second" /\ position' = position + 1 /\ key' = NoKey
  BY DEF PeelInv, SecondScanned, PeelOne, EndChain, Scanning
<1>2. /\ Partition(first, peelingVector)'
      /\ PeelingOrder(first, peelingVector)'
      /\ CoreStays(first)'
      /\ first' = first \ {key}
      /\ first' = second'
      /\ first' \subseteq Keys
      /\ peelingVector' \in Seq(Keys)
      /\ peelingCounter' = Len(peelingVector')
      /\ peelingCounter' \in Nat
  BY <1>1, PeelOneSound
<1>3. TypeOK'
  BY <1>1, <1>2 DEF PeelInv, TypeOK, PeelOne, hashVars
<1>4. TablesAgree' /\ PeelingSound'
  BY <1>1, <1>2 DEF TablesAgree, PeelingSound
<1>5. FirstScanned'
  <2> SUFFICES ASSUME NEW j \in first' PROVE Crowded(first', h1, h1[j])
    BY <1>1 DEF FirstScanned, hashVars, Crowded, Bucket
  <2>1. j \in first /\ Crowded(first, h1, h1[j])
    BY <1>2 DEF PeelInv, FirstScanned, PeelOne
  <2>2. CASE h1[j] = h1[key]
    <3>1. Bucket(first \ {key}, h1, h1[key]) # {j}
      BY <2>1 DEF PeelOne
    <3>2. QED BY <1>2, <2>2, <3>1 DEF Crowded, Bucket
  <2>3. CASE h1[j] # h1[key]
    BY <1>2, <2>1, <2>3 DEF Crowded, Bucket
  <2>4. QED BY <2>2, <2>3
<1>6. SecondScanned'
  <2> SUFFICES ASSUME NEW j \in first', h2[j] < position + 1
               PROVE  Crowded(first', h2, h2[j])
    BY <1>1 DEF SecondScanned, hashVars, Peeled, Crowded, Bucket
  <2>1. j \in first /\ j # key /\ h2[j] <= position
    BY <1>2 DEF PeelInv, TypeOK, Positions
  <2>2. Crowded(first, h2, h2[j])
    BY <2>1 DEF PeelInv, SecondScanned, PeelOne
  <2>3. QED BY <1>1, <1>2, <2>1, <2>2 DEF Crowded, Bucket
<1>7. QED BY <1>3, <1>4, <1>5, <1>6 DEF PeelInv

LEMMA PeelTwoKeepsPeelInv == PeelInv /\ PeelTwo => PeelInv'
<1> SUFFICES ASSUME PeelInv, PeelTwo PROVE PeelInv'
  OBVIOUS
<1>1. PICK l \in first : /\ Bucket(first \ {key}, h1, h1[key]) = {l}
                        /\ Peel(<<key, l>>)
                        /\ ChainNext(second \ {key, l}, h2[l])
  BY DEF PeelTwo
<1>2. /\ key \in first
      /\ Bucket(first, h2, h2[key]) = {key}
      /\ phase = "chain"
      /\ Scanning
      /\ position < tableRealSize
      /\ position \in Nat
      /\ UNCHANGED hashVars
      /\ first \in SUBSET Keys
      /\ key \in Keys
      /\ first = second
      /\ peelingVector \in Seq(Keys)
      /\ peelingCounter = Len(peelingVector)
  BY DEF PeelInv, TypeOK, TablesAgree, SecondScanned, PeelTwo, Scanning
<1>3. l # key /\ h1[l] = h1[key] /\ l \in Keys
  BY <1>1, <1>2 DEF Bucket
<1>4. /\ peelingVector' = Append(Append(peelingVector, key), l)
      /\ peelingCounter' = peelingCounter + 2
      /\ first' = (first \ {key}) \ {l}
      /\ second' = (second \ {key}) \ {l}
  BY <1>1, <1>2, <1>3, PeelTwoKeys DEF PeelInv
<1>5. /\ Append(peelingVector, key) \in Seq(Keys)
      /\ peelingVector' \in Seq(Keys)
      /\ Len(peelingVector') = Len(peelingVector) + 2
      /\ Len(peelingVector) \in Nat
  BY <1>2, <1>3, <1>4, AppendFacts
<1>6. /\ Partition(first \ {key}, Append(peelingVector, key))
      /\ PeelingOrder(first \ {key}, Append(peelingVector, key))
      /\ CoreStays(first \ {key})
  BY <1>2, PeelAlone DEF PeelInv, PeelingSound
<1>7. /\ Partition(first', peelingVector')
      /\ PeelingOrder(first', peelingVector')
      /\ CoreStays(first')
  <2>1. first \ {key} \in SUBSET Keys /\ l \in first \ {key}
    BY <1>2, <1>3
  <2>2. Bucket(first \ {key}, h1, h1[l]) = {l}
    BY <1>1, <1>3
  <2>3. QED BY <1>4, <1>5, <1>6, <2>1, <2>2, PeelAlone DEF PeelInv
<1>8. PeelingSound'
  BY <1>2, <1>7, HashesFixed DEF PeelingSound
<1>9. \/ \E m \in first' : /\ Bucket(first', h2, h2[l]) = {m}
                           /\ key' = m
                           /\ h2[l] <= position
                           /\ phase' = "chain"
                           /\ position' = position
      \/ /\ \A m \in first' : Bucket(first', h2, h2[l]) = {m} => h2[l] > position
         /\ phase' = "second"
         /\ position' = position + 1
         /\ key' = NoKey
  <2>1. first' = second \ {key, l}
    BY <1>2, <1>4
  <2>2. QED BY <1>1, <1>2, <2>1 DEF ChainNext, EndChain
<1>10. TypeOK' /\ TablesAgree'
  <2>1. first' \subseteq Keys /\ second' = first'
    BY <1>2, <1>4
  <2>2. peelingCounter' = Len(peelingVector') /\ peelingCounter' \in Nat
    BY <1>2, <1>4, <1>5
  <2>3. key' \in Keys \cup {NoKey} /\ position' \in 0 .. tableRealSize /\ phase' \in {"chain", "second"}
    BY <1>2, <1>9, <2>1
  <2>4. QED BY <1>2, <1>5, <2>1, <2>2, <2>3 DEF PeelInv, TypeOK, TablesAgree, PeelTwo, hashVars
<1>11. FirstScanned'
  <2> SUFFICES ASSUME NEW j \in first' PROVE Crowded(first', h1, h1[j])
    BY <1>2 DEF FirstScanned, hashVars, Crowded, Bucket
  <2>1. j \in first /\ j # key /\ j # l /\ Crowded(first, h1, h1[j])
    BY <1>2, <1>4 DEF PeelInv, FirstScanned
  <2>2. h1[j] # h1[key]
    BY <1>1, <2>1 DEF Bucket
  <2>3. QED BY <1>3, <1>4, <2>1, <2>2 DEF Crowded, Bucket
<1>12. \A j \in first' : h2[j] <= position /\ h2[j] # h2[l] => Crowded(first', h2, h2[j])
  <2> SUFFICES ASSUME NEW j \in first', h2[j] <= position, h2[j] # h2[l]
               PROVE  Crowded(first', h2, h2[j])
    OBVIOUS
  <2>1. j \in first /\ j # key /\ Crowded(first, h2, h2[j])
    BY <1>2, <1>4 DEF PeelInv, SecondScanned
  <2>2. h2[j] # h2[key]
    BY <1>2, <2>1 DEF Bucket
  <2>3. QED BY <1>4, <2>1, <2>2 DEF Crowded, Bucket
<1>13. SecondScanned'
  <2>1. CASE phase' = "chain"
    <3>1. PICK m \in first' : /\ Bucket(first', h2, h2[l]) = {m}
                             /\ key' = m
                             /\ h2[l] <= position
                             /\ position' = position
      BY <1>9, <2>1
    <3>2. h2[m] = h2[l] /\ \A j \in first' : h2[j] = h2[l] => j = m
      BY <3>1 DEF Bucket
    <3>3. \A j \in first' : h2[j] <= position /\ j # m => Crowded(first', h2, h2[j])
      BY <1>12, <3>2
    <3>4. QED BY <1>2, <2>1, <3>1, <3>2, <3>3 DEF SecondScanned, hashVars, Peeled, Crowded, Bucket
  <2>2. CASE phase' = "second"
    <3>1. /\ \A m \in first' : Bucket(first', h2, h2[l]) = {m} => h2[l] > position
          /\ position' = position + 1
      BY <1>9, <2>2
    <3>2. \A j \in first' : h2[j] < position + 1 => Crowded(first', h2, h2[j])
      <4> SUFFICES ASSUME NEW j \in first', h2[j] < position + 1
                   PROVE  Crowded(first', h2, h2[j])
        OBVIOUS
      <4>1. h2[j] <= position /\ h2[j] \in Nat
        BY <1>2, <1>4 DEF PeelInv, TypeOK, Positions
      <4>2. CASE h2[j] = h2[l]
        <5>1. Bucket(first', h2, h2[l]) # {j}
          BY <1>2, <3>1, <4>1, <4>2
        <5>2. QED BY <4>2, <5>1 DEF Crowded, Bucket
      <4>3. QED BY <1>12, <4>1, <4>2
    <3>3. QED BY <1>2, <2>2, <3>1, <3>2 DEF SecondScanned, hashVars, Peeled, Crowded, Bucket
  <2>3. QED BY <1>9, <2>1, <2>2
<1>14. QED BY <1>8, <1>10, <1>11, <1>13 DEF PeelInv

LEMMA EndPeelingKeepsPeelInv == PeelInv /\ EndPeeling => PeelInv'
<1> SUFFICES ASSUME PeelInv, EndPeeling PROVE PeelInv'
  OBVIOUS
<1>1. TypeOK' /\ TablesAgree'
  BY DEF PeelInv, TypeOK, TablesAgree, EndPeeling, hashVars, peelVars
<1>2. PeelingSound'
  BY HashesFixed DEF PeelInv, PeelingSound, EndPeeling, Scanning, peelVars
<1>3. \A j \in first : Crowded(first, h1, h1[j])
  BY DEF PeelInv, FirstScanned, EndPeeling
<1>4. \A j \in first : Crowded(first, h2, h2[j])
  <2>1. \A j \in first : h2[j] < position
    BY DEF PeelInv, TypeOK, EndPeeling, Positions
  <2>2. QED BY <2>1 DEF PeelInv, SecondScanned, EndPeeling
<1>5. FirstScanned' /\ SecondScanned'
  BY <1>3, <1>4 DEF FirstScanned, SecondScanned, EndPeeling, hashVars, peelVars, Crowded, Bucket
<1>6. QED BY <1>1, <1>2, <1>5 DEF PeelInv

-----------------------------------------------------------------------------
(* What peeling leaves.                                                    *)

\* When peeling is over, the tables hold the 2-core and nothing else.
LEMMA CoreIsLeft ==
    ASSUME PeelInv, Peeled
    PROVE  first = TwoCore /\ second = TwoCore
<1>1. first \in SUBSET Keys /\ first = second
  BY DEF PeelInv, TypeOK, TablesAgree
<1>2. MinDegreeTwo(first)
  BY DEF PeelInv, FirstScanned, SecondScanned, MinDegreeTwo
<1>3. first \subseteq TwoCore
  BY <1>1, <1>2 DEF TwoCore
<1>4. TwoCore \subseteq first
  BY DEF TwoCore, PeelInv, PeelingSound, CoreStays
<1>5. QED BY <1>1, <1>3, <1>4

\* Every key that is left gets a row.
LEMMA RowsAreTheRest ==
    ASSUME PeelInv, Peeled
    PROVE  Rows = first
BY DEF Rows, PeelInv, FirstScanned

\* The steps after peeling leave alone what peeling established.
LEMMA PeelingStays ==
    ASSUME PeelInv, Peeled, Peeled', UNCHANGED <<hashVars, first, second, peelingVector>>
    PROVE  PeelingSound' /\ FirstScanned' /\ SecondScanned'
<1>1. PeelingSound'
  BY HashesFixed DEF PeelInv, PeelingSound
<1>2. FirstScanned' /\ SecondScanned'
  BY DEF PeelInv, FirstScanned, SecondScanned, Peeled, hashVars, Crowded, Bucket
<1>3. QED BY <1>1, <1>2

LEMMA SolutionsType == ASSUME TypeOK, NEW x \in Solutions PROVE x \in [Buckets \cup DHPositions -> GF2E]
<1>1. PICK y \in [Touched(Rows) \cup DHPositions -> GF2E] :
        x = [i \in Buckets \cup DHPositions |-> IF i \in DOMAIN y THEN y[i] ELSE variables[i]]
  BY DEF Solutions
<1>2. QED BY <1>1 DEF TypeOK

LEMMA generateKeepsPeelInv == PeelInv /\ generateExternalToolValues => PeelInv'
<1> SUFFICES ASSUME PeelInv, generateExternalToolValues PROVE PeelInv'
  OBVIOUS
<1>1. /\ UNCHANGED <<hashVars, peelVars, run, zeroHit>>
      /\ phase = "generate"
      /\ phase' \in {"unpeel", "failed"}
      /\ sign' = MarkRows
  BY DEF generateExternalToolValues
<1>2. variables' \in [Buckets \cup DHPositions -> GF2E]
  <2>1. variables' = variables \/ variables' \in Solutions
    BY DEF generateExternalToolValues
  <2>2. QED BY <2>1, SolutionsType DEF PeelInv, TypeOK
<1>3. sign' \in [Buckets -> {0, 1}]
  BY <1>1 DEF MarkRows, PeelInv, TypeOK
<1>4. TypeOK' /\ TablesAgree'
  BY <1>1, <1>2, <1>3 DEF PeelInv, TypeOK, TablesAgree, hashVars, peelVars
<1>5. PeelingSound' /\ FirstScanned' /\ SecondScanned'
  BY <1>1, PeelingStays DEF Peeled, peelVars
<1>6. QED BY <1>4, <1>5 DEF PeelInv

LEMMA UnpeelStepKeepsPeelInv == PeelInv /\ UnpeelStep => PeelInv'
<1> SUFFICES ASSUME PeelInv, UnpeelStep PROVE PeelInv'
  OBVIOUS
<1>1. /\ phase = "unpeel"
      /\ peelingCounter > 0
      /\ peelingCounter' = peelingCounter - 1
      /\ UnpeelKey(peelingVector[peelingCounter])
      /\ zeroHit' \in BOOLEAN
      /\ UNCHANGED <<hashVars, first, second, peelingVector, position, key, sign, phase, run>>
  BY DEF UnpeelStep
<1>2. peelingVector[peelingCounter] \in Keys
  BY <1>1 DEF PeelInv, TypeOK
<1>3. variables' \in [Buckets \cup DHPositions -> GF2E]
  BY <1>1, <1>2, UnpeelKeyType DEF PeelInv
<1>4. peelingCounter' \in 0 .. Len(peelingVector')
  BY <1>1 DEF PeelInv, TypeOK
<1>5. TypeOK' /\ TablesAgree'
  BY <1>1, <1>3, <1>4 DEF PeelInv, TypeOK, TablesAgree, hashVars
<1>6. PeelingSound' /\ FirstScanned' /\ SecondScanned'
  BY <1>1, PeelingStays DEF Peeled
<1>7. QED BY <1>5, <1>6 DEF PeelInv

LEMMA EndUnpeelingKeepsPeelInv == PeelInv /\ EndUnpeeling => PeelInv'
<1> SUFFICES ASSUME PeelInv, EndUnpeeling PROVE PeelInv'
  OBVIOUS
<1>1. TypeOK' /\ TablesAgree'
  BY DEF PeelInv, TypeOK, TablesAgree, EndUnpeeling, hashVars, peelVars
<1>2. PeelingSound' /\ FirstScanned' /\ SecondScanned'
  BY PeelingStays DEF Peeled, EndUnpeeling, peelVars
<1>3. QED BY <1>1, <1>2 DEF PeelInv

LEMMA StutterKeepsPeelInv == PeelInv /\ UNCHANGED vars => PeelInv'
<1> SUFFICES ASSUME PeelInv, UNCHANGED vars PROVE PeelInv'
  OBVIOUS
<1>1. TypeOK' /\ TablesAgree'
  BY DEF PeelInv, TypeOK, TablesAgree, vars, hashVars, peelVars
<1>2. PeelingSound'
  BY HashesFixed DEF PeelInv, PeelingSound, Scanning, Peeled, vars, peelVars
<1>3. FirstScanned' /\ SecondScanned'
  BY DEF PeelInv, FirstScanned, SecondScanned, Peeled, Crowded, Bucket, vars, hashVars, peelVars
<1>4. QED BY <1>1, <1>2, <1>3 DEF PeelInv

LEMMA NextKeepsPeelInv == PeelInv /\ [Next]_vars => PeelInv'
BY initKeepsPeelInv, fillTablesKeepsPeelInv, PeelFirstKeepsPeelInv, SkipFirstKeepsPeelInv,
   EndFirstKeepsPeelInv, StartChainKeepsPeelInv, SkipSecondKeepsPeelInv, PeelOneKeepsPeelInv,
   PeelTwoKeepsPeelInv, EndPeelingKeepsPeelInv, generateKeepsPeelInv, UnpeelStepKeepsPeelInv,
   EndUnpeelingKeepsPeelInv, StutterKeepsPeelInv
   DEF Next, Terminated

-----------------------------------------------------------------------------
(* The values.                                                             *)

\* The 2-core and the buckets it uses depend on the hash functions only.
LEMMA CoreFixed ==
    ASSUME UNCHANGED hashVars
    PROVE  Touched(TwoCore)' = Touched(TwoCore)
<1>1. h1' = h1 /\ h2' = h2
  BY DEF hashVars
<1>2. TwoCore' = TwoCore
  BY <1>1 DEF TwoCore, MinDegreeTwo, Crowded, Bucket
<1>3. QED BY <1>1, <1>2 DEF Touched, FirstIndex, SecondIndex

\* The steps before the linear system is solved change neither variables nor sign.
LEMMA EarlyKeepsValues ==
    ASSUME ValueInv, UNCHANGED <<hashVars, variables, sign>>,
           phase \in {"fill", "first", "second", "chain"},
           phase' \in {"first", "second", "chain", "generate"}
    PROVE  ValueInv'
<1>1. SignMarksCore'
  BY CoreFixed DEF ValueInv, SignMarksCore, Buckets
<1>2. FreeBucketsZero' /\ SolvedKeysDecode'
  BY DEF ValueInv, FreeBucketsZero, SolvedKeysDecode
<1>3. QED BY <1>1, <1>2 DEF ValueInv

LEMMA initKeepsValues == ValueInv /\ init => ValueInv'
<1> SUFFICES ASSUME ValueInv, init PROVE ValueInv'
  OBVIOUS
<1>1. SignMarksCore'
  BY CoreFixed DEF ValueInv, SignMarksCore, init
<1>2. FreeBucketsZero' /\ SolvedKeysDecode'
  BY DEF FreeBucketsZero, SolvedKeysDecode, init
<1>3. QED BY <1>1, <1>2 DEF ValueInv

\* With the whole vector still to be unpeeled, the solved keys are those left.
LEMMA SolvedAtFirst ==
    ASSUME PeelInv, peelingCounter = Len(peelingVector)
    PROVE  Solved = first
<1>1. peelingCounter + 1 .. Len(peelingVector) = {}
  BY DEF PeelInv, TypeOK
<1>2. QED BY <1>1 DEF Solved

\* Without rows there is no key left, and the other way round.
LEMMA MatrixSizeIsRest ==
    ASSUME PeelInv, phase = "generate"
    PROVE  matrixSize = Cardinality(first) /\ (matrixSize = 0 <=> first = {}) /\ matrixSize \in Nat
<1>1. IsFiniteSet(first)
  BY FS_Subset DEF PeelInv, TypeOK
<1>2. Cardinality(first) \in Nat /\ (Cardinality(first) = 0 <=> first = {})
  BY <1>1, FS_CardinalityType, FS_EmptySet
<1>3. /\ Len(peelingVector) + Cardinality(first) = hashSize
      /\ peelingCounter = Len(peelingVector)
      /\ Len(peelingVector) \in Nat
  BY DEF PeelInv, TypeOK, PeelingSound, Partition, Peeled, TablesAgree
<1>4. matrixSize = Cardinality(first)
  BY <1>2, <1>3 DEF matrixSize
<1>5. QED BY <1>2, <1>4

LEMMA generateKeepsValues == PeelInv /\ ValueInv /\ generateExternalToolValues => ValueInv'
<1> SUFFICES ASSUME PeelInv, ValueInv, generateExternalToolValues PROVE ValueInv'
  OBVIOUS
<1>1. /\ UNCHANGED <<hashVars, peelVars, zeroHit>>
      /\ UNCHANGED <<h1, h2, DH, vals, first, peelingVector, peelingCounter>>
      /\ phase = "generate"
      /\ phase' \in {"unpeel", "failed"}
      /\ sign' = MarkRows
      /\ Peeled
  BY DEF generateExternalToolValues, hashVars, peelVars, Peeled
<1>2. Rows = first /\ first = TwoCore
  BY <1>1, RowsAreTheRest, CoreIsLeft
<1>3. SignMarksCore'
  <2>1. ASSUME NEW i \in Buckets PROVE (sign'[i] = 1 <=> i \in Touched(TwoCore))
    BY <1>1, <1>2 DEF MarkRows, ValueInv, SignMarksCore
  <2>2. QED BY <1>1, <2>1, CoreFixed DEF SignMarksCore, Buckets
<1>4. Solved' = first /\ Touched(Solved)' = Touched(first)
  <2>1. peelingCounter = Len(peelingVector)
    BY <1>1 DEF PeelInv, TablesAgree
  <2>2. Solved = first
    BY <2>1, SolvedAtFirst
  <2>3. QED BY <1>1, <2>2 DEF Solved, Touched, FirstIndex, SecondIndex
<1>5. \A i \in Buckets : variables[i] = Zero
  BY <1>1 DEF ValueInv, FreeBucketsZero
<1>6. CASE phase' = "failed"
  BY <1>3, <1>6 DEF ValueInv, FreeBucketsZero, SolvedKeysDecode
<1>7. CASE matrixSize = 0 /\ phase' = "unpeel"
  <2>1. first = {} /\ variables' = variables
    BY <1>1, <1>7, MatrixSizeIsRest DEF generateExternalToolValues
  <2>2. FreeBucketsZero'
    BY <1>5, <1>7, <2>1 DEF FreeBucketsZero, Buckets
  <2>3. SolvedKeysDecode'
    BY <1>4, <2>1 DEF SolvedKeysDecode
  <2>4. QED BY <1>3, <2>2, <2>3 DEF ValueInv
<1>8. CASE matrixSize # 0 /\ phase' = "unpeel"
  <2>1. PICK x \in Solutions : Solves(x) /\ variables' = x
    BY <1>8 DEF generateExternalToolValues
  <2>2. SolvedKeysDecode'
    <3>1. \A k \in first : Decode(k, x) = vals[k]
      BY <1>2, <2>1 DEF Solves
    <3>2. QED BY <1>1, <1>4, <2>1, <3>1 DEF SolvedKeysDecode, Decode, FirstIndex, SecondIndex, DHIndices, Sum
  <2>3. ASSUME NEW i \in Buckets, i \notin Touched(first) PROVE variables'[i] = Zero
    <3>1. PICK y \in [Touched(Rows) \cup DHPositions -> GF2E] :
            x = [n \in Buckets \cup DHPositions |-> IF n \in DOMAIN y THEN y[n] ELSE variables[n]]
      BY <2>1 DEF Solutions
    <3>2. i \notin DHPositions
      BY <2>3 DEF Buckets, DHPositions
    <3>3. QED BY <1>2, <1>5, <2>1, <2>3, <3>1, <3>2
  <2>4. FreeBucketsZero'
    BY <1>4, <1>8, <2>3 DEF FreeBucketsZero, Buckets
  <2>5. QED BY <1>3, <2>2, <2>4 DEF ValueInv
<1>9. QED BY <1>1, <1>6, <1>7, <1>8

\* A sum depends on the variables it adds up only.
LEMMA SumFrame ==
    ASSUME NEW S, NEW v, NEW w, \A i \in S : v[i] = w[i]
    PROVE  Sum(S, v) = Sum(S, w)
<1>1. \A b \in FieldBits : {i \in S : b \in v[i]} = {i \in S : b \in w[i]}
  OBVIOUS
<1>2. QED BY <1>1 DEF Sum

\* Addition of sets of powers: each solved-for value makes the equation hold.
LEMMA AddCancels ==
    ASSUME NEW x, NEW y, NEW s
    PROVE  /\ (((x (+) y) (+) s) (+) y) (+) s = x
           /\ (y (+) ((x (+) y) (+) s)) (+) s = x
BY DEF (+)

\* The key unpeeling takes has a bucket no solved key uses.
LEMMA FreeBucket ==
    ASSUME PeelInv, phase = "unpeel", peelingCounter > 0
    PROVE  /\ peelingVector[peelingCounter] \in Keys
           /\ Solved \subseteq Keys
           /\ \/ FirstIndex(peelingVector[peelingCounter]) \notin Touched(Solved)
              \/ SecondIndex(peelingVector[peelingCounter]) \notin Touched(Solved)
<1> DEFINE n == peelingCounter
           k == peelingVector[n]
<1>1. n \in DOMAIN peelingVector /\ k \in Keys /\ Solved \subseteq Keys
  BY DEF PeelInv, TypeOK, Solved
<1>2. PeeledAfter(first, peelingVector, n) = Solved
  BY DEF PeeledAfter, Solved
<1>3. \/ \A l \in Solved : h1[l] # h1[k]
      \/ \A l \in Solved : h2[l] # h2[k]
  BY <1>1, <1>2 DEF PeelInv, PeelingSound, PeelingOrder, Peeled
<1>4. ASSUME NEW l \in Keys
      PROVE  /\ FirstIndex(l) = h1[l] /\ SecondIndex(l) = tableRealSize + h2[l]
             /\ h1[l] \in 0 .. tableRealSize - 1 /\ h2[l] \in 0 .. tableRealSize - 1
  BY DEF FirstIndex, SecondIndex, PeelInv, TypeOK, Positions
<1> HIDE DEF n, k
<1>5. CASE \A l \in Solved : h1[l] # h1[k]
  <2>1. FirstIndex(k) \notin Touched(Solved)
    BY <1>1, <1>4, <1>5 DEF Touched
  <2>2. QED BY <1>1, <2>1 DEF k, n
<1>6. CASE \A l \in Solved : h2[l] # h2[k]
  <2>1. SecondIndex(k) \notin Touched(Solved)
    BY <1>1, <1>4, <1>6 DEF Touched
  <2>2. QED BY <1>1, <2>1 DEF k, n
<1>7. QED BY <1>3, <1>5, <1>6

\* A round of unpeeling solves its key and spoils no other, unless one of the
\* key's buckets is in use and looks unset.
LEMMA UnpeelStepKeepsValues == PeelInv /\ ValueInv /\ UnpeelStep => ValueInv'
<1> SUFFICES ASSUME PeelInv, ValueInv, UnpeelStep PROVE ValueInv'
  OBVIOUS
<1> DEFINE k == peelingVector[peelingCounter]
           a == FirstIndex(k)
           b == SecondIndex(k)
           s == Sum(DHIndices(k), variables)
           start == IF Unset(a, variables[a]) /\ Unset(b, variables[b]) THEN GF2E ELSE {variables[a]}
           va(r) == IF Unset(a, r) THEN (vals[k] (+) variables[b]) (+) s ELSE r
           vb(r) == IF Unset(b, variables[b]) THEN (vals[k] (+) va(r)) (+) s ELSE variables[b]
<1>1. /\ phase = "unpeel"
      /\ peelingCounter > 0
      /\ peelingCounter' = peelingCounter - 1
      /\ UnpeelKey(k)
      /\ zeroHit' = (zeroHit \/ \E i \in Touched({k}) \cap Touched(Solved) : Unset(i, variables[i]))
      /\ UNCHANGED <<h1, h2, DH, vals, first, peelingVector, sign, phase>>
      /\ UNCHANGED hashVars
  BY DEF UnpeelStep, hashVars
<1>2. /\ k \in Keys /\ Solved \subseteq Keys
      /\ a \notin Touched(Solved) \/ b \notin Touched(Solved)
  BY <1>1, FreeBucket
<1>3. a \in Buckets /\ b \in Buckets /\ a # b
  BY <1>2, IndexType DEF PeelInv
<1>4. Solved' = Solved \cup {k}
  <2>1. peelingCounter \in 1 .. Len(peelingVector)
    BY <1>1 DEF PeelInv, TypeOK
  <2>2. peelingCounter .. Len(peelingVector) = {peelingCounter} \cup (peelingCounter + 1 .. Len(peelingVector))
    BY <2>1
  <2>3. peelingCounter' + 1 = peelingCounter
    BY <1>1, <2>1
  <2>4. Solved' = first \cup {peelingVector[i] : i \in peelingCounter .. Len(peelingVector)}
    BY <1>1, <2>3 DEF Solved
  <2>5. QED BY <2>2, <2>4 DEF Solved
<1>5. PICK r \in start : variables' = [variables EXCEPT ![a] = va(r), ![b] = vb(r)]
  BY <1>1 DEF UnpeelKey
<1>6. /\ variables'[a] = va(r)
      /\ variables'[b] = vb(r)
      /\ \A i \in Buckets \cup DHPositions : i # a /\ i # b => variables'[i] = variables[i]
  <2> HIDE DEF a, b, va, vb
  <2> QED BY <1>3, <1>5 DEF PeelInv, TypeOK
<1>7. Touched({k}) = {a, b}
  BY DEF Touched
<1>8. Touched(Solved)' = Touched(Solved) \cup {a, b}
  BY <1>1, <1>4 DEF Touched, FirstIndex, SecondIndex
<1>9. \A i \in Buckets \ Touched(Solved) : variables[i] = Zero /\ sign[i] = 0
  <2>1. TwoCore \subseteq Solved
    BY <1>1, CoreIsLeft DEF Peeled, Solved
  <2>2. Touched(TwoCore) \subseteq Touched(Solved)
    BY <2>1 DEF Touched
  <2>3. QED BY <1>1, <2>2 DEF ValueInv, FreeBucketsZero, SignMarksCore, PeelInv, TypeOK
<1>10. SignMarksCore'
  BY <1>1, CoreFixed DEF ValueInv, SignMarksCore, Buckets
<1>11. FreeBucketsZero'
  <2>1. \A i \in Buckets \ Touched(Solved)' : variables'[i] = Zero
    BY <1>6, <1>8, <1>9
  <2>2. QED BY <1>1, <2>1 DEF FreeBucketsZero, Buckets
<1>12. ASSUME ~ zeroHit' PROVE \A j \in Solved' : Decode(j, variables') = vals[j]
  <2>1. /\ ~ zeroHit
        /\ a \in Touched(Solved) => ~ Unset(a, variables[a])
        /\ b \in Touched(Solved) => ~ Unset(b, variables[b])
    BY <1>1, <1>7, <1>12
  <2>2. Unset(a, Zero) <=> sign[a] = 0
    BY DEF Unset
  <2>3. a \notin Touched(Solved) => Unset(a, variables[a])
    BY <1>3, <1>9 DEF Unset
  <2>4. b \notin Touched(Solved) => Unset(b, variables[b])
    BY <1>3, <1>9 DEF Unset
  <2>5. \A i \in Touched(Solved) : i \in Buckets => variables'[i] = variables[i]
    <3>1. a \in Touched(Solved) => va(r) = variables[a]
      BY <1>5, <2>1
    <3>2. b \in Touched(Solved) => vb(r) = variables[b]
      BY <2>1
    <3>3. QED BY <1>6, <3>1, <3>2
  <2>6. \A j \in Keys : Sum(DHIndices(j), variables') = Sum(DHIndices(j), variables)
    <3> SUFFICES ASSUME NEW j \in Keys PROVE \A i \in DHIndices(j) : variables'[i] = variables[i]
      BY SumFrame
    <3>1. DHIndices(j) \subseteq DHPositions
      BY DEF DHIndices, DHPositions, PeelInv, TypeOK
    <3>2. \A i \in DHPositions : i \notin Buckets
      BY DEF Buckets, DHPositions
    <3>3. QED BY <1>3, <1>6, <3>1, <3>2
  <2>7. ASSUME NEW j \in Solved PROVE Decode(j, variables') = vals[j]
    <3>1. Decode(j, variables) = vals[j]
      BY <1>1, <2>1 DEF ValueInv, SolvedKeysDecode
    <3>2. FirstIndex(j) \in Touched(Solved) /\ SecondIndex(j) \in Touched(Solved) /\ j \in Keys
      BY <1>2 DEF Touched
    <3>3. FirstIndex(j) \in Buckets /\ SecondIndex(j) \in Buckets
      BY <3>2, IndexType DEF PeelInv
    <3>4. QED BY <2>5, <2>6, <3>1, <3>2, <3>3 DEF Decode
  <2>8. Decode(k, variables') = vals[k]
    <3>1. Decode(k, variables') = (va(r) (+) vb(r)) (+) s
      BY <1>2, <1>6, <2>6 DEF Decode
    <3>2. CASE b \in Touched(Solved)
      <4>1. Unset(a, variables[a]) /\ ~ Unset(b, variables[b])
        BY <1>2, <2>1, <2>3, <3>2
      <4>2. r = variables[a] /\ vb(r) = variables[b]
        BY <1>5, <4>1
      <4>3. va(r) = (vals[k] (+) variables[b]) (+) s
        BY <4>1, <4>2
      <4>4. QED BY <3>1, <4>2, <4>3, AddCancels
    <3>3. CASE b \notin Touched(Solved)
      <4>1. vb(r) = (vals[k] (+) va(r)) (+) s
        BY <2>4, <3>3
      <4>2. QED
        <5> HIDE DEF va, vb
        <5> QED BY <3>1, <4>1, AddCancels
    <3>4. QED BY <3>2, <3>3
  <2>9. QED BY <1>4, <2>7, <2>8
<1>13. SolvedKeysDecode'
  <2>1. ASSUME NEW j, ~ zeroHit' PROVE Decode(j, variables)' = Decode(j, variables') /\ vals'[j] = vals[j]
    BY <1>1 DEF Decode, FirstIndex, SecondIndex, DHIndices, Sum
  <2>2. QED BY <1>12, <2>1 DEF SolvedKeysDecode
<1>14. QED BY <1>10, <1>11, <1>13 DEF ValueInv

LEMMA OthersKeepValues ==
    PeelInv /\ ValueInv /\ (EndUnpeeling \/ UNCHANGED vars) => ValueInv'
<1> SUFFICES ASSUME PeelInv, ValueInv, EndUnpeeling \/ UNCHANGED vars PROVE ValueInv'
  OBVIOUS
<1>1. /\ UNCHANGED hashVars
      /\ UNCHANGED <<h1, h2, DH, vals, first, peelingVector, peelingCounter, variables, sign, zeroHit>>
      /\ phase' = phase \/ (phase = "unpeel" /\ phase' = "done")
  BY DEF EndUnpeeling, vars, hashVars, peelVars
<1>2. Solved' = Solved
  BY <1>1 DEF Solved
<1>3. SignMarksCore'
  BY <1>1, CoreFixed DEF ValueInv, SignMarksCore, Buckets
<1>4. FreeBucketsZero'
  <2>1. Touched(Solved)' = Touched(Solved)
    BY <1>1, <1>2 DEF Touched, FirstIndex, SecondIndex
  <2>2. QED BY <1>1, <2>1 DEF ValueInv, FreeBucketsZero, Buckets
<1>5. SolvedKeysDecode'
  <2>1. ASSUME NEW j PROVE Decode(j, variables)' = Decode(j, variables) /\ vals'[j] = vals[j]
    BY <1>1 DEF Decode, FirstIndex, SecondIndex, DHIndices, Sum
  <2>2. QED BY <1>1, <1>2, <2>1 DEF ValueInv, SolvedKeysDecode
<1>6. QED BY <1>3, <1>4, <1>5 DEF ValueInv

LEMMA InitValues == Init => ValueInv
BY DEF Init, ValueInv, SignMarksCore, FreeBucketsZero, SolvedKeysDecode

LEMMA NextKeepsIndInv == IndInv /\ [Next]_vars => IndInv'
<1> SUFFICES ASSUME PeelInv, ValueInv, [Next]_vars PROVE PeelInv' /\ ValueInv'
  BY DEF IndInv
<1>1. PeelInv'
  BY NextKeepsPeelInv
<1>2. CASE init
  BY <1>1, <1>2, initKeepsValues
<1>3. CASE \/ fillTables \/ PeelFirst \/ SkipFirst \/ EndFirst \/ StartChain
           \/ SkipSecond \/ EndPeeling
  BY <1>1, <1>3, EarlyKeepsValues
     DEF fillTables, PeelFirst, SkipFirst, EndFirst, StartChain, SkipSecond, EndPeeling
<1>4. CASE PeelOne \/ PeelTwo
  BY <1>1, <1>4, EarlyKeepsValues DEF PeelOne, PeelTwo, ChainNext, EndChain
<1>5. CASE generateExternalToolValues
  BY <1>1, <1>5, generateKeepsValues
<1>6. CASE UnpeelStep
  BY <1>1, <1>6, UnpeelStepKeepsValues
<1>7. CASE EndUnpeeling \/ Terminated \/ UNCHANGED vars
  BY <1>1, <1>7, OthersKeepValues DEF Terminated
<1>8. QED BY <1>1, <1>2, <1>3, <1>4, <1>5, <1>6, <1>7 DEF Next

-----------------------------------------------------------------------------
(* The theorems.                                                           *)

\* The invariant holds in every state of every sequence of createDictionary calls.
THEOREM Invariance == Spec => []IndInv
<1>1. Init => IndInv
  BY InitPeelInv, InitValues DEF IndInv
<1>2. IndInv /\ [Next]_vars => IndInv'
  BY NextKeepsIndInv
<1>3. QED BY <1>1, <1>2, PTL DEF Spec

\* Every variable of the encoder keeps its type; the loop counter of peeling and
\* the peeling counter stay inside the tables and the vector.
THEOREM TypeCorrect == Spec => []TypeOK
<1>1. IndInv => TypeOK
  BY DEF IndInv, PeelInv
<1>2. QED BY <1>1, Invariance, PTL

\* peeling() always ends with exactly the 2-core of the key graph in both tables.
THEOREM PeelingCorrect == Spec => []PeelingFindsCore
<1>1. IndInv => PeelingFindsCore
  BY CoreIsLeft DEF IndInv, PeelingFindsCore, Peeled
<1>2. QED BY <1>1, Invariance, PTL

\* generateExternalToolValues() fills exactly the rows it allocates.
THEOREM MatrixCorrect == Spec => []RowsFillMatrix
<1>1. IndInv => RowsFillMatrix
  BY RowsAreTheRest, MatrixSizeIsRest DEF IndInv, RowsFillMatrix, Peeled
<1>2. QED BY <1>1, Invariance, PTL

\* No key is peeled twice, and peelingVector never outgrows its hashSize entries.
THEOREM VectorCorrect == Spec => []PeeledOnce
<1>1. IndInv => PeeledOnce
  <2> SUFFICES ASSUME IndInv, phase \notin {"init", "fill"} PROVE PeeledOnce
    BY DEF PeeledOnce
  <2>1. Partition(first, peelingVector) /\ first = second
    BY DEF IndInv, PeelInv, TypeOK, PeelingSound, Scanning, Peeled, TablesAgree
  <2>2. \A i \in DOMAIN peelingVector : peelingVector[i] \notin first \cup second
    BY <2>1 DEF Partition, Range
  <2>3. QED BY <2>1, <2>2 DEF PeeledOnce, Partition
<1>2. QED BY <1>1, Invariance, PTL

\* Whenever unpeeling() takes a key, a bucket of the key is free.
THEOREM UnpeelingPossible == Spec => []FreeBucketLeft
<1>1. IndInv => FreeBucketLeft
  <2> SUFFICES ASSUME IndInv, phase = "unpeel", peelingCounter > 0
               PROVE  ~ (Touched({peelingVector[peelingCounter]}) \subseteq Touched(Solved))
    BY DEF FreeBucketLeft
  <2>1. /\ FirstIndex(peelingVector[peelingCounter]) \in Touched({peelingVector[peelingCounter]})
        /\ SecondIndex(peelingVector[peelingCounter]) \in Touched({peelingVector[peelingCounter]})
    BY DEF Touched
  <2>2. QED BY <2>1, FreeBucket DEF IndInv
<1>2. QED BY <1>1, Invariance, PTL

\* The marks that init() does not reset never go beyond the system solved in
\* the current iteration.
THEOREM SignCorrect == Spec => []SignMarksCore
<1>1. IndInv => SignMarksCore
  BY DEF IndInv, ValueInv
<1>2. QED BY <1>1, Invariance, PTL

\* Every key unpeeling() has come past decodes to its value, and so do the keys
\* of the linear system, unless a bucket in use was given the value 0.
THEOREM DecodingCorrect == Spec => []SolvedKeysDecode
<1>1. IndInv => SolvedKeysDecode
  BY DEF IndInv, ValueInv
<1>2. QED BY <1>1, Invariance, PTL

\* unpeeling() changes a variable only from 0, only in a bucket of the key in
\* hand, and never one of the linear system.
THEOREM UnpeelingWritesOnce == Spec => UnpeelingSetsOnce
<1> DEFINE Once == phase = "unpeel" =>
                     \A i \in DOMAIN variables :
                        variables'[i] # variables[i] =>
                            /\ variables[i] = Zero
                            /\ i \in Buckets \ Touched(first)
                            /\ i \in Touched({peelingVector[peelingCounter]})
<1>1. IndInv /\ [Next]_vars => [Once]_vars
  <2> SUFFICES ASSUME IndInv, Next, phase = "unpeel",
                      NEW i \in DOMAIN variables, variables'[i] # variables[i]
               PROVE  /\ variables[i] = Zero
                      /\ i \in Buckets \ Touched(first)
                      /\ i \in Touched({peelingVector[peelingCounter]})
    OBVIOUS
  <2>1. UnpeelStep
    BY DEF Next, init, fillTables, PeelFirst, SkipFirst, EndFirst, StartChain, SkipSecond,
           PeelOne, PeelTwo, EndPeeling, generateExternalToolValues, EndUnpeeling, Terminated, vars
  <2> DEFINE k == peelingVector[peelingCounter]
             a == FirstIndex(k)
             b == SecondIndex(k)
             s == Sum(DHIndices(k), variables)
             start == IF Unset(a, variables[a]) /\ Unset(b, variables[b]) THEN GF2E ELSE {variables[a]}
             va(r) == IF Unset(a, r) THEN (vals[k] (+) variables[b]) (+) s ELSE r
             vb(r) == IF Unset(b, variables[b]) THEN (vals[k] (+) va(r)) (+) s ELSE variables[b]
  <2>2. k \in Keys
    BY <2>1, FreeBucket DEF UnpeelStep, IndInv
  <2>3. a \in Buckets /\ b \in Buckets /\ a # b
    BY <2>2, IndexType DEF IndInv, PeelInv
  <2>4. PICK r \in start : variables' = [variables EXCEPT ![a] = va(r), ![b] = vb(r)]
    BY <2>1 DEF UnpeelStep, UnpeelKey
  <2>5. (i = a \/ i = b) /\ Unset(i, variables[i])
    <3>2. /\ i # a /\ i # b => variables'[i] = variables[i]
          /\ i = a => variables'[i] = va(r)
          /\ i = b => variables'[i] = vb(r)
      <4> HIDE DEF a, b, va, vb
      <4> QED BY <2>3, <2>4 DEF IndInv, PeelInv, TypeOK
    <3>3. ~ Unset(a, variables[a]) => va(r) = variables[a]
      BY <2>4
    <3>4. ~ Unset(b, variables[b]) => vb(r) = variables[b]
      OBVIOUS
    <3>5. QED BY <3>2, <3>3, <3>4
  <2>6. i \in Touched({k}) /\ i \in Buckets
    BY <2>3, <2>5 DEF Touched
  <2>7. i \notin Touched(first)
    <3>1. first = TwoCore
      BY CoreIsLeft DEF IndInv, Peeled
    <3>2. sign[i] = 0
      BY <2>5 DEF Unset
    <3>3. QED BY <2>6, <3>1, <3>2 DEF IndInv, ValueInv, SignMarksCore
  <2>8. QED BY <2>5, <2>6, <2>7 DEF Unset
<1>2. QED BY <1>1, Invariance, PTL DEF Spec, UnpeelingSetsOnce

-----------------------------------------------------------------------------
(* The work that is left: every step of createDictionary reduces it.       *)

\* Keys that can still be peeled.
Unpeeled == hashSize - Len(peelingVector)

\* The steps of one createDictionary at most, after its init().
PerCall == 3 * tableRealSize + 2 * hashSize + 6

\* The steps to the end of the running createDictionary.  A bucket of second takes
\* a step to start a chain and one to end it, and every other round of a chain peels.
StepsLeft ==
    CASE phase \in {"init", "done", "failed"} -> 0
      [] phase = "fill"     -> PerCall
      [] phase = "first"    -> (tableRealSize - position) + 2 * tableRealSize
                                  + Unpeeled + hashSize + 5
      [] phase = "second"   -> 2 * (tableRealSize - position) + Unpeeled + hashSize + 4
      [] phase = "chain"    -> 2 * (tableRealSize - position) - 1 + Unpeeled + hashSize + 4
      [] phase = "generate" -> hashSize + 3
      [] phase = "unpeel"   -> peelingCounter + 1

Work == (Times - run) * (PerCall + 1) + StepsLeft

StepsTable ==
    /\ phase \in {"init", "done", "failed"} => StepsLeft = 0
    /\ phase = "fill" => StepsLeft = 3 * tableRealSize + 2 * hashSize + 6
    /\ phase = "first" =>
         StepsLeft = (tableRealSize - position) + 2 * tableRealSize
                       + (hashSize - Len(peelingVector)) + hashSize + 5
    /\ phase = "second" =>
         StepsLeft = 2 * (tableRealSize - position) + (hashSize - Len(peelingVector)) + hashSize + 4
    /\ phase = "chain" =>
         StepsLeft = 2 * (tableRealSize - position) - 1 + (hashSize - Len(peelingVector))
                       + hashSize + 4
    /\ phase = "generate" => StepsLeft = hashSize + 3
    /\ phase = "unpeel" => StepsLeft = peelingCounter + 1

LEMMA TableNow == StepsTable
BY DEF StepsTable, StepsLeft, Unpeeled, PerCall

LEMMA Tables == StepsTable /\ StepsTable'
BY TableNow, PTL

\* The numbers of the encoder and what bounds them.
Bounded ==
    /\ hashSize \in Nat /\ tableRealSize \in Nat
    /\ position \in Nat /\ position <= tableRealSize
    /\ run \in Nat /\ run <= Times
    /\ Len(peelingVector) \in Nat
    /\ peelingCounter \in Nat /\ peelingCounter <= Len(peelingVector)
    /\ Scanning \/ Peeled => Len(peelingVector) <= hashSize
    /\ phase = "fill" => Len(peelingVector) = 0
    /\ phase = "chain" => position < tableRealSize

LEMMA BoundedNow == PeelInv => Bounded
<1> SUFFICES ASSUME PeelInv PROVE Bounded
  OBVIOUS
<1>1. hashSize \in Nat /\ Cardinality(first) \in Nat
  <2>1. IsFiniteSet(first)
    BY FS_Subset DEF PeelInv, TypeOK
  <2>2. QED BY <2>1, FS_CardinalityType DEF hashSize
<1>2. Len(peelingVector) \in Nat /\ (phase = "fill" => Len(peelingVector) = 0)
  BY DEF PeelInv, TypeOK, TablesAgree
<1>3. Scanning \/ Peeled => Len(peelingVector) <= hashSize
  BY <1>1, <1>2 DEF PeelInv, PeelingSound, Partition
<1>4. peelingCounter \in Nat /\ peelingCounter <= Len(peelingVector)
  BY <1>2 DEF PeelInv, TypeOK
<1>5. /\ position \in Nat /\ position <= tableRealSize /\ run \in Nat /\ run <= Times
      /\ phase = "chain" => position < tableRealSize
  BY DEF PeelInv, TypeOK, SecondScanned
<1>6. QED BY <1>1, <1>2, <1>3, <1>4, <1>5 DEF Bounded

LEMMA BoundedNext == PeelInv' => Bounded'
BY BoundedNow, PTL

LEMMA StepsType == ASSUME PeelInv PROVE StepsLeft \in Nat
<1>1. PICK p \in Nat, l \in Nat, c \in Nat, n \in Nat, s \in Nat :
        /\ p = position /\ l = Len(peelingVector) /\ c = peelingCounter
        /\ n = hashSize /\ s = tableRealSize
  BY BoundedNow DEF Bounded
<1>2. /\ p <= s /\ (Scanning \/ Peeled => l <= n)
      /\ phase = "chain" => p < s
  BY <1>1, BoundedNow DEF Bounded
<1>3. phase \in {"init", "fill", "first", "second", "chain", "generate", "unpeel", "done", "failed"}
  BY DEF PeelInv, TypeOK
<1>4. QED BY <1>1, <1>2, <1>3, Tables DEF StepsTable, Scanning

\* A round of peeling takes keys from the tables into the vector.
LEMMA PeelLengthens ==
    ASSUME PeelInv, NEW k \in Keys
    PROVE  /\ Peel(<<k>>) => Len(peelingVector') = Len(peelingVector) + 1
           /\ \A l \in Keys : Peel(<<k, l>>) => Len(peelingVector') = Len(peelingVector) + 2
<1>1. peelingVector \in Seq(Keys) /\ TypeOK /\ Len(peelingVector) \in Nat
  BY DEF PeelInv, TypeOK
<1>2. ASSUME Peel(<<k>>) PROVE Len(peelingVector') = Len(peelingVector) + 1
  BY <1>1, <1>2, PeelOneKey, AppendFacts
<1>3. ASSUME NEW l \in Keys, Peel(<<k, l>>) PROVE Len(peelingVector') = Len(peelingVector) + 2
  <2>1. peelingVector' = Append(Append(peelingVector, k), l)
    BY <1>1, <1>3, PeelTwoKeys
  <2>2. Append(peelingVector, k) \in Seq(Keys) /\ Len(Append(peelingVector, k)) = Len(peelingVector) + 1
    BY <1>1, AppendFacts
  <2>3. Len(Append(Append(peelingVector, k), l)) = Len(Append(peelingVector, k)) + 1
    BY <2>2, AppendFacts
  <2>4. QED BY <1>1, <2>1, <2>2, <2>3
<1>4. QED BY <1>2, <1>3

\* A round of a chain ends the chain in this bucket of second, or goes on with
\* another key and has peeled two.
LEMMA ChainRound ==
    ASSUME PeelInv, PeelOne \/ PeelTwo
    PROVE  /\ phase = "chain" /\ Len(peelingVector') > Len(peelingVector)
           /\ \/ phase' = "second" /\ position' = position + 1
              \/ phase' = "chain" /\ position' = position
           /\ run' = run
<1>1. key \in Keys /\ phase = "chain" /\ Len(peelingVector) \in Nat
  BY DEF PeelInv, TypeOK, SecondScanned, PeelOne, PeelTwo
<1>2. CASE PeelOne
  <2>1. Len(peelingVector') = Len(peelingVector) + 1
    BY <1>1, <1>2, PeelLengthens DEF PeelOne
  <2>2. QED BY <1>1, <1>2, <2>1 DEF PeelOne, EndChain
<1>3. CASE PeelTwo
  <2>1. PICK l \in first : Peel(<<key, l>>) /\ ChainNext(second \ {key, l}, h2[l])
    BY <1>3 DEF PeelTwo
  <2>2. l \in Keys
    BY DEF PeelInv, TypeOK
  <2>3. Len(peelingVector') = Len(peelingVector) + 2
    BY <1>1, <2>1, <2>2, PeelLengthens
  <2>4. \/ phase' = "second" /\ position' = position + 1
        \/ phase' = "chain" /\ position' = position
    BY <1>1, <2>1 DEF ChainNext, EndChain
  <2>5. QED BY <1>1, <1>3, <2>3, <2>4 DEF PeelTwo
<1>4. QED BY <1>2, <1>3

LEMMA PeelingReduces ==
    ASSUME PeelInv, PeelInv',
           \/ PeelFirst \/ SkipFirst \/ EndFirst
           \/ StartChain \/ SkipSecond \/ PeelOne \/ PeelTwo \/ EndPeeling
    PROVE  StepsLeft' < StepsLeft /\ run' = run
<1>1. PICK p \in Nat, l \in Nat, n \in Nat, s \in Nat :
        p = position /\ l = Len(peelingVector) /\ n = hashSize /\ s = tableRealSize
  BY BoundedNow DEF Bounded
<1>2. PICK q \in Nat, m \in Nat : q = position' /\ m = Len(peelingVector')
  BY BoundedNext DEF Bounded
<1>3. p <= s /\ (Scanning \/ Peeled => l <= n)
  BY <1>1, BoundedNow DEF Bounded
<1>4. CASE PeelFirst
  <2>1. PICK k \in first : Peel(<<k>>)
    BY <1>4 DEF PeelFirst
  <2>2. k \in Keys
    BY DEF PeelInv, TypeOK
  <2>3. Len(peelingVector') = Len(peelingVector) + 1
    BY <2>1, <2>2, PeelLengthens
  <2>4. phase = "first" /\ phase' = "first" /\ q = p + 1 /\ m = l + 1 /\ run' = run
    BY <1>1, <1>2, <1>4, <2>3 DEF PeelFirst
  <2>5. StepsLeft = (s - p) + 2 * s + (n - l) + n + 5
    BY <1>1, <2>4, Tables DEF StepsTable
  <2>6. StepsLeft' = (s - q) + 2 * s + (n - m) + n + 5
    BY <1>1, <1>2, <2>4, Tables DEF StepsTable
  <2>7. QED BY <2>4, <2>5, <2>6
<1>5. CASE SkipFirst
  <2>1. phase = "first" /\ phase' = "first" /\ q = p + 1 /\ m = l /\ run' = run
    BY <1>1, <1>2, <1>5 DEF SkipFirst
  <2>2. StepsLeft = (s - p) + 2 * s + (n - l) + n + 5
    BY <1>1, <2>1, Tables DEF StepsTable
  <2>3. StepsLeft' = (s - q) + 2 * s + (n - m) + n + 5
    BY <1>1, <1>2, <2>1, Tables DEF StepsTable
  <2>4. QED BY <2>1, <2>2, <2>3
<1>6. CASE EndFirst
  <2>1. phase = "first" /\ phase' = "second" /\ p = s /\ q = 0 /\ m = l /\ run' = run
    BY <1>1, <1>2, <1>6 DEF EndFirst
  <2>2. StepsLeft = (s - p) + 2 * s + (n - l) + n + 5
    BY <1>1, <2>1, Tables DEF StepsTable
  <2>3. StepsLeft' = 2 * (s - q) + (n - m) + n + 4
    BY <1>1, <1>2, <2>1, Tables DEF StepsTable
  <2>4. QED BY <2>1, <2>2, <2>3
<1>7. CASE StartChain
  <2>1. phase = "second" /\ phase' = "chain" /\ q = p /\ m = l /\ run' = run
    BY <1>1, <1>2, <1>7 DEF StartChain
  <2>2. StepsLeft = 2 * (s - p) + (n - l) + n + 4
    BY <1>1, <2>1, Tables DEF StepsTable
  <2>3. StepsLeft' = 2 * (s - q) - 1 + (n - m) + n + 4
    BY <1>1, <1>2, <2>1, Tables DEF StepsTable
  <2>4. QED BY <2>1, <2>2, <2>3
<1>8. CASE SkipSecond
  <2>1. phase = "second" /\ phase' = "second" /\ q = p + 1 /\ m = l /\ run' = run
    BY <1>1, <1>2, <1>8 DEF SkipSecond
  <2>2. StepsLeft = 2 * (s - p) + (n - l) + n + 4
    BY <1>1, <2>1, Tables DEF StepsTable
  <2>3. StepsLeft' = 2 * (s - q) + (n - m) + n + 4
    BY <1>1, <1>2, <2>1, Tables DEF StepsTable
  <2>4. QED BY <2>1, <2>2, <2>3
<1>9. CASE PeelOne \/ PeelTwo
  <2>1. /\ phase = "chain" /\ m > l /\ run' = run
        /\ \/ phase' = "second" /\ q = p + 1
           \/ phase' = "chain" /\ q = p
    BY <1>1, <1>2, <1>9, ChainRound
  <2>2. StepsLeft = 2 * (s - p) - 1 + (n - l) + n + 4
    BY <1>1, <2>1, Tables DEF StepsTable
  <2>3. CASE phase' = "second" /\ q = p + 1
    <3>1. StepsLeft' = 2 * (s - q) + (n - m) + n + 4
      BY <1>1, <1>2, <2>3, Tables DEF StepsTable
    <3>2. QED BY <2>1, <2>2, <2>3, <3>1
  <2>4. CASE phase' = "chain" /\ q = p
    <3>1. StepsLeft' = 2 * (s - q) - 1 + (n - m) + n + 4
      BY <1>1, <1>2, <2>4, Tables DEF StepsTable
    <3>2. QED BY <2>1, <2>2, <2>4, <3>1
  <2>5. QED BY <2>1, <2>3, <2>4
<1>10. CASE EndPeeling
  <2>1. phase = "second" /\ phase' = "generate" /\ p = s /\ run' = run
    BY <1>1, <1>10 DEF EndPeeling
  <2>2. StepsLeft = 2 * (s - p) + (n - l) + n + 4 /\ l <= n
    BY <1>1, <1>3, <2>1, Tables DEF StepsTable, Scanning
  <2>3. StepsLeft' = n + 3
    BY <1>1, <2>1, Tables DEF StepsTable
  <2>4. QED BY <2>1, <2>2, <2>3
<1>11. QED BY <1>4, <1>5, <1>6, <1>7, <1>8, <1>9, <1>10

LEMMA SolvingReduces ==
    ASSUME PeelInv, PeelInv',
           fillTables \/ generateExternalToolValues \/ UnpeelStep \/ EndUnpeeling
    PROVE  StepsLeft' < StepsLeft /\ run' = run
<1>1. PICK l \in Nat, n \in Nat, s \in Nat, c \in Nat :
        l = Len(peelingVector) /\ n = hashSize /\ s = tableRealSize /\ c = peelingCounter
  BY BoundedNow DEF Bounded
<1>2. c <= l /\ (Scanning \/ Peeled => l <= n)
  BY <1>1, BoundedNow DEF Bounded
<1>3. CASE fillTables
  <2>1. /\ phase = "fill" /\ phase' = "first" /\ position' = 0 /\ peelingVector' = peelingVector
        /\ l = 0 /\ run' = run
    BY <1>1, <1>3, BoundedNow DEF fillTables, Bounded
  <2>2. StepsLeft = 3 * s + 2 * n + 6
    BY <1>1, <2>1, Tables DEF StepsTable
  <2>3. StepsLeft' = (s - 0) + 2 * s + (n - l) + n + 5
    BY <1>1, <2>1, Tables DEF StepsTable
  <2>4. QED BY <2>1, <2>2, <2>3
<1>4. CASE generateExternalToolValues
  <2>1. /\ phase = "generate" /\ phase' \in {"unpeel", "failed"} /\ run' = run
        /\ peelingCounter' = peelingCounter
    BY <1>4 DEF generateExternalToolValues, peelVars
  <2>2. StepsLeft = n + 3 /\ l <= n
    BY <1>1, <1>2, <2>1, Tables DEF StepsTable, Peeled
  <2>3. StepsLeft' = c + 1 \/ StepsLeft' = 0
    BY <1>1, <2>1, Tables DEF StepsTable
  <2>4. QED BY <1>2, <2>1, <2>2, <2>3
<1>5. CASE UnpeelStep
  <2>1. phase = "unpeel" /\ phase' = "unpeel" /\ peelingCounter' = c - 1 /\ run' = run
    BY <1>1, <1>5 DEF UnpeelStep
  <2>2. StepsLeft = c + 1 /\ StepsLeft' = (c - 1) + 1
    BY <1>1, <2>1, Tables DEF StepsTable
  <2>3. QED BY <2>1, <2>2
<1>6. CASE EndUnpeeling
  <2>1. phase = "unpeel" /\ phase' = "done" /\ run' = run
    BY <1>6 DEF EndUnpeeling
  <2>2. StepsLeft = c + 1 /\ StepsLeft' = 0
    BY <1>1, <2>1, Tables DEF StepsTable
  <2>3. QED BY <2>1, <2>2
<1>7. QED BY <1>3, <1>4, <1>5, <1>6

\* A call of createDictionary takes the place of all its steps.
LEMMA OneLess ==
    ASSUME NEW t \in Nat, NEW i \in Nat, i < t, NEW w \in Nat
    PROVE  (t - (i + 1)) * w + w = (t - i) * w /\ (t - (i + 1)) * w \in Nat
<1>1. PICK d \in Nat : d = t - (i + 1)
  OBVIOUS
<1>2. t - i = d + 1
  BY <1>1
<1>3. (d + 1) * w = d * w + w /\ d * w \in Nat
  OBVIOUS
<1>4. QED BY <1>1, <1>2, <1>3

LEMMA Product == ASSUME NEW t \in Nat, NEW i \in Nat, i <= t, NEW w \in Nat PROVE (t - i) * w \in Nat
<1>1. PICK d \in Nat : d = t - i
  OBVIOUS
<1>2. d * w \in Nat
  OBVIOUS
<1>3. QED BY <1>1, <1>2

LEMMA CallsType == ASSUME PeelInv PROVE PerCall + 1 \in Nat /\ (Times - run) * (PerCall + 1) \in Nat
<1>1. PerCall + 1 \in Nat
  BY BoundedNow DEF Bounded, PerCall
<1>2. run \in Nat /\ run <= Times /\ Times \in Nat
  BY BoundedNow DEF Bounded
<1>3. QED BY <1>1, <1>2, Product

LEMMA WorkType == PeelInv => Work \in Nat
BY CallsType, StepsType DEF Work

LEMMA WorkTypeNext == PeelInv' => (StepsLeft \in Nat)'
<1>1. PeelInv => StepsLeft \in Nat
  BY StepsType
<1>2. QED BY <1>1, PTL

\* init() starts one of the calls that are left.
LEMMA CallReduces == ASSUME PeelInv, PeelInv', init PROVE Work' < Work
<1>1. PICK i \in Nat, t \in Nat, w \in Nat : i = run /\ t = Times /\ w = PerCall + 1
  BY CallsType, BoundedNow DEF Bounded
<1>2. i < t /\ run' = i + 1 /\ phase \in {"init", "done"} /\ phase' = "fill"
  BY <1>1 DEF init
<1>3. StepsLeft = 0 /\ StepsLeft' = PerCall
  BY <1>2, Tables DEF StepsTable, PerCall
<1>4. PICK u \in Nat : u = (t - (i + 1)) * w /\ u + w = (t - i) * w
  BY <1>2, OneLess
<1>5. Work = u + w
  BY <1>1, <1>3, <1>4 DEF Work
<1>6. Work' = u + PerCall
  BY <1>1, <1>2, <1>3, <1>4 DEF Work
<1>7. PerCall \in Nat
  BY BoundedNow DEF Bounded, PerCall
<1>8. QED BY <1>1, <1>5, <1>6, <1>7

LEMMA StepReduces ==
    ASSUME PeelInv, PeelInv', StepsLeft' < StepsLeft, run' = run PROVE Work' < Work
<1>1. PICK u \in Nat, x \in Nat, y \in Nat :
        u = (Times - run) * (PerCall + 1) /\ x = StepsLeft /\ y = StepsLeft'
  BY CallsType, StepsType, WorkTypeNext
<1>2. Work = u + x
  BY <1>1 DEF Work
<1>3. Work' = u + y
  BY <1>1 DEF Work
<1>4. QED BY <1>1, <1>2, <1>3

\* No loop of createDictionary goes round without getting nearer to its end: the
\* first pass of peeling(), the chains of the second, which come back to buckets
\* already passed, and unpeeling() together take at most PerCall steps.
THEOREM EncodingBounded == Spec => [](Work \in Nat) /\ [][Work' < Work]_vars
<1>1. ASSUME PeelInv, PeelInv', [Next]_vars PROVE [Work' < Work]_vars
  BY <1>1, CallReduces, PeelingReduces, SolvingReduces, StepReduces DEF Next, Terminated
<1>2. IndInv => PeelInv
  BY DEF IndInv
<1>3. QED BY <1>1, <1>2, Invariance, WorkType, PTL DEF Spec
=============================================================================
