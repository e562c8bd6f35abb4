------------------------ MODULE ObliviousDictionary ------------------------
(***************************************************************************)
(* The oblivious dictionary (PaXoS) of frontend/ObliviousDictionary.cpp.   *)
(*                                                                         *)
(* Every key is an edge between a bucket of the table `first' and a bucket *)
(* of the table `second'.  The encoder finds `variables' such that, for    *)
(* every key, the variables of its two buckets and of the positions its    *)
(* DH hash selects add up to the key's value:                              *)
(*   - peeling removes, again and again, a key alone in one of its buckets;*)
(*   - generateExternalToolValues solves a linear system for what is left; *)
(*   - unpeeling gives the peeled keys their values, last peeled first.    *)
(*                                                                         *)
(* The elements of the field GF(2^fieldSize) are the sets of powers with   *)
(* coefficient 1, so that addition is symmetric difference; the code only  *)
(* adds them.  The hash functions (Hasher, seeded) and the values are      *)
(* arbitrary and fixed when the dictionary is constructed.  One behaviour  *)
(* is the sequence of createDictionary calls of Receiver::run, each on the *)
(* same object.                                                            *)
(***************************************************************************)
EXTENDS Integers, Sequences, FiniteSets, Functions

CONSTANTS
    Keys,           \* the keys given to setKeysAndVals, pairwise different
    NoKey,          \* no key is in hand
    tableRealSize,  \* number of buckets of first and of second
    gamma,          \* number of variables the DH hash selects from
    FieldBits,      \* the powers of the field: GF2E is SUBSET FieldBits
    Times           \* bound: number of createDictionary calls

ASSUME DictionaryAssumption ==
    /\ IsFiniteSet(Keys)
    /\ NoKey \notin Keys
    /\ tableRealSize \in Nat \ {0}
    /\ gamma \in Nat
    /\ Times \in Nat \ {0}

VARIABLES
    h1,             \* bucket of a key in first
    h2,             \* bucket of a key in second
    DH,             \* the positions getDHBits selects for a key
    vals,           \* the value of every key
    first,          \* the keys in the table first
    second,         \* the keys in the table second
    peelingVector,  \* the peeled keys, in the order of peeling
    peelingCounter,
    position,       \* loop counter of peeling
    key,            \* the key in hand inside the while loop of peeling
    variables,
    sign,           \* 1 for a bucket the linear system has a variable of
    phase,          \* the statement of createDictionary to run next
    run,            \* which createDictionary call this is
    zeroHit         \* auxiliary: unpeeling met a bucket in use that holds 0

hashVars == <<h1, h2, DH, vals>>
peelVars == <<first, second, peelingVector, peelingCounter, position, key>>
vars == <<hashVars, peelVars, variables, sign, phase, run, zeroHit>>

Positions == 0 .. tableRealSize - 1
Buckets   == 0 .. 2 * tableRealSize - 1
DHPositions == 2 * tableRealSize .. 2 * tableRealSize + gamma - 1
hashSize  == Cardinality(Keys)

-----------------------------------------------------------------------------
(* The field.                                                              *)

GF2E == SUBSET FieldBits
Zero == {}
a (+) b == (a \ b) \cup (b \ a)

\* The sum of the variables v[i], i in S.
Sum(S, v) == {b \in FieldBits : Cardinality({i \in S : b \in v[i]}) % 2 = 1}

-----------------------------------------------------------------------------
(* Where a key is stored: dec() and getDHBits().                           *)

FirstIndex(k)  == h1[k]
SecondIndex(k) == tableRealSize + h2[k]
DHIndices(k)   == {2 * tableRealSize + j : j \in DH[k]}

\* What the owner of the variables v reads for k (checkOutput, computeXors).
Decode(k, v) == (v[FirstIndex(k)] (+) v[SecondIndex(k)]) (+) Sum(DHIndices(k), v)

\* first.bucket_size(p), second.bucket_size(p): the keys of S in bucket p.
Bucket(S, h, p) == {k \in S : h[k] = p}

\* bucket_size(p) > 1
Crowded(S, h, p) == \E k, l \in Bucket(S, h, p) : k # l

\* The buckets that the keys of S use, as indices of variables.
Touched(S) == {FirstIndex(k) : k \in S} \cup {SecondIndex(k) : k \in S}

-----------------------------------------------------------------------------

Init ==
    /\ h1 \in [Keys -> Positions]
    /\ h2 \in [Keys -> Positions]
    /\ DH \in [Keys -> SUBSET (0 .. gamma - 1)]
    /\ vals \in [Keys -> GF2E]
    /\ first = {}
    /\ second = {}
    /\ peelingVector = <<>>
    /\ peelingCounter = 0
    /\ position = 0
    /\ key = NoKey
    /\ variables = [i \in Buckets \cup DHPositions |-> Zero]
    /\ sign = [i \in Buckets |-> 0]
    /\ phase = "init"
    /\ run = 0
    /\ zeroHit = FALSE

\* init(): everything but sign starts afresh.
init ==
    /\ phase \in {"init", "done"}
    /\ run < Times
    /\ run' = run + 1
    /\ peelingVector' = <<>>
    /\ peelingCounter' = 0
    /\ first' = {}
    /\ second' = {}
    /\ variables' = [i \in Buckets \cup DHPositions |-> Zero]
    /\ zeroHit' = FALSE
    /\ phase' = "fill"
    /\ UNCHANGED <<hashVars, position, key, sign>>

\* fillTables(), and the start of peeling().
fillTables ==
    /\ phase = "fill"
    /\ first' = Keys
    /\ second' = Keys
    /\ peelingCounter' = 0
    /\ position' = 0
    /\ phase' = "first"
    /\ UNCHANGED <<hashVars, peelingVector, key, variables, sign, run, zeroHit>>

-----------------------------------------------------------------------------
(* peeling().  One step is one round of a loop.                            *)

\* The keys of the sequence ks are peeled in this order and leave both tables.
Peel_FirstOnly(ks) ==
    /\ peelingVector' = peelingVector \o ks
    /\ peelingCounter' = peelingCounter + Len(ks)
    /\ first' = first \ Range(ks)
    /\ UNCHANGED second

Peel_LastFirst(ks) ==
    /\ peelingVector' = peelingVector \o [i \in DOMAIN ks |-> ks[Len(ks) + 1 - i]]
    /\ peelingCounter' = peelingCounter + Len(ks)
    /\ first' = first \ Range(ks)
    /\ second' = second \ Range(ks)

Peel(ks) ==
    /\ peelingVector' = peelingVector \o ks
    /\ peelingCounter' = peelingCounter + Len(ks)
    /\ first' = first \ Range(ks)
    /\ second' = second \ Range(ks)

\* A key alone in its bucket of first is peeled.
PeelFirst ==
    /\ phase = "first"
    /\ position < tableRealSize
    /\ \E k \in first : Bucket(first, h1, position) = {k} /\ Peel(<<k>>)
    /\ position' = position + 1
    /\ UNCHANGED <<hashVars, key, variables, sign, phase, run, zeroHit>>

SkipFirst_TooFar ==
    /\ phase = "first"
    /\ position <= tableRealSize
    /\ \A k \in first : Bucket(first, h1, position) # {k}
    /\ position' = position + 1
    /\ UNCHANGED <<hashVars, first, second, peelingVector, peelingCounter, key,
                   variables, sign, phase, run, zeroHit>>

SkipFirst ==
    /\ phase = "first"
    /\ position < tableRealSize
    /\ \A k \in first : Bucket(first, h1, position) # {k}
    /\ position' = position + 1
    /\ UNCHANGED <<hashVars, first, second, peelingVector, peelingCounter, key,
                   variables, sign, phase, run, zeroHit>>

EndFirst ==
    /\ phase = "first"
    /\ position = tableRealSize
    /\ position' = 0
    /\ phase' = "second"
    /\ UNCHANGED <<hashVars, first, second, peelingVector, peelingCounter, key,
                   variables, sign, run, zeroHit>>

\* A key alone in its bucket of second starts a chain.
StartChain ==
    /\ phase = "second"
    /\ position < tableRealSize
    /\ \E k \in second : Bucket(second, h2, position) = {k} /\ key' = k
    /\ phase' = "chain"
    /\ UNCHANGED <<hashVars, first, second, peelingVector, peelingCounter, position,
                   variables, sign, run, zeroHit>>

SkipSecond ==
    /\ phase = "second"
    /\ position < tableRealSize
    /\ \A k \in second : Bucket(second, h2, position) # {k}
    /\ position' = position + 1
    /\ UNCHANGED <<hashVars, first, second, peelingVector, peelingCounter, key,
                   variables, sign, phase, run, zeroHit>>

\* The while loop ends and the for loop goes on.
EndChain ==
    /\ phase' = "second"
    /\ position' = position + 1
    /\ key' = NoKey

\* After the second key of a round, S is what is left of second and p the bucket
\* that key was in.  The chain goes on with a key alone in p if the for loop is
\* past p; otherwise the for loop comes to p later.
ChainNext_Never(S, p) == EndChain

ChainNext(S, p) ==
    \/ \E l \in S : Bucket(S, h2, p) = {l} /\ key' = l
       /\ p <= position
       /\ UNCHANGED <<phase, position>>
    \/ /\ \A l \in S : Bucket(S, h2, p) = {l} => p > position
       /\ EndChain

\* The key in hand is peeled and leaves no key alone in its bucket of first.
PeelOne_Unchecked ==
    /\ phase = "chain"
    /\ Peel(<<key>>)
    /\ EndChain
    /\ UNCHANGED <<hashVars, variables, sign, run, zeroHit>>

PeelOne ==
    /\ phase = "chain"
    /\ \A l \in first : Bucket(first \ {key}, h1, h1[key]) # {l}
    /\ Peel(<<key>>)
    /\ EndChain
    /\ UNCHANGED <<hashVars, variables, sign, run, zeroHit>>

\* The key in hand is peeled, then the one left alone in its bucket of first.
PeelTwo ==
    /\ phase = "chain"
    /\ \E l \in first :
        /\ Bucket(first \ {key}, h1, h1[key]) = {l}
        /\ Peel(<<key, l>>)
        /\ ChainNext(second \ {key, l}, h2[l])
    /\ UNCHANGED <<hashVars, variables, sign, run, zeroHit>>

EndPeeling ==
    /\ phase = "second"
    /\ position = tableRealSize
    /\ phase' = "generate"
    /\ UNCHANGED <<hashVars, peelVars, variables, sign, run, zeroHit>>

-----------------------------------------------------------------------------
(* generateExternalToolValues() and solve_api().                           *)

\* The number of rows the matrix is created with.
matrixSize == hashSize - peelingCounter

\* The keys that get a row of the matrix.
Rows == {k \in first : Crowded(first, h1, h1[k])}

\* The right-hand sides of the equations hold for the solution x.
Solves(x) == \A k \in Rows : Decode(k, x) = vals[k]

\* A solution sets the variables of the rows and the DH variables only.
Solutions ==
    {[i \in Buckets \cup DHPositions |->
        IF i \in DOMAIN x THEN x[i] ELSE variables[i]] :
            x \in [Touched(Rows) \cup DHPositions -> GF2E]}

\* The buckets of the rows are marked, in both tables.
MarkRows_FirstOnly ==
    [i \in Buckets |-> IF i \in {FirstIndex(k) : k \in Rows} THEN 1 ELSE sign[i]]
MarkRows == [i \in Buckets |-> IF i \in Touched(Rows) THEN 1 ELSE sign[i]]

\* Without rows solve_api returns early, leaving the DH variables 0; an
\* inconsistent system makes LinBox throw, which ends the program.
generateExternalToolValues ==
    /\ phase = "generate"
    /\ \/ /\ matrixSize = 0
          /\ variables' = variables
          /\ phase' = "unpeel"
       \/ /\ matrixSize > 0
          /\ \E x \in Solutions : Solves(x) /\ variables' = x
          /\ phase' = "unpeel"
       \/ /\ matrixSize > 0
          /\ \A x \in Solutions : ~ Solves(x)
          /\ variables' = variables
          /\ phase' = "failed"
    /\ sign' = MarkRows
    /\ UNCHANGED <<hashVars, peelVars, run, zeroHit>>

-----------------------------------------------------------------------------
(* unpeeling().                                                            *)

\* The keys whose equation is meant to hold already.
Solved == first \cup {peelingVector[i] : i \in peelingCounter + 1 .. Len(peelingVector)}

\* `Not given a value yet', the way the code tells.
Unset_NoSign(i, v) == v = Zero

Unset(i, v) == v = Zero /\ sign[i] = 0

\* One round of the loop, for the last peeled key that is left.
UnpeelKey_NoDH(k) ==
    LET a == FirstIndex(k)
        b == SecondIndex(k)
        start == IF Unset(a, variables[a]) /\ Unset(b, variables[b])
                 THEN GF2E ELSE {variables[a]}
    IN  \E r \in start :
          LET va == IF Unset(a, r) THEN vals[k] (+) variables[b] ELSE r
              vb == IF Unset(b, variables[b]) THEN vals[k] (+) va ELSE variables[b]
          IN  variables' = [variables EXCEPT ![a] = va, ![b] = vb]

UnpeelKey(k) ==
    LET a == FirstIndex(k)
        b == SecondIndex(k)
        s == Sum(DHIndices(k), variables)
        start == IF Unset(a, variables[a]) /\ Unset(b, variables[b])
                 THEN GF2E ELSE {variables[a]}
    IN  \E r \in start :
          LET va == IF Unset(a, r) THEN (vals[k] (+) variables[b]) (+) s ELSE r
              vb == IF Unset(b, variables[b])
                    THEN (vals[k] (+) va) (+) s ELSE variables[b]
          IN  variables' = [variables EXCEPT ![a] = va, ![b] = vb]

UnpeelStep_NoCount ==
    /\ phase = "unpeel"
    /\ peelingCounter > 0
    /\ UnpeelKey(peelingVector[peelingCounter])
    /\ UNCHANGED <<hashVars, peelVars, sign, phase, run, zeroHit>>

UnpeelStep ==
    /\ phase = "unpeel"
    /\ peelingCounter > 0
    /\ peelingCounter' = peelingCounter - 1
    /\ LET k == peelingVector[peelingCounter]
       IN /\ UnpeelKey(k)
          /\ zeroHit' = \/ zeroHit
                        \/ \E i \in Touched({k}) \cap Touched(Solved) :
                              Unset(i, variables[i])
    /\ UNCHANGED <<hashVars, first, second, peelingVector, position, key,
                   sign, phase, run>>

EndUnpeeling ==
    /\ phase = "unpeel"
    /\ peelingCounter = 0
    /\ phase' = "done"
    /\ UNCHANGED <<hashVars, peelVars, variables, sign, run, zeroHit>>

\* After the last iteration, or after the exception of the solver.
Terminated ==
    /\ phase = "failed" \/ (phase = "done" /\ run = Times)
    /\ UNCHANGED vars

Next ==
    \/ init \/ fillTables
    \/ PeelFirst \/ SkipFirst \/ EndFirst
    \/ StartChain \/ SkipSecond \/ PeelOne \/ PeelTwo \/ EndPeeling
    \/ generateExternalToolValues
    \/ UnpeelStep \/ EndUnpeeling
    \/ Terminated

Spec == Init /\ [][Next]_vars

\* createDictionary is one sequential program on one thread.
FairSpec == Spec /\ WF_vars(Next)
-----------------------------------------------------------------------------
(* Properties.                                                             *)

TypeOK ==
    /\ h1 \in [Keys -> Positions]
    /\ h2 \in [Keys -> Positions]
    /\ DH \in [Keys -> SUBSET (0 .. gamma - 1)]
    /\ vals \in [Keys -> GF2E]
    /\ first \subseteq Keys
    /\ second \subseteq Keys
    /\ peelingVector \in Seq(Keys)
    /\ peelingCounter \in 0 .. Len(peelingVector)
    /\ position \in 0 .. tableRealSize
    /\ key \in Keys \cup {NoKey}
    /\ variables \in [Buckets \cup DHPositions -> GF2E]
    /\ sign \in [Buckets -> {0, 1}]
    /\ phase \in {"init", "fill", "first", "second", "chain", "generate",
                  "unpeel", "done", "failed"}
    /\ run \in 0 .. Times
    /\ zeroHit \in BOOLEAN

\* Every bucket the keys of S use is used by two of them.
MinDegreeTwo(S) == \A k \in S : Crowded(S, h1, h1[k]) /\ Crowded(S, h2, h2[k])

\* The 2-core of the graph: the largest set of keys with that property.
TwoCore == UNION {S \in SUBSET Keys : MinDegreeTwo(S)}

\* The single pass of peeling() over the two tables, with its chains that turn
\* back only to buckets the pass has left behind, leaves exactly the 2-core in
\* both tables: no bucket that became a singleton is missed, no key is lost.
PeelingFindsCore ==
    phase \in {"generate", "unpeel", "done", "failed"} =>
        first = TwoCore /\ second = TwoCore

\* generateExternalToolValues allocates hashSize - peelingCounter rows and fills
\* one per key in a bucket of first with more than one key.  One row too many
\* would be written, and one too few read, outside the matrix.
RowsFillMatrix == phase = "generate" => Cardinality(Rows) = matrixSize

\* No key is peeled twice or both peeled and left in a table, so that
\* peelingVector[peelingCounter++] stays inside the vector of hashSize keys.
PeeledOnce ==
    phase \notin {"init", "fill"} =>
        /\ \A i, j \in DOMAIN peelingVector : i # j => peelingVector[i] # peelingVector[j]
        /\ \A i \in DOMAIN peelingVector : peelingVector[i] \notin first \cup second
        /\ Len(peelingVector) + Cardinality(first) = hashSize

\* Whenever unpeeling takes a key, one of the key's two buckets is used by no
\* key that has its value already, and is therefore free to be set.
FreeBucketLeft ==
    phase = "unpeel" /\ peelingCounter > 0 =>
        ~ (Touched({peelingVector[peelingCounter]}) \subseteq Touched(Solved))

\* init() leaves sign as the previous createDictionary left it; all the same it
\* never marks a bucket outside the system that is solved in this iteration.
SignMarksCore ==
    \A i \in Buckets :
        /\ sign[i] = 1 => i \in Touched(TwoCore)
        /\ phase \in {"unpeel", "done"} /\ i \in Touched(TwoCore) => sign[i] = 1

\* Unpeeling keeps the equation of every key it has come past, and of the keys
\* of the linear system, unless a bucket in use was given the value 0, which the
\* code cannot tell from a bucket that has no value.
SolvedKeysDecode ==
    phase \in {"unpeel", "done"} /\ ~ zeroHit =>
        \A k \in Solved : Decode(k, variables) = vals[k]

\* checkOutput() reports `invalid value' for a key whose equation does not hold:
\* after createDictionary every key is meant to decode to its value.
CheckOutput ==
    phase = "done" => \A k \in Keys : Decode(k, variables) = vals[k]

\* A step of unpeeling sets buckets of the key in hand only, and of those none
\* that belongs to the linear system or holds a value other than 0.
UnpeelingSetsOnce ==
    [][phase = "unpeel" =>
         \A i \in DOMAIN variables :
            variables'[i] # variables[i] =>
                /\ variables[i] = Zero
                /\ i \in Buckets \ Touched(first)
                /\ i \in Touched({peelingVector[peelingCounter]})]_vars

\* createDictionary comes to an end every time: no chain of peeling runs on
\* forever, and the program stops only after the last iteration or on an
\* inconsistent system.
Terminates == <>(phase = "failed" \/ (phase = "done" /\ run = Times))

-----------------------------------------------------------------------------
(* The inductive invariant behind these properties.                        *)

Scanning == phase \in {"first", "second", "chain"}
Peeled   == phase \in {"generate", "unpeel", "done", "failed"}

\* The tables lose their keys together, and the vector counts them.
TablesAgree ==
    /\ first = second
    /\ phase \in {"fill", "first", "second", "chain", "generate"} =>
            peelingCounter = Len(peelingVector)
    /\ phase = "fill" => peelingVector = <<>>
    /\ phase = "done" => peelingCounter = 0

\* Every key is in the table S or, once, in the vector v of peeled keys.
Partition(S, v) ==
    /\ Keys = S \cup Range(v)
    /\ S \cap Range(v) = {}
    /\ \A i, j \in DOMAIN v : i # j => v[i] # v[j]
    /\ Len(v) + Cardinality(S) = hashSize

\* A peeled key was alone in one of its buckets, among the keys peeled after
\* it and the keys still in the table.
PeeledAfter(S, v, i) == S \cup {v[j] : j \in i + 1 .. Len(v)}

PeelingOrder(S, v) ==
    \A i \in DOMAIN v :
        \/ \A k \in PeeledAfter(S, v, i) : h1[k] # h1[v[i]]
        \/ \A k \in PeeledAfter(S, v, i) : h2[k] # h2[v[i]]

\* No key of the 2-core is ever peeled.
CoreStays(S) == \A C \in SUBSET Keys : MinDegreeTwo(C) => C \subseteq S

PeelingSound ==
    Scanning \/ Peeled =>
        /\ Partition(first, peelingVector)
        /\ PeelingOrder(first, peelingVector)
        /\ CoreStays(first)

\* The singletons of first are gone below position, then altogether: a chain
\* that makes a new one peels it in the same round.
FirstScanned ==
    \A k \in first :
        (phase = "first" /\ h1[k] < position) \/ phase \in {"second", "chain"} \/ Peeled =>
            Crowded(first, h1, h1[k])

\* The singletons of second are gone below position; inside a chain, but for the
\* key in hand.
SecondScanned ==
    /\ \A k \in first :
        (\/ phase = "second" /\ h2[k] < position
         \/ phase = "chain" /\ h2[k] <= position /\ k # key
         \/ Peeled)
        => Crowded(first, h2, h2[k])
    /\ phase = "chain" =>
        /\ position < tableRealSize
        /\ key \in first
        /\ Bucket(first, h2, h2[key]) = {key}

\* The buckets no solved key uses still hold 0.
FreeBucketsZero ==
    /\ phase \in {"fill", "first", "second", "chain", "generate"} =>
            \A i \in Buckets : variables[i] = Zero
    /\ phase = "unpeel" => \A i \in Buckets \ Touched(Solved) : variables[i] = Zero

PeelInv == TypeOK /\ TablesAgree /\ PeelingSound /\ FirstScanned /\ SecondScanned

ValueInv == SignMarksCore /\ FreeBucketsZero /\ SolvedKeysDecode

IndInv == PeelInv /\ ValueInv
=============================================================================
