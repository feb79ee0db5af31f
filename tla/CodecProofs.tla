----------------------------- MODULE CodecProofs -----------------------------
(***************************************************************************)
(* For bytes of any even number of values, any limits and any messages:    *)
(* what Write accepts, Read takes from the stream as it was, an update of  *)
(* the clipboard fits a frame, and both ends agree on a handshake.         *)
(***************************************************************************)
EXTENDS Codec, FiniteSetTheorems, WellFoundedInduction, SequenceTheorems, TLAPS

-----------------------------------------------------------------------------
(* Induction over a set of numbers. *)

LEMMA AllNumbers ==
  ASSUME NEW S, 0 \in S, \A n \in Nat : n \in S => n + 1 \in S
  PROVE  Nat \subseteq S
<1> DEFINE Bad == Nat \ S
<1>1. SUFFICES ASSUME Bad # {} PROVE FALSE
  OBVIOUS
<1>2. PICK n \in Bad : \A m \in Bad : ~(<<m, n>> \in OpToRel(<, Nat))
  BY <1>1, NatLessThanWellFounded, WFMin
<1>3. n # 0 /\ n - 1 \in Nat
  OBVIOUS
<1>4. n - 1 \notin Bad
  <2>1. <<n - 1, n>> \in OpToRel(<, Nat)
    BY <1>3 DEF OpToRel
  <2> QED
    BY <1>2, <2>1
<1>5. n - 1 \in S /\ (n - 1) + 1 = n
  BY <1>3, <1>4
<1> QED
  BY <1>3, <1>5

-----------------------------------------------------------------------------
(* Numbers and their bytes. *)

\* Every byte more multiplies the values by Byte.
LEMMA ValuesOfWidths ==
  /\ Values[0] = 1
  /\ \A w \in 1 .. 8 : Values[w] = Byte * Values[w - 1]
<1> DEFINE Step(f, w) == IF w = 0 THEN 1 ELSE Byte * f[w - 1]
           S == {n \in Nat : \E f : f = [w \in 0 .. n |-> Step(f, w)]}
<1>1. 0 \in S
  <2>1. [w \in 0 .. 0 |-> 1] = [w \in 0 .. 0 |-> Step([u \in 0 .. 0 |-> 1], w)]
    OBVIOUS
  <2> QED
    BY <2>1
<1>2. ASSUME NEW n \in Nat, n \in S PROVE n + 1 \in S
  <2>1. PICK f : f = [w \in 0 .. n |-> Step(f, w)]
    BY <1>2
  <2> DEFINE g == [w \in 0 .. n + 1 |-> IF w = n + 1 THEN Byte * f[n] ELSE f[w]]
  <2>2. ASSUME NEW w \in 0 .. n + 1 PROVE g[w] = Step(g, w)
    BY <2>1
  <2>3. g = [w \in 0 .. n + 1 |-> Step(g, w)]
    BY <2>2
  <2> HIDE DEF g
  <2> QED
    BY <2>3
<1>3. 8 \in S
  <2> HIDE DEF S
  <2> QED
    BY <1>1, <1>2, AllNumbers
<1>4. Values = [w \in 0 .. 8 |-> Step(Values, w)]
  BY <1>3 DEF Values
<1> QED
  BY <1>4

LEMMA ValuesArePositive == \A w \in 0 .. 8 : Values[w] \in Nat \ {0}
<1> DEFINE S == {n \in Nat : n <= 8 => Values[n] \in Nat \ {0}}
<1>1. 0 \in S
  BY ValuesOfWidths
<1>2. ASSUME NEW n \in Nat, n \in S PROVE n + 1 \in S
  <2>1. SUFFICES ASSUME n + 1 <= 8 PROVE Values[n + 1] \in Nat \ {0}
    OBVIOUS
  <2>2. Values[n + 1] = Byte * Values[n] /\ Values[n] \in Nat \ {0}
    BY <1>2, <2>1, ValuesOfWidths
  <2> QED
    BY <2>2, CodecAssumption
<1>3. Nat \subseteq S
  <2> HIDE DEF S
  <2> QED
    BY <1>1, <1>2, AllNumbers
<1> QED
  BY <1>3

\* The sum over a set of positions does not depend on which is taken first.
LEMMA SumOfPositions ==
  ASSUME NEW n \in Nat, NEW f \in [1 .. n -> Int]
  PROVE  \E g \in [SUBSET (1 .. n) -> Int] :
           /\ g[{}] = 0
           /\ \A T \in SUBSET (1 .. n) : \A x \in T : g[T] = f[x] + g[T \ {x}]
<1> DEFINE Sum(k, g) ==
             /\ g \in [SUBSET (1 .. k) -> Int]
             /\ g[{}] = 0
             /\ \A T \in SUBSET (1 .. k) : \A x \in T : g[T] = f[x] + g[T \ {x}]
           S == {k \in Nat : k <= n => \E g : Sum(k, g)}
<1>a. \A k : k \in S <=> k \in Nat /\ (k <= n => \E g : Sum(k, g))
  OBVIOUS
<1> HIDE DEF S
<1>1. 0 \in S
  <2>1. Sum(0, [T \in SUBSET (1 .. 0) |-> 0])
    <3>1. 1 .. 0 = {}
      OBVIOUS
    <3> QED
      BY <3>1
  <2> HIDE DEF Sum
  <2> QED
    BY <1>a, <2>1
<1>2. ASSUME NEW k \in Nat, k \in S PROVE k + 1 \in S
  <2>1. SUFFICES ASSUME k + 1 <= n PROVE \E g : Sum(k + 1, g)
    <3> HIDE DEF Sum
    <3> QED
      BY <1>a
  <2>2. PICK g : Sum(k, g)
    <3> HIDE DEF Sum
    <3> QED
      BY <1>2, <2>1, <1>a
  <2> DEFINE h == [T \in SUBSET (1 .. k + 1) |->
                     IF k + 1 \in T THEN f[k + 1] + g[T \ {k + 1}] ELSE g[T]]
  <2>3. \A T \in SUBSET (1 .. k + 1) : k + 1 \notin T => T \in SUBSET (1 .. k)
    OBVIOUS
  <2>4. \A T \in SUBSET (1 .. k + 1) : T \ {k + 1} \in SUBSET (1 .. k)
    OBVIOUS
  <2>5. f[k + 1] \in Int
    BY <2>1
  <2>6. h \in [SUBSET (1 .. k + 1) -> Int]
    BY <2>2, <2>3, <2>4, <2>5
  <2>7. h[{}] = 0
    BY <2>2
  <2>8. ASSUME NEW T \in SUBSET (1 .. k + 1), NEW x \in T
        PROVE  h[T] = f[x] + h[T \ {x}]
    <3>1. CASE k + 1 \notin T
      BY <2>2, <2>3, <3>1
    <3>2. CASE x = k + 1
      <4>1. h[T] = f[x] + g[T \ {x}]
        BY <3>2
      <4>2. h[T \ {x}] = g[T \ {x}]
        BY <3>2
      <4> QED
        BY <4>1, <4>2
    <3>3. CASE k + 1 \in T /\ x # k + 1
      <4> DEFINE U == T \ {k + 1}
      <4>1. U \in SUBSET (1 .. k) /\ x \in U
        BY <3>3, <2>4
      <4>2. g[U] = f[x] + g[U \ {x}]
        BY <2>2, <4>1
      <4>3. (T \ {x}) \ {k + 1} = U \ {x} /\ k + 1 \in T \ {x}
        BY <3>3
      <4>4. h[T] = f[k + 1] + g[U] /\ h[T \ {x}] = f[k + 1] + g[U \ {x}]
        BY <3>3, <4>3
      <4>5. g[U \ {x}] \in Int /\ f[x] \in Int
        <5>1. U \ {x} \in SUBSET (1 .. k) /\ x \in 1 .. n
          BY <2>1, <4>1
        <5> HIDE DEF U
        <5> QED
          BY <2>2, <5>1
      <4> HIDE DEF h, U
      <4> QED
        BY <2>5, <4>2, <4>4, <4>5
    <3> QED
      BY <3>1, <3>2, <3>3
  <2>9. Sum(k + 1, h)
    BY <2>6, <2>7, <2>8
  <2> HIDE DEF h, Sum
  <2> QED
    BY <2>9
<1>3. n \in S
  BY <1>1, <1>2, AllNumbers
<1>4. PICK g : Sum(n, g)
  <2> HIDE DEF Sum
  <2> QED
    BY <1>3, <1>a
<1> QED
  BY <1>4

\* The value of a number is summed up from its lowest byte.
LEMMA UnsignedByBytes ==
  ASSUME NEW n \in 0 .. 8, NEW s \in [1 .. n -> Int]
  PROVE  \E h \in [0 .. n -> Int] :
           /\ h[0] = 0 /\ \A k \in 1 .. n : h[k] = h[k - 1] + s[k] * Values[k - 1]
           /\ Unsigned(s) = h[n]
<1> DEFINE f == [i \in 1 .. n |-> s[i] * Values[i - 1]]
           Sums(g) == g = [T \in SUBSET (1 .. n) |->
                             IF T = {} THEN 0
                             ELSE LET x == CHOOSE x \in T : TRUE
                                  IN  s[x] * Values[x - 1] + g[T \ {x}]]
           iter == CHOOSE g : Sums(g)
<1>1. f \in [1 .. n -> Int]
  <2>1. ASSUME NEW i \in 1 .. n PROVE s[i] * Values[i - 1] \in Int
    <3>1. i - 1 \in 0 .. 8
      OBVIOUS
    <3>2. Values[i - 1] \in Nat
      BY <3>1, ValuesArePositive
    <3>3. s[i] \in Int
      OBVIOUS
    <3> QED
      BY <3>2, <3>3
  <2> QED
    BY <2>1
<1>2. PICK g \in [SUBSET (1 .. n) -> Int] :
        /\ g[{}] = 0
        /\ \A T \in SUBSET (1 .. n) : \A x \in T : g[T] = f[x] + g[T \ {x}]
  <2>1. n \in Nat
    OBVIOUS
  <2> HIDE DEF f
  <2> QED
    BY <1>1, <2>1, SumOfPositions
<1>3. Sums(g)
  <2>1. ASSUME NEW T \in SUBSET (1 .. n)
        PROVE  g[T] = IF T = {} THEN 0
                      ELSE LET x == CHOOSE x \in T : TRUE
                           IN  s[x] * Values[x - 1] + g[T \ {x}]
    <3>1. CASE T = {}
      BY <1>2, <3>1
    <3>2. CASE T # {}
      <4> DEFINE x == CHOOSE x \in T : TRUE
      <4>1. x \in T
        BY <3>2
      <4> HIDE DEF x
      <4>2. g[T] = s[x] * Values[x - 1] + g[T \ {x}]
        BY <1>2, <4>1
      <4> QED
        BY <3>2, <4>2 DEF x
    <3> QED
      BY <3>1, <3>2
  <2> QED
    BY <2>1
<1>4. Sums(iter)
  <2> HIDE DEF Sums
  <2> QED
    BY <1>3
<1>5. Unsigned(s) = iter[1 .. n]
  BY DEF Unsigned, MapThenSumSet, MapThenFoldSet
<1> HIDE DEF iter
<1>6. \A T \in SUBSET (1 .. n) : iter[T] = g[T]
  <2> DEFINE S == {k \in Nat : \A T \in SUBSET (1 .. n) :
                                 Cardinality(T) = k => iter[T] = g[T]}
  <2>1. \A T \in SUBSET (1 .. n) : IsFiniteSet(T) /\ Cardinality(T) \in Nat
    <3>1. IsFiniteSet(1 .. n)
      BY FS_Interval
    <3> QED
      BY <3>1, FS_Subset, FS_CardinalityType
  <2>2. 0 \in S
    <3>1. ASSUME NEW T \in SUBSET (1 .. n), Cardinality(T) = 0 PROVE iter[T] = g[T]
      <4>1. T = {}
        BY <3>1, <2>1, FS_EmptySet
      <4> QED
        BY <4>1, <1>2, <1>4
    <3> QED
      BY <3>1
  <2>3. ASSUME NEW k \in Nat, k \in S PROVE k + 1 \in S
    <3>1. ASSUME NEW T \in SUBSET (1 .. n), Cardinality(T) = k + 1 PROVE iter[T] = g[T]
      <4> DEFINE x == CHOOSE x \in T : TRUE
      <4>1. T # {}
        BY <3>1, <2>1, FS_EmptySet
      <4>2. x \in T
        BY <4>1
      <4> HIDE DEF x
      <4>3. T \ {x} \in SUBSET (1 .. n) /\ Cardinality(T \ {x}) = k
        <5>1. IsFiniteSet(T)
          BY <2>1
        <5>2. Cardinality(T \ {x}) = Cardinality(T) - 1
          BY <4>2, <5>1, FS_RemoveElement
        <5>3. Cardinality(T \ {x}) = k
          BY <3>1, <5>2
        <5> QED
          BY <5>3
      <4>4. iter[T \ {x}] = g[T \ {x}]
        BY <2>3, <4>3
      <4>5. iter[T] = s[x] * Values[x - 1] + iter[T \ {x}]
        BY <1>4, <4>1 DEF x
      <4>6. g[T] = s[x] * Values[x - 1] + g[T \ {x}]
        BY <1>2, <4>2
      <4> QED
        BY <4>4, <4>5, <4>6
    <3> QED
      BY <3>1
  <2>4. Nat \subseteq S
    <3> HIDE DEF S
    <3> QED
      BY <2>2, <2>3, AllNumbers
  <2> QED
    BY <2>1, <2>4
<1> DEFINE h == [k \in 0 .. n |-> g[1 .. k]]
<1>7. \A k \in 0 .. n : 1 .. k \in SUBSET (1 .. n)
  OBVIOUS
<1>8. h \in [0 .. n -> Int] /\ h[n] = Unsigned(s)
  BY <1>2, <1>5, <1>6, <1>7
<1>9. h[0] = 0
  <2>1. 1 .. 0 = {}
    OBVIOUS
  <2> QED
    BY <1>2, <2>1
<1>10. ASSUME NEW k \in 1 .. n PROVE h[k] = h[k - 1] + s[k] * Values[k - 1]
  <2>1. (1 .. k) \ {k} = 1 .. k - 1 /\ k \in 1 .. k
    OBVIOUS
  <2>2. g[1 .. k] = f[k] + g[1 .. k - 1]
    <3>1. 1 .. k \in SUBSET (1 .. n)
      OBVIOUS
    <3> HIDE DEF f
    <3>2. g[1 .. k] = f[k] + g[(1 .. k) \ {k}]
      BY <1>2, <2>1, <3>1
    <3> QED
      BY <2>1, <3>2
  <2>3. f[k] \in Int /\ g[1 .. k - 1] \in Int
    <3>1. k - 1 \in 0 .. n
      OBVIOUS
    <3> HIDE DEF f
    <3> QED
      BY <1>1, <1>2, <1>7, <3>1
  <2>4. h[k] = g[1 .. k] /\ h[k - 1] = g[1 .. k - 1]
    OBVIOUS
  <2> HIDE DEF h
  <2>5. f[k] + g[1 .. k - 1] = g[1 .. k - 1] + f[k]
    <3> HIDE DEF f
    <3> QED
      BY <2>3
  <2> QED
    BY <2>2, <2>4, <2>5
<1> HIDE DEF h
<1> QED
  BY <1>8, <1>9, <1>10

LEMMA DivDiv ==
  ASSUME NEW v \in Int, NEW p \in Nat \ {0}, NEW b \in Nat \ {0}
  PROVE  (v \div p) \div b = v \div (p * b)
OBVIOUS

\* The bytes of v, read back without a sign, are v modulo the values they have.
LEMMA BytesReadBack ==
  ASSUME NEW w \in 0 .. 8, NEW v \in Int
  PROVE  /\ LittleEndian(w, v) \in [1 .. w -> 0 .. Byte - 1]
         /\ Unsigned(LittleEndian(w, v)) = v - Values[w] * (v \div Values[w])
<1> DEFINE s == LittleEndian(w, v)
           q(k) == v \div Values[k]
<1>0. Byte \in Nat \ {0}
  BY CodecAssumption
<1>1. \A k \in 0 .. 8 : q(k) \in Int
  BY ValuesArePositive
<1>2. \A i \in 1 .. w : s[i] = q(i - 1) % Byte
  BY DEF LittleEndian
<1>3. s \in [1 .. w -> 0 .. Byte - 1]
  <2>1. \A i \in 1 .. w : q(i - 1) % Byte \in 0 .. Byte - 1
    <3> HIDE DEF q
    <3>1. \A i \in 1 .. w : q(i - 1) \in Int
      BY <1>1
    <3> QED
      BY <1>0, <3>1
  <2> QED
    BY <2>1 DEF LittleEndian
<1>4. PICK h \in [0 .. w -> Int] :
        /\ h[0] = 0 /\ \A k \in 1 .. w : h[k] = h[k - 1] + s[k] * Values[k - 1]
        /\ Unsigned(s) = h[w]
  <2>1. s \in [1 .. w -> Int]
    BY <1>0, <1>3
  <2> HIDE DEF s
  <2> QED
    BY <2>1, UnsignedByBytes
<1>5. ASSUME NEW k \in 1 .. w
      PROVE  s[k] * Values[k - 1] = Values[k - 1] * q(k - 1) - Values[k] * q(k)
  <2> DEFINE p == Values[k - 1]
             u == q(k - 1)
  <2>0. k - 1 \in 0 .. 8 /\ k \in 1 .. 8
    OBVIOUS
  <2>1. p \in Nat \ {0} /\ Values[k] = Byte * p
    BY <2>0, ValuesArePositive, ValuesOfWidths
  <2>2. u \in Int /\ s[k] = u % Byte
    <3> HIDE DEF q, s
    <3> QED
      BY <1>1, <1>2, <2>0
  <2>3. q(k) = u \div Byte
    <3>1. (v \div p) \div Byte = v \div (p * Byte)
      <4> HIDE DEF p
      <4>1. p \in Nat \ {0}
        BY <2>1
      <4> QED
        BY <1>0, <4>1, DivDiv
    <3>2. p * Byte = Byte * p
      <4> HIDE DEF p
      <4> QED
        BY <1>0, <2>1
    <3> QED
      BY <2>1, <3>1, <3>2
  <2> HIDE DEF p, u, q, s
  <2>4. u = Byte * (u \div Byte) + (u % Byte) /\ u \div Byte \in Int
    BY <1>0, <2>2
  <2>5. s[k] = u - Byte * q(k) /\ q(k) \in Int
    BY <1>0, <2>2, <2>3, <2>4
  <2>6. (u - Byte * q(k)) * p = p * u - (Byte * p) * q(k)
    BY <1>0, <2>1, <2>2, <2>5
  <2> QED
    BY <2>1, <2>5, <2>6 DEF p, u
<1> DEFINE S == {k \in Nat : k <= w => h[k] = v - Values[k] * q(k)}
<1>6. 0 \in S
  <2>1. v \div 1 = v
    OBVIOUS
  <2> QED
    BY <1>4, <2>1, ValuesOfWidths
<1>7. ASSUME NEW k \in Nat, k \in S PROVE k + 1 \in S
  <2>1. SUFFICES ASSUME k + 1 <= w PROVE h[k + 1] = v - Values[k + 1] * q(k + 1)
    OBVIOUS
  <2> HIDE DEF s
  <2>2. h[k + 1] = h[k] + s[k + 1] * Values[k]
    BY <1>4, <2>1
  <2>3. s[k + 1] * Values[k] = Values[k] * q(k) - Values[k + 1] * q(k + 1)
    <3>1. k + 1 \in 1 .. w /\ (k + 1) - 1 = k
      BY <2>1
    <3> HIDE DEF q
    <3> QED
      BY <1>5, <3>1
  <2>4. h[k] = v - Values[k] * q(k)
    BY <1>7, <2>1
  <2>5. Values[k] * q(k) \in Int /\ Values[k + 1] * q(k + 1) \in Int
    <3>1. k \in 0 .. 8 /\ k + 1 \in 0 .. 8
      BY <2>1
    <3> HIDE DEF q
    <3>2. Values[k] \in Nat /\ Values[k + 1] \in Nat
      BY <3>1, ValuesArePositive
    <3>3. q(k) \in Int /\ q(k + 1) \in Int
      BY <1>1, <3>1
    <3> QED
      BY <3>2, <3>3
  <2> HIDE DEF q
  <2> QED
    BY <2>2, <2>3, <2>4, <2>5
<1>8. w \in S
  <2> HIDE DEF S
  <2> QED
    BY <1>6, <1>7, AllNumbers
<1> QED
  BY <1>3, <1>4, <1>8

-----------------------------------------------------------------------------
(* Fields one after the other. *)

Bytes == Seq(0 .. Byte - 1)

LEMMA BytesAssociate ==
  ASSUME NEW s \in Bytes, NEW t \in Bytes, NEW u \in Bytes
  PROVE  (s \o t) \o u = s \o (t \o u)
BY ConcatAssociative DEF Bytes

LEMMA FunctionIsSequence ==
  ASSUME NEW S, NEW n \in Nat, NEW f \in [1 .. n -> S]
  PROVE  f \in Seq(S) /\ Len(f) = n
OBVIOUS

\* FlattenSeq puts each sequence behind what it has so far.
LEMMA Flattened ==
  ASSUME NEW ss \in Seq(Bytes)
  PROVE  \E G \in [0 .. Len(ss) -> Bytes] :
           /\ G[0] = <<>> /\ \A i \in 1 .. Len(ss) : G[i] = G[i - 1] \o ss[i]
           /\ FlattenSeq(ss) = G[Len(ss)]
<1> DEFINE n == Len(ss)
           Flat(k, F) == F = [i \in 1 .. k |-> IF i = 1 THEN ss[i] ELSE F[i - 1] \o ss[i]]
           S == {k \in Nat : \E F : Flat(k, F)}
<1>0. n \in Nat /\ \A i \in 1 .. n : ss[i] \in Bytes
  OBVIOUS
<1>1. 0 \in S
  <2>1. Flat(0, <<>>)
    OBVIOUS
  <2> HIDE DEF Flat
  <2> QED
    BY <2>1
<1>2. ASSUME NEW k \in Nat, k \in S PROVE k + 1 \in S
  <2>1. PICK F : Flat(k, F)
    BY <1>2
  <2> DEFINE H == [i \in 1 .. k + 1 |->
                     IF i = k + 1 THEN (IF i = 1 THEN ss[i] ELSE F[k] \o ss[i]) ELSE F[i]]
  <2>2. ASSUME NEW i \in 1 .. k + 1
        PROVE  H[i] = IF i = 1 THEN ss[i] ELSE H[i - 1] \o ss[i]
    <3>1. CASE i = k + 1
      <4>1. i # 1 => k \in 1 .. k + 1 /\ k # k + 1 /\ i - 1 = k
        BY <3>1
      <4>2. i # 1 => H[i - 1] = F[k]
        BY <4>1
      <4> QED
        BY <3>1, <4>2
    <3>2. CASE i # k + 1
      <4>1. i \in 1 .. k /\ (i # 1 => i - 1 \in 1 .. k /\ i - 1 # k + 1)
        BY <3>2
      <4>2. H[i] = F[i] /\ (i # 1 => H[i - 1] = F[i - 1])
        BY <4>1
      <4>3. F[i] = IF i = 1 THEN ss[i] ELSE F[i - 1] \o ss[i]
        BY <2>1, <4>1
      <4> QED
        BY <4>2, <4>3
    <3> QED
      BY <3>1, <3>2
  <2>3. Flat(k + 1, H)
    BY <2>2
  <2> HIDE DEF H, Flat
  <2> QED
    BY <2>3
<1>3. n \in S
  <2> HIDE DEF S, n
  <2> QED
    BY <1>0, <1>1, <1>2, AllNumbers
<1> DEFINE F == CHOOSE F : Flat(n, F)
<1>4. Flat(n, F)
  <2> HIDE DEF Flat
  <2> QED
    BY <1>3
<1>5. FlattenSeq(ss) = IF n = 0 THEN ss ELSE F[n]
  BY DEF FlattenSeq
<1> HIDE DEF F
<1> DEFINE G == [k \in 0 .. n |-> IF k = 0 THEN <<>> ELSE F[k]]
           T == {k \in Nat : k <= n => G[k] \in Bytes}
<1>6. ASSUME NEW i \in 1 .. n, G[i - 1] \in Bytes
      PROVE  G[i] = G[i - 1] \o ss[i] /\ G[i] \in Bytes
  <2>1. ss[i] \in Bytes
    BY <1>0
  <2>2. CASE i = 1
    <3>1. G[i] = ss[i] /\ G[i - 1] = <<>>
      BY <1>4, <2>2
    <3> HIDE DEF G
    <3> QED
      BY <2>1, <3>1, ConcatEmptySeq DEF Bytes
  <2>3. CASE i # 1
    <3>1. G[i] = G[i - 1] \o ss[i]
      <4>1. i \in 0 .. n /\ i - 1 \in 0 .. n /\ i # 0 /\ i - 1 # 0
        BY <1>0, <2>3
      <4>2. G[i] = F[i] /\ G[i - 1] = F[i - 1]
        BY <4>1
      <4>3. F[i] = F[i - 1] \o ss[i]
        BY <1>4, <2>3
      <4> HIDE DEF G
      <4> QED
        BY <4>2, <4>3
    <3> HIDE DEF G
    <3> QED
      BY <1>6, <2>1, <3>1, ConcatProperties DEF Bytes
  <2> QED
    BY <2>2, <2>3
<1>7. 0 \in T
  <2>1. G[0] = <<>> /\ <<>> \in Bytes
    BY EmptySeq DEF Bytes
  <2> HIDE DEF G
  <2> QED
    BY <2>1
<1>8. ASSUME NEW k \in Nat, k \in T PROVE k + 1 \in T
  <2>1. SUFFICES ASSUME k + 1 <= n PROVE G[k + 1] \in Bytes
    OBVIOUS
  <2>2. k + 1 \in 1 .. n /\ (k + 1) - 1 = k /\ G[k] \in Bytes
    BY <1>8, <2>1
  <2> HIDE DEF G
  <2> QED
    BY <1>6, <2>2
<1>9. Nat \subseteq T
  <2> HIDE DEF T
  <2> QED
    BY <1>7, <1>8, AllNumbers
<1>10. G \in [0 .. n -> Bytes]
  <2>1. ASSUME NEW k \in 0 .. n PROVE G[k] \in Bytes
    <3> HIDE DEF G
    <3> QED
      BY <1>9
  <2> QED
    BY <2>1
<1>11. \A i \in 1 .. n : G[i] = G[i - 1] \o ss[i]
  <2> SUFFICES ASSUME NEW i \in 1 .. n PROVE G[i] = G[i - 1] \o ss[i]
    OBVIOUS
  <2>1. i - 1 \in 0 .. n
    OBVIOUS
  <2> HIDE DEF G
  <2> QED
    BY <1>6, <1>10, <2>1
<1>12. G[0] = <<>>
  OBVIOUS
<1>13. FlattenSeq(ss) = G[n]
  <2>1. CASE n = 0
    <3>1. ss = <<>>
      BY <2>1, EmptySeq
    <3> QED
      BY <1>5, <2>1, <3>1
  <2>2. CASE n # 0
    BY <1>5, <2>2
  <2> QED
    BY <2>1, <2>2
<1> HIDE DEF G
<1> QED
  BY <1>10, <1>11, <1>12, <1>13

\* X[i] is what is left of all, which ends with the rest, after i of the sequences.
IsLeft(ss, all, rest, X) ==
  /\ X \in [0 .. Len(ss) -> Bytes] /\ X[0] = all /\ X[Len(ss)] = rest
  /\ \A i \in 1 .. Len(ss) : X[i - 1] = ss[i] \o X[i]

\* So whoever reads on finds the sequences in their order, and then the rest.
LEMMA ReadInOrder ==
  ASSUME NEW ss \in Seq(Bytes), NEW rest \in Bytes
  PROVE  FlattenSeq(ss) \in Bytes /\ \E X : IsLeft(ss, FlattenSeq(ss) \o rest, rest, X)
<1> DEFINE n == Len(ss)
<1>0. n \in Nat /\ \A i \in 1 .. n : ss[i] \in Bytes
  OBVIOUS
<1>1. PICK G \in [0 .. n -> Bytes] :
        /\ G[0] = <<>> /\ \A i \in 1 .. n : G[i] = G[i - 1] \o ss[i]
        /\ FlattenSeq(ss) = G[n]
  BY Flattened
<1> HIDE DEF n
<1> DEFINE Left(k, r, X) ==
             /\ X \in [0 .. k -> Bytes] /\ X[0] = G[k] \o r /\ X[k] = r
             /\ \A i \in 1 .. k : X[i - 1] = ss[i] \o X[i]
           S == {k \in Nat : k <= n => \A r \in Bytes : \E X : Left(k, r, X)}
<1>2. 0 \in S
  <2>1. ASSUME NEW r \in Bytes PROVE \E X : Left(0, r, X)
    <3>1. <<>> \o r = r
      BY ConcatEmptySeq DEF Bytes
    <3>2. Left(0, r, [i \in 0 .. 0 |-> r])
      BY <1>1, <3>1
    <3> HIDE DEF Left
    <3> QED
      BY <3>2
  <2> HIDE DEF Left
  <2> QED
    BY <2>1
<1>3. ASSUME NEW k \in Nat, k \in S PROVE k + 1 \in S
  <2>1. ASSUME k + 1 <= n, NEW r \in Bytes PROVE \E X : Left(k + 1, r, X)
    <3>0. k + 1 \in 1 .. n /\ (k + 1) - 1 = k /\ k \in 0 .. n /\ k <= n
      BY <1>0, <2>1
    <3>1. ss[k + 1] \in Bytes /\ G[k] \in Bytes
      BY <1>0, <1>1, <3>0
    <3>2. ss[k + 1] \o r \in Bytes
      BY <3>1, ConcatProperties DEF Bytes
    <3>3. PICK X : Left(k, ss[k + 1] \o r, X)
      <4> HIDE DEF Left
      <4> QED
        BY <1>3, <3>0, <3>2
    <3>4. G[k] \o (ss[k + 1] \o r) = G[k + 1] \o r
      <4>1. G[k + 1] = G[k] \o ss[k + 1]
        BY <1>1, <3>0
      <4>2. (G[k] \o ss[k + 1]) \o r = G[k] \o (ss[k + 1] \o r)
        BY <3>1, BytesAssociate
      <4> QED
        BY <4>1, <4>2
    <3> DEFINE Y == [i \in 0 .. k + 1 |-> IF i = k + 1 THEN r ELSE X[i]]
    <3>5. Y \in [0 .. k + 1 -> Bytes]
      BY <3>3
    <3>6. Y[0] = G[k + 1] \o r /\ Y[k + 1] = r
      BY <3>3, <3>4
    <3>7. ASSUME NEW i \in 1 .. k + 1 PROVE Y[i - 1] = ss[i] \o Y[i]
      <4>1. CASE i = k + 1
        <5>1. Y[i - 1] = X[k] /\ Y[i] = r
          BY <4>1
        <5>2. X[k] = ss[k + 1] \o r
          BY <3>3
        <5> QED
          BY <4>1, <5>1, <5>2
      <4>2. CASE i # k + 1
        <5>1. i \in 1 .. k /\ i - 1 \in 0 .. k + 1 /\ i - 1 # k + 1
          BY <4>2
        <5>2. Y[i - 1] = X[i - 1] /\ Y[i] = X[i]
          BY <4>2, <5>1
        <5>3. X[i - 1] = ss[i] \o X[i]
          BY <3>3, <5>1
        <5> QED
          BY <5>2, <5>3
      <4> QED
        BY <4>1, <4>2
    <3>8. Left(k + 1, r, Y)
      BY <3>5, <3>6, <3>7
    <3> HIDE DEF Left, Y
    <3> QED
      BY <3>8
  <2> HIDE DEF Left
  <2> QED
    BY <2>1
<1>4. n \in S
  <2> HIDE DEF S
  <2> QED
    BY <1>0, <1>2, <1>3, AllNumbers
<1>5. PICK X : Left(n, rest, X)
  <2> HIDE DEF Left
  <2> QED
    BY <1>0, <1>4
<1>6. FlattenSeq(ss) \in Bytes /\ X[0] = FlattenSeq(ss) \o rest /\ X[n] = rest
  BY <1>0, <1>1, <1>5
<1>7. FlattenSeq(ss) \in Bytes /\ IsLeft(ss, FlattenSeq(ss) \o rest, rest, X)
  BY <1>5, <1>6 DEF IsLeft, n
<1> QED
  BY <1>7

-----------------------------------------------------------------------------
(* One field. *)

\* What lies between two sequences is found by their lengths.
Joined(all, p, s, t) == all = p \o (s \o t)

LEMMA CutOut ==
  ASSUME NEW p \in Bytes, NEW s \in Bytes, NEW t \in Bytes, NEW all, Joined(all, p, s, t),
         NEW a \in Nat, a = Len(p), NEW b \in Nat, b = a + Len(s)
  PROVE  /\ all \in Bytes /\ Len(all) = b + Len(t)
         /\ SubSeq(all, a + 1, b) = s /\ SubSeq(all, b + 1, Len(all)) = t
<1> DEFINE u == s \o t
           B == 0 .. Byte - 1
<1>0. all = p \o u
  BY DEF Joined
<1>1. Len(p) \in Nat /\ Len(s) \in Nat /\ Len(t) \in Nat
  BY LenProperties DEF Bytes
<1>2. /\ u \in Seq(B) /\ Len(u) = Len(s) + Len(t)
      /\ \A i \in 1 .. Len(s) + Len(t) : u[i] = IF i <= Len(s) THEN s[i] ELSE t[i - Len(s)]
  BY ConcatProperties DEF Bytes
<1>3. /\ all \in Seq(B) /\ Len(all) = Len(p) + Len(s) + Len(t)
      /\ \A i \in 1 .. Len(p) + Len(u) : all[i] = IF i <= Len(p) THEN p[i] ELSE u[i - Len(p)]
  <2> HIDE DEF u
  <2>1. all \in Seq(B) /\ Len(all) = Len(p) + Len(u)
    BY <1>0, <1>2, ConcatProperties DEF Bytes
  <2>2. \A i \in 1 .. Len(p) + Len(u) : all[i] = IF i <= Len(p) THEN p[i] ELSE u[i - Len(p)]
    BY <1>0, <1>2, ConcatProperties DEF Bytes
  <2> QED
    BY <1>1, <1>2, <2>1, <2>2
<1> HIDE DEF u
<1>4. ASSUME NEW i \in Nat \ {0}, i <= Len(s) + Len(t)
      PROVE  all[Len(p) + i] = IF i <= Len(s) THEN s[i] ELSE t[i - Len(s)]
  <2>1. /\ Len(p) + i \in 1 .. Len(p) + Len(u) /\ ~(Len(p) + i <= Len(p))
        /\ (Len(p) + i) - Len(p) = i /\ i \in 1 .. Len(s) + Len(t)
    BY <1>1, <1>2, <1>4
  <2>2. all[Len(p) + i] = u[i]
    BY <1>3, <2>1
  <2> QED
    BY <1>2, <2>1, <2>2
<1>5. ASSUME NEW m \in Int, NEW n \in Int, m > 0, n <= Len(all)
      PROVE  /\ SubSeq(all, m, n) \in Seq(B)
             /\ Len(SubSeq(all, m, n)) = IF m <= n THEN n - m + 1 ELSE 0
             /\ \A i \in 1 .. n - m + 1 : SubSeq(all, m, n)[i] = all[m + i - 1]
  <2>1. \A i \in m .. n : all[i] \in B
    <3> SUFFICES ASSUME NEW i \in m .. n PROVE all[i] \in B
      OBVIOUS
    <3>1. i \in 1 .. Len(all)
      BY <1>1, <1>3, <1>5
    <3> HIDE DEF B
    <3> QED
      BY <1>3, <3>1, ElementOfSeq
  <2> HIDE DEF B
  <2> QED
    BY <2>1, SubSeqProperties
<1>6. SubSeq(all, Len(p) + 1, Len(p) + Len(s)) = s
  <2> DEFINE x == SubSeq(all, Len(p) + 1, Len(p) + Len(s))
  <2>1. x \in Seq(B) /\ Len(x) = Len(s)
    <3>1. /\ Len(p) + 1 \in Int /\ Len(p) + Len(s) \in Int /\ Len(p) + 1 > 0
          /\ Len(p) + Len(s) <= Len(all)
          /\ (Len(p) + Len(s)) - (Len(p) + 1) + 1 = Len(s)
          /\ ~(Len(p) + 1 <= Len(p) + Len(s)) => Len(s) = 0
      BY <1>1, <1>3
    <3> QED
      BY <3>1, <1>5
  <2>2. ASSUME NEW i \in 1 .. Len(s) PROVE x[i] = s[i]
    <3>1. x[i] = all[(Len(p) + 1) + i - 1]
      BY <1>1, <1>3, <1>5
    <3>2. (Len(p) + 1) + i - 1 = Len(p) + i
      BY <1>1
    <3> HIDE DEF x
    <3> QED
      BY <3>1, <3>2, <1>1, <1>4
  <2> HIDE DEF x
  <2>3. s \in Seq(B)
    BY DEF Bytes
  <2> HIDE DEF B
  <2>4. x = s
    BY <2>1, <2>2, <2>3, SeqEqual
  <2> QED
    BY <2>4 DEF x
<1>7. SubSeq(all, Len(p) + Len(s) + 1, Len(all)) = t
  <2> DEFINE x == SubSeq(all, Len(p) + Len(s) + 1, Len(all))
  <2>0. PICK k \in Int : k = Len(p) + Len(s) + 1
    BY <1>1
  <2>5. PICK l \in Int : l = Len(all)
    BY <1>1, <1>3
  <2>6. k > 0 /\ l <= Len(all) /\ l - k + 1 = Len(t) /\ (~(k <= l) => Len(t) = 0)
    BY <1>1, <1>3, <2>0, <2>5
  <2>7. x = SubSeq(all, k, l)
    BY <2>0, <2>5
  <2>1. x \in Seq(B) /\ Len(x) = Len(t) /\ \A i \in 1 .. Len(t) : x[i] = all[k + i - 1]
    <3> HIDE DEF x, B
    <3>1. /\ SubSeq(all, k, l) \in Seq(B)
          /\ Len(SubSeq(all, k, l)) = IF k <= l THEN l - k + 1 ELSE 0
          /\ \A i \in 1 .. l - k + 1 : SubSeq(all, k, l)[i] = all[k + i - 1]
      BY <1>5, <2>6
    <3> QED
      BY <2>6, <2>7, <3>1
  <2>2. ASSUME NEW i \in 1 .. Len(t) PROVE x[i] = t[i]
    <3>1. x[i] = all[Len(p) + (Len(s) + i)]
      <4>1. k + i - 1 = Len(p) + (Len(s) + i)
        BY <1>1, <2>0
      <4> HIDE DEF x
      <4> QED
        BY <2>1, <4>1
    <3>2. all[Len(p) + (Len(s) + i)] = t[i]
      <4>1. Len(s) + i \in Nat \ {0} /\ Len(s) + i <= Len(s) + Len(t) /\ ~(Len(s) + i <= Len(s))
             /\ (Len(s) + i) - Len(s) = i
        BY <1>1
      <4> QED
        BY <1>4, <4>1
    <3> QED
      BY <3>1, <3>2
  <2> HIDE DEF x
  <2>3. t \in Seq(B)
    BY DEF Bytes
  <2> HIDE DEF B
  <2>4. x = t
    BY <2>1, <2>2, <2>3, SeqEqual
  <2> QED
    BY <2>4 DEF x
<1> QED
  BY <1>1, <1>3, <1>6, <1>7 DEF Bytes

LEMMA CutFront ==
  ASSUME NEW s \in Bytes, NEW t \in Bytes
  PROVE  /\ s \o t \in Bytes /\ Len(s \o t) = Len(s) + Len(t)
         /\ Cut(s \o t, Len(s)) = s
         /\ SubSeq(s \o t, Len(s) + 1, Len(s \o t)) = t
<1>1. PICK none : none = <<>>
  OBVIOUS
<1>2. Len(s) \in Nat /\ Len(t) \in Nat
  BY LenProperties DEF Bytes
<1>3. /\ s \o t \in Bytes /\ Len(s \o t) = Len(s) + Len(t)
      /\ SubSeq(s \o t, 1, Len(s)) = s
      /\ SubSeq(s \o t, Len(s) + 1, Len(s \o t)) = t
  <2>1. PICK all : all = s \o t
    OBVIOUS
  <2>2. none \in Bytes /\ Len(none) = 0
    BY <1>1 DEF Bytes
  <2>3. Joined(all, none, s, t)
    <3>1. s \o t \in Bytes
      BY ConcatProperties DEF Bytes
    <3> QED
      BY <1>1, <2>1, <3>1, ConcatEmptySeq DEF Bytes, Joined
  <2>4. PICK a \in Nat : a = 0
    OBVIOUS
  <2>5. PICK b \in Nat : b = Len(s)
    BY <1>2
  <2>6. a = Len(none) /\ b = a + Len(s)
    BY <1>2, <2>2, <2>4, <2>5
  <2>7. /\ all \in Bytes /\ Len(all) = b + Len(t)
        /\ SubSeq(all, a + 1, b) = s /\ SubSeq(all, b + 1, Len(all)) = t
    BY <2>2, <2>3, <2>6, CutOut
  <2>8. a + 1 = 1
    BY <2>4
  <2> QED
    BY <2>1, <2>5, <2>7, <2>8
<1>4. Cut(s \o t, Len(s)) = SubSeq(s \o t, 1, Len(s))
  <2>1. ~(Len(s \o t) < Len(s))
    <3>1. Len(s \o t) = Len(s) + Len(t)
      BY <1>2, <1>3
    <3> QED
      BY <1>2, <3>1
  <2> QED
    BY <2>1 DEF Cut
<1> QED
  BY <1>2, <1>3, <1>4

\* The bytes of a number are as many as its width.
LEMMA NumberIsBytes ==
  ASSUME NEW w \in 0 .. 8, NEW v \in Int
  PROVE  LittleEndian(w, v) \in Bytes /\ Len(LittleEndian(w, v)) = w
<1>0. w \in Nat
  OBVIOUS
<1>1. LittleEndian(w, v) \in [1 .. w -> 0 .. Byte - 1]
  BY BytesReadBack
<1> DEFINE B == 0 .. Byte - 1
<1> HIDE DEF B
<1>2. ASSUME NEW s \in [1 .. w -> B] PROVE s \in Seq(B) /\ Len(s) = w
  BY <1>0
<1> QED
  BY <1>1, <1>2 DEF Bytes, B

\* A number that w bytes can hold is read back as it was.
LEMMA NumberReadsBack ==
  ASSUME NEW w \in 0 .. 8, NEW v \in Int, 0 <= v, v < Values[w]
  PROVE  Unsigned(LittleEndian(w, v)) = v
<1>1. Values[w] \in Nat \ {0}
  BY ValuesArePositive
<1>2. v \div Values[w] = 0
  BY <1>1
<1>3. Unsigned(LittleEndian(w, v)) = v - Values[w] * (v \div Values[w])
  BY BytesReadBack
<1>4. v - Values[w] * 0 = v
  BY <1>1
<1> QED
  BY <1>2, <1>3, <1>4

LEMMA SignedReadsBack ==
  ASSUME NEW f \in {"i16", "i32"}, NEW v, InField(f, v)
  PROVE  v \in Int /\ Signed(f, Unsigned(LittleEndian(Width[f], v))) = v
<1> DEFINE w == Width[f]
           n == Values[w]
<1>1. w \in 0 .. 8
  BY DEF Width
<1>2. n \in Nat \ {0}
  BY <1>1, ValuesArePositive
<1>3. n \div 2 \in Nat /\ 2 * (n \div 2) <= n
  BY <1>2
<1>4. v \in -(n \div 2) .. (n \div 2) - 1
  BY DEF InField
<1>5. Unsigned(LittleEndian(w, v)) = v - n * (v \div n)
  <2>1. v \in Int
    <3> HIDE DEF n
    <3> QED
      BY <1>3, <1>4
  <2> HIDE DEF w
  <2> QED
    BY <1>1, <2>1, BytesReadBack
<1>6. Signed(f, v - n * (v \div n)) =
        IF 2 * (v - n * (v \div n)) >= n THEN (v - n * (v \div n)) - n ELSE v - n * (v \div n)
  BY DEF Signed
<1> HIDE DEF n, w
<1>7. CASE v >= 0
  <2>1. v \div n = 0
    BY <1>2, <1>3, <1>4, <1>7
  <2>2. v - n * (v \div n) = v /\ ~(2 * v >= n)
    BY <1>2, <1>3, <1>4, <2>1
  <2> QED
    BY <1>4, <1>5, <1>6, <2>2 DEF w
<1>8. CASE v < 0
  <2>1. v \div n = -1
    BY <1>2, <1>3, <1>4, <1>8
  <2>2. v - n * (v \div n) = v + n /\ 2 * (v + n) >= n /\ (v + n) - n = v
    BY <1>2, <1>3, <1>4, <2>1
  <2> QED
    BY <1>4, <1>5, <1>6, <2>2 DEF w
<1> QED
  BY <1>4, <1>7, <1>8

PlainField == {"u8", "u16", "i16", "u32", "i32", "u64", "bool", "str", "bytes"}

\* A decoder without an error.
Reading(left, got) == [left |-> left, got |-> got, err |-> FALSE]

LEMMA ReadingParts ==
  ASSUME NEW left, NEW got
  PROVE  /\ Reading(left, got).left = left /\ Reading(left, got).got = got
         /\ Reading(left, got).err = FALSE
         /\ Decoder(left) = Reading(left, <<>>)
BY DEF Reading, Decoder

LEMMA NeedOfReading ==
  ASSUME NEW left, NEW got, NEW n
  PROVE  Need(Reading(left, got), n) <=> n <= Len(left)
BY DEF Reading, Need

LEMMA GotOfReading ==
  ASSUME NEW left, NEW got, NEW n \in Nat, NEW v
  PROVE  Got(Reading(left, got), n, v) =
           Reading(SubSeq(left, n + 1, Len(left)), Append(got, v))
BY DEF Reading, Got

LEMMA GotReplaced ==
  ASSUME NEW left, NEW got, NEW x
  PROVE  [Reading(left, got) EXCEPT !.got = x] = Reading(left, x)
<1> DEFINE no == FALSE
<1> HIDE DEF no
<1>1. [[left |-> left, got |-> got, err |-> no] EXCEPT !.got = x] =
        [left |-> left, got |-> x, err |-> no]
  OBVIOUS
<1> QED
  BY <1>1 DEF Reading, no

\* Behind the number of its bytes, a sequence is read back as it was.
LEMMA CountedReadsBack ==
  ASSUME NEW w \in 0 .. 8, NEW s \in Bytes, NEW limit \in Nat,
         Len(s) < Values[w], Len(s) <= limit, NEW rest \in Bytes, NEW got
  PROVE  TakeCounted(Reading(LittleEndian(w, Len(s)) \o (s \o rest), got), w, limit) =
           Reading(rest, Append(got, s))
<1> DEFINE p == LittleEndian(w, Len(s))
           all == p \o (s \o rest)
           d == Reading(all, got)
<1>1. Len(s) \in Nat /\ Len(rest) \in Nat
  BY LenProperties DEF Bytes
<1>2. p \in Bytes /\ Len(p) = w
  <2>1. Len(s) \in Int
    BY <1>1
  <2> QED
    BY <2>1, NumberIsBytes
<1>3. Unsigned(p) = Len(s)
  BY <1>1, NumberReadsBack
<1> HIDE DEF p
<1>4. /\ all \in Bytes /\ Len(all) = w + Len(s) + Len(rest)
      /\ SubSeq(all, w + 1, w + Len(s)) = s
      /\ SubSeq(all, w + Len(s) + 1, Len(all)) = rest
  <2>1. Joined(all, p, s, rest)
    BY DEF Joined
  <2> HIDE DEF all
  <2>2. PICK b \in Nat : b = w + Len(s)
    BY <1>1
  <2>3. w \in Nat /\ w = Len(p)
    BY <1>2
  <2>4. /\ all \in Bytes /\ Len(all) = b + Len(rest)
        /\ SubSeq(all, w + 1, b) = s /\ SubSeq(all, b + 1, Len(all)) = rest
    BY <1>2, <2>1, <2>2, <2>3, CutOut
  <2> QED
    BY <2>2, <2>4
<1>5. Cut(all, w) = p
  <2>1. s \o rest \in Bytes
    BY CutFront
  <2> QED
    BY <1>2, <2>1, CutFront
<1>6. /\ Need(d, w) /\ Need(d, w + Len(s)) /\ d.left = all
      /\ Got(d, w + Len(s), s) = Reading(rest, Append(got, s))
  <2>1. w <= Len(all) /\ w + Len(s) <= Len(all)
    BY <1>1, <1>4
  <2> HIDE DEF all
  <2>2. Need(d, w) /\ Need(d, w + Len(s)) /\ d.left = all
    BY <2>1, NeedOfReading, ReadingParts
  <2>3. Got(d, w + Len(s), s) =
          Reading(SubSeq(all, (w + Len(s)) + 1, Len(all)), Append(got, s))
    <3>1. w + Len(s) \in Nat
      BY <1>1
    <3> QED
      BY <3>1, GotOfReading
  <2> QED
    BY <1>4, <2>2, <2>3
<1> HIDE DEF all, d
<1>7. TakeCounted(d, w, limit) = Reading(rest, Append(got, s))
  BY <1>3, <1>4, <1>5, <1>6 DEF TakeCounted
<1> QED
  BY <1>7 DEF d, all, p

\* A string is cut to what its length can say.
LEMMA CutString ==
  ASSUME NEW v \in Bytes
  PROVE  /\ CutStr(v) \in Bytes /\ Len(CutStr(v)) = IF Len(v) < MaxStr THEN Len(v) ELSE MaxStr
         /\ MaxStr \in Nat /\ Len(CutStr(v)) <= MaxStr /\ MaxStr < Values[2]
         /\ Len(v) <= MaxStr => CutStr(v) = v
<1>1. Values[2] \in Nat \ {0}
  BY ValuesArePositive
<1>2. MaxStr \in Nat /\ MaxStr < Values[2]
  BY <1>1 DEF MaxStr
<1>3. Len(v) \in Nat
  BY LenProperties DEF Bytes
<1> DEFINE n == IF Len(v) < MaxStr THEN Len(v) ELSE MaxStr
           B == 0 .. Byte - 1
<1>4. n \in 0 .. Len(v)
  BY <1>2, <1>3
<1>5. \A i \in 1 .. n : v[i] \in B
  <2> SUFFICES ASSUME NEW i \in 1 .. n PROVE v[i] \in B
    OBVIOUS
  <2>1. i \in 1 .. Len(v)
    BY <1>3, <1>4
  <2> HIDE DEF B
  <2>2. v \in Seq(B)
    BY DEF Bytes, B
  <2> QED
    BY <2>1, <2>2, ElementOfSeq
<1>6. SubSeq(v, 1, n) \in Seq(B) /\ Len(SubSeq(v, 1, n)) = IF 1 <= n THEN n - 1 + 1 ELSE 0
  <2> HIDE DEF B, n
  <2> QED
    BY <1>4, <1>5, SubSeqProperties
<1>7. CutStr(v) = SubSeq(v, 1, n)
  BY DEF CutStr, Cut
<1>8. Len(CutStr(v)) = n /\ CutStr(v) \in Bytes
  <2> HIDE DEF n
  <2> QED
    BY <1>3, <1>4, <1>6, <1>7 DEF Bytes
<1>9. Len(v) <= MaxStr => CutStr(v) = v
  <2>1. SubSeq(v, 1, Len(v)) = v
    BY SubSeqFull DEF Bytes
  <2>2. Len(v) <= MaxStr => n = Len(v)
    BY <1>2, <1>3
  <2> QED
    BY <1>7, <2>1, <2>2
<1> QED
  BY <1>2, <1>3, <1>8, <1>9

\* A field that is not a list of monitors is so many bytes.
LEMMA PlainIsBytes ==
  ASSUME NEW f \in PlainField, NEW v, InField(f, v)
  PROVE  /\ PutPlain(f, v) \in Bytes
         /\ Len(PutPlain(f, v)) = CASE f = "str"   -> 2 + Len(CutStr(v))
                                    [] f = "bytes" -> 4 + Len(v)
                                    [] f = "bool"  -> 1
                                    [] OTHER       -> Width[f]
<1>1. CASE f = "str"
  <2>1. v \in Bytes
    BY <1>1 DEF InField, Bytes
  <2>2. CutStr(v) \in Bytes /\ Len(CutStr(v)) \in Nat
    BY <2>1, CutString, LenProperties DEF Bytes
  <2>3. LittleEndian(2, Len(CutStr(v))) \in Bytes /\ Len(LittleEndian(2, Len(CutStr(v)))) = 2
    BY <2>2, NumberIsBytes
  <2>4. PutPlain(f, v) = LittleEndian(2, Len(CutStr(v))) \o CutStr(v)
    BY <1>1 DEF PutPlain
  <2> QED
    BY <1>1, <2>2, <2>3, <2>4, CutFront
<1>2. CASE f = "bytes"
  <2>1. v \in Bytes
    BY <1>2 DEF InField, Bytes
  <2>2. Len(v) \in Nat
    BY <2>1, LenProperties DEF Bytes
  <2>3. LittleEndian(4, Len(v)) \in Bytes /\ Len(LittleEndian(4, Len(v))) = 4
    BY <2>2, NumberIsBytes
  <2>4. PutPlain(f, v) = LittleEndian(4, Len(v)) \o v
    BY <1>2 DEF PutPlain
  <2> QED
    BY <1>2, <2>1, <2>3, <2>4, CutFront
<1>3. CASE f = "bool"
  <2>1. Byte - 1 >= 1
    BY CodecAssumption
  <2>2. PutPlain(f, v) = <<IF v THEN 1 ELSE 0>>
    BY <1>3 DEF PutPlain
  <2>3. (IF v THEN 1 ELSE 0) \in 0 .. Byte - 1
    BY <2>1, CodecAssumption
  <2>4. \A x \in 0 .. Byte - 1 : <<x>> \in Bytes /\ Len(<<x>>) = 1
    BY DEF Bytes
  <2> QED
    BY <1>3, <2>2, <2>3, <2>4
<1>4. CASE f \notin {"str", "bytes", "bool"}
  <2>1. Width[f] \in 0 .. 8
    BY <1>4 DEF PlainField, Width
  <2>2. v \in Int
    <3>1. CASE f \in {"i16", "i32"}
      BY <3>1, SignedReadsBack
    <3>2. CASE f \notin {"i16", "i32"}
      <4>1. v \in 0 .. Values[Width[f]] - 1
        BY <1>4, <3>2 DEF InField
      <4>2. Values[Width[f]] \in Int
        BY <2>1, ValuesArePositive
      <4> QED
        BY <4>1, <4>2
    <3> QED
      BY <3>1, <3>2
  <2>3. PutPlain(f, v) = LittleEndian(Width[f], v)
    BY <1>4 DEF PutPlain
  <2> QED
    BY <1>4, <2>1, <2>2, <2>3, NumberIsBytes
<1> QED
  BY <1>1, <1>2, <1>3, <1>4

\* It is read back as it was, a string as it was cut.
LEMMA PlainReadsBack ==
  ASSUME NEW f \in PlainField, NEW v, InField(f, v), f = "bytes" => Len(v) <= MaxFrameSize,
         NEW rest \in Bytes, NEW got
  PROVE  TakePlain(Reading(PutPlain(f, v) \o rest, got), f) =
           Reading(rest, Append(got, Carried(f, v)))
<1>1. CASE f = "str"
  <2> DEFINE s == CutStr(v)
  <2>1. v \in Bytes
    BY <1>1 DEF InField, Bytes
  <2>2. s \in Bytes /\ Len(s) \in Nat /\ Len(s) <= MaxStr /\ MaxStr < Values[2] /\ MaxStr \in Nat
    BY <2>1, CutString, LenProperties DEF Bytes
  <2>3. LittleEndian(2, Len(s)) \in Bytes
    BY <2>2, NumberIsBytes
  <2>4. PutPlain(f, v) \o rest = LittleEndian(2, Len(s)) \o (s \o rest)
    BY <1>1, <2>2, <2>3, BytesAssociate DEF PutPlain
  <2>5. Len(s) < Values[2]
    <3>1. Values[2] \in Nat
      BY ValuesArePositive
    <3> QED
      BY <2>2, <3>1
  <2>6. TakeCounted(Reading(LittleEndian(2, Len(s)) \o (s \o rest), got), 2, MaxStr) =
          Reading(rest, Append(got, s))
    <3> HIDE DEF s
    <3> QED
      BY <2>2, <2>5, CountedReadsBack
  <2>7. Carried(f, v) = s
    BY <1>1 DEF Carried, CutStr
  <2> HIDE DEF s
  <2> QED
    BY <1>1, <2>4, <2>6, <2>7 DEF TakePlain
<1>2. CASE f = "bytes"
  <2>1. v \in Bytes
    BY <1>2 DEF InField, Bytes
  <2>2. Len(v) \in Nat /\ Len(v) <= MaxFrameSize /\ MaxFrameSize \in Nat
    BY <1>2, <2>1, LenProperties, CodecAssumption DEF Bytes
  <2>3. LittleEndian(4, Len(v)) \in Bytes
    BY <2>2, NumberIsBytes
  <2>4. PutPlain(f, v) \o rest = LittleEndian(4, Len(v)) \o (v \o rest)
    BY <1>2, <2>1, <2>3, BytesAssociate DEF PutPlain
  <2>5. Len(v) < Values[4]
    <3>1. Values[4] \in Nat
      BY ValuesArePositive
    <3> QED
      BY <2>2, <3>1, CodecAssumption
  <2>6. TakeCounted(Reading(LittleEndian(4, Len(v)) \o (v \o rest), got), 4, MaxFrameSize) =
          Reading(rest, Append(got, v))
    BY <2>1, <2>2, <2>5, CountedReadsBack
  <2>7. Carried(f, v) = v
    BY <1>2 DEF Carried
  <2> QED
    BY <1>2, <2>4, <2>6, <2>7 DEF TakePlain
<1>3. CASE f = "bool"
  <2> DEFINE b == <<IF v THEN 1 ELSE 0>>
             d == Reading(b \o rest, got)
  <2>1. PutPlain(f, v) = b
    BY <1>3 DEF PutPlain
  <2>2. b \in Bytes /\ Len(b) = 1
    <3>1. PutPlain(f, v) \in Bytes /\ Len(PutPlain(f, v)) = 1
      BY <1>3, PlainIsBytes
    <3> QED
      BY <2>1, <3>1
  <2>3. b[1] = IF v THEN 1 ELSE 0
    OBVIOUS
  <2> HIDE DEF b
  <2>4. /\ b \o rest \in Bytes /\ Len(b \o rest) = 1 + Len(rest)
        /\ SubSeq(b \o rest, 1 + 1, Len(b \o rest)) = rest
    BY <2>2, CutFront
  <2>5. Len(rest) \in Nat
    BY LenProperties DEF Bytes
  <2>6. (b \o rest)[1] = b[1]
    BY <2>2, <2>5, ConcatProperties DEF Bytes
  <2>7. v \in BOOLEAN
    BY <1>3 DEF InField
  <2>8. ((b \o rest)[1] # 0) = v
    BY <2>3, <2>6, <2>7
  <2>9. Need(d, 1) /\ d.left = b \o rest /\ Got(d, 1, v) = Reading(rest, Append(got, v))
    <3>1. 1 <= Len(b \o rest)
      BY <2>4, <2>5
    <3> DEFINE all == b \o rest
    <3> HIDE DEF all
    <3>2. Need(d, 1) /\ d.left = all
      BY <3>1, ReadingParts, NeedOfReading DEF all
    <3>3. Got(Reading(all, got), 1, v) =
            Reading(SubSeq(all, 1 + 1, Len(all)), Append(got, v))
      BY GotOfReading
    <3> USE DEF all
    <3> QED
      BY <2>4, <3>2, <3>3
  <2>10. TakePlain(d, f) = IF Need(d, 1) THEN Got(d, 1, d.left[1] # 0) ELSE Fail(d)
    BY <1>3 DEF TakePlain
  <2>11. Carried(f, v) = v
    BY <1>3 DEF Carried
  <2> HIDE DEF d
  <2>12. TakePlain(d, f) = Reading(rest, Append(got, v))
    BY <2>8, <2>9, <2>10
  <2> QED
    BY <2>1, <2>11, <2>12 DEF d
<1>4. CASE f \notin {"str", "bytes", "bool"}
  <2> DEFINE w == Width[f]
             b == LittleEndian(w, v)
             d == Reading(b \o rest, got)
  <2>1. w \in 0 .. 8
    BY <1>4 DEF PlainField, Width
  <2>2. PutPlain(f, v) = b
    BY <1>4 DEF PutPlain
  <2>3. b \in Bytes /\ Len(b) = w
    <3>1. PutPlain(f, v) \in Bytes /\ Len(PutPlain(f, v)) = w
      BY <1>4, PlainIsBytes
    <3> QED
      BY <2>2, <3>1
  <2>4. Signed(f, Unsigned(b)) = v
    <3>1. CASE f \in {"i16", "i32"}
      BY <3>1, SignedReadsBack
    <3>2. CASE f \notin {"i16", "i32"}
      <4>1. v \in 0 .. Values[w] - 1
        BY <1>4, <3>2 DEF InField
      <4>2. Values[w] \in Nat
        BY <2>1, ValuesArePositive
      <4> HIDE DEF w
      <4>3. v \in Int /\ 0 <= v /\ v < Values[w]
        BY <4>1, <4>2
      <4>4. Unsigned(b) = v
        BY <2>1, <4>3, NumberReadsBack
      <4> QED
        BY <3>2, <4>4 DEF Signed
    <3> QED
      BY <3>1, <3>2
  <2>5. TakePlain(d, f) = IF Need(d, w) THEN Got(d, w, Signed(f, Unsigned(Cut(d.left, w))))
                          ELSE Fail(d)
    BY <1>4 DEF TakePlain, PlainField
  <2> HIDE DEF w, b
  <2>6. /\ b \o rest \in Bytes /\ Len(b \o rest) = w + Len(rest) /\ Cut(b \o rest, w) = b
        /\ SubSeq(b \o rest, w + 1, Len(b \o rest)) = rest
    BY <2>3, CutFront
  <2>7. Len(rest) \in Nat
    BY LenProperties DEF Bytes
  <2>8. Need(d, w) /\ d.left = b \o rest /\ Got(d, w, v) = Reading(rest, Append(got, v))
    <3>1. w <= Len(b \o rest)
      BY <2>1, <2>6, <2>7
    <3> DEFINE all == b \o rest
    <3> HIDE DEF all
    <3>2. Need(d, w) /\ d.left = all
      BY <3>1, ReadingParts, NeedOfReading DEF all
    <3>3. Got(Reading(all, got), w, v) =
            Reading(SubSeq(all, w + 1, Len(all)), Append(got, v))
      BY <2>1, GotOfReading
    <3> USE DEF all
    <3> QED
      BY <2>6, <3>2, <3>3
  <2> HIDE DEF d
  <2>9. TakePlain(d, f) = Reading(rest, Append(got, v))
    BY <2>4, <2>5, <2>6, <2>8
  <2>10. Carried(f, v) = v
    BY <1>4 DEF Carried, PlainField
  <2> QED
    BY <2>2, <2>9, <2>10 DEF d
<1> QED
  BY <1>1, <1>2, <1>3, <1>4

-----------------------------------------------------------------------------
(* Folds of decoder steps. *)

\* The steps that are folded: a field of a monitor, a field of a message, and a
\* monitor.
Step(kind, d, x) ==
  CASE kind = "plain"   -> TakePlain(d, x)
    [] kind = "field"   -> Take(d, x)
    [] kind = "monitor" -> TakeMonitor(d)

\* FoldLeft's function of the positions that are folded.
IsFold(kind, d, fs, n, iter) ==
  iter = [T \in SUBSET (1 .. n) |->
            IF T = {} THEN d
            ELSE Step(kind, iter[T \ {Max(T)}], fs[Max(T)])]

LEMMA MaxOfPositions ==
  ASSUME NEW k \in Nat, NEW T \in SUBSET (1 .. k), k \in T
  PROVE  Max(T) = k
<1>1. k \in T /\ \A y \in T : k >= y
  OBVIOUS
<1>2. Max(T) \in T /\ \A y \in T : Max(T) >= y
  BY <1>1 DEF Max
<1>3. Max(T) \in 1 .. k /\ Max(T) >= k
  BY <1>1, <1>2
<1> QED
  BY <1>3

LEMMA FoldExists ==
  ASSUME NEW kind, NEW d, NEW fs, NEW n \in Nat
  PROVE  \E iter : IsFold(kind, d, fs, n, iter)
<1> DEFINE S == {k \in Nat : \E iter : IsFold(kind, d, fs, k, iter)}
<1>1. 0 \in S
  <2>1. SUBSET (1 .. 0) = {{}}
    OBVIOUS
  <2>2. IsFold(kind, d, fs, 0, [T \in SUBSET (1 .. 0) |-> d])
    BY <2>1 DEF IsFold
  <2> QED
    BY <2>2
<1>2. ASSUME NEW k \in Nat, k \in S PROVE k + 1 \in S
  <2>1. PICK g : IsFold(kind, d, fs, k, g)
    BY <1>2
  <2> DEFINE h == [T \in SUBSET (1 .. k + 1) |->
                     IF k + 1 \in T THEN Step(kind, g[T \ {k + 1}], fs[k + 1]) ELSE g[T]]
  <2>2. ASSUME NEW T \in SUBSET (1 .. k + 1)
        PROVE  h[T] = IF T = {} THEN d ELSE Step(kind, h[T \ {Max(T)}], fs[Max(T)])
    <3>1. CASE k + 1 \in T
      <4>1. Max(T) = k + 1
        BY <3>1, MaxOfPositions
      <4>2. T \ {k + 1} \in SUBSET (1 .. k + 1) /\ k + 1 \notin T \ {k + 1}
        OBVIOUS
      <4>3. h[T \ {k + 1}] = g[T \ {k + 1}]
        BY <4>2
      <4>4. h[T] = Step(kind, g[T \ {k + 1}], fs[k + 1])
        BY <3>1
      <4> QED
        BY <3>1, <4>1, <4>3, <4>4
    <3>2. CASE k + 1 \notin T
      <4>1. T \in SUBSET (1 .. k)
        BY <3>2
      <4>2. h[T] = g[T]
        BY <3>2
      <4>3. g[T] = IF T = {} THEN d ELSE Step(kind, g[T \ {Max(T)}], fs[Max(T)])
        BY <2>1, <4>1 DEF IsFold
      <4>4. h[T \ {Max(T)}] = g[T \ {Max(T)}]
        <5>1. T \ {Max(T)} \in SUBSET (1 .. k + 1) /\ k + 1 \notin T \ {Max(T)}
          BY <3>2
        <5> QED
          BY <5>1
      <4> QED
        BY <4>2, <4>3, <4>4
    <3> QED
      BY <3>1, <3>2
  <2>3. IsFold(kind, d, fs, k + 1, h)
    <3> DEFINE r(T) == IF T = {} THEN d ELSE Step(kind, h[T \ {Max(T)}], fs[Max(T)])
    <3>1. h = [T \in SUBSET (1 .. k + 1) |-> h[T]]
      OBVIOUS
    <3> HIDE DEF h
    <3>2. [T \in SUBSET (1 .. k + 1) |-> h[T]] = [T \in SUBSET (1 .. k + 1) |-> r(T)]
      BY <2>2
    <3> QED
      BY <3>1, <3>2 DEF IsFold
  <2> HIDE DEF h
  <2> QED
    BY <2>3
<1> HIDE DEF S
<1>3. n \in S
  BY <1>1, <1>2, AllNumbers
<1> QED
  BY <1>3 DEF S

\* One more position is one more step.
LEMMA FoldSteps ==
  ASSUME NEW kind, NEW d, NEW fs, NEW n \in Nat, NEW iter, IsFold(kind, d, fs, n, iter)
  PROVE  /\ iter[{}] = d
         /\ \A k \in 1 .. n : iter[1 .. k] = Step(kind, iter[1 .. k - 1], fs[k])
<1>1. 1 .. 0 = {} /\ {} \in SUBSET (1 .. n)
  OBVIOUS
<1>2. iter[{}] = d
  BY <1>1 DEF IsFold
<1>3. ASSUME NEW k \in 1 .. n PROVE iter[1 .. k] = Step(kind, iter[1 .. k - 1], fs[k])
  <2>1. k \in Nat /\ k \in 1 .. k /\ 1 .. k \in SUBSET (1 .. n) /\ 1 .. k # {}
    OBVIOUS
  <2>2. Max(1 .. k) = k
    BY <2>1, MaxOfPositions
  <2>3. (1 .. k) \ {k} = 1 .. k - 1
    OBVIOUS
  <2>4. iter[1 .. k] = Step(kind, iter[(1 .. k) \ {Max(1 .. k)}], fs[Max(1 .. k)])
    BY <2>1 DEF IsFold
  <2> QED
    BY <2>2, <2>3, <2>4
<1> QED
  BY <1>2, <1>3

\* A prefix grows by the next element.
LEMMA PrefixGrows ==
  ASSUME NEW S, NEW s \in Seq(S), NEW i \in 0 .. Len(s) - 1
  PROVE  Append(SubSeq(s, 1, i), s[i + 1]) = SubSeq(s, 1, i + 1)
<1>0. Len(s) \in Nat /\ i + 1 \in 1 .. Len(s)
  BY LenProperties
<1>1. ASSUME NEW n \in 0 .. Len(s)
      PROVE  /\ SubSeq(s, 1, n) \in Seq(S) /\ Len(SubSeq(s, 1, n)) = n
             /\ \A j \in 1 .. n : SubSeq(s, 1, n)[j] = s[j]
  <2>1. \A j \in 1 .. n : s[j] \in S
    <3> SUFFICES ASSUME NEW j \in 1 .. n PROVE s[j] \in S
      OBVIOUS
    <3>1. j \in 1 .. Len(s)
      BY <1>0
    <3> QED
      BY <3>1, ElementOfSeq
  <2>2. /\ SubSeq(s, 1, n) \in Seq(S)
        /\ Len(SubSeq(s, 1, n)) = IF 1 <= n THEN n - 1 + 1 ELSE 0
        /\ \A j \in 1 .. n - 1 + 1 : SubSeq(s, 1, n)[j] = s[1 + j - 1]
    BY <2>1, SubSeqProperties
  <2> QED
    BY <2>2
<1> DEFINE a == SubSeq(s, 1, i)
           b == SubSeq(s, 1, i + 1)
           x == s[i + 1]
<1>2. x \in S
  BY <1>0, ElementOfSeq
<1>3. a \in Seq(S) /\ Len(a) = i /\ \A j \in 1 .. i : a[j] = s[j]
  BY <1>0, <1>1
<1>4. b \in Seq(S) /\ Len(b) = i + 1 /\ \A j \in 1 .. i + 1 : b[j] = s[j]
  BY <1>0, <1>1
<1> HIDE DEF a, b
<1>5. /\ Append(a, x) \in Seq(S) /\ Len(Append(a, x)) = i + 1
      /\ \A j \in 1 .. i : Append(a, x)[j] = a[j]
      /\ Append(a, x)[i + 1] = x
  BY <1>2, <1>3
<1>6. ASSUME NEW j \in 1 .. Len(b) PROVE Append(a, x)[j] = b[j]
  <2>1. j \in 1 .. i + 1 /\ (j \in 1 .. i \/ j = i + 1)
    BY <1>4
  <2>2. CASE j \in 1 .. i
    BY <1>3, <1>4, <1>5, <2>1, <2>2
  <2>3. CASE j = i + 1
    BY <1>4, <1>5, <2>1, <2>3
  <2> QED
    BY <2>1, <2>2, <2>3
<1>7. Append(a, x) = b
  <2> HIDE DEF x
  <2> QED
    BY <1>4, <1>5, <1>6, SeqEqual
<1> QED
  BY <1>7 DEF a, b

\* What is left begins with s, and then r comes.
Begins(left, s, r) == left = s \o r

\* A step with x reads exactly s and finds v.
ReadsOne(kind, x, s, v) ==
  \A r \in Bytes : \A left, g :
    Begins(left, s, r) => Step(kind, Reading(left, g), x) = Reading(r, Append(g, v))

\* When every step reads its own bytes and adds its element, all of them read
\* all the bytes and leave the rest.
LEMMA StepsRead ==
  ASSUME NEW kind, NEW ss \in Seq(Bytes), NEW fs, NEW rest \in Bytes,
         NEW S, NEW whole \in Seq(S), NEW k \in Nat, Len(whole) = k + Len(ss),
         \A i \in 1 .. Len(ss) : ReadsOne(kind, fs[i], ss[i], whole[k + i]),
         NEW all, Begins(all, FlattenSeq(ss), rest),
         NEW d, d = Reading(all, SubSeq(whole, 1, k)),
         NEW iter, IsFold(kind, d, fs, Len(ss), iter)
  PROVE  iter[1 .. Len(ss)] = Reading(rest, whole)
<1> DEFINE n == Len(ss)
<1>1. n \in Nat
  OBVIOUS
<1>2. PICK X \in [0 .. n -> Bytes] :
        /\ X[0] = all /\ X[n] = rest
        /\ \A i \in 1 .. n : X[i - 1] = ss[i] \o X[i]
  <2>1. PICK X : IsLeft(ss, all, rest, X)
    BY ReadInOrder DEF Begins
  <2> QED
    BY <2>1 DEF IsLeft
<1>3. /\ iter[1 .. 0] = Reading(X[0], SubSeq(whole, 1, k))
      /\ \A i \in 1 .. n : iter[1 .. i] = Step(kind, iter[1 .. i - 1], fs[i])
  <2>0. 1 .. 0 = {}
    OBVIOUS
  <2>1. iter[{}] = d
    <3> HIDE DEF n
    <3>1. IsFold(kind, d, fs, n, iter)
      BY DEF n
    <3> QED
      BY ONLY <1>1, <3>1, FoldSteps
  <2>2. \A i \in 1 .. Len(ss) : iter[1 .. i] = Step(kind, iter[1 .. i - 1], fs[i])
    BY <1>1, FoldSteps
  <2> QED
    BY <1>2, <2>0, <2>1, <2>2
<1> DEFINE T == {i \in Nat : i <= n => iter[1 .. i] = Reading(X[i], SubSeq(whole, 1, k + i))}
<1>4. 0 \in T
  <2>1. k + 0 = k
    OBVIOUS
  <2> HIDE DEF n
  <2> QED
    BY <1>3, <2>1
<1>5. ASSUME NEW i \in Nat, i \in T PROVE i + 1 \in T
  <2>1. SUFFICES ASSUME i + 1 <= n
                 PROVE  iter[1 .. i + 1] = Reading(X[i + 1], SubSeq(whole, 1, k + (i + 1)))
    <3> HIDE DEF n
    <3> QED
      OBVIOUS
  <2>2. i + 1 \in 1 .. n /\ (i + 1) - 1 = i /\ i \in 0 .. n /\ i <= n
    BY <1>1, <2>1
  <2>3. iter[1 .. i] = Reading(X[i], SubSeq(whole, 1, k + i))
    BY <1>5, <2>2
  <2>4. X[i] = ss[i + 1] \o X[i + 1] /\ X[i + 1] \in Bytes
    <3> HIDE DEF n
    <3>1. X[(i + 1) - 1] = ss[i + 1] \o X[i + 1]
      BY <1>2, <2>2
    <3>2. i + 1 \in 0 .. n
      BY <2>2
    <3> QED
      BY <1>2, <2>2, <3>1, <3>2
  <2>5. iter[1 .. i + 1] = Step(kind, iter[1 .. i], fs[i + 1])
    BY <1>3, <2>2
  <2>6. Step(kind, Reading(X[i], SubSeq(whole, 1, k + i)), fs[i + 1]) =
          Reading(X[i + 1], Append(SubSeq(whole, 1, k + i), whole[k + (i + 1)]))
    <3> DEFINE j == i + 1
    <3>1. j \in 1 .. Len(ss)
      BY <2>2
    <3> HIDE DEF j
    <3>2. \A left, g : left = ss[j] \o X[j] =>
            Step(kind, Reading(left, g), fs[j]) = Reading(X[j], Append(g, whole[k + j]))
      BY <2>4, <3>1 DEF j, ReadsOne, Begins
    <3> QED
      BY <2>4, <3>2 DEF j
  <2>7. Append(SubSeq(whole, 1, k + i), whole[(k + i) + 1]) = SubSeq(whole, 1, (k + i) + 1)
    <3>1. k + i \in 0 .. Len(whole) - 1
      BY <2>2
    <3> QED
      BY <3>1, PrefixGrows
  <2>8. (k + i) + 1 = k + (i + 1)
    OBVIOUS
  <2> HIDE DEF n
  <2> QED
    BY <2>3, <2>5, <2>6, <2>7, <2>8
<1>6. n \in T
  <2> HIDE DEF T, n
  <2> QED
    BY <1>1, <1>4, <1>5, AllNumbers
<1>7. SubSeq(whole, 1, k + n) = whole
  BY SubSeqFull
<1>8. iter[1 .. n] = Reading(X[n], SubSeq(whole, 1, k + n))
  <2> HIDE DEF n
  <2> QED
    BY <1>6
<1> QED
  BY <1>2, <1>7, <1>8

LEMMA FoldPlain ==
  ASSUME NEW d, NEW n \in Nat, NEW fs, DOMAIN fs = 1 .. n
  PROVE  \E iter : IsFold("plain", d, fs, n, iter) /\ FoldLeft(TakePlain, d, fs) = iter[1 .. n]
<1> DEFINE Eq(g) == g = [s \in SUBSET (DOMAIN fs) |->
                           IF s = {} THEN d
                           ELSE LET x == Max(s) IN TakePlain(g[s \ {x}], fs[x])]
           iter == CHOOSE g : Eq(g)
<1>1. \A g : Eq(g) <=> IsFold("plain", d, fs, n, g)
  BY DEF IsFold, Step
<1>2. Eq(iter)
  <2>1. \E g : Eq(g)
    <3> HIDE DEF Eq
    <3> QED
      BY <1>1, FoldExists
  <2> HIDE DEF Eq
  <2> QED
    BY <2>1
<1>3. FoldLeft(TakePlain, d, fs) = iter[DOMAIN fs]
  BY DEF FoldLeft, MapThenFoldSet
<1> HIDE DEF Eq, iter
<1> QED
  BY <1>1, <1>2, <1>3

LEMMA FoldFields ==
  ASSUME NEW d, NEW n \in Nat, NEW fs, DOMAIN fs = 1 .. n
  PROVE  \E iter : IsFold("field", d, fs, n, iter) /\ FoldLeft(Take, d, fs) = iter[1 .. n]
<1> DEFINE Eq(g) == g = [s \in SUBSET (DOMAIN fs) |->
                           IF s = {} THEN d
                           ELSE LET x == Max(s) IN Take(g[s \ {x}], fs[x])]
           iter == CHOOSE g : Eq(g)
<1>1. \A g : Eq(g) <=> IsFold("field", d, fs, n, g)
  BY DEF IsFold, Step
<1>2. Eq(iter)
  <2>1. \E g : Eq(g)
    <3> HIDE DEF Eq
    <3> QED
      BY <1>1, FoldExists
  <2> HIDE DEF Eq
  <2> QED
    BY <2>1
<1>3. FoldLeft(Take, d, fs) = iter[DOMAIN fs]
  BY DEF FoldLeft, MapThenFoldSet
<1> HIDE DEF Eq, iter
<1> QED
  BY <1>1, <1>2, <1>3

LEMMA FoldMonitors ==
  ASSUME NEW d, NEW n \in Nat
  PROVE  \E iter :
           /\ IsFold("monitor", d, [i \in 1 .. n |-> i], n, iter)
           /\ FoldLeft(LAMBDA a, i : TakeMonitor(a), d, [i \in 1 .. n |-> i]) = iter[1 .. n]
<1> DEFINE fs == [i \in 1 .. n |-> i]
           Eq(g) == g = [s \in SUBSET (DOMAIN fs) |->
                           IF s = {} THEN d
                           ELSE LET x == Max(s) IN TakeMonitor(g[s \ {x}])]
           iter == CHOOSE g : Eq(g)
<1>1. \A g : Eq(g) <=> IsFold("monitor", d, fs, n, g)
  BY DEF IsFold, Step
<1>2. Eq(iter)
  <2>1. \E g : Eq(g)
    <3> HIDE DEF Eq, fs
    <3> QED
      BY <1>1, FoldExists
  <2> HIDE DEF Eq
  <2> QED
    BY <2>1
<1>3. FoldLeft(LAMBDA a, i : TakeMonitor(a), d, fs) = iter[DOMAIN fs]
  BY DEF FoldLeft, MapThenFoldSet
<1>4. DOMAIN fs = 1 .. n
  OBVIOUS
<1> HIDE DEF Eq, iter
<1> QED
  BY <1>1, <1>2, <1>3, <1>4

-----------------------------------------------------------------------------
(* Monitors. *)

\* A monitor as it arrives: with its name cut.
CarriedMonitor(m) == [m EXCEPT ![Len(MonitorFields)] = Cut(@, MaxStr)]

LEMMA FieldsOfMonitor ==
  /\ DOMAIN MonitorFields = 1 .. 7 /\ Len(MonitorFields) = 7
  /\ \A i \in 1 .. 7 : MonitorFields[i] \in PlainField \ {"bytes"}
  /\ \A i \in 1 .. 7 : MonitorFields[i] = "str" <=> i = 7
<1>1. DOMAIN MonitorFields = 1 .. 7 /\ Len(MonitorFields) = 7
  BY DEF MonitorFields
<1>2. /\ MonitorFields[1] = "u8"  /\ MonitorFields[2] = "i32"
      /\ MonitorFields[3] = "i32" /\ MonitorFields[4] = "u32"
      /\ MonitorFields[5] = "u32" /\ MonitorFields[6] = "bool"
      /\ MonitorFields[7] = "str"
  BY DEF MonitorFields
<1>3. \A i \in 1 .. 7 : i = 1 \/ i = 2 \/ i = 3 \/ i = 4 \/ i = 5 \/ i = 6 \/ i = 7
  OBVIOUS
<1> QED
  BY <1>1, <1>2, <1>3 DEF PlainField

LEMMA MonitorReadsBack ==
  ASSUME NEW m, InFields(MonitorFields, m)
  PROVE  /\ PutAllPlain(MonitorFields, m) \in Bytes
         /\ \A x : ReadsOne("monitor", x, PutAllPlain(MonitorFields, m), CarriedMonitor(m))
<1> DEFINE fs == MonitorFields
           ss == [i \in DOMAIN fs |-> PutPlain(fs[i], m[i])]
           whole == [i \in 1 .. 7 |-> Carried(fs[i], m[i])]
           S == {whole[i] : i \in 1 .. 7}
<1>1. /\ DOMAIN fs = 1 .. 7
      /\ \A i \in 1 .. 7 : fs[i] \in PlainField /\ fs[i] # "bytes" /\ InField(fs[i], m[i])
  BY FieldsOfMonitor DEF InFields
<1>2. \A i \in 1 .. 7 : ss[i] = PutPlain(fs[i], m[i]) /\ ss[i] \in Bytes
  BY <1>1, PlainIsBytes
<1>3. ss \in Seq(Bytes) /\ Len(ss) = 7
  <2>1. ss \in [1 .. 7 -> Bytes]
    BY <1>1, <1>2
  <2> HIDE DEF ss
  <2> QED
    BY <2>1, FunctionIsSequence
<1>4. PutAllPlain(fs, m) = FlattenSeq(ss)
  BY DEF PutAllPlain
<1> HIDE DEF ss
<1>5. FlattenSeq(ss) \in Bytes
  <2>1. <<>> \in Bytes
    BY DEF Bytes
  <2> QED
    BY <1>3, <2>1, ReadInOrder
<1>6. whole \in Seq(S) /\ Len(whole) = 7
  <2>1. whole \in [1 .. 7 -> S]
    OBVIOUS
  <2> HIDE DEF whole, S
  <2> QED
    BY <2>1, FunctionIsSequence
<1>7. whole = CarriedMonitor(m)
  <2>1. DOMAIN m = 1 .. 7
    BY FieldsOfMonitor DEF InFields
  <2>2. \A i \in 1 .. 7 : whole[i] = IF i = 7 THEN Cut(m[7], MaxStr) ELSE m[i]
    BY FieldsOfMonitor DEF Carried, PlainField
  <2>3. whole = [i \in 1 .. 7 |-> IF i = 7 THEN Cut(m[7], MaxStr) ELSE m[i]]
    BY <2>2
  <2>4. CarriedMonitor(m) = [i \in 1 .. 7 |-> IF i = 7 THEN Cut(m[7], MaxStr) ELSE m[i]]
    BY <2>1, FieldsOfMonitor DEF CarriedMonitor
  <2> QED
    BY <2>3, <2>4
<1>8. ASSUME NEW i \in 1 .. 7 PROVE ReadsOne("plain", fs[i], ss[i], whole[0 + i])
  <2> SUFFICES ASSUME NEW r \in Bytes, NEW left, NEW g, left = ss[i] \o r
               PROVE  Step("plain", Reading(left, g), fs[i]) =
                        Reading(r, Append(g, whole[0 + i]))
    BY DEF ReadsOne, Begins
  <2>1. Step("plain", Reading(left, g), fs[i]) = TakePlain(Reading(left, g), fs[i])
    BY DEF Step
  <2>2. left = PutPlain(fs[i], m[i]) \o r
    BY <1>2
  <2>3. TakePlain(Reading(left, g), fs[i]) = Reading(r, Append(g, Carried(fs[i], m[i])))
    BY <1>1, <2>2, PlainReadsBack
  <2>4. whole[0 + i] = Carried(fs[i], m[i])
    OBVIOUS
  <2> QED
    BY <2>1, <2>3, <2>4
<1> HIDE DEF whole, S
<1>9. ASSUME NEW r \in Bytes, NEW left, NEW g, Begins(left, FlattenSeq(ss), r)
      PROVE  TakeMonitor(Reading(left, g)) = Reading(r, Append(g, whole))
  <2>1. SubSeq(whole, 1, 0) = <<>>
    BY SubSeqEmpty
  <2>2. PICK iter : /\ IsFold("plain", Reading(left, <<>>), fs, 7, iter)
                    /\ FoldLeft(TakePlain, Reading(left, <<>>), fs) = iter[1 .. 7]
    BY <1>1, FoldPlain
  <2>3. iter[1 .. 7] = Reading(r, whole)
    <3>1. PICK k \in Nat : k = 0
      OBVIOUS
    <3>2. PICK d : d = Reading(left, <<>>)
      OBVIOUS
    <3>3. SubSeq(whole, 1, k) = <<>> /\ Len(whole) = k + Len(ss)
      BY <1>3, <1>6, <2>1, <3>1
    <3>4. d = Reading(left, SubSeq(whole, 1, k)) /\ IsFold("plain", d, fs, Len(ss), iter)
      BY <1>3, <2>2, <3>2, <3>3
    <3>5. \A i \in 1 .. Len(ss) : ReadsOne("plain", fs[i], ss[i], whole[k + i])
      BY <1>3, <1>8, <3>1
    <3>6. iter[1 .. Len(ss)] = Reading(r, whole)
      <4>1. ss \in Seq(Bytes) /\ whole \in Seq(S) /\ Len(whole) = k + Len(ss)
        BY <1>3, <1>6, <3>3
      <4>2. Begins(left, FlattenSeq(ss), r)
        BY <1>9
      <4> HIDE DEF fs
      <4> QED
        BY <3>4, <3>5, <4>1, <4>2, StepsRead
    <3> QED
      BY <1>3, <3>6
  <2>4. [Reading(left, g) EXCEPT !.got = <<>>] = Reading(left, <<>>)
    BY GotReplaced
  <2>5. [Reading(r, whole) EXCEPT !.got = Append(g, whole)] = Reading(r, Append(g, whole))
    BY GotReplaced
  <2>6. Reading(left, g).got = g /\ Reading(r, whole).got = whole
    BY ReadingParts
  <2> QED
    BY <2>2, <2>3, <2>4, <2>5, <2>6 DEF TakeMonitor
<1>10. ASSUME NEW x PROVE ReadsOne("monitor", x, FlattenSeq(ss), whole)
  BY <1>9 DEF ReadsOne, Step
<1> QED
  BY <1>4, <1>5, <1>7, <1>10

\* A list of monitors is cut to the limit; each comes back with its name cut.
LEMMA MonitorsReadBack ==
  ASSUME NEW ms, IsMonitors(ms)
  PROVE  /\ PutField("monitors", ms) \in Bytes
         /\ ReadsOne("field", "monitors", PutField("monitors", ms), Carried("monitors", ms))
         /\ Carried("monitors", ms) = <<>> <=> ms = <<>>
<1> DEFINE cut == Cut(ms, MaxMonitors)
           n == Len(cut)
           ss == [i \in DOMAIN cut |-> PutAllPlain(MonitorFields, cut[i])]
           count == LittleEndian(1, n)
           flat == FlattenSeq(ss)
           carried == [i \in 1 .. n |-> CarriedMonitor(ms[i])]
           whole == [i \in 1 .. n + 1 |-> IF i = 1 THEN n ELSE CarriedMonitor(ms[i - 1])]
           S == {whole[i] : i \in 1 .. n + 1}
<1>1. /\ n \in Nat /\ n <= MaxMonitors /\ n < Byte /\ n < Values[1]
      /\ DOMAIN cut = 1 .. n /\ \A i \in 1 .. n : cut[i] = ms[i] /\ i \in DOMAIN ms
      /\ n = 0 <=> ms = <<>>
  <2> DEFINE D == {ms[i] : i \in DOMAIN ms}
             k == IF Len(ms) < MaxMonitors THEN Len(ms) ELSE MaxMonitors
  <2>1. ms \in Seq(D)
    BY DEF IsMonitors
  <2>2. Len(ms) \in Nat /\ DOMAIN ms = 1 .. Len(ms)
    BY <2>1, LenProperties
  <2>3. MaxMonitors \in Nat \ {0} /\ Byte \in Nat /\ MaxMonitors < Byte
    BY CodecAssumption
  <2>4. k \in Nat /\ k <= Len(ms) /\ k <= MaxMonitors /\ (k = 0 <=> Len(ms) = 0)
    BY <2>2, <2>3
  <2>5. cut = SubSeq(ms, 1, k)
    BY DEF Cut
  <2> HIDE DEF D, k, cut
  <2>6. \A i \in 1 .. k : ms[i] \in D /\ i \in DOMAIN ms
    BY <2>1, <2>2, <2>4
  <2>7. /\ cut \in Seq(D) /\ Len(cut) = IF 1 <= k THEN k - 1 + 1 ELSE 0
        /\ \A i \in 1 .. k - 1 + 1 : cut[i] = ms[1 + i - 1]
    BY <2>4, <2>5, <2>6, SubSeqProperties
  <2>8. Len(cut) = k
    BY <2>4, <2>7
  <2>9. \A i \in 1 .. k : cut[i] = ms[i]
    BY <2>4, <2>7
  <2>10. DOMAIN cut = 1 .. k
    BY <2>7, <2>8, LenProperties
  <2>11. Len(ms) = 0 <=> ms = <<>>
    BY <2>1, EmptySeq
  <2>12. Values[1] = Byte
    <3>1. Values[1] = Byte * Values[1 - 1] /\ Values[0] = 1 /\ 1 - 1 = 0
      BY ValuesOfWidths
    <3> QED
      BY <2>3, <3>1
  <2> QED
    BY <2>3, <2>4, <2>6, <2>8, <2>9, <2>10, <2>11, <2>12
<1>2. PutField("monitors", ms) = count \o flat
  BY DEF PutField
<1>3. Carried("monitors", ms) = carried
  BY <1>1 DEF Carried, CarriedMonitor
<1>4. \A i \in 1 .. n : InFields(MonitorFields, ms[i])
  BY <1>1 DEF IsMonitors
<1>5. ASSUME NEW i \in 1 .. n
      PROVE  /\ ss[i] \in Bytes
             /\ \A x : ReadsOne("monitor", x, ss[i], CarriedMonitor(ms[i]))
  <2>1. ss[i] = PutAllPlain(MonitorFields, ms[i])
    BY <1>1
  <2> HIDE DEF ss, n
  <2> QED
    BY <1>4, <2>1, MonitorReadsBack
<1>6. ss \in Seq(Bytes) /\ Len(ss) = n
  <2>1. ss \in [1 .. n -> Bytes]
    BY <1>1, <1>5
  <2> HIDE DEF ss, n
  <2> QED
    BY <1>1, <2>1, FunctionIsSequence
<1>7. flat \in Bytes
  <2>1. <<>> \in Bytes
    BY DEF Bytes
  <2> HIDE DEF ss
  <2> QED
    BY <1>6, <2>1, ReadInOrder
<1>8. count \in Bytes /\ Len(count) = 1 /\ count[1] = n
  <2> HIDE DEF n
  <2>1. count \in Bytes /\ Len(count) = 1
    BY <1>1, NumberIsBytes
  <2>2. count[1] = (n \div Values[1 - 1]) % Byte
    BY DEF LittleEndian
  <2>3. Values[1 - 1] = 1
    BY ValuesOfWidths
  <2>4. n \div 1 = n /\ n % Byte = n
    <3>1. Byte \in Nat \ {0} /\ n \in Nat /\ n < Byte
      BY <1>1, CodecAssumption
    <3>2. n \div 1 = n
      BY ONLY <3>1
    <3>3. n % Byte = n
      BY ONLY <3>1
    <3> QED
      BY <3>2, <3>3
  <2> QED
    BY <2>1, <2>2, <2>3, <2>4
<1>9. whole \in Seq(S) /\ Len(whole) = n + 1
  <2>1. whole \in [1 .. n + 1 -> S]
    OBVIOUS
  <2>2. n + 1 \in Nat
    BY <1>1
  <2> HIDE DEF whole, S, n
  <2> QED
    BY <2>1, <2>2, FunctionIsSequence
<1>10. whole[1] = n /\ \A i \in 1 .. n : whole[1 + i] = CarriedMonitor(ms[i])
  <2> HIDE DEF n
  <2> QED
    BY <1>1
<1> HIDE DEF cut, n, ss, count, flat, whole, S
<1>11. Tail(whole) = carried
  <2>1. whole # <<>>
    BY <1>1, <1>9, EmptySeq
  <2>2. /\ Tail(whole) \in Seq(S) /\ Len(Tail(whole)) = n
        /\ \A i \in 1 .. n : Tail(whole)[i] = whole[i + 1]
    <3>1. /\ Tail(whole) \in Seq(S) /\ Len(Tail(whole)) = Len(whole) - 1
          /\ \A i \in 1 .. Len(Tail(whole)) : Tail(whole)[i] = whole[i + 1]
      BY <1>9, <2>1, HeadTailProperties
    <3> QED
      BY <1>1, <1>9, <3>1
  <2>3. \A i \in 1 .. n : Tail(whole)[i] = CarriedMonitor(ms[i])
    <3> SUFFICES ASSUME NEW i \in 1 .. n PROVE Tail(whole)[i] = CarriedMonitor(ms[i])
      OBVIOUS
    <3>1. i + 1 = 1 + i
      BY <1>1
    <3> QED
      BY <1>10, <2>2, <3>1
  <2>4. Tail(whole) \in [1 .. n -> S]
    BY <2>2, LenProperties
  <2>5. Tail(whole) = [i \in 1 .. n |-> Tail(whole)[i]]
    BY <2>4
  <2> QED
    BY <2>3, <2>5
<1>12. SubSeq(whole, 1, 1) = <<n>>
  <2>1. whole[1] \in S
    BY <1>1, <1>9, ElementOfSeq
  <2>2. SubSeq(whole, 1, 1) = <<whole[1]>>
    <3> DEFINE a == SubSeq(whole, 1, 1)
               b == <<whole[1]>>
    <3>1. /\ a \in Seq(S) /\ Len(a) = 1
          /\ \A i \in 1 .. 1 : a[i] = whole[i]
      BY <2>1, SubSeqProperties
    <3>2. b \in Seq(S) /\ Len(b) = 1 /\ b[1] = whole[1]
      BY <2>1
    <3> HIDE DEF a, b
    <3>3. \A i \in 1 .. Len(a) : a[i] = b[i]
      BY <3>1, <3>2
    <3>4. a = b
      BY <3>1, <3>2, <3>3, SeqEqual
    <3> QED
      BY <3>4 DEF a, b
  <2> QED
    BY <1>10, <2>2
<1>13. ASSUME NEW r \in Bytes, NEW left, NEW g, Begins(left, count \o flat, r)
       PROVE  Take(Reading(left, g), "monitors") = Reading(r, Append(g, carried))
  <2> DEFINE d == Reading(left, g)
  <2>1. PICK rest : rest = flat \o r
    OBVIOUS
  <2>2. rest \in Bytes /\ Begins(rest, flat, r)
    BY <1>7, <2>1, CutFront DEF Begins
  <2>3. left = count \o rest
    BY <1>7, <1>8, <1>13, <2>1, BytesAssociate DEF Begins
  <2>4. /\ left \in Bytes /\ Len(left) = 1 + Len(rest) /\ left[1] = n
        /\ SubSeq(left, 1 + 1, Len(left)) = rest
    <3>1. /\ left \in Bytes /\ Len(left) = 1 + Len(rest)
          /\ SubSeq(left, 1 + 1, Len(left)) = rest
      BY <1>8, <2>2, <2>3, CutFront
    <3>2. Len(rest) \in Nat
      BY <2>2, LenProperties DEF Bytes
    <3>3. left[1] = count[1]
      <4>1. \A i \in 1 .. Len(count) + Len(rest) :
              (count \o rest)[i] = IF i <= Len(count) THEN count[i] ELSE rest[i - Len(count)]
        BY <1>8, <2>2, ConcatProperties DEF Bytes
      <4>2. 1 \in 1 .. Len(count) + Len(rest) /\ 1 <= Len(count)
        BY <1>8, <3>2
      <4>3. (count \o rest)[1] = count[1]
        BY <4>1, <4>2
      <4> QED
        BY <2>3, <4>3
    <3> QED
      BY <1>8, <3>1, <3>3
  <2>5. Need(d, 1) /\ d.left = left /\ d.got = g
    <3>1. Len(rest) \in Nat
      BY <2>2, LenProperties DEF Bytes
    <3>2. 1 <= Len(left)
      BY <2>4, <3>1
    <3> QED
      BY <3>2, ReadingParts, NeedOfReading
  <2>6. Got([d EXCEPT !.got = <<>>], 1, n) = Reading(rest, <<n>>)
    <3>1. [d EXCEPT !.got = <<>>] = Reading(left, <<>>)
      BY GotReplaced
    <3>2. PICK one \in Nat : one = 1
      OBVIOUS
    <3>3. PICK none : none = <<>>
      OBVIOUS
    <3>4. Got(Reading(left, none), one, n) =
            Reading(SubSeq(left, one + 1, Len(left)), Append(none, n))
      BY <3>2, GotOfReading
    <3>5. Append(none, n) = <<n>>
      BY <3>3
    <3>6. SubSeq(left, one + 1, Len(left)) = rest
      BY <2>4, <3>2
    <3> QED
      BY <3>1, <3>2, <3>3, <3>4, <3>5, <3>6
  <2> DEFINE is == [i \in 1 .. n |-> i]
  <2>7. PICK iter :
          /\ IsFold("monitor", Reading(rest, <<n>>), is, n, iter)
          /\ FoldLeft(LAMBDA a, i : TakeMonitor(a), Reading(rest, <<n>>), is) = iter[1 .. n]
    BY <1>1, FoldMonitors
  <2> HIDE DEF is
  <2>8. iter[1 .. n] = Reading(r, whole)
    <3>1. PICK k \in Nat : k = 1
      OBVIOUS
    <3>2. PICK e : e = Reading(rest, <<n>>)
      OBVIOUS
    <3>3. Len(whole) = k + Len(ss)
      BY <1>1, <1>6, <1>9, <3>1
    <3>4. e = Reading(rest, SubSeq(whole, 1, k)) /\ IsFold("monitor", e, is, Len(ss), iter)
      BY <1>6, <1>12, <2>7, <3>1, <3>2
    <3>5. \A i \in 1 .. Len(ss) : ReadsOne("monitor", is[i], ss[i], whole[k + i])
      BY <1>5, <1>6, <1>10, <3>1
    <3>6. Begins(rest, FlattenSeq(ss), r)
      BY <2>2 DEF flat
    <3>7. iter[1 .. Len(ss)] = Reading(r, whole)
      BY <1>6, <1>9, <3>3, <3>4, <3>5, <3>6, StepsRead
    <3> QED
      BY <1>6, <3>7
  <2>9. [Reading(r, whole) EXCEPT !.got = Append(g, Tail(whole))] =
          Reading(r, Append(g, carried))
    BY <1>11, GotReplaced
  <2>10. Reading(r, whole).got = whole
    BY ReadingParts
  <2>11. Take(d, "monitors") =
           LET m == d.left[1]
               e == FoldLeft(LAMBDA a, i : TakeMonitor(a), Got([d EXCEPT !.got = <<>>], 1, m),
                             [i \in 1 .. m |-> i])
           IN  IF Need(d, 1) /\ m <= MaxMonitors
               THEN [e EXCEPT !.got = Append(d.got, Tail(e.got))]
               ELSE Fail(d)
    BY DEF Take
  <2> HIDE DEF d
  <2>12. Take(d, "monitors") = [Reading(r, whole) EXCEPT !.got = Append(g, Tail(whole))]
    BY <1>1, <2>4, <2>5, <2>6, <2>7, <2>8, <2>10, <2>11 DEF is
  <2> QED
    BY <2>9, <2>12 DEF d
<1>14. ReadsOne("field", "monitors", count \o flat, carried)
  BY <1>13 DEF ReadsOne, Step
<1>15. carried = <<>> <=> n = 0
  <2>1. carried \in [1 .. n -> {carried[i] : i \in 1 .. n}]
    OBVIOUS
  <2>2. Len(carried) = n /\ carried \in Seq({carried[i] : i \in 1 .. n})
    <3> HIDE DEF carried
    <3> QED
      BY <1>1, <2>1, FunctionIsSequence
  <2> HIDE DEF carried
  <2> QED
    BY <2>2, EmptySeq
<1>16. count \o flat \in Bytes
  BY <1>7, <1>8, CutFront
<1> QED
  BY <1>1, <1>2, <1>3, <1>14, <1>15, <1>16

-----------------------------------------------------------------------------
(* Messages. *)

LEMMA FieldsOfMessages ==
  ASSUME NEW t \in DOMAIN Fields
  PROVE  \E n \in Nat : /\ DOMAIN Fields[t] = 1 .. n
                        /\ \A i \in 1 .. n : Fields[t][i] \in PlainField \cup {"monitors"}
<1>1. \/ t = "Hello" /\ Fields[t] = <<"u16", "str", "monitors", "str">>
      \/ t = "MonitorsChanged" /\ Fields[t] = <<"monitors">>
      \/ t = "ClipboardUpdate" /\ Fields[t] = <<"str", "u64", "u8", "bytes">>
      \/ t = "MouseAbs" /\ Fields[t] = <<"u8", "u16", "u16">>
      \/ \E a, b \in PlainField : Fields[t] = <<a, b>>
      \/ \E a \in PlainField : Fields[t] = <<a>>
  <2>1. \/ t \in {"Hello", "MonitorsChanged", "ClipboardUpdate", "MouseAbs"}
        \/ t \in {"MouseMove", "MouseButton", "MouseWheel", "KeyEvent"}
        \/ t \in {"Welcome", "Ping", "Pong", "Grab", "Bye"}
    BY DEF Fields
  <2>2. CASE t \in {"Hello", "MonitorsChanged", "ClipboardUpdate", "MouseAbs"}
    BY <2>2 DEF Fields
  <2>3. CASE t \in {"MouseMove", "MouseButton", "MouseWheel", "KeyEvent"}
    <3>1. /\ Fields["MouseMove"] = <<"i16", "i16">> /\ Fields["MouseWheel"] = <<"i16", "i16">>
          /\ Fields["MouseButton"] = <<"u8", "bool">> /\ Fields["KeyEvent"] = <<"u16", "bool">>
      BY DEF Fields
    <3> QED
      BY <2>3, <3>1 DEF PlainField
  <2>4. CASE t \in {"Welcome", "Ping", "Pong", "Grab", "Bye"}
    <3>1. /\ Fields["Welcome"] = <<"str">> /\ Fields["Bye"] = <<"str">>
          /\ Fields["Ping"] = <<"u32">> /\ Fields["Pong"] = <<"u32">>
          /\ Fields["Grab"] = <<"bool">>
      BY DEF Fields
    <3> QED
      BY <2>4, <3>1 DEF PlainField
  <2> QED
    BY <2>1, <2>2, <2>3, <2>4
<1>2. CASE t = "Hello" /\ Fields[t] = <<"u16", "str", "monitors", "str">>
  <2>1. DOMAIN Fields[t] = 1 .. 4
    BY <1>2
  <2>2. \A i \in 1 .. 4 : Fields[t][i] \in PlainField \cup {"monitors"}
    BY <1>2 DEF PlainField
  <2> QED
    BY <2>1, <2>2
<1>3. CASE t = "MonitorsChanged" /\ Fields[t] = <<"monitors">>
  <2>1. DOMAIN Fields[t] = 1 .. 1
    BY <1>3
  <2>2. \A i \in 1 .. 1 : Fields[t][i] \in PlainField \cup {"monitors"}
    BY <1>3 DEF PlainField
  <2> QED
    BY <2>1, <2>2
<1>4. CASE t = "ClipboardUpdate" /\ Fields[t] = <<"str", "u64", "u8", "bytes">>
  <2>1. DOMAIN Fields[t] = 1 .. 4
    BY <1>4
  <2>2. \A i \in 1 .. 4 : Fields[t][i] \in PlainField \cup {"monitors"}
    BY <1>4 DEF PlainField
  <2> QED
    BY <2>1, <2>2
<1>5. CASE t = "MouseAbs" /\ Fields[t] = <<"u8", "u16", "u16">>
  <2>1. DOMAIN Fields[t] = 1 .. 3
    BY <1>5
  <2>2. \A i \in 1 .. 3 : Fields[t][i] \in PlainField \cup {"monitors"}
    BY <1>5 DEF PlainField
  <2> QED
    BY <2>1, <2>2
<1>6. ASSUME NEW a \in PlainField, NEW b \in PlainField, Fields[t] = <<a, b>>
      PROVE  \E n \in Nat : /\ DOMAIN Fields[t] = 1 .. n
                            /\ \A i \in 1 .. n : Fields[t][i] \in PlainField \cup {"monitors"}
  <2>1. DOMAIN Fields[t] = 1 .. 2
    BY <1>6
  <2>2. \A i \in 1 .. 2 : Fields[t][i] \in PlainField
    BY <1>6
  <2> QED
    BY <2>1, <2>2
<1>7. ASSUME NEW a \in PlainField, Fields[t] = <<a>>
      PROVE  \E n \in Nat : /\ DOMAIN Fields[t] = 1 .. n
                            /\ \A i \in 1 .. n : Fields[t][i] \in PlainField \cup {"monitors"}
  <2>1. DOMAIN Fields[t] = 1 .. 1
    BY <1>7
  <2>2. \A i \in 1 .. 1 : Fields[t][i] \in PlainField
    BY <1>7
  <2> QED
    BY <2>1, <2>2
<1> QED
  BY <1>1, <1>2, <1>3, <1>4, <1>5, <1>6, <1>7

\* Every field is read back; what Write accepts is no longer than Read allows.
LEMMA FieldReadsBack ==
  ASSUME NEW f \in PlainField \cup {"monitors"}, NEW v,
         IF f = "monitors" THEN IsMonitors(v) ELSE InField(f, v)
  PROVE  /\ PutField(f, v) \in Bytes
         /\ f = "bytes" => Len(v) <= Len(PutField(f, v))
         /\ (f = "bytes" => Len(v) <= MaxFrameSize) =>
              ReadsOne("field", f, PutField(f, v), Carried(f, v))
<1>1. CASE f = "monitors"
  BY <1>1, MonitorsReadBack
<1>2. CASE f # "monitors"
  <2>1. f \in PlainField /\ InField(f, v) /\ PutField(f, v) = PutPlain(f, v)
    BY <1>2 DEF PutField
  <2>2. PutPlain(f, v) \in Bytes
    BY <2>1, PlainIsBytes
  <2>3. ASSUME f = "bytes" PROVE Len(v) <= Len(PutPlain(f, v))
    <3>1. Len(PutPlain(f, v)) = 4 + Len(v)
      BY <2>1, <2>3, PlainIsBytes
    <3>2. v \in Bytes
      BY <2>1, <2>3 DEF InField, Bytes
    <3>3. Len(v) \in Nat
      BY <3>2, LenProperties DEF Bytes
    <3> QED
      BY <3>1, <3>3
  <2>4. ASSUME f = "bytes" => Len(v) <= MaxFrameSize
        PROVE  ReadsOne("field", f, PutPlain(f, v), Carried(f, v))
    <3>1. ASSUME NEW r \in Bytes, NEW left, NEW g, Begins(left, PutPlain(f, v), r)
          PROVE  Step("field", Reading(left, g), f) = Reading(r, Append(g, Carried(f, v)))
      <4>1. TakePlain(Reading(left, g), f) = Reading(r, Append(g, Carried(f, v)))
        BY <2>1, <2>4, <3>1, PlainReadsBack DEF Begins
      <4>2. Step("field", Reading(left, g), f) = TakePlain(Reading(left, g), f)
        BY <1>2 DEF Step, Take
      <4> QED
        BY <4>1, <4>2
    <3> QED
      BY <3>1 DEF ReadsOne
  <2> QED
    BY <1>2, <2>1, <2>2, <2>3, <2>4
<1> QED
  BY <1>1, <1>2

\* The lengths of the sequences add up: L[i] is the length of what is left after
\* i of them.
LEMMA LengthsAddUp ==
  ASSUME NEW ss \in Seq(Bytes)
  PROVE  \E L \in [0 .. Len(ss) -> Nat] :
           /\ L[0] = Len(FlattenSeq(ss)) /\ L[Len(ss)] = 0
           /\ \A i \in 1 .. Len(ss) : L[i - 1] = Len(ss[i]) + L[i] /\ Len(ss[i]) \in Nat
<1> DEFINE n == Len(ss)
<1>1. PICK none : none = <<>>
  OBVIOUS
<1>2. none \in Bytes /\ Len(none) = 0
  BY <1>1 DEF Bytes
<1>3. PICK X \in [0 .. n -> Bytes] :
        /\ X[0] = FlattenSeq(ss) \o none /\ X[n] = none
        /\ \A j \in 1 .. n : X[j - 1] = ss[j] \o X[j]
  <2>1. PICK X : IsLeft(ss, FlattenSeq(ss) \o none, none, X)
    BY <1>2, ReadInOrder
  <2> QED
    BY <2>1 DEF IsLeft
<1>4. n \in Nat /\ \A k \in 0 .. n : X[k] \in Bytes /\ Len(X[k]) \in Nat
  <2>1. n \in Nat
    BY LenProperties
  <2>2. \A k \in 0 .. n : X[k] \in Bytes
    BY <1>3
  <2> HIDE DEF n
  <2> QED
    BY <2>1, <2>2, LenProperties DEF Bytes
<1>5. Len(FlattenSeq(ss)) = Len(X[0])
  <2>1. FlattenSeq(ss) \in Bytes
    BY <1>2, ReadInOrder
  <2>2. Len(X[0]) = Len(FlattenSeq(ss)) + Len(none)
    BY <1>2, <1>3, <2>1, CutFront
  <2>3. Len(FlattenSeq(ss)) \in Nat
    BY <2>1, LenProperties DEF Bytes
  <2> QED
    BY <1>2, <2>2, <2>3
<1>6. ASSUME NEW j \in 1 .. n
      PROVE  Len(X[j - 1]) = Len(ss[j]) + Len(X[j]) /\ Len(ss[j]) \in Nat
  <2>1. ss[j] \in Bytes
    BY ElementOfSeq
  <2>2. X[j] \in Bytes
    <3>1. j \in 0 .. n
      BY <1>4
    <3> HIDE DEF n
    <3> QED
      BY <1>4, <3>1
  <2>3. Len(X[j - 1]) = Len(ss[j]) + Len(X[j])
    <3>1. X[j - 1] = ss[j] \o X[j]
      BY <1>3
    <3>2. Len(ss[j] \o X[j]) = Len(ss[j]) + Len(X[j])
      BY <2>1, <2>2, CutFront
    <3> QED
      BY <3>1, <3>2
  <2> QED
    BY <2>1, <2>3, LenProperties DEF Bytes
<1> DEFINE L == [k \in 0 .. n |-> Len(X[k])]
<1>7. \A j \in 1 .. n : L[j - 1] = Len(ss[j]) + L[j]
  <2> SUFFICES ASSUME NEW j \in 1 .. n PROVE L[j - 1] = Len(ss[j]) + L[j]
    OBVIOUS
  <2>1. j \in 0 .. n /\ j - 1 \in 0 .. n
    BY <1>4
  <2>2. L[j] = Len(X[j]) /\ L[j - 1] = Len(X[j - 1])
    BY <2>1
  <2> QED
    BY <1>6, <2>2
<1>8. L \in [0 .. n -> Nat] /\ L[0] = Len(FlattenSeq(ss)) /\ L[n] = 0
  <2>1. 0 \in 0 .. n /\ n \in 0 .. n
    BY <1>4
  <2>2. L[0] = Len(X[0]) /\ L[n] = Len(X[n])
    BY <2>1
  <2>3. L \in [0 .. n -> Nat]
    BY <1>4
  <2> QED
    BY <1>2, <1>3, <1>5, <2>2, <2>3
<1> HIDE DEF L
<1> QED
  BY <1>6, <1>7, <1>8

\* None of the sequences is longer than all of them together.
LEMMA PartsAreShorter ==
  ASSUME NEW ss \in Seq(Bytes), NEW i \in 1 .. Len(ss)
  PROVE  Len(ss[i]) <= Len(FlattenSeq(ss))
<1> DEFINE n == Len(ss)
<1>1. PICK L \in [0 .. n -> Nat] :
        /\ L[0] = Len(FlattenSeq(ss)) /\ L[n] = 0
        /\ \A j \in 1 .. n : L[j - 1] = Len(ss[j]) + L[j] /\ Len(ss[j]) \in Nat
  BY LengthsAddUp
<1>2. n \in Nat
  BY LenProperties
<1>3. i \in 1 .. n
  OBVIOUS
<1> HIDE DEF n
<1> DEFINE S == {k \in Nat : k <= n => L[k] <= L[0]}
<1>4. 0 \in S
  <2>1. 0 \in 0 .. n
    BY <1>2
  <2>2. L[0] \in Nat
    BY <2>1
  <2> QED
    BY <2>2
<1>5. \A k \in Nat : k \in S => k + 1 \in S
  <2> SUFFICES ASSUME NEW k \in Nat, k \in S, k + 1 <= n PROVE L[k + 1] <= L[0]
    OBVIOUS
  <2>1. k + 1 \in 1 .. n /\ (k + 1) - 1 = k /\ k <= n /\ k + 1 \in 0 .. n /\ k \in 0 .. n
        /\ 0 \in 0 .. n
    BY <1>2
  <2> DEFINE a == L[k + 1]
             b == L[k]
             c == Len(ss[k + 1])
             e == L[0]
  <2>2. b = c + a /\ c \in Nat
    BY <1>1, <2>1
  <2>3. b <= e /\ a \in Nat /\ b \in Nat /\ e \in Nat
    BY <2>1
  <2> HIDE DEF a, b, c, e
  <2>4. a <= e
    BY <2>2, <2>3
  <2> QED
    BY <2>4 DEF a, e
<1>6. \A k \in 0 .. n : L[k] <= L[0]
  <2> HIDE DEF S
  <2>1. Nat \subseteq S
    BY <1>4, <1>5, AllNumbers
  <2> USE DEF S
  <2> QED
    BY <1>2, <2>1
<1>7. i \in 0 .. n /\ i - 1 \in 0 .. n /\ 0 \in 0 .. n
  BY <1>2, <1>3
<1> DEFINE a == L[i - 1]
           b == Len(ss[i])
           c == L[i]
           e == L[0]
<1>8. a = b + c /\ b \in Nat
  BY <1>1, <1>3
<1>9. a <= e /\ a \in Nat /\ c \in Nat /\ e \in Nat
  BY <1>6, <1>7
<1> HIDE DEF a, b, c, e
<1>10. b <= e
  BY <1>8, <1>9
<1> QED
  BY <1>1, <1>10 DEF b, e

\* The parts of a message in the order of its fields.
Parts(m) == [i \in DOMAIN Fields[m.type] |-> PutField(Fields[m.type][i], m.fields[i])]
CarriedFields(m) == [i \in DOMAIN m.fields |-> Carried(Fields[m.type][i], m.fields[i])]

\* The payload of a message is made of a part for every field.
LEMMA PartsOfMessage ==
  ASSUME NEW m, IsMessage(m)
  PROVE  /\ Parts(m) \in Seq(Bytes) /\ Encode(m) = FlattenSeq(Parts(m)) /\ Encode(m) \in Bytes
         /\ DOMAIN Fields[m.type] = 1 .. Len(Parts(m))
         /\ \A i \in 1 .. Len(Parts(m)) :
              LET f == Fields[m.type][i]
              IN  /\ Parts(m)[i] = PutField(f, m.fields[i]) /\ Parts(m)[i] \in Bytes
                  /\ f \in PlainField \cup {"monitors"}
                  /\ IF f = "monitors" THEN IsMonitors(m.fields[i]) ELSE InField(f, m.fields[i])
<1>1. /\ m.type \in DOMAIN Fields /\ DOMAIN m.fields = DOMAIN Fields[m.type]
      /\ \A i \in DOMAIN m.fields :
           IF Fields[m.type][i] = "monitors" THEN IsMonitors(m.fields[i])
           ELSE InField(Fields[m.type][i], m.fields[i])
  BY DEF IsMessage
<1>2. PICK n \in Nat : /\ DOMAIN Fields[m.type] = 1 .. n
                       /\ \A i \in 1 .. n : Fields[m.type][i] \in PlainField \cup {"monitors"}
  BY <1>1, FieldsOfMessages
<1>3. ASSUME NEW i \in 1 .. n PROVE PutField(Fields[m.type][i], m.fields[i]) \in Bytes
  BY <1>1, <1>2, FieldReadsBack
<1>4. /\ Parts(m) \in [1 .. n -> Bytes]
      /\ \A i \in 1 .. n : Parts(m)[i] = PutField(Fields[m.type][i], m.fields[i])
  BY <1>2, <1>3 DEF Parts
<1>5. Parts(m) \in Seq(Bytes) /\ Len(Parts(m)) = n
  BY <1>4, FunctionIsSequence
<1>6. Encode(m) = FlattenSeq(Parts(m))
  BY DEF Encode, Parts
<1>7. Encode(m) \in Bytes
  <2>1. <<>> \in Bytes
    BY DEF Bytes
  <2> QED
    BY <1>5, <1>6, <2>1, ReadInOrder
<1> QED
  BY <1>1, <1>2, <1>3, <1>4, <1>5, <1>6, <1>7

LEMMA FrameOfMessage ==
  ASSUME NEW m, IsMessage(m)
  PROVE  /\ Len(Encode(m)) \in Nat
         /\ Frame(m) = [length |-> 1 + Len(Encode(m)), type |-> m.type, bytes |-> Encode(m)]
         /\ Writes(m) <=> 1 + Len(Encode(m)) <= FrameLimit(m.type)
         /\ FrameLimit(m.type) \in Nat /\ FrameLimit(m.type) <= MaxFrameSize
         /\ MaxFrameSize \in Nat
<1>1. Encode(m) \in Bytes
  BY PartsOfMessage
<1>2. Len(Encode(m)) \in Nat
  BY <1>1, LenProperties DEF Bytes
<1>3. /\ FrameLimit(m.type) \in Nat /\ FrameLimit(m.type) <= MaxFrameSize
      /\ MaxFrameSize \in Nat
  BY CodecAssumption DEF FrameLimit
<1>4. Frame(m) = [length |-> 1 + Len(Encode(m)), type |-> m.type, bytes |-> Encode(m)]
  BY DEF Frame
<1>5. Writes(m) <=> 1 + Len(Encode(m)) <= FrameLimit(m.type)
  BY <1>4 DEF Writes
<1> QED
  BY <1>2, <1>3, <1>4, <1>5

\* The payload of a message that Write accepts is decoded to its end.
LEMMA Decoded ==
  ASSUME NEW m, IsMessage(m), Writes(m)
  PROVE  Decode(m.type, Encode(m)) = Reading(<<>>, CarriedFields(m))
<1> DEFINE ss == Parts(m)
           fs == Fields[m.type]
           n == Len(ss)
           whole == CarriedFields(m)
           S == {whole[i] : i \in 1 .. n}
<1>1. /\ ss \in Seq(Bytes) /\ Encode(m) = FlattenSeq(ss) /\ Encode(m) \in Bytes
      /\ DOMAIN fs = 1 .. n /\ n \in Nat
  BY PartsOfMessage, LenProperties
<1>2. DOMAIN m.fields = 1 .. n
  BY <1>1 DEF IsMessage
<1>3. whole \in [1 .. n -> S] /\ \A i \in 1 .. n : whole[i] = Carried(fs[i], m.fields[i])
  BY <1>2 DEF CarriedFields
<1>4. whole \in Seq(S) /\ Len(whole) = n
  <2> HIDE DEF whole, S, n
  <2> QED
    BY <1>1, <1>3, FunctionIsSequence
<1>5. ASSUME NEW i \in 1 .. n PROVE ReadsOne("field", fs[i], ss[i], whole[i])
  <2>1. /\ ss[i] = PutField(fs[i], m.fields[i]) /\ fs[i] \in PlainField \cup {"monitors"}
        /\ IF fs[i] = "monitors" THEN IsMonitors(m.fields[i]) ELSE InField(fs[i], m.fields[i])
        /\ ss[i] \in Bytes
    BY PartsOfMessage
  <2>2. ASSUME fs[i] = "bytes" PROVE Len(m.fields[i]) <= MaxFrameSize
    <3> DEFINE a == Len(m.fields[i])
               b == Len(ss[i])
               c == Len(Encode(m))
    <3>1. a <= b
      BY <2>1, <2>2, FieldReadsBack
    <3>2. b <= c
      BY <1>1, PartsAreShorter
    <3>3. a \in Nat
      <4>1. m.fields[i] \in Bytes
        BY <2>1, <2>2 DEF InField, Bytes
      <4> QED
        BY <4>1, LenProperties DEF Bytes
    <3>4. b \in Nat
      BY <2>1, LenProperties DEF Bytes
    <3>5. c \in Nat /\ 1 + c <= FrameLimit(m.type) /\ FrameLimit(m.type) \in Nat
          /\ FrameLimit(m.type) <= MaxFrameSize /\ MaxFrameSize \in Nat
      BY FrameOfMessage
    <3> HIDE DEF a, b, c
    <3>6. a <= MaxFrameSize
      BY <3>1, <3>2, <3>3, <3>4, <3>5
    <3> QED
      BY <3>6 DEF a
  <2>3. whole[i] = Carried(fs[i], m.fields[i])
    BY <1>3
  <2> HIDE DEF ss, fs, whole
  <2> QED
    BY <2>1, <2>2, <2>3, FieldReadsBack
<1>6. PICK rest : rest = <<>>
  OBVIOUS
<1>7. PICK k \in Nat : k = 0
  OBVIOUS
<1>8. rest \in Bytes
  BY <1>6 DEF Bytes
<1>9. Begins(Encode(m), FlattenSeq(ss), rest)
  BY <1>1, <1>6 DEF Begins, Bytes
<1>10. SubSeq(whole, 1, k) = rest
  BY <1>6, <1>7
<1>11. PICK d : d = Reading(Encode(m), rest)
  OBVIOUS
<1>12. Decode(m.type, Encode(m)) = FoldLeft(Take, d, fs)
  <2>1. Decoder(Encode(m)) = d
    BY <1>6, <1>11, ReadingParts
  <2> QED
    BY <2>1 DEF Decode
<1> HIDE DEF ss, fs, n, whole, S
<1>13. PICK iter : IsFold("field", d, fs, n, iter) /\ FoldLeft(Take, d, fs) = iter[1 .. n]
  BY <1>1, FoldFields
<1>14. iter[1 .. n] = Reading(rest, whole)
  <2>1. Len(whole) = k + Len(ss) /\ n = Len(ss)
    BY <1>1, <1>4, <1>7 DEF n
  <2>2. d = Reading(Encode(m), SubSeq(whole, 1, k)) /\ IsFold("field", d, fs, Len(ss), iter)
    BY <1>10, <1>11, <1>13, <2>1
  <2>3. \A i \in 1 .. Len(ss) : ReadsOne("field", fs[i], ss[i], whole[k + i])
    <3> SUFFICES ASSUME NEW i \in 1 .. Len(ss)
                 PROVE  ReadsOne("field", fs[i], ss[i], whole[k + i])
      OBVIOUS
    <3>1. k + i = i
      BY <1>7
    <3> QED
      BY <1>5, <2>1, <3>1
  <2>4. iter[1 .. Len(ss)] = Reading(rest, whole)
    <3>1. PICK all : all = Encode(m)
      OBVIOUS
    <3>2. Len(whole) = k + Len(ss)
      BY <2>1
    <3>3. ss \in Seq(Bytes) /\ whole \in Seq(S)
      BY <1>1, <1>4
    <3>4. Begins(all, FlattenSeq(ss), rest) /\ d = Reading(all, SubSeq(whole, 1, k))
      BY <1>9, <2>2, <3>1
    <3>5. IsFold("field", d, fs, Len(ss), iter)
      BY <2>2
    <3> QED
      BY <1>8, <2>3, <3>2, <3>3, <3>4, <3>5, StepsRead
  <2> QED
    BY <2>1, <2>4
<1> QED
  BY <1>6, <1>12, <1>13, <1>14 DEF whole

\* What Write accepts, Read takes from the stream, whatever comes after it.
LEMMA ReadsBack ==
  ASSUME NEW m, IsMessage(m), Writes(m), NEW next \in Bytes
  PROVE  Read([Frame(m) EXCEPT !.bytes = @ \o next]) =
           [err |-> FALSE, took |-> Len(Encode(m)),
            msg |-> [type |-> m.type, fields |-> CarriedFields(m)]]
<1> DEFINE n == Len(Encode(m))
           all == Encode(m) \o next
           f == [Frame(m) EXCEPT !.bytes = @ \o next]
<1>1. /\ n \in Nat /\ 1 + n <= FrameLimit(m.type) /\ FrameLimit(m.type) \in Nat
      /\ FrameLimit(m.type) <= MaxFrameSize /\ MaxFrameSize \in Nat
  BY FrameOfMessage
<1>2. f.length = 1 + n /\ f.type = m.type /\ f.bytes = all
  BY DEF Frame
<1>3. m.type \in DOMAIN Fields
  BY DEF IsMessage
<1>4. Encode(m) \in Bytes
  BY PartsOfMessage
<1>5. Len(all) = n + Len(next) /\ Len(next) \in Nat /\ Cut(all, n) = Encode(m)
  BY <1>4, CutFront, LenProperties DEF Bytes
<1>6. PICK d : d = Decode(m.type, Encode(m))
  OBVIOUS
<1>7. ~d.err /\ d.left = <<>> /\ d.got = CarriedFields(m)
  <2>1. PICK none : none = <<>>
    OBVIOUS
  <2>2. d = Reading(none, CarriedFields(m))
    BY <1>6, <2>1, Decoded
  <2>3. d.err = FALSE /\ d.left = none /\ d.got = CarriedFields(m)
    BY <2>2 DEF Reading
  <2> QED
    BY <2>1, <2>3
<1> HIDE DEF n, all, f
<1>8. f.length - 1 = n /\ f.length \in 1 .. MaxFrameSize
  BY <1>1, <1>2
<1>9. Len(f.bytes) >= f.length - 1
  BY <1>1, <1>2, <1>5, <1>8
<1>10. Decode(f.type, Cut(f.bytes, f.length - 1)) = d
  BY <1>2, <1>5, <1>6, <1>8
<1>11. f.length <= FrameLimit(f.type) /\ f.type \in DOMAIN Fields
  BY <1>1, <1>2, <1>3
<1>12. Read(f) = [err |-> FALSE, took |-> f.length - 1,
                  msg |-> [type |-> f.type, fields |-> d.got]]
  BY <1>7, <1>8, <1>9, <1>10, <1>11 DEF Read
<1>13. Read(f) = [err |-> FALSE, took |-> n,
                  msg |-> [type |-> m.type, fields |-> CarriedFields(m)]]
  BY <1>2, <1>7, <1>8, <1>12
<1> QED
  BY <1>13 DEF f, n

-----------------------------------------------------------------------------
(* What is exchanged, one message after the other. *)

\* What is on its way is a message of the sample, or nothing.
SentInv == sent = NoMessage \/ sent \in Sample

\* The exchange sends nothing but the sample (Exchange).
THEOREM SampleIsSent == ExchangeSpec => []SentInv
<1>1. sent = NoMessage => SentInv
  BY DEF SentInv
<1>2. SentInv /\ [Exchange]_sent => SentInv'
  BY DEF SentInv, Exchange
<1> QED
  BY <1>1, <1>2, PTL DEF ExchangeSpec

LEMMA SentIsMessage ==
  ASSUME SentInv, sent # NoMessage
  PROVE  IsMessage(sent)
BY SampleAssumption DEF SentInv

LEMMA NextIsBytes == <<>> \in Bytes /\ Following \subseteq Bytes
<1>1. Byte \in Nat /\ Byte # 0 /\ Byte % 2 = 0
  BY CodecAssumption
<1>2. Byte # 1
  BY <1>1
<1>3. 1 \in 0 .. Byte - 1
  BY <1>1, <1>2
<1>4. <<>> \in Bytes
  BY DEF Bytes
<1>5. Following \subseteq Bytes
  BY <1>3 DEF Bytes, Following
<1> QED
  BY <1>4, <1>5

\* A message of any kind that the type's limit lets through, Read takes from the
\* stream with every field as its decoder returns it, for any number of values of
\* a byte, any limits and any fields (codec.go Write and Read).
THEOREM MessagesRoundTrip == ExchangeSpec => []RoundTrip
<1>1. SentInv => RoundTrip
  <2> SUFFICES ASSUME SentInv, sent # NoMessage, Writes(sent), NEW next \in Following
               PROVE  Read([Frame(sent) EXCEPT !.bytes = @ \o next]) =
                        [err |-> FALSE, took |-> Len(Frame(sent).bytes),
                         msg |-> [sent EXCEPT !.fields =
                                    [i \in DOMAIN @ |-> Carried(Fields[sent.type][i], @[i])]]]
    BY DEF RoundTrip
  <2>1. IsMessage(sent)
    BY SentIsMessage
  <2>2. next \in Bytes
    BY NextIsBytes
  <2>3. Read([Frame(sent) EXCEPT !.bytes = @ \o next]) =
          [err |-> FALSE, took |-> Len(Encode(sent)),
           msg |-> [type |-> sent.type, fields |-> CarriedFields(sent)]]
    BY <2>1, <2>2, ReadsBack
  <2>4. Frame(sent).bytes = Encode(sent)
    BY DEF Frame
  <2>5. [sent EXCEPT !.fields =
           [i \in DOMAIN @ |-> Carried(Fields[sent.type][i], @[i])]] =
        [type |-> sent.type, fields |-> CarriedFields(sent)]
    <3>1. DOMAIN sent = {"type", "fields"}
      BY <2>1 DEF IsMessage
    <3> QED
      BY <3>1 DEF CarriedFields
  <2> QED
    BY <2>3, <2>4, <2>5
<1> QED
  BY <1>1, SampleIsSent, PTL

\* An update's payload: the string of its origin, a number of eight bytes, one of
\* one byte, and the data behind its length.
LEMMA LengthOfUpdate ==
  ASSUME NEW m, IsMessage(m), m.type = "ClipboardUpdate"
  PROVE  /\ Len(m.fields[1]) \in Nat /\ Len(m.fields[4]) \in Nat
         /\ Len(Encode(m)) = 15 + Len(m.fields[4]) +
              (IF Len(m.fields[1]) < MaxStr THEN Len(m.fields[1]) ELSE MaxStr)
<1> DEFINE ss == Parts(m)
           cut == IF Len(m.fields[1]) < MaxStr THEN Len(m.fields[1]) ELSE MaxStr
<1>1. Fields[m.type] = <<"str", "u64", "u8", "bytes">>
  BY DEF Fields
<1>2. DOMAIN Fields[m.type] = 1 .. 4
  BY <1>1
<1>3. ss \in Seq(Bytes) /\ Encode(m) = FlattenSeq(ss) /\ 1 .. Len(ss) = 1 .. 4 /\ Len(ss) \in Nat
  BY <1>2, PartsOfMessage, LenProperties
<1>4. Len(ss) = 4
  <2> DEFINE n == Len(ss)
  <2>1. n \in Nat /\ 1 .. n = 1 .. 4
    BY <1>3
  <2> HIDE DEF n
  <2>2. 4 \in 1 .. n /\ 5 \notin 1 .. n
    BY <2>1
  <2>3. n = 4
    BY <2>1, <2>2
  <2> QED
    BY <2>3 DEF n
<1>5. \A i \in 1 .. 4 : /\ ss[i] = PutField(Fields[m.type][i], m.fields[i])
                        /\ Fields[m.type][i] # "monitors" => InField(Fields[m.type][i], m.fields[i])
  BY <1>4, PartsOfMessage
<1>6. /\ ss[1] = PutPlain("str", m.fields[1]) /\ InField("str", m.fields[1])
      /\ ss[2] = PutPlain("u64", m.fields[2]) /\ InField("u64", m.fields[2])
      /\ ss[3] = PutPlain("u8", m.fields[3]) /\ InField("u8", m.fields[3])
      /\ ss[4] = PutPlain("bytes", m.fields[4]) /\ InField("bytes", m.fields[4])
  BY <1>1, <1>5 DEF PutField
<1>7. m.fields[1] \in Bytes /\ m.fields[4] \in Bytes
  BY <1>6 DEF InField, Bytes
<1>8. Len(m.fields[1]) \in Nat /\ Len(m.fields[4]) \in Nat
  BY <1>7, LenProperties DEF Bytes
<1>9. Len(ss[1]) = 2 + cut
  <2>1. Len(ss[1]) = 2 + Len(CutStr(m.fields[1]))
    BY <1>6, PlainIsBytes DEF PlainField
  <2> QED
    BY <1>7, <2>1, CutString
<1>10. Len(ss[2]) = 8
  BY <1>6, PlainIsBytes DEF PlainField, Width
<1>11. Len(ss[3]) = 1
  BY <1>6, PlainIsBytes DEF PlainField, Width
<1>12. Len(ss[4]) = 4 + Len(m.fields[4])
  BY <1>6, PlainIsBytes DEF PlainField
<1>13. PICK L \in [0 .. Len(ss) -> Nat] :
         /\ L[0] = Len(FlattenSeq(ss)) /\ L[Len(ss)] = 0
         /\ \A j \in 1 .. Len(ss) : L[j - 1] = Len(ss[j]) + L[j] /\ Len(ss[j]) \in Nat
  BY <1>3, LengthsAddUp
<1>14. cut \in Nat
  BY <1>7, <1>8, CutString
<1> HIDE DEF ss, cut
<1>15. \A j \in 1 .. 4 : L[j - 1] = Len(ss[j]) + L[j]
  BY <1>4, <1>13
<1>16. /\ L[0] = Len(ss[1]) + L[1] /\ L[1] = Len(ss[2]) + L[2]
       /\ L[2] = Len(ss[3]) + L[3] /\ L[3] = Len(ss[4]) + L[4] /\ L[4] = 0
  BY <1>4, <1>13, <1>15
<1>17. L[0] = 15 + Len(m.fields[4]) + cut
  <2> DEFINE n == Len(m.fields[4])
             a == L[0]
             b == L[1]
             c == L[2]
             d == L[3]
  <2>1. a = (2 + cut) + b /\ b = 8 + c /\ c = 1 + d /\ d = (4 + n) + 0
    BY <1>9, <1>10, <1>11, <1>12, <1>16
  <2>2. n \in Nat /\ cut \in Nat
    BY <1>8, <1>14
  <2> HIDE DEF n, a, b, c, d
  <2>3. a = 15 + n + cut
    BY <2>1, <2>2
  <2> QED
    BY <2>3 DEF a, n
<1> QED
  BY <1>3, <1>8, <1>13, <1>17 DEF cut

\* What the hub lets through fits a frame exactly when the name of its origin has
\* room beside it, for any limits that leave less room than a string can take
\* (messages.go MaxClipboardData; clipboard.go).
THEOREM UpdatesFit == ExchangeSpec => []ClipboardFits
<1>1. SentInv => ClipboardFits
  <2> SUFFICES ASSUME SentInv, sent.type = "ClipboardUpdate" PROVE ClipboardFits
    BY DEF ClipboardFits
  <2> DEFINE room == MaxFrameSize - MaxClipboardData - 16
             n == Len(sent.fields[4])
             name == Len(sent.fields[1])
             cut == IF name < MaxStr THEN name ELSE MaxStr
             len == Len(Encode(sent))
  <2>1. sent # NoMessage
    BY DEF NoMessage
  <2>2. IsMessage(sent)
    BY <2>1, SentIsMessage
  <2>3. name \in Nat /\ n \in Nat /\ len = 15 + n + cut
    BY <2>2, LengthOfUpdate
  <2>4. Writes(sent) <=> 1 + len <= MaxFrameSize
    BY <2>2, FrameOfMessage DEF FrameLimit
  <2>5. room \in 0 .. MaxStr - 1 /\ MaxFrameSize \in Nat /\ MaxClipboardData \in Nat
    BY CodecAssumption
  <2>6. MaxStr \in Nat
    BY NextIsBytes, CutString
  <2> HIDE DEF n, name, len
  <2>7. ASSUME n <= MaxClipboardData, name <= room PROVE Writes(sent)
    BY <2>3, <2>4, <2>5, <2>6, <2>7
  <2>8. ASSUME n = MaxClipboardData, name > room PROVE ~Writes(sent)
    BY <2>3, <2>4, <2>5, <2>6, <2>8
  <2> QED
    BY <2>7, <2>8 DEF ClipboardFits, n, name
<1> QED
  BY <1>1, SampleIsSent, PTL

\* A message that Write accepts is delivered with its fields as they are carried.
LEMMA DeliveredMessage ==
  ASSUME NEW m, IsMessage(m)
  PROVE  Delivered(m) =
           IF Writes(m) THEN [err |-> FALSE, took |-> Len(Encode(m)),
                              msg |-> [type |-> m.type, fields |-> CarriedFields(m)]]
           ELSE Unreadable
<1>1. CASE ~Writes(m)
  BY <1>1 DEF Delivered
<1>2. CASE Writes(m)
  <2>1. PICK next : next = <<>>
    OBVIOUS
  <2>2. next \in Bytes
    BY <2>1, NextIsBytes
  <2>3. Encode(m) \o next = Encode(m)
    <3>1. Encode(m) \in Bytes
      BY PartsOfMessage
    <3> QED
      BY <2>1, <3>1 DEF Bytes
  <2>4. [Frame(m) EXCEPT !.bytes = @ \o next] = Frame(m)
    BY <2>3 DEF Frame
  <2>5. Read([Frame(m) EXCEPT !.bytes = @ \o next]) =
          [err |-> FALSE, took |-> Len(Encode(m)),
           msg |-> [type |-> m.type, fields |-> CarriedFields(m)]]
    BY <1>2, <2>2, ReadsBack
  <2> QED
    BY <1>2, <2>4, <2>5 DEF Delivered
<1> QED
  BY <1>1, <1>2

IsWelcome(w, m, name) ==
  name = Cut(m.fields[2], MaxStr) /\ w = [type |-> "Welcome", fields |-> <<name>>]

WelcomeBrings(w, name) ==
  /\ Writes(w) /\ Delivered(w).err = FALSE /\ Delivered(w).msg.type = "Welcome"
  /\ Delivered(w).msg.fields[1] = name

\* The Welcome with a name that came in a Hello is written, and delivered with it.
LEMMA WelcomeComesBack ==
  ASSUME NEW m, IsMessage(m), m.type = "Hello", Writes(m),
         NEW name, NEW w, IsWelcome(w, m, name)
  PROVE  WelcomeBrings(w, name)
<1>1. /\ Fields["Hello"] = <<"u16", "str", "monitors", "str">>
      /\ Fields["Welcome"] = <<"str">> /\ w.type = "Welcome" /\ w.fields = <<name>>
      /\ w = [type |-> "Welcome", fields |-> <<name>>] /\ name = Cut(m.fields[2], MaxStr)
  BY DEF Fields, IsWelcome
<1>2. PICK v : v = m.fields[2]
  OBVIOUS
<1>3. /\ Parts(m) \in Seq(Bytes) /\ 2 \in 1 .. Len(Parts(m))
      /\ Encode(m) = FlattenSeq(Parts(m)) /\ Parts(m)[2] = PutPlain("str", v)
      /\ InField("str", v)
  <2>1. DOMAIN Fields[m.type] = 1 .. 4
    BY <1>1
  <2>2. 2 \in 1 .. Len(Parts(m))
    <3>1. 1 .. Len(Parts(m)) = 1 .. 4
      BY <2>1, PartsOfMessage
    <3> QED
      BY <3>1
  <2>3. /\ Parts(m)[2] = PutField(Fields[m.type][2], m.fields[2])
        /\ Fields[m.type][2] # "monitors" => InField(Fields[m.type][2], m.fields[2])
    BY <2>2, PartsOfMessage
  <2>4. Fields[m.type][2] = "str"
    BY <1>1
  <2> QED
    BY <1>2, <2>2, <2>3, <2>4, PartsOfMessage DEF PutField
<1>4. v \in Bytes /\ name = CutStr(v)
  BY <1>1, <1>2, <1>3 DEF InField, Bytes, CutStr
<1>5. name \in Bytes /\ Len(name) <= MaxStr /\ CutStr(name) = name
  BY <1>4, CutString
<1>6. Len(PutPlain("str", v)) = 2 + Len(name) /\ Len(PutPlain("str", name)) = 2 + Len(name)
  <2>1. InField("str", name)
    BY <1>5 DEF InField, Bytes
  <2> QED
    BY <1>3, <1>4, <1>5, <2>1, PlainIsBytes DEF PlainField
<1>7. IsMessage(w)
  <2>1. DOMAIN w = {"type", "fields"} /\ w.type \in DOMAIN Fields
    BY <1>1 DEF Fields
  <2>2. DOMAIN w.fields = 1 .. 1 /\ DOMAIN Fields[w.type] = 1 .. 1
    BY <1>1
  <2>3. \A i \in 1 .. 1 : w.fields[i] = name /\ Fields[w.type][i] = "str"
    BY <1>1
  <2>4. InField("str", name)
    BY <1>5 DEF InField, Bytes
  <2> QED
    BY <2>1, <2>2, <2>3, <2>4 DEF IsMessage
<1>8. Len(Encode(w)) = Len(PutPlain("str", name))
  <2>1. DOMAIN Fields[w.type] = 1 .. 1 /\ Fields[w.type][1] = "str"
    BY <1>1
  <2>2. /\ Parts(w) \in Seq(Bytes) /\ Encode(w) = FlattenSeq(Parts(w))
        /\ 1 .. Len(Parts(w)) = 1 .. 1 /\ Len(Parts(w)) \in Nat
    BY <1>7, <2>1, PartsOfMessage, LenProperties
  <2>3. Len(Parts(w)) = 1
    <3> DEFINE n == Len(Parts(w))
    <3>1. n \in Nat /\ 1 .. n = 1 .. 1
      BY <2>2
    <3> HIDE DEF n
    <3>2. 1 \in 1 .. n /\ 2 \notin 1 .. n
      BY <3>1
    <3>3. n = 1
      BY <3>1, <3>2
    <3> QED
      BY <3>3 DEF n
  <2>4. Parts(w)[1] = PutPlain("str", name)
    <3>1. Parts(w)[1] = PutField("str", w.fields[1])
      BY <1>7, <2>1, <2>3, PartsOfMessage
    <3> QED
      BY <1>1, <3>1 DEF PutField
  <2>5. PICK L \in [0 .. Len(Parts(w)) -> Nat] :
          /\ L[0] = Len(FlattenSeq(Parts(w))) /\ L[Len(Parts(w))] = 0
          /\ \A j \in 1 .. Len(Parts(w)) :
               L[j - 1] = Len(Parts(w)[j]) + L[j] /\ Len(Parts(w)[j]) \in Nat
    BY <2>2, LengthsAddUp
  <2>6. L[0] = Len(PutPlain("str", name)) + 0 /\ Len(PutPlain("str", name)) \in Nat
    BY <2>3, <2>4, <2>5
  <2> QED
    BY <2>2, <2>5, <2>6
<1>9. Writes(w)
  <2> DEFINE a == Len(Encode(w))
             b == Len(Encode(m))
             c == Len(Parts(m)[2])
  <2>1. a = c
    BY <1>3, <1>6, <1>8
  <2>2. c <= b
    BY <1>3, PartsAreShorter
  <2>3. b \in Nat /\ 1 + b <= FrameLimit("Hello")
    BY FrameOfMessage
  <2>4. a \in Nat /\ (Writes(w) <=> 1 + a <= FrameLimit("Welcome"))
    BY <1>1, <1>7, FrameOfMessage
  <2>5. FrameLimit("Hello") = FrameLimit("Welcome") /\ FrameLimit("Hello") \in Nat
    BY CodecAssumption DEF FrameLimit
  <2> HIDE DEF a, b, c
  <2> QED
    BY <2>1, <2>2, <2>3, <2>4, <2>5
<1>10. CarriedFields(w)[1] = name
  <2>1. CarriedFields(w)[1] = Carried("str", name)
    BY <1>1 DEF CarriedFields
  <2>2. Carried("str", name) = CutStr(name)
    BY DEF Carried, CutStr
  <2> QED
    BY <1>5, <2>1, <2>2
<1>11. Delivered(w) = [err |-> FALSE, took |-> Len(Encode(w)),
                       msg |-> [type |-> "Welcome", fields |-> CarriedFields(w)]]
  BY <1>1, <1>7, <1>9, DeliveredMessage
<1> QED
  BY <1>9, <1>10, <1>11 DEF WelcomeBrings

\* What the server has of a Hello that was written.
LEMMA HelloArrives ==
  ASSUME NEW m, IsMessage(m), m.type = "Hello", Writes(m)
  PROVE  LET fs == Delivered(m).msg.fields
         IN  /\ Delivered(m).err = FALSE /\ Delivered(m).msg.type = "Hello"
             /\ fs[1] = m.fields[1] /\ fs[2] = Cut(m.fields[2], MaxStr)
             /\ (fs[3] = <<>> <=> m.fields[3] = <<>>) /\ fs[4] = Cut(m.fields[4], MaxStr)
<1>1. Fields["Hello"] = <<"u16", "str", "monitors", "str">>
  BY DEF Fields
<1>2. DOMAIN m.fields = 1 .. 4 /\ IsMonitors(m.fields[3])
  <2>1. DOMAIN Fields[m.type] = 1 .. 4 /\ Fields[m.type][3] = "monitors"
    BY <1>1
  <2> QED
    BY <2>1 DEF IsMessage
<1>3. PICK fs : fs = CarriedFields(m)
  OBVIOUS
<1>4. Delivered(m) = [err |-> FALSE, took |-> Len(Encode(m)),
                      msg |-> [type |-> "Hello", fields |-> fs]]
  BY <1>3, DeliveredMessage
<1>5. /\ fs[1] = Carried("u16", m.fields[1]) /\ fs[2] = Carried("str", m.fields[2])
      /\ fs[3] = Carried("monitors", m.fields[3]) /\ fs[4] = Carried("str", m.fields[4])
  BY <1>1, <1>2, <1>3 DEF CarriedFields
<1>6. /\ Carried("u16", m.fields[1]) = m.fields[1]
      /\ Carried("str", m.fields[2]) = Cut(m.fields[2], MaxStr)
      /\ Carried("str", m.fields[4]) = Cut(m.fields[4], MaxStr)
  BY DEF Carried
<1>7. Carried("monitors", m.fields[3]) = <<>> <=> m.fields[3] = <<>>
  BY <1>2, MonitorsReadBack
<1>8. Delivered(m).err = FALSE /\ Delivered(m).msg.type = "Hello" /\ Delivered(m).msg.fields = fs
  BY <1>4
<1> QED
  BY <1>5, <1>6, <1>7, <1>8

\* A client gets a session exactly when its Hello can be written and shows the
\* server's version, a monitor and, as it is cut on the wire, the server's token;
\* the name in its Welcome is the one the server knows it by, for any messages
\* and any limits (session.go ClientHandshake and AcceptHandshake).
THEOREM HandshakesAgree == ExchangeSpec => []HandshakeAgrees
<1>1. SentInv => HandshakeAgrees
  <2> DEFINE tokens == {m.fields[4] : m \in {m \in Sample : m.type = "Hello"}}
             served(version, token) ==
               /\ Writes(sent) /\ sent.fields[1] = version /\ sent.fields[3] # <<>>
               /\ Cut(sent.fields[4], MaxStr) = token
             name == Cut(sent.fields[2], MaxStr)
  <2> SUFFICES ASSUME SentInv, sent.type = "Hello", NEW version, NEW token
               PROVE  LET w == ClientHandshake(sent, version, token)
                      IN  /\ w.err = ~served(version, token)
                          /\ served(version, token) =>
                               w.msg.type = "Welcome" /\ w.msg.fields[1] = name
    BY DEF HandshakeAgrees
  <2>1. IsMessage(sent)
    <3>1. sent # NoMessage
      BY DEF NoMessage
    <3> QED
      BY <3>1, SentIsMessage
  <2> DEFINE r == Delivered(sent)
             welcome(n) == [type |-> "Welcome", fields |-> <<n>>]
             accepted == AcceptHandshake(r, version, token)
  <2>2. Unreadable.err = TRUE
    BY DEF Unreadable
  <2>3. CASE ~Writes(sent)
    <3>1. r = Unreadable
      BY <2>3 DEF Delivered
    <3> HIDE DEF r
    <3>2. accepted = Unreadable
      BY <2>2, <3>1 DEF AcceptHandshake
    <3>3. ClientHandshake(sent, version, token) = Unreadable
      BY <2>2, <3>2 DEF ClientHandshake, r
    <3> QED
      BY <2>2, <2>3, <3>3
  <2>4. CASE Writes(sent)
    <3>1. /\ r.err = FALSE /\ r.msg.type = "Hello"
          /\ r.msg.fields[1] = sent.fields[1] /\ r.msg.fields[2] = name
          /\ (r.msg.fields[3] = <<>> <=> sent.fields[3] = <<>>)
          /\ r.msg.fields[4] = Cut(sent.fields[4], MaxStr)
      BY <2>1, <2>4, HelloArrives
    <3>2. PICK w : w = welcome(name)
      OBVIOUS
    <3>3. /\ Writes(w) /\ Delivered(w).err = FALSE /\ Delivered(w).msg.type = "Welcome"
          /\ Delivered(w).msg.fields[1] = name
      <4>1. PICK m : m = sent
        OBVIOUS
      <4>2. PICK n : n = name
        OBVIOUS
      <4>3. IsWelcome(w, m, n)
        BY <3>2, <4>1, <4>2 DEF IsWelcome
      <4>4. IsMessage(m) /\ m.type = "Hello" /\ Writes(m)
        BY <2>1, <2>4, <4>1
      <4>5. WelcomeBrings(w, n)
        BY ONLY <4>3, <4>4, WelcomeComesBack
      <4> QED
        BY <4>2, <4>5 DEF WelcomeBrings
    <3> HIDE DEF r, name
    <3>4. accepted = IF served(version, token) THEN r ELSE Unreadable
      BY <2>4, <3>1, <3>2, <3>3 DEF AcceptHandshake
    <3>5. CASE served(version, token)
      <4>1. accepted = r
        BY <3>4, <3>5
      <4>2. ClientHandshake(sent, version, token) = Delivered(w)
        BY <3>1, <3>2, <4>1 DEF ClientHandshake, r
      <4> QED
        BY <3>3, <3>5, <4>2
    <3>6. CASE ~served(version, token)
      <4>1. accepted = Unreadable
        BY <3>4, <3>6
      <4>2. ClientHandshake(sent, version, token) = Unreadable
        BY <2>2, <4>1 DEF ClientHandshake, r
      <4> QED
        BY <2>2, <3>6, <4>2
    <3> QED
      BY <3>5, <3>6
  <2> QED
    BY <2>3, <2>4
<1> QED
  BY <1>1, SampleIsSent, PTL
=============================================================================
