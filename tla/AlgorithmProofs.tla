--------------------------- MODULE AlgorithmProofs ---------------------------
(***************************************************************************)
(* The pure algorithms, for all inputs: the allocator (RuleIdAllocation),  *)
(* the byte accounting of a CoAP packet (CoapCost) and the Base64 decoder  *)
(* (Base64).                                                               *)
(*                                                                         *)
(* The allocator finds the first free leaf of its namespace whenever there *)
(* is one, and what it allocates overlaps no rule: for every namespace,    *)
(* every tree of rules and every length of RuleIDs, not only for the four  *)
(* bits of the model-checked instance.  The proof follows the passes of    *)
(* allocate.  A rule blocks exactly the leaves at or below its projection  *)
(* (ProjectionExact, ClippedExact); the intervals are listed in order      *)
(* (IntervalsListed); merging them changes which leaves they cover in no   *)
(* way (MergeCovers); the sweep over merged intervals stops at the first   *)
(* leaf none of them covers (SweepFinds).                                  *)
(*                                                                         *)
(* inspect_coap reads a packet from its bytes.  Each option is read back   *)
(* as it was encoded, and the next one is found where it ends              *)
(* (OptionRead); so the walk arrives at the payload marker, or at the end, *)
(* with the costs of all options (WalkFinds), and they add up              *)
(* (EncodedTotal).                                                         *)
(*                                                                         *)
(* base64_decode compares the text with the encoding of what it decoded.   *)
(* An encoding carries the bits of its octets (ChunkBits, EncodedBits), so *)
(* an accepted text represents them; a text that is not malformed is n     *)
(* chunks with p characters of padding (NotMalformed), decodes to          *)
(* 3 * n - p octets (WellFormedOctets) and encodes back to itself          *)
(* (WellFormedBack), so it is accepted.                                    *)
(*                                                                         *)
(* The passes are folds and recursive functions.  Each is turned into the  *)
(* sequence of its intermediate values (FoldExists, WalkExists), about     *)
(* which facts are proved one turn at a time and joined by UpTo.           *)
(* Induction takes the form of a smallest counterexample, a set of         *)
(* naturals without a smallest element being empty, since no prover takes  *)
(* the induction rule with its formula as a parameter.  The laws of powers *)
(* of two (PowerStep, PowerSum) come from counting subsets.                *)
(***************************************************************************)
EXTENDS RuleIdAllocation, Base64, CoapCost, FiniteSetTheorems, SequenceTheorems,
        WellFoundedInduction, TLAPS

-----------------------------------------------------------------------------
(* Smallest elements.  Induction takes the form of a smallest                *)
(* counterexample: a set of naturals without a smallest element is empty.    *)

\* A set of naturals has a smallest element.
LEMMA SmallestNat ==
  ASSUME NEW T, T \subseteq Nat, T # {}
  PROVE  \E x \in T : \A y \in T : x <= y
<1> DEFINE R == {ss \in Nat \X Nat : ss[1] < ss[2]}
<1>1. IsWellFoundedOn(R, Nat)
  BY NatLessThanWellFounded DEF OpToRel
<1>2. PICK x \in T : \A y \in T : ~ (<<y, x>> \in R)
  <2> HIDE DEF R
  <2> QED
    BY <1>1, WFMin
<1>3. ASSUME NEW y \in T
      PROVE  x <= y
  <2>1. ~ (<<y, x>> \in R) /\ x \in Nat /\ y \in Nat
    BY <1>2
  <2>2. ~ (y < x)
    BY <2>1
  <2> QED
    BY <2>1, <2>2
<1> QED
  BY <1>3

\* What holds at 0 and passes from each number to the next holds up to n.
LEMMA UpTo ==
  ASSUME NEW n \in Nat, NEW Good, 0 \in Good,
         \A i \in 1..n : i - 1 \in Good => i \in Good
  PROVE  \A i \in 0..n : i \in Good
<1> DEFINE Bad == {i \in 0..n : i \notin Good}
<1> SUFFICES ASSUME Bad # {} PROVE FALSE
  OBVIOUS
<1>1. PICK k \in Bad : \A i \in Bad : k <= i
  <2>1. Bad \subseteq Nat
    OBVIOUS
  <2> QED
    BY <2>1, SmallestNat
<1>2. k # 0
  OBVIOUS
<1>3. k \in 1..n /\ k - 1 \in 0..n
  BY <1>2
<1>4. k - 1 \in Good
  BY <1>1, <1>3
<1> QED
  BY <1>1, <1>3, <1>4

\* A finite set of naturals has a largest element.
LEMMA LargestNat ==
  ASSUME NEW n \in Nat, NEW T, T \subseteq 0..n, T # {}
  PROVE  Max(T) \in T /\ \A y \in T : y <= Max(T)
<1> DEFINE D == {n - y : y \in T}
<1>1. D \subseteq Nat /\ D # {}
  OBVIOUS
<1>2. PICK d \in D : \A e \in D : d <= e
  BY <1>1, SmallestNat
<1>3. PICK x \in T : d = n - x
  BY <1>2
<1>4. ASSUME NEW y \in T PROVE y <= x
  <2>1. d <= n - y /\ x \in 0..n /\ y \in 0..n
    BY <1>2
  <2> QED
    BY <1>3, <2>1
<1>5. \E m \in T : \A y \in T : y <= m
  BY <1>3, <1>4
<1> QED
  BY <1>5 DEF Max

\* A set of naturals has a Min.
LEMMA MinNat ==
  ASSUME NEW T, T \subseteq Nat, T # {}
  PROVE  Min(T) \in T /\ \A y \in T : Min(T) <= y
BY SmallestNat DEF Min

-----------------------------------------------------------------------------
(* Powers of two: 2^n counts the subsets of a set of n elements. *)

LEMMA PowerType ==
  ASSUME NEW n \in Nat
  PROVE  2^n \in Nat /\ 2^n > 0
<1>1. IsFiniteSet(1..n) /\ Cardinality(1..n) = n
  BY FS_Interval
<1>2. IsFiniteSet(SUBSET (1..n)) /\ Cardinality(SUBSET (1..n)) = 2^n
  BY <1>1, FS_SUBSET
<1>3. Cardinality(SUBSET (1..n)) \in Nat
  BY <1>2, FS_CardinalityType
<1>4. Cardinality(SUBSET (1..n)) # 0
  BY <1>2, FS_EmptySet
<1> QED
  BY <1>2, <1>3, <1>4

LEMMA PowerZero == 2^0 = 1
<1>1. IsFiniteSet({}) /\ Cardinality({}) = 0
  BY FS_EmptySet
<1>2. Cardinality(SUBSET {}) = 2^Cardinality({})
  BY <1>1, FS_SUBSET
<1>3. SUBSET {} = {{}}
  OBVIOUS
<1>4. Cardinality({{}}) = 1
  BY FS_Singleton
<1> QED
  BY <1>1, <1>2, <1>3, <1>4

LEMMA PowerStep ==
  ASSUME NEW n \in Nat
  PROVE  2^(n + 1) = 2 * 2^n
<1> DEFINE S == 1..n
           T == 1..(n + 1)
           A == SUBSET S
           B == {X \cup {n + 1} : X \in A}
           f == [X \in A |-> X \cup {n + 1}]
<1>1. /\ IsFiniteSet(S) /\ Cardinality(S) = n
      /\ IsFiniteSet(T) /\ Cardinality(T) = n + 1
  BY FS_Interval
<1>2. /\ IsFiniteSet(A) /\ Cardinality(A) = 2^n
      /\ IsFiniteSet(SUBSET T) /\ Cardinality(SUBSET T) = 2^(n + 1)
  BY <1>1, FS_SUBSET
<1>3. f \in Bijection(A, B)
  <2>1. f \in [A -> B]
    OBVIOUS
  <2>2. ASSUME NEW X \in A, NEW Y \in A, f[X] = f[Y]
        PROVE  X = Y
    <3>1. n + 1 \notin X /\ n + 1 \notin Y
      OBVIOUS
    <3>2. X \cup {n + 1} = Y \cup {n + 1}
      BY <2>2
    <3> QED
      BY <3>1, <3>2
  <2>3. \A Z \in B : \E X \in A : f[X] = Z
    OBVIOUS
  <2> QED
    BY <2>1, <2>2, <2>3 DEF Bijection, Injection, Surjection, IsInjective
<1>4. IsFiniteSet(B) /\ Cardinality(B) = 2^n
  <2>1. IsFiniteSet(A) /\ f \in Bijection(A, B)
    BY <1>2, <1>3
  <2> HIDE DEF A, B, f
  <2>2. IsFiniteSet(B) /\ Cardinality(B) = Cardinality(A)
    BY <2>1, FS_Bijection DEF ExistsBijection
  <2> QED
    BY <1>2, <2>2
<1>5. SUBSET T = A \cup B
  <2>1. T = S \cup {n + 1}
    OBVIOUS
  <2>2. A \cup B \subseteq SUBSET T
    BY <2>1
  <2>3. ASSUME NEW X \in SUBSET T PROVE X \in A \cup B
    <3>1. CASE n + 1 \in X
      <4>1. X \ {n + 1} \in A
        BY <2>1
      <4>2. X = (X \ {n + 1}) \cup {n + 1}
        BY <3>1
      <4> QED
        BY <4>1, <4>2
    <3>2. CASE n + 1 \notin X
      BY <2>1, <3>2
    <3> QED
      BY <3>1, <3>2
  <2> QED
    BY <2>2, <2>3
<1>6. A \cap B = {}
  <2>1. \A X \in A : n + 1 \notin X
    OBVIOUS
  <2>2. \A X \in B : n + 1 \in X
    OBVIOUS
  <2> QED
    BY <2>1, <2>2
<1> HIDE DEF A, B
<1>7. Cardinality(A \cup B) = 2^n + 2^n
  <2>1. Cardinality(A \cup B) = Cardinality(A) + Cardinality(B) - Cardinality(A \cap B)
    BY <1>2, <1>4, FS_Union
  <2>2. Cardinality(A \cap B) = 0
    BY <1>6, FS_EmptySet
  <2> QED
    BY <1>2, <1>4, <2>1, <2>2, PowerType
<1>8. 2^n \in Nat
  BY PowerType
<1>9. 2^(n + 1) = 2^n + 2^n
  BY <1>2, <1>5, <1>7
<1> QED
  BY <1>8, <1>9

LEMMA PowerSum ==
  ASSUME NEW a \in Nat, NEW b \in Nat
  PROVE  2^(a + b) = 2^a * 2^b
<1> DEFINE Good == {i \in 0..b : 2^(a + i) = 2^a * 2^i}
<1>1. 0 \in Good
  <2>1. 2^a * 1 = 2^a
    BY PowerType
  <2> QED
    BY <2>1, PowerZero
<1>2. ASSUME NEW i \in 1..b, i - 1 \in Good
      PROVE  i \in Good
  <2> DEFINE j == i - 1
  <2>1. j \in Nat /\ i = j + 1 /\ a + i = (a + j) + 1 /\ a + j \in Nat
    OBVIOUS
  <2>2. 2^(a + j) = 2^a * 2^j
    BY <1>2
  <2> HIDE DEF j
  <2>3. 2^i = 2 * 2^j /\ 2^(a + i) = 2 * 2^(a + j)
    BY <2>1, PowerStep
  <2>4. 2^a \in Nat /\ 2^j \in Nat
    BY <2>1, PowerType
  <2>5. 2 * (2^a * 2^j) = 2^a * (2 * 2^j)
    BY <2>4
  <2> QED
    BY <2>2, <2>3, <2>5
<1> HIDE DEF Good
<1>3. b \in Good
  BY <1>1, <1>2, UpTo
<1> QED
  BY <1>3 DEF Good

-----------------------------------------------------------------------------
(* Lists in order.  The order is a set R of pairs. *)

Ordered(s, n, R) == \A i, j \in 1..n : i < j => <<s[i], s[j]>> \in R

\* A finite set whose subsets all have a first element can be listed in order.
LEMMA ListExists ==
  ASSUME NEW R, NEW U, IsFiniteSet(U),
         \A S \in SUBSET U : S # {} => \E x \in S : \A y \in S \ {x} : <<x, y>> \in R
  PROVE  \E s \in [1..Cardinality(U) -> U] : Ordered(s, Cardinality(U), R)
<1> DEFINE Listed(n, S) == \E s \in [1..n -> S] : Ordered(s, n, R)
           N == Cardinality(U)
           Good == {n \in 0..N : \A S \in SUBSET U : Cardinality(S) = n => Listed(n, S)}
<1>1. \A S \in SUBSET U : IsFiniteSet(S) /\ Cardinality(S) \in Nat
  BY FS_Subset, FS_CardinalityType
<1>2. N \in Nat
  BY <1>1
<1>3. 0 \in Good
  <2>1. ASSUME NEW S \in SUBSET U PROVE Listed(0, S)
    <3>1. <<>> \in [1..0 -> S] /\ Ordered(<<>>, 0, R)
      BY DEF Ordered
    <3> QED
      BY <3>1
  <2> QED
    BY <1>2, <2>1
<1>4. ASSUME NEW n \in 1..N, n - 1 \in Good
      PROVE  n \in Good
  <2> SUFFICES ASSUME NEW S \in SUBSET U, Cardinality(S) = n
               PROVE  Listed(n, S)
    OBVIOUS
  <2>1. S # {}
    BY <1>2, FS_EmptySet
  <2>2. PICK first \in S : \A other \in S \ {first} : <<first, other>> \in R
    BY <2>1
  <2> DEFINE rest == S \ {first}
  <2>3. Cardinality(rest) = n - 1 /\ rest \in SUBSET U
    BY <1>1, FS_RemoveElement
  <2>4. PICK t \in [1..(n - 1) -> rest] : Ordered(t, n - 1, R)
    BY <1>4, <2>3
  <2> DEFINE s == [i \in 1..n |-> IF i = 1 THEN first ELSE t[i - 1]]
  <2>5. s \in [1..n -> S]
    <3>1. \A i \in 1..n : i # 1 => i - 1 \in 1..(n - 1)
      BY <1>2
    <3>2. \A i \in 1..n : i # 1 => t[i - 1] \in S
      BY <2>4, <3>1
    <3> QED
      BY <3>2
  <2>6. ASSUME NEW i \in 1..n, NEW j \in 1..n, i < j
        PROVE  <<s[i], s[j]>> \in R
    <3>1. j - 1 \in 1..(n - 1) /\ j # 1 /\ (i # 1 => i - 1 \in 1..(n - 1) /\ i - 1 < j - 1)
      BY <1>2, <2>6
    <3>2. t[j - 1] \in rest /\ (i # 1 => <<t[i - 1], t[j - 1]>> \in R)
      BY <2>4, <3>1 DEF Ordered
    <3> QED
      BY <2>2, <3>1, <3>2
  <2>7. Ordered(s, n, R)
    BY <2>6 DEF Ordered
  <2> QED
    BY <2>5, <2>7
<1>5. N \in Good
  <2> HIDE DEF Good
  <2> QED
    BY <1>2, <1>3, <1>4, UpTo
<1> QED
  BY <1>5

\* A list in a strict order that is as long as the set is large holds every
\* element of it.
LEMMA ListCovers ==
  ASSUME NEW R, NEW U, IsFiniteSet(U), \A x \in U : <<x, x>> \notin R,
         NEW s \in [1..Cardinality(U) -> U], Ordered(s, Cardinality(U), R)
  PROVE  /\ s \in Seq(U) /\ Len(s) = Cardinality(U)
         /\ \A x \in U : \E i \in 1..Len(s) : s[i] = x
<1> DEFINE n == Cardinality(U)
<1>1. n \in Nat
  BY FS_CardinalityType
<1>2. s \in Seq(U) /\ Len(s) = n
  BY <1>1
<1> HIDE DEF n
<1>3. ASSUME NEW i \in 1..n, NEW j \in 1..n, s[i] = s[j]
      PROVE  i = j
  <2>1. s[i] \in U /\ s[j] \in U
    BY DEF n
  <2>2. ~ (i < j) /\ ~ (j < i)
    BY <1>3, <2>1 DEF Ordered, n
  <2> QED
    BY <1>1, <2>2
<1>4. s \in Injection(1..n, U)
  BY <1>3 DEF Injection, IsInjective, n
<1>5. IsFiniteSet(1..n) /\ Cardinality(1..n) = n
  BY <1>1, FS_Interval
<1>6. s \in Surjection(1..n, U)
  BY <1>4, <1>5, FS_Injection DEF n
<1> QED
  BY <1>2, <1>6 DEF Surjection, n

-----------------------------------------------------------------------------
(* Folds.  The step of a fold is given as a function, of a state of S and an *)
(* item of T.                                                                *)

\* FoldLeft of the library recurs over the subsets of a domain.
FoldLoop(h, g, b, seq) ==
  h = [s \in SUBSET DOMAIN seq |->
         IF s = {} THEN b ELSE g[seq[Max(s)]][h[s \ {Max(s)}]]]

\* Such a function exists.
LEMMA FoldExists ==
  ASSUME NEW S, NEW T, NEW g \in [T -> [S -> S]], NEW b \in S, NEW seq \in Seq(T)
  PROVE  \E h \in [SUBSET DOMAIN seq -> S] : FoldLoop(h, g, b, seq)
<1> DEFINE n == Len(seq)
           D(k) == SUBSET (1..k)
           Step(h, s) == IF s = {} THEN b ELSE g[seq[Max(s)]][h[s \ {Max(s)}]]
           Fits(k, h) == h \in [D(k) -> S] /\ \A s \in D(k) : h[s] = Step(h, s)
           Good == {k \in 0..n : \E h : Fits(k, h)}
<1>1. n \in Nat /\ DOMAIN seq = 1..n /\ \A i \in 1..n : seq[i] \in T
  OBVIOUS
<1>2. 0 \in Good
  <2> DEFINE h == [s \in D(0) |-> b]
  <2>1. \A s \in D(0) : s = {}
    OBVIOUS
  <2>2. Fits(0, h)
    BY <2>1
  <2> HIDE DEF Fits
  <2> QED
    BY <1>1, <2>2
<1>3. ASSUME NEW k \in 1..n, k - 1 \in Good
      PROVE  k \in Good
  <2> DEFINE m == k - 1
  <2>1. PICK h \in [D(m) -> S] : \A s \in D(m) : h[s] = Step(h, s)
    BY <1>3
  <2> DEFINE e == [s \in D(k) |-> Step(h, s)]
  <2>2. ASSUME NEW s \in D(k), s # {}
        PROVE  /\ Max(s) \in s /\ Max(s) \in 1..k
               /\ s \ {Max(s)} \in D(m)
    <3>1. k \in Nat /\ s \subseteq 0..k
      BY <1>1
    <3>2. Max(s) \in s /\ \A y \in s : y <= Max(s)
      BY <2>2, <3>1, LargestNat
    <3>3. \A y \in s \ {Max(s)} : y \in 1..k /\ y <= Max(s) /\ y # Max(s) /\ Max(s) \in 1..k
      BY <3>2
    <3>4. \A y \in s \ {Max(s)} : y \in 1..m
      BY <3>3
    <3> QED
      BY <3>2, <3>4
  <2>3. ASSUME NEW s \in D(k) PROVE Step(h, s) \in S
    <3>1. CASE s = {}
      BY <3>1
    <3>2. CASE s # {}
      <4>1. h[s \ {Max(s)}] \in S /\ seq[Max(s)] \in T
        <5>1. Max(s) \in 1..n
          BY <1>1, <2>2, <3>2
        <5> QED
          BY <1>1, <2>1, <2>2, <3>2, <5>1
      <4> QED
        BY <3>2, <4>1
    <3> QED
      BY <3>1, <3>2
  <2>4. e \in [D(k) -> S]
    BY <2>3
  <2>5. \A s \in D(m) : e[s] = h[s]
    <3>1. D(m) \subseteq D(k)
      BY <1>1
    <3> QED
      BY <2>1, <3>1
  <2>6. ASSUME NEW s \in D(k) PROVE e[s] = Step(e, s)
    <3>1. CASE s = {}
      BY <3>1
    <3>2. CASE s # {}
      <4>1. e[s \ {Max(s)}] = h[s \ {Max(s)}]
        BY <2>2, <2>5, <3>2
      <4> QED
        BY <3>2, <4>1
    <3> QED
      BY <3>1, <3>2
  <2>7. Fits(k, e)
    <3> HIDE DEF e, Step, D
    <3> QED
      BY <2>4, <2>6
  <2> HIDE DEF Fits
  <2> QED
    BY <2>7
<1>4. n \in Good
  <2>1. n \in Nat
    BY <1>1
  <2> HIDE DEF Good, n
  <2>2. \A i \in 0..n : i \in Good
    BY <2>1, <1>2, <1>3, UpTo
  <2> QED
    BY <2>1, <2>2
<1>5. PICK h \in [D(n) -> S] : \A s \in D(n) : h[s] = Step(h, s)
  BY <1>4
<1>6. h = [s \in D(n) |-> Step(h, s)]
  <2> HIDE DEF Step, D
  <2> QED
    BY <1>5
<1>7. FoldLoop(h, g, b, seq)
  BY <1>1, <1>6 DEF FoldLoop
<1> QED
  BY <1>1, <1>5, <1>7

\* The first i places of a list.
LEMMA Segments ==
  ASSUME NEW n \in Nat, NEW i \in 1..n
  PROVE  /\ 1..i \in SUBSET (1..n) /\ 1..i # {} /\ 1..(i - 1) \in SUBSET (1..n)
         /\ Max(1..i) = i
         /\ (1..i) \ {i} = 1..(i - 1)
<1>1. 1..i \subseteq 0..i /\ i \in 1..i /\ i \in Nat
  OBVIOUS
<1>2. Max(1..i) \in 1..i /\ \A y \in 1..i : y <= Max(1..i)
  BY <1>1, LargestNat
<1> QED
  BY <1>1, <1>2

-----------------------------------------------------------------------------
(* Sums. *)

\* The sum of a list is reached term by term.
LEMMA SumRun ==
  ASSUME NEW seq \in Seq(Nat)
  PROVE  \E f \in [0..Len(seq) -> Nat] :
           /\ f[0] = 0
           /\ \A i \in 1..Len(seq) : f[i] = f[i - 1] + seq[i]
           /\ Total(seq) = f[Len(seq)]
<1> DEFINE Loop(h) ==
             h = [s \in SUBSET DOMAIN seq |->
                    IF s = {} THEN 0 ELSE h[s \ {Max(s)}] + seq[Max(s)]]
           n == Len(seq)
<1>1. \E h : Loop(h)
  <2> DEFINE g == [x \in Nat |-> [y \in Nat |-> y + x]]
  <2>1. g \in [Nat -> [Nat -> Nat]]
    OBVIOUS
  <2>2. PICK h \in [SUBSET DOMAIN seq -> Nat] : FoldLoop(h, g, 0, seq)
    <3> HIDE DEF g
    <3> QED
      BY <2>1, FoldExists
  <2>3. ASSUME NEW s \in SUBSET DOMAIN seq, s # {}
        PROVE  g[seq[Max(s)]][h[s \ {Max(s)}]] = h[s \ {Max(s)}] + seq[Max(s)]
    <3>1. s \subseteq 0..n /\ n \in Nat
      OBVIOUS
    <3>2. Max(s) \in DOMAIN seq
      BY <2>3, <3>1, LargestNat
    <3>3. seq[Max(s)] \in Nat
      BY <3>2
    <3>4. s \ {Max(s)} \in SUBSET DOMAIN seq
      OBVIOUS
    <3>5. h[s \ {Max(s)}] \in Nat
      BY <2>2, <3>4, Zenon
    <3> QED
      BY <3>3, <3>5
  <2>4. Loop(h)
    <3> HIDE DEF g
    <3> QED
      BY <2>2, <2>3 DEF FoldLoop
  <2> QED
    BY <2>4
<1> DEFINE h == CHOOSE h : Loop(h)
           f == [i \in 0..n |-> h[1..i]]
<1>2. Loop(h)
  BY <1>1
<1>3. Total(seq) = h[DOMAIN seq]
  BY DEF Total, FoldLeft, MapThenFoldSet
<1>4. n \in Nat /\ DOMAIN seq = 1..n /\ \A i \in 1..n : seq[i] \in Nat
  OBVIOUS
<1> HIDE DEF h, n
<1>5. h[{}] = 0
  BY <1>2, <1>4
<1>6. ASSUME NEW i \in 1..n
      PROVE  h[1..i] = h[1..(i - 1)] + seq[i]
  <2> DEFINE s == 1..i
  <2>1. s \in SUBSET DOMAIN seq /\ s # {} /\ Max(s) = i /\ s \ {i} = 1..(i - 1)
    BY <1>4, Segments
  <2> HIDE DEF s
  <2>2. h[s] = h[s \ {Max(s)}] + seq[Max(s)]
    BY <1>2, <2>1
  <2> QED
    BY <2>1, <2>2 DEF s
<1>7. f[0] = 0
  <2>1. 1..0 = {} /\ 0 \in 0..n
    BY <1>4
  <2> QED
    BY <1>5, <2>1
<1>8. ASSUME NEW i \in 1..n
      PROVE  f[i] = f[i - 1] + seq[i]
  <2>1. i \in 0..n /\ i - 1 \in 0..n
    BY <1>4
  <2> QED
    BY <1>6, <2>1
<1>9. Total(seq) = f[n]
  BY <1>3, <1>4
<1>10. f = [i \in 0..n |-> f[i]]
  OBVIOUS
<1> HIDE DEF f
<1>11. \A i \in 0..n : f[i] \in Nat
  <2> DEFINE Good == {i \in 0..n : f[i] \in Nat}
  <2>1. 0 \in Good
    BY <1>4, <1>7
  <2>2. ASSUME NEW i \in 1..n, i - 1 \in Good
        PROVE  i \in Good
    BY <1>4, <1>8, <2>2
  <2> HIDE DEF Good
  <2>3. \A i \in 0..n : i \in Good
    BY <1>4, <2>1, <2>2, UpTo
  <2> QED
    BY <2>3 DEF Good
<1>12. f \in [0..n -> Nat]
  BY <1>10, <1>11
<1> QED
  BY <1>7, <1>8, <1>9, <1>12 DEF n

-----------------------------------------------------------------------------
(* Lists one after the other. *)

\* Two lists one after the other.
LEMMA Joined ==
  ASSUME NEW T, NEW x \in Seq(T), NEW y \in Seq(T)
  PROVE  /\ x \o y \in Seq(T)
         /\ Len(x \o y) = Len(x) + Len(y)
         /\ \A i \in 1..Len(x) : (x \o y)[i] = x[i]
         /\ \A i \in 1..Len(y) : (x \o y)[Len(x) + i] = y[i]
OBVIOUS

\* FlattenSeq of the library recurs over the lists.
FlattenLoop(f, seqs) ==
  f = [i \in 1..Len(seqs) |-> IF i = 1 THEN seqs[i] ELSE f[i - 1] \o seqs[i]]

LEMMA FlattenExists ==
  ASSUME NEW T, NEW seqs \in Seq(T)
  PROVE  \E f : FlattenLoop(f, seqs)
<1> DEFINE n == Len(seqs)
           Step(f, i) == IF i = 1 THEN seqs[i] ELSE f[i - 1] \o seqs[i]
           Fits(k, f) == f = [i \in 1..k |-> f[i]] /\ \A i \in 1..k : f[i] = Step(f, i)
           Good == {k \in 0..n : \E f : Fits(k, f)}
<1>1. n \in Nat
  OBVIOUS
<1>2. 0 \in Good
  <2> DEFINE f == [i \in 1..0 |-> i]
  <2>1. Fits(0, f)
    OBVIOUS
  <2> HIDE DEF Fits
  <2> QED
    BY <1>1, <2>1
<1>3. ASSUME NEW k \in 1..n, k - 1 \in Good
      PROVE  k \in Good
  <2> DEFINE m == k - 1
  <2>1. PICK f : Fits(m, f)
    <3> HIDE DEF Fits
    <3> QED
      BY <1>3
  <2> DEFINE e == [i \in 1..k |-> Step(f, i)]
  <2>2. \A i \in 1..m : e[i] = f[i]
    <3>1. \A i \in 1..m : f[i] = Step(f, i)
      BY <2>1
    <3>2. 1..m \subseteq 1..k
      BY <1>1
    <3> HIDE DEF Step
    <3> QED
      BY <3>1, <3>2
  <2>3. ASSUME NEW i \in 1..k PROVE e[i] = Step(e, i)
    <3>1. CASE i = 1
      BY <3>1
    <3>2. CASE i # 1
      <4>1. i - 1 \in 1..m
        BY <1>1, <3>2
      <4>2. e[i - 1] = f[i - 1]
        BY <2>2, <4>1
      <4> QED
        BY <3>2, <4>2
    <3> QED
      BY <3>1, <3>2
  <2>4. e = [i \in 1..k |-> e[i]]
    OBVIOUS
  <2>5. Fits(k, e)
    <3> HIDE DEF e, Step
    <3> QED
      BY <2>3, <2>4
  <2> HIDE DEF Fits
  <2> QED
    BY <2>5
<1>4. n \in Good
  <2>1. n \in Nat
    BY <1>1
  <2> HIDE DEF Good, n
  <2>2. \A i \in 0..n : i \in Good
    BY <2>1, <1>2, <1>3, UpTo
  <2> QED
    BY <2>1, <2>2
<1>5. PICK f : Fits(n, f)
  <2> HIDE DEF Fits
  <2> QED
    BY <1>4
<1>6. f = [i \in 1..n |-> Step(f, i)]
  <2> HIDE DEF Step
  <2> QED
    BY <1>5
<1>7. FlattenLoop(f, seqs)
  BY <1>6 DEF FlattenLoop
<1> QED
  BY <1>7

\* A list that never falls.
LEMMA Rising ==
  ASSUME NEW n \in Nat, NEW at \in [0..n -> Nat], \A i \in 1..n : at[i - 1] <= at[i]
  PROVE  \A j \in 0..n : \A i \in j..n : at[j] <= at[i]
<1> TAKE j \in 0..n
<1> DEFINE Good == {i \in 0..n : j <= i => at[j] <= at[i]}
<1>1. 0 \in Good
  OBVIOUS
<1>2. ASSUME NEW i \in 1..n, i - 1 \in Good
      PROVE  i \in Good
  <2>1. at[i - 1] \in Nat /\ at[i] \in Nat /\ at[i - 1] <= at[i] /\ at[j] \in Nat
    OBVIOUS
  <2> QED
    BY <1>2, <2>1
<1> HIDE DEF Good
<1>3. \A i \in 0..n : i \in Good
  BY <1>1, <1>2, UpTo
<1> QED
  BY <1>3 DEF Good

\* Every item of every list is in its place.
LEMMA FlattenShape ==
  ASSUME NEW T, NEW seqs \in Seq(Seq(T))
  PROVE  /\ FlattenSeq(seqs) \in Seq(T)
         /\ \E at \in [0..Len(seqs) -> Nat] :
              /\ at[0] = 0
              /\ \A i \in 1..Len(seqs) : at[i] = at[i - 1] + Len(seqs[i])
              /\ \A j \in 0..Len(seqs) : \A i \in j..Len(seqs) : at[j] <= at[i]
              /\ Len(FlattenSeq(seqs)) = at[Len(seqs)]
              /\ \A i \in 1..Len(seqs) : \A k \in 1..Len(seqs[i]) :
                   FlattenSeq(seqs)[at[i - 1] + k] = seqs[i][k]
<1> DEFINE n == Len(seqs)
           S == Seq(T)
           lens == [i \in 1..n |-> Len(seqs[i])]
<1>1. n \in Nat /\ \A i \in 1..n : seqs[i] \in S /\ Len(seqs[i]) \in Nat
  OBVIOUS
<1>2. lens \in Seq(Nat) /\ Len(lens) = n /\ \A i \in 1..n : lens[i] = Len(seqs[i])
  BY <1>1
<1>3. PICK at \in [0..n -> Nat] : at[0] = 0 /\ \A i \in 1..n : at[i] = at[i - 1] + lens[i]
  <2> HIDE DEF lens
  <2> QED
    BY <1>2, SumRun
<1>4. \A i \in 1..n : at[i] = at[i - 1] + Len(seqs[i])
  BY <1>2, <1>3
<1> HIDE DEF lens
<1>5. \A i \in 1..n : at[i] \in Nat /\ at[i - 1] \in Nat /\ at[i - 1] <= at[i]
  <2> TAKE i \in 1..n
  <2>1. i - 1 \in 0..n /\ i \in 0..n
    BY <1>1
  <2>2. at[i] \in Nat /\ at[i - 1] \in Nat
    BY <2>1
  <2> DEFINE a == at[i - 1]
             b == Len(seqs[i])
  <2>3. a \in Nat /\ b \in Nat /\ at[i] = a + b
    BY <1>1, <1>4, <2>2
  <2> HIDE DEF a, b
  <2>4. a <= at[i]
    BY <2>3
  <2> QED
    BY <2>2, <2>4 DEF a
<1>6. \A j \in 0..n : \A i \in j..n : at[j] <= at[i]
  BY <1>1, <1>5, Rising
<1>7. CASE n = 0
  <2>1. seqs = <<>> /\ FlattenSeq(seqs) = seqs
    BY <1>7 DEF FlattenSeq
  <2>2. FlattenSeq(seqs) \in Seq(T) /\ Len(FlattenSeq(seqs)) = 0
    <3>1. <<>> \in Seq(T) /\ Len(<<>>) = 0
      OBVIOUS
    <3> QED
      BY <2>1, <3>1, Zenon
  <2>3. 1..n = {}
    BY <1>7
  <2> QED
    BY <1>3, <1>4, <1>6, <1>7, <2>2, <2>3
<1>8. CASE n # 0
  <2> DEFINE f == CHOOSE f : FlattenLoop(f, seqs)
  <2>1. FlattenLoop(f, seqs)
    BY FlattenExists
  <2>2. FlattenSeq(seqs) = f[n]
    BY <1>8 DEF FlattenSeq, FlattenLoop
  <2> HIDE DEF f
  <2>3. f[1] = seqs[1] /\ \A i \in 2..n : f[i] = f[i - 1] \o seqs[i]
    <3> DEFINE Step(i) == IF i = 1 THEN seqs[i] ELSE f[i - 1] \o seqs[i]
    <3>1. f = [i \in 1..n |-> Step(i)]
      BY <2>1 DEF FlattenLoop
    <3>2. 1 \in 1..n /\ 2..n \subseteq 1..n
      BY <1>1, <1>8
    <3> HIDE DEF Step, n
    <3>3. f[1] = Step(1) /\ \A i \in 2..n : f[i] = Step(i)
      BY <3>1, <3>2
    <3>4. \A i \in 2..n : i # 1
      BY <1>1
    <3> QED
      BY <3>3, <3>4, Zenon DEF Step
  <2> HIDE DEF n
  <2> DEFINE Fits(i) == /\ f[i] \in S /\ Len(f[i]) = at[i]
                        /\ \A j \in 1..i : \A k \in 1..Len(seqs[j]) :
                             f[i][at[j - 1] + k] = seqs[j][k]
             Good == {i \in 0..n : i # 0 => Fits(i)}
  <2>4. 0 \in Good
    BY <1>1
  <2>5. ASSUME NEW i \in 1..n, i - 1 \in Good
        PROVE  i \in Good
    <3>1. CASE i = 1
      <4>1. f[1] = seqs[1] /\ f[1] \in S /\ 1 \in 1..n
        BY <1>1, <2>3, <3>1
      <4>2. Len(f[1]) = at[1]
        BY <1>1, <1>3, <1>4, <4>1
      <4>3. \A k \in 1..Len(seqs[1]) : f[1][at[1 - 1] + k] = seqs[1][k]
        BY <1>3, <4>1
      <4>4. \A j \in 1..1 : j = 1
        OBVIOUS
      <4>5. Fits(1)
        <5> HIDE DEF S
        <5> QED
          BY <4>1, <4>2, <4>3, <4>4, Zenon
      <4> HIDE DEF Fits
      <4> QED
        BY <3>1, <4>5
    <3>2. CASE i # 1
      <4> DEFINE h == i - 1
                 x == f[h]
                 y == seqs[i]
      <4>1. h \in 1..n /\ h \in 0..n /\ i \in 2..n /\ h # 0 /\ i \in 0..n
        BY <1>1, <3>2
      <4>2. Fits(h)
        <5> HIDE DEF Fits
        <5> QED
          BY <2>5, <4>1
      <4>3. f[i] = x \o y /\ x \in Seq(T) /\ y \in Seq(T)
        BY <1>1, <2>3, <4>1, <4>2
      <4>4. Len(x) = at[h] /\ at[h] \in Nat /\ at[i] = at[h] + Len(y)
        BY <1>4, <1>5, <4>2
      <4> HIDE DEF x, y
      <4>5. /\ x \o y \in S /\ Len(x \o y) = Len(x) + Len(y)
            /\ \A k \in 1..Len(x) : (x \o y)[k] = x[k]
            /\ \A k \in 1..Len(y) : (x \o y)[Len(x) + k] = y[k]
        BY <4>3, Joined
      <4>6. f[i] \in S /\ Len(f[i]) = at[i]
        BY <4>3, <4>4, <4>5, Zenon
      <4>7. ASSUME NEW j \in 1..i, NEW k \in 1..Len(seqs[j])
            PROVE  f[i][at[j - 1] + k] = seqs[j][k]
        <5>1. CASE j = i
          BY <4>3, <4>4, <4>5, <5>1 DEF y
        <5>2. CASE j # i
          <6>1. j \in 1..h /\ j \in 1..n /\ h \in j..n /\ j \in 0..n
            BY <1>1, <5>2
          <6>2. x[at[j - 1] + k] = seqs[j][k]
            BY <4>2, <6>1 DEF x
          <6>3. at[j] = at[j - 1] + Len(seqs[j]) /\ at[j] <= at[h] /\ at[j - 1] \in Nat
                /\ at[j] \in Nat /\ Len(seqs[j]) \in Nat
            BY <1>1, <1>4, <1>5, <1>6, <6>1
          <6>4. at[j - 1] + k \in 1..Len(x)
            <7> DEFINE a == at[j - 1]
                       b == Len(seqs[j])
                       c == at[h]
            <7>1. a \in Nat /\ b \in Nat /\ c \in Nat /\ a + b <= c /\ k \in 1..b /\ Len(x) = c
              BY <4>4, <6>3
            <7> HIDE DEF a, b, c
            <7>2. a + k \in 1..Len(x)
              BY <7>1
            <7> QED
              BY <7>2 DEF a
          <6> QED
            BY <4>3, <4>5, <6>2, <6>4
        <5> QED
          BY <5>1, <5>2
      <4>8. Fits(i)
        <5> HIDE DEF S
        <5> QED
          BY <4>6, <4>7
      <4> HIDE DEF Fits
      <4> QED
        BY <4>1, <4>8
    <3> QED
      BY <3>1, <3>2
  <2> HIDE DEF Good
  <2>6. \A i \in 0..n : i \in Good
    BY <1>1, <2>4, <2>5, UpTo
  <2>7. Fits(n)
    <3>1. n \in Good
      BY <1>1, <2>6
    <3> HIDE DEF Fits
    <3> QED
      BY <1>8, <3>1 DEF Good
  <2> QED
    BY <1>3, <1>4, <1>6, <2>2, <2>7 DEF n
<1> QED
  BY <1>7, <1>8

-----------------------------------------------------------------------------
(* The sweep for the first gap. *)

Intervals == Nat \X Nat

Covers(interval, v) == interval[1] <= v /\ v < interval[2]

Sweeps == [candidate : Nat, stopped : BOOLEAN]

LEMMA SweepType ==
  ASSUME NEW sweep \in Sweeps, NEW interval \in Intervals
  PROVE  Sweep(sweep, interval) \in Sweeps
BY DEF Sweep, Sweeps, Intervals

\* The turns of the loop in first_free.
LEMMA SweepRun ==
  ASSUME NEW b \in Sweeps, NEW seq \in Seq(Intervals)
  PROVE  \E f : /\ f[0] = b
                /\ \A i \in 1..Len(seq) : f[i] = Sweep(f[i - 1], seq[i])
                /\ FoldLeft(Sweep, b, seq) = f[Len(seq)]
<1> DEFINE Loop(h) ==
             h = [s \in SUBSET DOMAIN seq |->
                    IF s = {} THEN b ELSE Sweep(h[s \ {Max(s)}], seq[Max(s)])]
           n == Len(seq)
<1>1. \E h : Loop(h)
  <2> DEFINE g == [x \in Intervals |-> [y \in Sweeps |-> Sweep(y, x)]]
  <2>1. g \in [Intervals -> [Sweeps -> Sweeps]]
    BY SweepType
  <2>2. PICK h \in [SUBSET DOMAIN seq -> Sweeps] : FoldLoop(h, g, b, seq)
    <3> HIDE DEF g
    <3> QED
      BY <2>1, FoldExists
  <2>3. ASSUME NEW s \in SUBSET DOMAIN seq, s # {}
        PROVE  g[seq[Max(s)]][h[s \ {Max(s)}]] = Sweep(h[s \ {Max(s)}], seq[Max(s)])
    <3>1. s \subseteq 0..n /\ n \in Nat
      OBVIOUS
    <3>2. Max(s) \in DOMAIN seq
      BY <2>3, <3>1, LargestNat
    <3>3. seq[Max(s)] \in Intervals
      BY <3>2
    <3>4. s \ {Max(s)} \in SUBSET DOMAIN seq
      OBVIOUS
    <3>5. h[s \ {Max(s)}] \in Sweeps
      BY <2>2, <3>4, Zenon
    <3> QED
      BY <3>3, <3>5
  <2>4. Loop(h)
    <3> HIDE DEF g
    <3> QED
      BY <2>2, <2>3 DEF FoldLoop
  <2> QED
    BY <2>4
<1> DEFINE h == CHOOSE h : Loop(h)
           f == [i \in 0..n |-> h[1..i]]
<1>2. Loop(h)
  BY <1>1
<1>3. FoldLeft(Sweep, b, seq) = h[DOMAIN seq]
  BY DEF FoldLeft, MapThenFoldSet
<1>4. n \in Nat /\ DOMAIN seq = 1..n
  OBVIOUS
<1> HIDE DEF h, n
<1>5. h[{}] = b
  BY <1>2, <1>4
<1>6. ASSUME NEW i \in 1..n
      PROVE  h[1..i] = Sweep(h[1..(i - 1)], seq[i])
  <2> DEFINE s == 1..i
  <2>1. s \in SUBSET DOMAIN seq /\ s # {} /\ Max(s) = i /\ s \ {i} = 1..(i - 1)
    BY <1>4, Segments
  <2> HIDE DEF s
  <2>2. h[s] = Sweep(h[s \ {Max(s)}], seq[Max(s)])
    BY <1>2, <2>1
  <2> QED
    BY <2>1, <2>2 DEF s
<1>7. f[0] = b
  <2>1. 1..0 = {} /\ 0 \in 0..n
    BY <1>4
  <2> QED
    BY <1>5, <2>1
<1>8. ASSUME NEW i \in 1..n
      PROVE  f[i] = Sweep(f[i - 1], seq[i])
  <2>1. i \in 0..n /\ i - 1 \in 0..n
    BY <1>4
  <2> QED
    BY <1>6, <2>1
<1>9. FoldLeft(Sweep, b, seq) = f[n]
  BY <1>3, <1>4
<1> HIDE DEF f
<1> QED
  BY <1>7, <1>8, <1>9 DEF n

\* Intervals that are not empty, in order, with a gap between any two.
Separated(seq) ==
  /\ \A j \in 1..Len(seq) : seq[j][1] < seq[j][2]
  /\ \A j, k \in 1..Len(seq) : j < k => seq[j][2] < seq[k][1]

\* What the loop in first_free knows after i turns: every value below the
\* candidate is blocked, and the candidate itself is free of the intervals
\* passed or, once it has stopped, of all.
SweepInv(sweep, lo, seq, i) ==
  /\ sweep \in Sweeps
  /\ lo <= sweep.candidate
  /\ \A v \in Nat : lo <= v /\ v < sweep.candidate
        => \E j \in 1..Len(seq) : Covers(seq[j], v)
  /\ ~sweep.stopped => \A j \in 1..i : seq[j][2] <= sweep.candidate
  /\ sweep.stopped => \A j \in 1..Len(seq) : ~Covers(seq[j], sweep.candidate)

LEMMA SweepTurn ==
  ASSUME NEW lo \in Nat, NEW seq \in Seq(Intervals), Separated(seq),
         NEW i \in 1..Len(seq), NEW sweep, SweepInv(sweep, lo, seq, i - 1)
  PROVE  SweepInv(Sweep(sweep, seq[i]), lo, seq, i)
<1> DEFINE next == Sweep(sweep, seq[i])
           c == sweep.candidate
           n == Len(seq)
<1>1. /\ sweep \in Sweeps /\ c \in Nat /\ sweep.stopped \in BOOLEAN
      /\ lo <= c
      /\ n \in Nat
  BY DEF SweepInv, Sweeps
<1>2. \A j \in 1..n : seq[j][1] \in Nat /\ seq[j][2] \in Nat /\ seq[j] \in Intervals
  BY DEF Intervals
<1>3. next \in Sweeps
  BY <1>1, <1>2, SweepType
<1>4. CASE sweep.stopped
  <2>1. next = sweep
    BY <1>4 DEF Sweep
  <2> QED
    BY <1>4, <2>1 DEF SweepInv
<1>5. CASE ~sweep.stopped /\ seq[i][2] <= c
  <2>1. next = sweep
    BY <1>5 DEF Sweep
  <2>2. \A j \in 1..i : seq[j][2] <= c
    <3>1. \A j \in 1..(i - 1) : seq[j][2] <= c
      BY <1>5 DEF SweepInv
    <3>2. \A j \in 1..i : j = i \/ j \in 1..(i - 1)
      BY <1>1
    <3> QED
      BY <1>5, <3>1, <3>2
  <2> QED
    BY <1>5, <2>1, <2>2 DEF SweepInv
<1>6. CASE ~sweep.stopped /\ ~ (seq[i][2] <= c) /\ seq[i][1] > c
  <2>1. next = [sweep EXCEPT !.stopped = TRUE]
    BY <1>6 DEF Sweep
  <2>2. next.candidate = c /\ next.stopped
    BY <1>1, <2>1 DEF Sweeps
  <2>3. ASSUME NEW j \in 1..n PROVE ~Covers(seq[j], c)
    <3>1. CASE j < i
      <4>1. j \in 1..(i - 1)
        BY <1>1, <3>1
      <4>2. seq[j][2] <= c
        BY <1>6, <4>1 DEF SweepInv
      <4> QED
        BY <1>1, <1>2, <4>2 DEF Covers
    <3>2. CASE j = i
      BY <1>1, <1>2, <1>6, <3>2 DEF Covers
    <3>3. CASE i < j
      <4>1. seq[i][1] < seq[i][2] /\ seq[i][2] < seq[j][1]
        BY <1>1, <3>3 DEF Separated
      <4> QED
        BY <1>1, <1>2, <1>6, <4>1 DEF Covers
    <3> QED
      BY <1>1, <3>1, <3>2, <3>3
  <2> QED
    BY <1>1, <1>3, <2>2, <2>3 DEF SweepInv
<1>7. CASE ~sweep.stopped /\ ~ (seq[i][2] <= c) /\ ~ (seq[i][1] > c)
  <2>1. next = [sweep EXCEPT !.candidate = seq[i][2]]
    BY <1>7 DEF Sweep
  <2>2. next.candidate = seq[i][2] /\ ~next.stopped
    BY <1>1, <1>7, <2>1 DEF Sweeps
  <2> HIDE DEF next
  <2>3. c < seq[i][2] /\ seq[i][1] <= c
    BY <1>1, <1>2, <1>7
  <2>4. ASSUME NEW v \in Nat, lo <= v, v < seq[i][2]
        PROVE  \E j \in 1..n : Covers(seq[j], v)
    <3>1. CASE v < c
      BY <2>4, <3>1 DEF SweepInv
    <3>2. CASE ~ (v < c)
      <4>1. Covers(seq[i], v)
        BY <1>1, <1>2, <2>3, <2>4, <3>2 DEF Covers
      <4> QED
        BY <4>1
    <3> QED
      BY <3>1, <3>2
  <2>5. ASSUME NEW j \in 1..i PROVE seq[j][2] <= seq[i][2]
    <3>1. CASE j = i
      BY <1>2, <3>1
    <3>2. CASE j # i
      <4>1. j \in 1..(i - 1) /\ j \in 1..n
        BY <1>1, <3>2
      <4>2. seq[j][2] <= c
        BY <1>7, <4>1 DEF SweepInv
      <4> QED
        BY <1>1, <1>2, <2>3, <4>1, <4>2
    <3> QED
      BY <3>1, <3>2
  <2>6. lo <= seq[i][2]
    BY <1>1, <1>2, <2>3
  <2> QED
    BY <1>3, <2>2, <2>4, <2>5, <2>6 DEF SweepInv, next
<1> QED
  BY <1>1, <1>4, <1>5, <1>6, <1>7

\* first_free returns the smallest value that no interval covers.
LEMMA SweepFinds ==
  ASSUME NEW lo \in Nat, NEW hi, NEW seq \in Seq(Intervals), Separated(seq)
  PROVE  /\ FirstFree(<<lo, hi>>, seq) \in Nat
         /\ lo <= FirstFree(<<lo, hi>>, seq)
         /\ \A j \in 1..Len(seq) : ~Covers(seq[j], FirstFree(<<lo, hi>>, seq))
         /\ \A v \in Nat : lo <= v /\ v < FirstFree(<<lo, hi>>, seq)
               => \E j \in 1..Len(seq) : Covers(seq[j], v)
<1> DEFINE start == [candidate |-> lo, stopped |-> FALSE]
           n == Len(seq)
<1>1. start \in Sweeps /\ n \in Nat
  BY DEF Sweeps
<1>2. PICK f : /\ f[0] = start
               /\ \A i \in 1..n : f[i] = Sweep(f[i - 1], seq[i])
               /\ FoldLeft(Sweep, start, seq) = f[n]
  BY <1>1, SweepRun
<1>3. FirstFree(<<lo, hi>>, seq) = f[n].candidate
  BY <1>2 DEF FirstFree
<1> DEFINE Good == {i \in 0..n : SweepInv(f[i], lo, seq, i)}
<1>4. 0 \in Good
  <2>1. SweepInv(start, lo, seq, 0)
    <3>1. start.candidate = lo /\ start.stopped = FALSE
      OBVIOUS
    <3> HIDE DEF start
    <3> QED
      BY <1>1, <3>1 DEF SweepInv
  <2> QED
    BY <1>1, <1>2, <2>1
<1>5. ASSUME NEW i \in 1..n, i - 1 \in Good PROVE i \in Good
  <2>1. SweepInv(f[i - 1], lo, seq, i - 1)
    BY <1>5
  <2>2. SweepInv(Sweep(f[i - 1], seq[i]), lo, seq, i)
    BY <2>1, SweepTurn
  <2> QED
    BY <1>1, <1>2, <2>2
<1>6. n \in Good
  <2> HIDE DEF Good, n
  <2>1. \A i \in 0..n : i \in Good
    BY <1>1, <1>4, <1>5, UpTo
  <2> QED
    BY <1>1, <2>1
<1> DEFINE last == f[n]
<1>7. SweepInv(last, lo, seq, n)
  BY <1>6
<1> HIDE DEF last
<1>8. last.candidate \in Nat /\ last.stopped \in BOOLEAN /\ lo <= last.candidate
  BY <1>7 DEF SweepInv, Sweeps
<1>9. ASSUME NEW j \in 1..n PROVE ~Covers(seq[j], last.candidate)
  <2>1. CASE last.stopped
    BY <1>7, <2>1 DEF SweepInv
  <2>2. CASE ~last.stopped
    <3>1. seq[j][2] <= last.candidate /\ seq[j][2] \in Nat
      BY <1>7, <2>2 DEF SweepInv, Intervals
    <3> QED
      BY <1>8, <3>1 DEF Covers
  <2> QED
    BY <2>1, <2>2
<1>10. \A v \in Nat : lo <= v /\ v < last.candidate
          => \E j \in 1..n : Covers(seq[j], v)
  BY <1>7 DEF SweepInv
<1> QED
  BY <1>3, <1>8, <1>9, <1>10 DEF last

-----------------------------------------------------------------------------
(* Merging the intervals. *)

LEMMA MaxPair ==
  ASSUME NEW a \in Nat, NEW b \in Nat
  PROVE  Max({a, b}) = IF a >= b THEN a ELSE b
<1> DEFINE m == IF a >= b THEN a ELSE b
<1>1. m \in {a, b} /\ \A y \in {a, b} : m >= y
  OBVIOUS
<1>2. Max({a, b}) \in {a, b} /\ \A y \in {a, b} : Max({a, b}) >= y
  <2> HIDE DEF m
  <2> QED
    BY <1>1 DEF Max
<1> QED
  BY <1>2

LEMMA MinPair ==
  ASSUME NEW a \in Nat, NEW b \in Nat
  PROVE  Min({a, b}) = IF a <= b THEN a ELSE b
<1> DEFINE m == IF a <= b THEN a ELSE b
<1>1. m \in {a, b} /\ \A y \in {a, b} : m <= y
  OBVIOUS
<1>2. Min({a, b}) \in {a, b} /\ \A y \in {a, b} : Min({a, b}) <= y
  <2> HIDE DEF m
  <2> QED
    BY <1>1 DEF Min
<1> QED
  BY <1>2

LEMMA FrontShape ==
  ASSUME NEW S, NEW m \in Seq(S), m # <<>>
  PROVE  /\ Front(m) \in Seq(S)
         /\ Len(Front(m)) = Len(m) - 1
         /\ \A j \in 1..(Len(m) - 1) : Front(m)[j] = m[j]
<1> DEFINE k == Len(m) - 1
<1>1. k \in 0..Len(m)
  OBVIOUS
<1> HIDE DEF k
<1>2. SubSeq(m, 1, k) \in Seq(S)
  BY <1>1
<1>3. Len(SubSeq(m, 1, k)) = k
  BY <1>1
<1>4. \A j \in 1..k : SubSeq(m, 1, k)[j] = m[j]
  BY <1>1
<1> QED
  BY <1>2, <1>3, <1>4 DEF Front, k

Joins(merged, interval) == merged # <<>> /\ interval[1] <= merged[Len(merged)][2]

\* One turn of the merge: it widens the last interval or adds one.
LEMMA MergeShape ==
  ASSUME NEW m \in Seq(Intervals), NEW iv \in Intervals
  PROVE  LET r == MergeInterval(m, iv)
             n == Len(m) IN
         /\ r \in Seq(Intervals)
         /\ Joins(m, iv) => /\ Len(r) = n
                            /\ \A j \in 1..(n - 1) : r[j] = m[j]
                            /\ r[n][1] = m[n][1]
                            /\ r[n][2] = IF m[n][2] >= iv[2] THEN m[n][2] ELSE iv[2]
         /\ ~Joins(m, iv) => /\ Len(r) = n + 1
                             /\ \A j \in 1..n : r[j] = m[j]
                             /\ r[n + 1] = iv
<1> DEFINE r == MergeInterval(m, iv)
           n == Len(m)
<1>1. n \in Nat /\ iv[1] \in Nat /\ iv[2] \in Nat
  BY DEF Intervals
<1>2. CASE Joins(m, iv)
  <2> DEFINE front == Front(m)
             wide == <<m[n][1], Max({m[n][2], iv[2]})>>
  <2>1. n # 0 /\ n \in 1..n
    BY <1>1, <1>2 DEF Joins
  <2>2. m[n] \in Intervals
    BY <2>1
  <2>3. m[n][1] \in Nat /\ m[n][2] \in Nat
    BY <2>2 DEF Intervals
  <2>4. wide \in Intervals /\ wide[1] = m[n][1]
        /\ wide[2] = IF m[n][2] >= iv[2] THEN m[n][2] ELSE iv[2]
    BY <1>1, <2>3, MaxPair DEF Intervals
  <2>5. r = Append(front, wide)
    BY <1>2 DEF MergeInterval, Last, Joins
  <2>6. front \in Seq(Intervals) /\ Len(front) = n - 1
        /\ \A j \in 1..(n - 1) : front[j] = m[j]
    BY <1>2, FrontShape DEF Joins
  <2> HIDE DEF front, wide, r
  <2>7. r \in Seq(Intervals) /\ Len(r) = n
        /\ (\A j \in 1..(n - 1) : r[j] = m[j]) /\ r[n] = wide
    BY <1>1, <2>1, <2>4, <2>5, <2>6
  <2> QED
    BY <1>2, <2>4, <2>7 DEF r
<1>3. CASE ~Joins(m, iv)
  <2>1. r = Append(m, iv)
    BY <1>3 DEF MergeInterval, Last, Joins
  <2> QED
    BY <1>3, <2>1
<1> QED
  BY <1>2, <1>3

\* The turns of the merge loop in blocked_intervals.
LEMMA MergeRun ==
  ASSUME NEW seq \in Seq(Intervals)
  PROVE  \E f : /\ f[0] = <<>>
                /\ \A i \in 1..Len(seq) : f[i] = MergeInterval(f[i - 1], seq[i])
                /\ FoldLeft(MergeInterval, <<>>, seq) = f[Len(seq)]
<1> DEFINE Loop(h) ==
             h = [s \in SUBSET DOMAIN seq |->
                    IF s = {} THEN <<>> ELSE MergeInterval(h[s \ {Max(s)}], seq[Max(s)])]
           n == Len(seq)
           Lists == Seq(Intervals)
<1>1. \E h : Loop(h)
  <2> DEFINE g == [x \in Intervals |-> [y \in Lists |-> MergeInterval(y, x)]]
  <2>1. g \in [Intervals -> [Lists -> Lists]]
    BY MergeShape
  <2>2. PICK h \in [SUBSET DOMAIN seq -> Lists] : FoldLoop(h, g, <<>>, seq)
    <3>1. <<>> \in Lists
      OBVIOUS
    <3> HIDE DEF g, Lists
    <3> QED
      BY <2>1, <3>1, FoldExists
  <2>3. ASSUME NEW s \in SUBSET DOMAIN seq, s # {}
        PROVE  g[seq[Max(s)]][h[s \ {Max(s)}]]
                 = MergeInterval(h[s \ {Max(s)}], seq[Max(s)])
    <3>1. s \subseteq 0..n /\ n \in Nat
      OBVIOUS
    <3>2. Max(s) \in DOMAIN seq
      BY <2>3, <3>1, LargestNat
    <3>3. seq[Max(s)] \in Intervals
      BY <3>2
    <3>4. s \ {Max(s)} \in SUBSET DOMAIN seq
      OBVIOUS
    <3> HIDE DEF Lists
    <3>5. h[s \ {Max(s)}] \in Lists
      BY <2>2, <3>4, Zenon
    <3> QED
      BY <3>3, <3>5
  <2>4. Loop(h)
    <3> HIDE DEF g
    <3> QED
      BY <2>2, <2>3 DEF FoldLoop
  <2> QED
    BY <2>4
<1> DEFINE h == CHOOSE h : Loop(h)
           f == [i \in 0..n |-> h[1..i]]
<1>2. Loop(h)
  BY <1>1
<1>3. FoldLeft(MergeInterval, <<>>, seq) = h[DOMAIN seq]
  BY DEF FoldLeft, MapThenFoldSet
<1>4. n \in Nat /\ DOMAIN seq = 1..n
  OBVIOUS
<1> HIDE DEF h, n
<1>5. h[{}] = <<>>
  BY <1>2, <1>4
<1>6. ASSUME NEW i \in 1..n
      PROVE  h[1..i] = MergeInterval(h[1..(i - 1)], seq[i])
  <2> DEFINE s == 1..i
  <2>1. s \in SUBSET DOMAIN seq /\ s # {} /\ Max(s) = i /\ s \ {i} = 1..(i - 1)
    BY <1>4, Segments
  <2> HIDE DEF s
  <2>2. h[s] = MergeInterval(h[s \ {Max(s)}], seq[Max(s)])
    BY <1>2, <2>1
  <2> QED
    BY <2>1, <2>2 DEF s
<1>7. f[0] = <<>>
  <2>1. 1..0 = {} /\ 0 \in 0..n
    BY <1>4
  <2> QED
    BY <1>5, <2>1
<1>8. ASSUME NEW i \in 1..n
      PROVE  f[i] = MergeInterval(f[i - 1], seq[i])
  <2>1. i \in 0..n /\ i - 1 \in 0..n
    BY <1>4
  <2> QED
    BY <1>6, <2>1
<1>9. FoldLeft(MergeInterval, <<>>, seq) = f[n]
  BY <1>3, <1>4
<1> HIDE DEF f
<1> QED
  BY <1>7, <1>8, <1>9 DEF n

\* What the merge knows after i turns: its intervals cover the same values as
\* the first i, are separated, and end with one that starts no later than the
\* last of these.
MergeInv(m, seq, i) ==
  /\ m \in Seq(Intervals)
  /\ Separated(m)
  /\ i = 0 => m = <<>>
  /\ i > 0 => m # <<>> /\ m[Len(m)][1] <= seq[i][1]
  /\ \A v \in Nat : (\E j \in 1..Len(m) : Covers(m[j], v))
                      <=> (\E j \in 1..i : Covers(seq[j], v))

\* The intervals are not empty and their starts do not decrease.
StartsAscend(seq) ==
  /\ \A j \in 1..Len(seq) : seq[j][1] < seq[j][2]
  /\ \A j, k \in 1..Len(seq) : j < k => seq[j][1] <= seq[k][1]

LEMMA MergeTurn ==
  ASSUME NEW seq \in Seq(Intervals), StartsAscend(seq),
         NEW i \in 1..Len(seq), NEW m, MergeInv(m, seq, i - 1)
  PROVE  MergeInv(MergeInterval(m, seq[i]), seq, i)
<1> DEFINE iv == seq[i]
           r == MergeInterval(m, iv)
           n == Len(m)
<1>1. /\ m \in Seq(Intervals) /\ n \in Nat /\ i \in Nat /\ i > 0
      /\ iv \in Intervals /\ iv[1] \in Nat /\ iv[2] \in Nat /\ iv[1] < iv[2]
  <2>1. iv \in Intervals /\ iv[1] < iv[2] /\ m \in Seq(Intervals)
    BY DEF MergeInv, StartsAscend
  <2> QED
    BY <2>1 DEF Intervals
<1>2. \A j \in 1..n : m[j] \in Intervals /\ m[j][1] \in Nat /\ m[j][2] \in Nat
  BY <1>1 DEF Intervals
<1>3. /\ r \in Seq(Intervals)
      /\ Joins(m, iv) => /\ Len(r) = n
                         /\ \A j \in 1..(n - 1) : r[j] = m[j]
                         /\ r[n][1] = m[n][1]
                         /\ r[n][2] = IF m[n][2] >= iv[2] THEN m[n][2] ELSE iv[2]
      /\ ~Joins(m, iv) => /\ Len(r) = n + 1
                          /\ \A j \in 1..n : r[j] = m[j]
                          /\ r[n + 1] = iv
  BY <1>1, MergeShape
<1>4. Separated(m)
  BY DEF MergeInv
<1>5. m # <<>> => n \in 1..n /\ m[n][1] <= iv[1]
  <2> SUFFICES ASSUME m # <<>> PROVE n \in 1..n /\ m[n][1] <= iv[1]
    OBVIOUS
  <2>1. n \in 1..n
    BY <1>1
  <2>2. i - 1 > 0 /\ i - 1 \in 1..Len(seq) /\ i - 1 < i
    BY <1>1 DEF MergeInv
  <2>3. m[n][1] <= seq[i - 1][1]
    BY <2>2 DEF MergeInv
  <2>4. seq[i - 1][1] <= iv[1]
    BY <2>2 DEF StartsAscend
  <2>5. seq[i - 1][1] \in Nat
    BY <2>2 DEF Intervals
  <2> QED
    BY <1>1, <1>2, <2>1, <2>3, <2>4, <2>5
<1>6. \A v \in Nat : (\E j \in 1..i : Covers(seq[j], v))
                       <=> (\E j \in 1..n : Covers(m[j], v)) \/ Covers(iv, v)
  <2>1. \A j : j \in 1..i <=> j \in 1..(i - 1) \/ j = i
    BY <1>1
  <2>2. \A v \in Nat : (\E j \in 1..n : Covers(m[j], v))
                         <=> (\E j \in 1..(i - 1) : Covers(seq[j], v))
    BY DEF MergeInv
  <2> HIDE DEF n
  <2> QED
    BY <2>1, <2>2
<1> HIDE DEF r, n, iv
<1>7. CASE Joins(m, iv)
  <2>1. /\ m # <<>> /\ n \in 1..n /\ iv[1] <= m[n][2] /\ m[n][1] <= iv[1]
    BY <1>5, <1>7 DEF Joins, n
  <2>2. m[n][1] < m[n][2]
    BY <1>4, <2>1 DEF Separated, n
  <2>3. \A j : j \in 1..n <=> j \in 1..(n - 1) \/ j = n
    BY <1>1, <2>1
  <2>4. Len(r) = n /\ (\A j \in 1..(n - 1) : r[j] = m[j]) /\ r[n][1] = m[n][1]
        /\ r[n][2] \in Nat /\ m[n][2] <= r[n][2] /\ iv[2] <= r[n][2]
        /\ (r[n][2] = m[n][2] \/ r[n][2] = iv[2])
    BY <1>1, <1>2, <1>3, <1>7, <2>1
  <2>5. Separated(r)
    <3>1. ASSUME NEW j \in 1..n PROVE r[j][1] < r[j][2]
      <4>1. CASE j = n
        BY <1>2, <2>1, <2>2, <2>4, <4>1
      <4>2. CASE j # n
        BY <1>4, <2>3, <2>4, <4>2 DEF Separated, n
      <4> QED
        BY <4>1, <4>2
    <3>2. ASSUME NEW j \in 1..n, NEW k \in 1..n, j < k PROVE r[j][2] < r[k][1]
      <4>1. j \in 1..(n - 1)
        BY <1>1, <3>2
      <4>2. r[j] = m[j] /\ r[k][1] = m[k][1]
        BY <2>3, <2>4, <4>1
      <4> QED
        BY <1>4, <3>2, <4>2 DEF Separated, n
    <3> QED
      BY <2>4, <3>1, <3>2 DEF Separated
  <2>6. ASSUME NEW v \in Nat
        PROVE  (\E j \in 1..n : Covers(r[j], v))
                 <=> (\E j \in 1..n : Covers(m[j], v)) \/ Covers(iv, v)
    <3>1. Covers(r[n], v) <=> Covers(m[n], v) \/ Covers(iv, v)
      BY <1>1, <1>2, <2>1, <2>4 DEF Covers
    <3>2. \A j \in 1..(n - 1) : Covers(r[j], v) <=> Covers(m[j], v)
      BY <2>4
    <3> QED
      BY <2>3, <3>1, <3>2
  <2>7. r # <<>> /\ r[Len(r)][1] <= seq[i][1]
    BY <2>1, <2>4 DEF iv
  <2>8. \A v \in Nat : (\E j \in 1..Len(r) : Covers(r[j], v))
                         <=> (\E j \in 1..i : Covers(seq[j], v))
    BY <1>6, <2>4, <2>6
  <2>9. i # 0 /\ r \in Seq(Intervals)
    BY <1>1, <1>3
  <2>10. MergeInv(r, seq, i)
    BY <2>5, <2>7, <2>8, <2>9 DEF MergeInv
  <2> QED
    BY <2>10 DEF r, iv
<1>8. CASE ~Joins(m, iv)
  <2>1. Len(r) = n + 1 /\ (\A j \in 1..n : r[j] = m[j]) /\ r[n + 1] = iv
    BY <1>3, <1>8
  <2>2. \A j : j \in 1..(n + 1) <=> j \in 1..n \/ j = n + 1
    BY <1>1
  <2>3. ASSUME NEW j \in 1..n PROVE m[j][2] < iv[1]
    <3>1. m # <<>> /\ n \in 1..n
      BY <1>1 DEF n
    <3>2. m[n][2] < iv[1]
      BY <1>1, <1>2, <1>8, <3>1 DEF Joins, n
    <3>3. CASE j = n
      BY <3>2, <3>3
    <3>4. CASE j # n
      <4>1. j < n
        BY <1>1, <3>4
      <4>2. m[j][2] < m[n][1] /\ m[n][1] < m[n][2]
        BY <1>4, <3>1, <4>1 DEF Separated, n
      <4> QED
        BY <1>1, <1>2, <3>1, <3>2, <4>2
    <3> QED
      BY <3>3, <3>4
  <2>4. Separated(r)
    <3>1. ASSUME NEW j \in 1..(n + 1) PROVE r[j][1] < r[j][2]
      <4>1. CASE j = n + 1
        BY <1>1, <2>1, <4>1
      <4>2. CASE j # n + 1
        BY <1>4, <2>1, <2>2, <4>2 DEF Separated, n
      <4> QED
        BY <4>1, <4>2
    <3>2. ASSUME NEW j \in 1..(n + 1), NEW k \in 1..(n + 1), j < k
          PROVE  r[j][2] < r[k][1]
      <4>1. j \in 1..n
        BY <1>1, <3>2
      <4>2. CASE k = n + 1
        BY <2>1, <2>3, <4>1, <4>2
      <4>3. CASE k # n + 1
        BY <1>4, <2>1, <2>2, <3>2, <4>1, <4>3 DEF Separated, n
      <4> QED
        BY <4>2, <4>3
    <3> QED
      BY <2>1, <3>1, <3>2 DEF Separated
  <2>5. ASSUME NEW v \in Nat
        PROVE  (\E j \in 1..(n + 1) : Covers(r[j], v))
                 <=> (\E j \in 1..n : Covers(m[j], v)) \/ Covers(iv, v)
    BY <2>1, <2>2
  <2>6. r # <<>> /\ r[Len(r)][1] <= seq[i][1]
    BY <1>1, <2>1 DEF iv
  <2>7. \A v \in Nat : (\E j \in 1..Len(r) : Covers(r[j], v))
                         <=> (\E j \in 1..i : Covers(seq[j], v))
    BY <1>6, <2>1, <2>5
  <2>8. i # 0 /\ r \in Seq(Intervals)
    BY <1>1, <1>3
  <2>9. MergeInv(r, seq, i)
    BY <2>4, <2>6, <2>7, <2>8 DEF MergeInv
  <2> QED
    BY <2>9 DEF r, iv
<1> QED
  BY <1>7, <1>8

\* blocked_intervals leaves separated intervals that cover the same values.
LEMMA MergeCovers ==
  ASSUME NEW seq \in Seq(Intervals), StartsAscend(seq)
  PROVE  LET m == FoldLeft(MergeInterval, <<>>, seq) IN
         /\ m \in Seq(Intervals)
         /\ Separated(m)
         /\ \A v \in Nat : (\E j \in 1..Len(m) : Covers(m[j], v))
                             <=> (\E j \in 1..Len(seq) : Covers(seq[j], v))
<1> DEFINE n == Len(seq)
<1>1. n \in Nat
  OBVIOUS
<1>2. PICK f : /\ f[0] = <<>>
               /\ \A i \in 1..n : f[i] = MergeInterval(f[i - 1], seq[i])
               /\ FoldLeft(MergeInterval, <<>>, seq) = f[n]
  BY MergeRun
<1> DEFINE Good == {i \in 0..n : MergeInv(f[i], seq, i)}
<1>3. 0 \in Good
  <2>1. <<>> \in Seq(Intervals) /\ Len(<<>>) = 0
    OBVIOUS
  <2>2. MergeInv(<<>>, seq, 0)
    BY <2>1 DEF MergeInv, Separated
  <2> QED
    BY <1>1, <1>2, <2>2
<1>4. ASSUME NEW i \in 1..n, i - 1 \in Good PROVE i \in Good
  <2>1. MergeInv(f[i - 1], seq, i - 1)
    BY <1>4
  <2>2. MergeInv(MergeInterval(f[i - 1], seq[i]), seq, i)
    BY <2>1, MergeTurn
  <2> QED
    BY <1>1, <1>2, <2>2
<1>5. n \in Good
  <2> HIDE DEF Good, n
  <2>1. \A i \in 0..n : i \in Good
    BY <1>1, <1>3, <1>4, UpTo
  <2> QED
    BY <1>1, <2>1
<1>6. MergeInv(f[n], seq, n)
  BY <1>5
<1> QED
  BY <1>2, <1>6 DEF MergeInv

\* The sorted list of a finite set of intervals.
LEMMA IntervalsListed ==
  ASSUME NEW U, IsFiniteSet(U), U \subseteq Intervals
  PROVE  LET s == SortedIntervals(U) IN
         /\ s \in Seq(U)
         /\ \A x \in U : \E i \in 1..Len(s) : s[i] = x
         /\ \A i, j \in 1..Len(s) : i < j => IntervalOrder(s[i], s[j])
<1> DEFINE R == {p \in Intervals \X Intervals : IntervalOrder(p[1], p[2])}
           N == Cardinality(U)
<1>1. \A x, y \in Intervals : <<x, y>> \in R <=> IntervalOrder(x, y)
  OBVIOUS
<1>2. \A x \in Intervals : x[1] \in Nat /\ x[2] \in Nat /\ x = <<x[1], x[2]>>
  BY DEF Intervals
<1>3. \A x \in U : <<x, x>> \notin R
  BY <1>1, <1>2 DEF IntervalOrder
<1> HIDE DEF R
<1>4. ASSUME NEW S \in SUBSET U, S # {}
      PROVE  \E x \in S : \A y \in S \ {x} : <<x, y>> \in R
  <2>1. \A x \in S : x \in Intervals
    OBVIOUS
  <2> DEFINE starts == {x[1] : x \in S}
  <2>2. PICK a \in starts : \A c \in starts : a <= c
    <3>1. starts \subseteq Nat /\ starts # {}
      BY <1>2, <1>4, <2>1
    <3> QED
      BY <3>1, SmallestNat
  <2> DEFINE ends == {x[2] : x \in {z \in S : z[1] = a}}
  <2>3. PICK b \in ends : \A c \in ends : b <= c
    <3>1. ends \subseteq Nat /\ ends # {}
      BY <1>2, <2>1, <2>2
    <3> QED
      BY <3>1, SmallestNat
  <2>4. PICK x \in S : x[1] = a /\ x[2] = b
    OBVIOUS
  <2>5. ASSUME NEW y \in S, y # x PROVE <<x, y>> \in R
    <3>1. a <= y[1] /\ (y[1] = a => b <= y[2])
      BY <2>2, <2>3
    <3>2. /\ x \in Intervals /\ y \in Intervals
          /\ x[1] \in Nat /\ x[2] \in Nat /\ y[1] \in Nat /\ y[2] \in Nat
      BY <1>2, <2>1
    <3>3. y[1] # x[1] \/ y[2] # x[2]
      BY <1>2, <2>5, <3>2
    <3>4. IntervalOrder(x, y)
      BY <2>4, <3>1, <3>2, <3>3 DEF IntervalOrder
    <3> QED
      BY <1>1, <3>2, <3>4
  <2> QED
    BY <2>5
<1>5. \E s \in [1..N -> U] : Ordered(s, N, R)
  BY <1>4, ListExists
<1> DEFINE s == SortedIntervals(U)
<1>6. \A t \in [1..N -> U] : Ordered(t, N, R)
        <=> \A i, j \in DOMAIN t : i < j => IntervalOrder(t[i], t[j])
  BY <1>1 DEF Ordered
<1>7. s \in [1..N -> U] /\ \A i, j \in DOMAIN s : i < j => IntervalOrder(s[i], s[j])
  <2>1. \E t \in [1..N -> U] : \A i, j \in DOMAIN t : i < j => IntervalOrder(t[i], t[j])
    BY <1>5, <1>6
  <2> QED
    BY <2>1 DEF SortedIntervals
<1> HIDE DEF s, N
<1>8. Ordered(s, N, R) /\ DOMAIN s = 1..N
  BY <1>6, <1>7
<1>9. /\ s \in Seq(U) /\ Len(s) = N
      /\ \A x \in U : \E i \in 1..Len(s) : s[i] = x
  BY <1>3, <1>7, <1>8, ListCovers DEF N
<1> QED
  BY <1>7, <1>8, <1>9 DEF s

-----------------------------------------------------------------------------
(* Projections. *)

\* Division with remainder.
LEMMA DivMod ==
  ASSUME NEW x \in Nat, NEW m \in Nat, m > 0
  PROVE  /\ x = m * (x \div m) + (x % m)
         /\ x % m \in 0..(m - 1)
         /\ x \div m \in Nat
  BY SMTT(30)

LEMMA TimesMonotone ==
  ASSUME NEW a \in Nat, NEW c \in Nat, NEW m \in Nat, a <= c
  PROVE  a * m <= c * m
  BY SMTT(30)

LEMMA Quotient ==
  ASSUME NEW v \in Nat, NEW w \in Nat, NEW m \in Nat, m > 0
  PROVE  v \div m = w <=> w * m <= v /\ v < w * m + m
<1> DEFINE q == v \div m
           p == v % m
<1>1. v = m * q + p /\ p \in 0..(m - 1) /\ q \in Nat
  BY DivMod
<1> HIDE DEF q, p
<1>2. m * q = q * m /\ q * m \in Nat /\ w * m \in Nat
  BY <1>1
<1>3. q * m <= v /\ v < q * m + m
  BY <1>1, <1>2
<1>4. ASSUME q < w PROVE q * m + m <= w * m
  <2>1. (q + 1) * m <= w * m
    BY <1>1, <1>4, TimesMonotone
  <2>2. (q + 1) * m = q * m + m
    BY <1>1
  <2> QED
    BY <2>1, <2>2
<1>5. ASSUME w < q PROVE w * m + m <= q * m
  <2>1. (w + 1) * m <= q * m
    BY <1>1, <1>5, TimesMonotone
  <2>2. (w + 1) * m = w * m + m
    OBVIOUS
  <2> QED
    BY <2>1, <2>2
<1>6. q = w => w * m <= v /\ v < w * m + m
  BY <1>3
<1>7. w * m <= v /\ v < w * m + m => q = w
  BY <1>1, <1>2, <1>3, <1>4, <1>5
<1> QED
  BY <1>6, <1>7 DEF q

Selectors == [value : Nat, length : Nat]

Leaf(v, n) == [value |-> v, length |-> n]

\* The projection of a RuleID holds the leaves of that depth it overlaps.
LEMMA ProjectionExact ==
  ASSUME NEW id \in Selectors, NEW n \in Nat
  PROVE  /\ Projection(id, n) \in Intervals
         /\ Projection(id, n)[1] < Projection(id, n)[2]
         /\ \A v \in Nat : Covers(Projection(id, n), v) <=> Overlaps(Leaf(v, n), id)
<1>1. id.value \in Nat /\ id.length \in Nat
  BY DEF Selectors
<1>2. CASE id.length <= n
  <2> DEFINE k == n - id.length
             m == 2^k
  <2>1. k \in Nat /\ m \in Nat /\ m > 0 /\ (k = 0 => m = 1)
    <3>1. k \in Nat
      BY <1>1, <1>2
    <3> QED
      BY <3>1, PowerType, PowerZero
  <2>2. Projection(id, n) = <<id.value * m, id.value * m + m>>
    BY <1>2 DEF Projection
  <2>3. ASSUME NEW v \in Nat
        PROVE  Overlaps(Leaf(v, n), id) <=> v \div m = id.value
    <3>1. IsRuleIdPrefix(id, Leaf(v, n)) <=> v \div m = id.value
      BY <1>2 DEF IsRuleIdPrefix, Leaf
    <3>2. IsRuleIdPrefix(Leaf(v, n), id) => v \div m = id.value
      <4> SUFFICES ASSUME IsRuleIdPrefix(Leaf(v, n), id)
                   PROVE  v \div m = id.value
        OBVIOUS
      <4>1. n <= id.length /\ id.value \div 2^(id.length - n) = v
        BY DEF IsRuleIdPrefix, Leaf
      <4>2. id.length - n = 0 /\ k = 0
        BY <1>1, <1>2, <4>1
      <4>3. id.value \div 1 = v /\ m = 1
        BY <2>1, <4>1, <4>2, PowerZero, Zenon
      <4> HIDE DEF m
      <4> QED
        BY <1>1, <4>3
    <3> QED
      BY <3>1, <3>2 DEF Overlaps
  <2> HIDE DEF m, k
  <2>4. id.value * m \in Nat
    BY <1>1, <2>1
  <2>5. \A v \in Nat : Covers(Projection(id, n), v) <=> v \div m = id.value
    BY <1>1, <2>1, <2>2, Quotient DEF Covers
  <2>6. Projection(id, n) \in Intervals
    BY <2>1, <2>2, <2>4 DEF Intervals
  <2>7. Projection(id, n)[1] < Projection(id, n)[2]
    BY <2>1, <2>2, <2>4
  <2> QED
    BY <2>3, <2>5, <2>6, <2>7
<1>3. CASE ~ (id.length <= n)
  <2> DEFINE k == id.length - n
             m == 2^k
             q == id.value \div m
  <2>1. k \in Nat /\ m \in Nat /\ m > 0
    <3>1. k \in Nat
      BY <1>1, <1>3
    <3> QED
      BY <3>1, PowerType
  <2>2. q \in Nat
    <3> HIDE DEF m
    <3> QED
      BY <1>1, <2>1, DivMod
  <2>3. Projection(id, n) = <<q, q + 1>>
    BY <1>3 DEF Projection
  <2>4. ASSUME NEW v \in Nat
        PROVE  Overlaps(Leaf(v, n), id) <=> q = v
    <3>1. ~IsRuleIdPrefix(id, Leaf(v, n))
      BY <1>3 DEF IsRuleIdPrefix, Leaf
    <3>2. n <= id.length
      BY <1>1, <1>3
    <3>3. IsRuleIdPrefix(Leaf(v, n), id) <=> q = v
      BY <3>2 DEF IsRuleIdPrefix, Leaf
    <3> QED
      BY <3>1, <3>3 DEF Overlaps
  <2> HIDE DEF q, m, k
  <2>5. \A v \in Nat : Covers(Projection(id, n), v) <=> q = v
    BY <2>2, <2>3 DEF Covers
  <2>6. Projection(id, n) \in Intervals /\ Projection(id, n)[1] < Projection(id, n)[2]
    BY <2>2, <2>3 DEF Intervals
  <2> QED
    BY <2>4, <2>5, <2>6
<1> QED
  BY <1>2, <1>3

\* Clipping keeps what a projection covers of the range.
LEMMA ClippedExact ==
  ASSUME NEW lo \in Nat, NEW hi \in Nat, lo < hi, NEW n \in Nat,
         NEW ids \in SUBSET Selectors, IsFiniteSet(ids)
  PROVE  LET U == ClippedIntervals(<<lo, hi>>, ids, n) IN
         /\ IsFiniteSet(U)
         /\ U \subseteq Intervals
         /\ \A x \in U : x[1] < x[2]
         /\ \A v \in Nat : (\E x \in U : Covers(x, v)) <=>
              lo <= v /\ v < hi /\ \E id \in ids : Overlaps(Leaf(v, n), id)
<1> DEFINE P == {Projection(id, n) : id \in ids}
           Q == {q \in P : q[2] > lo /\ q[1] < hi}
           Clip(q) == <<Max({q[1], lo}), Min({q[2], hi})>>
           U == {Clip(q) : q \in Q}
<1>1. ClippedIntervals(<<lo, hi>>, ids, n) = U
  BY DEF ClippedIntervals
<1>2. \A q \in P : q \in Intervals /\ q[1] < q[2]
  BY ProjectionExact
<1>3. \A q \in P : q[1] \in Nat /\ q[2] \in Nat
  BY <1>2 DEF Intervals
<1>4. IsFiniteSet(U)
  <2> DEFINE f == [id \in ids |-> Projection(id, n)]
             g == [q \in Q |-> Clip(q)]
  <2>1. f \in Surjection(ids, P)
    BY DEF Surjection
  <2>2. IsFiniteSet(P)
    <3> HIDE DEF f, P
    <3> QED
      BY <2>1, FS_Surjection
  <2>3. IsFiniteSet(Q)
    <3>1. Q \in SUBSET P
      OBVIOUS
    <3> HIDE DEF P, Q
    <3> QED
      BY <2>2, <3>1, FS_Subset
  <2>4. g \in Surjection(Q, U)
    <3> HIDE DEF Q, Clip
    <3> QED
      BY DEF Surjection
  <2> HIDE DEF g, U, Q
  <2> QED
    BY <2>3, <2>4, FS_Surjection
<1>5. ASSUME NEW q \in Q
      PROVE  /\ Clip(q)[1] = (IF q[1] >= lo THEN q[1] ELSE lo)
             /\ Clip(q)[2] = (IF q[2] <= hi THEN q[2] ELSE hi)
             /\ Clip(q) \in Intervals
             /\ Clip(q)[1] < Clip(q)[2]
             /\ \A v \in Nat : Covers(Clip(q), v) <=> Covers(q, v) /\ lo <= v /\ v < hi
  <2>1. q[1] \in Nat /\ q[2] \in Nat /\ q[1] < q[2] /\ q[2] > lo /\ q[1] < hi
    BY <1>2, <1>3
  <2>2. /\ Max({q[1], lo}) = (IF q[1] >= lo THEN q[1] ELSE lo)
        /\ Min({q[2], hi}) = (IF q[2] <= hi THEN q[2] ELSE hi)
    BY <2>1, MaxPair, MinPair
  <2> DEFINE a == Max({q[1], lo})
             b == Min({q[2], hi})
  <2> HIDE DEF a, b
  <2>3. a \in Nat /\ b \in Nat /\ a < b
        /\ a = (IF q[1] >= lo THEN q[1] ELSE lo) /\ b = (IF q[2] <= hi THEN q[2] ELSE hi)
    BY <2>1, <2>2 DEF a, b
  <2>4. Clip(q) = <<a, b>>
    BY DEF a, b
  <2>5. Clip(q)[1] = a /\ Clip(q)[2] = b /\ Clip(q) \in Intervals
    BY <2>3, <2>4 DEF Intervals
  <2> HIDE DEF Clip
  <2>6. \A v \in Nat : Covers(Clip(q), v) <=> Covers(q, v) /\ lo <= v /\ v < hi
    BY <2>1, <2>3, <2>5 DEF Covers
  <2> QED
    BY <2>3, <2>5, <2>6
<1>6. ASSUME NEW v \in Nat
      PROVE  (\E x \in U : Covers(x, v)) <=>
               lo <= v /\ v < hi /\ \E id \in ids : Overlaps(Leaf(v, n), id)
  <2>1. \A id \in ids : Covers(Projection(id, n), v) <=> Overlaps(Leaf(v, n), id)
    BY ProjectionExact
  <2>2. \A q \in P : Covers(q, v) /\ lo <= v /\ v < hi => q \in Q
    BY <1>3 DEF Covers
  <2>3. \A q \in Q : Covers(Clip(q), v) <=> Covers(q, v) /\ lo <= v /\ v < hi
    BY <1>5
  <2> HIDE DEF Clip
  <2>4. (\E x \in U : Covers(x, v)) <=> \E q \in Q : Covers(Clip(q), v)
    OBVIOUS
  <2>5. (\E q \in Q : Covers(Clip(q), v)) <=> lo <= v /\ v < hi /\ \E q \in P : Covers(q, v)
    BY <2>2, <2>3
  <2>6. (\E q \in P : Covers(q, v)) <=> \E id \in ids : Overlaps(Leaf(v, n), id)
    BY <2>1
  <2> QED
    BY <2>4, <2>5, <2>6
<1>7. U \subseteq Intervals /\ \A x \in U : x[1] < x[2]
  <2> HIDE DEF Clip, Q
  <2> QED
    BY <1>5
<1> QED
  BY <1>1, <1>4, <1>6, <1>7

\* The gap of one depth: the first value of the range whose leaf overlaps
\* nothing, or no value of the range.
LEMMA GapExact ==
  ASSUME NEW lo \in Nat, NEW hi \in Nat, lo < hi, NEW n \in Nat,
         NEW ids \in SUBSET Selectors, IsFiniteSet(ids)
  PROVE  LET range == <<lo, hi>>
             gap == FirstFree(range, BlockedIntervals(range, ids, n)) IN
         /\ gap \in Nat /\ lo <= gap
         /\ gap < hi => \A id \in ids : ~Overlaps(Leaf(gap, n), id)
         /\ \A v \in Nat : lo <= v /\ v < gap
               => \E id \in ids : Overlaps(Leaf(v, n), id)
<1> DEFINE range == <<lo, hi>>
           U == ClippedIntervals(range, ids, n)
           s == SortedIntervals(U)
           m == FoldLeft(MergeInterval, <<>>, s)
           gap == FirstFree(range, m)
<1>1. BlockedIntervals(range, ids, n) = m
  BY DEF BlockedIntervals
<1>2. /\ IsFiniteSet(U)
      /\ U \subseteq Intervals
      /\ \A x \in U : x[1] < x[2]
      /\ \A v \in Nat : (\E x \in U : Covers(x, v)) <=>
           lo <= v /\ v < hi /\ \E id \in ids : Overlaps(Leaf(v, n), id)
  BY ClippedExact
<1> HIDE DEF U
<1>3. /\ s \in Seq(U)
      /\ \A x \in U : \E i \in 1..Len(s) : s[i] = x
      /\ \A i, j \in 1..Len(s) : i < j => IntervalOrder(s[i], s[j])
  BY <1>2, IntervalsListed
<1> HIDE DEF s
<1>4. \A i \in 1..Len(s) : s[i] \in U /\ s[i] \in Intervals
  BY <1>2, <1>3
<1>5. s \in Seq(Intervals)
  BY <1>2, <1>3
<1>6. StartsAscend(s)
  <2>1. \A i \in 1..Len(s) : s[i][1] < s[i][2] /\ s[i][1] \in Nat
    BY <1>2, <1>4 DEF Intervals
  <2>2. ASSUME NEW i \in 1..Len(s), NEW j \in 1..Len(s), i < j
        PROVE  s[i][1] <= s[j][1]
    <3>1. s[i][1] < s[j][1] \/ s[i][1] = s[j][1]
      BY <1>3, <2>2 DEF IntervalOrder
    <3> QED
      BY <2>1, <3>1
  <2> QED
    BY <2>1, <2>2 DEF StartsAscend
<1>7. /\ m \in Seq(Intervals)
      /\ Separated(m)
      /\ \A v \in Nat : (\E j \in 1..Len(m) : Covers(m[j], v))
                          <=> (\E j \in 1..Len(s) : Covers(s[j], v))
  BY <1>5, <1>6, MergeCovers
<1> HIDE DEF m
<1>8. /\ gap \in Nat /\ lo <= gap
      /\ \A j \in 1..Len(m) : ~Covers(m[j], gap)
      /\ \A v \in Nat : lo <= v /\ v < gap => \E j \in 1..Len(m) : Covers(m[j], v)
  BY <1>7, SweepFinds
<1> HIDE DEF gap
<1>9. \A v \in Nat : (\E j \in 1..Len(m) : Covers(m[j], v)) <=>
        lo <= v /\ v < hi /\ \E id \in ids : Overlaps(Leaf(v, n), id)
  <2>1. \A v \in Nat : (\E j \in 1..Len(s) : Covers(s[j], v)) <=> \E x \in U : Covers(x, v)
    BY <1>3, <1>4
  <2> QED
    BY <1>2, <1>7, <2>1
<1>10. gap < hi => \A id \in ids : ~Overlaps(Leaf(gap, n), id)
  BY <1>8, <1>9
<1>11. \A v \in Nat : lo <= v /\ v < gap => \E id \in ids : Overlaps(Leaf(v, n), id)
  BY <1>8, <1>9
<1> QED
  BY <1>1, <1>8, <1>10, <1>11 DEF gap

-----------------------------------------------------------------------------
(* The allocator. *)

\* The range of one depth holds the values of the namespace's leaves there.
LEMMA LeafRange ==
  ASSUME NEW ns, IsNamespace(ns), NEW n \in ns.lengths
  PROVE  LET range == CandidateRange(ns.prefix, n) IN
         /\ n \in 1..MaxRuleIdLength
         /\ range = <<range[1], range[2]>>
         /\ range[1] \in Nat /\ range[2] \in Nat /\ range[1] < range[2]
         /\ range[2] <= 2^n
         /\ \A v \in Nat : Accepts(ns, Leaf(v, n)) <=> range[1] <= v /\ v < range[2]
<1> DEFINE range == CandidateRange(ns.prefix, n)
           w == ns.prefix.value
           l == ns.prefix.length
           k == n - l
           m == 2^k
<1>1. /\ l \in 1..32 /\ w \in 0..(2^l - 1)
      /\ n \in (l + 1)..32 /\ k \in Nat /\ l \in Nat /\ n = l + k
  <2>1. l \in 1..32 /\ w \in 0..(2^l - 1) /\ n \in (l + 1)..32
    BY DEF IsNamespace, IsRuleId, MaxRuleIdLength
  <2> HIDE DEF l
  <2> QED
    BY <2>1
<1>2. m \in Nat /\ m > 0 /\ 2^l \in Nat /\ 2^n = 2^l * m
  BY <1>1, PowerType, PowerSum
<1>3. range = <<w * m, w * m + m>>
  BY DEF CandidateRange
<1>4. \A v \in Nat : Accepts(ns, Leaf(v, n)) <=> v \div m = w
  <2>1. l <= n
    BY <1>1
  <2> QED
    BY <2>1 DEF Accepts, IsRuleIdPrefix, Leaf
<1> HIDE DEF w, l, k, m
<1>5. w \in Nat /\ w + 1 <= 2^l
  BY <1>1, <1>2
<1>6. w * m \in Nat
  BY <1>2, <1>5
<1>7. w * m + m <= 2^n
  <2>1. (w + 1) * m <= 2^l * m
    BY <1>2, <1>5, TimesMonotone
  <2>2. (w + 1) * m = w * m + m
    BY <1>2, <1>5
  <2> QED
    BY <1>2, <2>1, <2>2
<1>8. \A v \in Nat : v \div m = w <=> w * m <= v /\ v < w * m + m
  BY <1>2, <1>5, Quotient
<1>9. n \in 1..MaxRuleIdLength
  BY <1>1 DEF MaxRuleIdLength
<1>10. range[1] = w * m /\ range[2] = w * m + m
  BY <1>3
<1>11. w * m + m \in Nat /\ w * m < w * m + m
  BY <1>2, <1>6
<1> HIDE DEF range
<1> QED
  BY <1>3, <1>4, <1>6, <1>7, <1>8, <1>9, <1>10, <1>11 DEF range

\* A leaf of the namespace that none of the RuleIDs overlaps.
IsFree(ns, ids, leaf) ==
  Accepts(ns, leaf) /\ \A id \in ids : ~Overlaps(leaf, id)

\* allocate returns the first free leaf by depth and value, and reports
\* exhaustion only if there is none.
LEMMA AllocateExact ==
  ASSUME NEW ns, IsNamespace(ns), NEW ids \in SUBSET Selectors, IsFiniteSet(ids),
         \A id \in ids : ~Collides(ns, id)
  PROVE  LET result == Allocate(ns, ids) IN
         \/ /\ result = Exhausted
            /\ \A leaf \in Selectors : ~IsFree(ns, ids, leaf)
         \/ /\ result.kind = "allocated"
            /\ result.id \in Selectors
            /\ IsFree(ns, ids, result.id)
            /\ \A leaf \in Selectors : IsFree(ns, ids, leaf) =>
                 \/ result.id.length < leaf.length
                 \/ result.id.length = leaf.length /\ result.id.value <= leaf.value
<1> DEFINE Leaves(n) == CandidateRange(ns.prefix, n)
           Gap(n) == FirstFree(Leaves(n), BlockedIntervals(Leaves(n), ids, n))
           open == {n \in ns.lengths : Gap(n) < Leaves(n)[2]}
           result == Allocate(ns, ids)
<1>1. result = IF open = {} THEN Exhausted
               ELSE Allocated([value |-> Gap(Min(open)), length |-> Min(open)])
  BY DEF Allocate
<1>2. ASSUME NEW n \in ns.lengths
      PROVE  /\ n \in Nat /\ Gap(n) \in Nat
             /\ n \in open => IsFree(ns, ids, Leaf(Gap(n), n))
             /\ \A v \in Nat : IsFree(ns, ids, Leaf(v, n)) => n \in open /\ Gap(n) <= v
  <2> DEFINE lo == Leaves(n)[1]
             hi == Leaves(n)[2]
  <2>1. /\ n \in 1..MaxRuleIdLength
        /\ Leaves(n) = <<lo, hi>>
        /\ lo \in Nat /\ hi \in Nat /\ lo < hi
        /\ \A v \in Nat : Accepts(ns, Leaf(v, n)) <=> lo <= v /\ v < hi
    BY LeafRange
  <2>2. n \in Nat
    BY <2>1 DEF MaxRuleIdLength
  <2> HIDE DEF lo, hi
  <2> DEFINE gap == FirstFree(<<lo, hi>>, BlockedIntervals(<<lo, hi>>, ids, n))
  <2>3. /\ gap \in Nat /\ lo <= gap
        /\ gap < hi => \A id \in ids : ~Overlaps(Leaf(gap, n), id)
        /\ \A v \in Nat : lo <= v /\ v < gap
              => \E id \in ids : Overlaps(Leaf(v, n), id)
    BY <2>1, <2>2, GapExact
  <2>4. Gap(n) = gap /\ (n \in open <=> gap < hi)
    BY <2>1 DEF hi
  <2> HIDE DEF gap, Gap, open
  <2>5. n \in open => IsFree(ns, ids, Leaf(gap, n))
    BY <2>1, <2>3, <2>4 DEF IsFree
  <2>6. ASSUME NEW v \in Nat, IsFree(ns, ids, Leaf(v, n))
        PROVE  n \in open /\ gap <= v
    <3>1. lo <= v /\ v < hi /\ ~ (v < gap)
      BY <2>1, <2>3, <2>6 DEF IsFree
    <3> QED
      BY <2>1, <2>3, <2>4, <3>1
  <2> QED
    BY <2>2, <2>3, <2>4, <2>5, <2>6
<1>3. ASSUME NEW leaf \in Selectors, IsFree(ns, ids, leaf)
      PROVE  /\ leaf.length \in ns.lengths /\ leaf.length \in open
             /\ Gap(leaf.length) <= leaf.value
  <2>1. leaf = Leaf(leaf.value, leaf.length) /\ leaf.value \in Nat
    BY DEF Selectors, Leaf
  <2>2. leaf.length \in ns.lengths
    BY <1>3 DEF IsFree, Accepts
  <2> HIDE DEF open, Gap
  <2> QED
    BY <1>2, <1>3, <2>1, <2>2
<1>4. open \subseteq ns.lengths
  OBVIOUS
<1> HIDE DEF open, Gap
<1>5. CASE open = {}
  <2>1. result = Exhausted
    BY <1>1, <1>5
  <2>2. \A leaf \in Selectors : ~IsFree(ns, ids, leaf)
    BY <1>3, <1>5
  <2> QED
    BY <2>1, <2>2
<1>6. CASE open # {}
  <2> DEFINE n == Min(open)
  <2>1. open \subseteq Nat
    BY <1>2, <1>4
  <2>2. n \in open /\ \A k \in open : n <= k
    BY <1>6, <2>1, MinNat
  <2> HIDE DEF n
  <2>3. n \in ns.lengths /\ n \in Nat /\ Gap(n) \in Nat
    BY <1>2, <1>4, <2>2
  <2>4. result = Allocated(Leaf(Gap(n), n))
    BY <1>1, <1>6 DEF Leaf, n
  <2>5. result.kind = "allocated" /\ result.id = Leaf(Gap(n), n)
    BY <2>4 DEF Allocated
  <2>6. Leaf(Gap(n), n) \in Selectors
    BY <2>3 DEF Leaf, Selectors
  <2>7. IsFree(ns, ids, Leaf(Gap(n), n))
    BY <1>2, <2>2, <2>3
  <2>8. Leaf(Gap(n), n).length = n /\ Leaf(Gap(n), n).value = Gap(n)
    BY DEF Leaf
  <2>9. ASSUME NEW leaf \in Selectors, IsFree(ns, ids, leaf)
        PROVE  n < leaf.length \/ (n = leaf.length /\ Gap(n) <= leaf.value)
    <3>1. n <= leaf.length /\ Gap(leaf.length) <= leaf.value /\ leaf.length \in Nat
      BY <1>2, <1>3, <2>2, <2>9
    <3> QED
      BY <2>3, <3>1
  <2> HIDE DEF result
  <2> QED
    BY <2>5, <2>6, <2>7, <2>8, <2>9 DEF result
<1> QED
  BY <1>5, <1>6

\* allocate reports a collision first.
LEMMA AllocateCollides ==
  ASSUME NEW ns, NEW ids
  PROVE  /\ (\E id \in ids : Collides(ns, id)) <=> Allocate(ns, ids).kind = "collision"
         /\ Allocate(ns, ids).kind = "allocated" => \A id \in ids : ~Collides(ns, id)
BY DEF Allocate, Collision, Exhausted, Allocated

\* A leaf of the namespace fits its length, which is one of those permitted.
LEMMA LeafFits ==
  ASSUME NEW ns, IsNamespace(ns), NEW leaf \in Selectors, Accepts(ns, leaf)
  PROVE  leaf \in RuleIdsUpTo(Max(ns.lengths))
<1> DEFINE n == leaf.length
           v == leaf.value
           range == CandidateRange(ns.prefix, n)
           width == Max(ns.lengths)
<1>1. leaf = Leaf(v, n) /\ v \in Nat /\ n \in Nat
  BY DEF Leaf, Selectors
<1>2. n \in ns.lengths /\ Accepts(ns, Leaf(v, n))
  BY <1>1 DEF Accepts
<1>3. /\ n \in 1..MaxRuleIdLength /\ range[2] \in Nat /\ range[2] <= 2^n
      /\ v < range[2]
  <2> HIDE DEF v, n
  <2> QED
    BY <1>1, <1>2, LeafRange
<1>4. n <= width /\ width \in Nat
  <2>1. ns.lengths \subseteq 0..32
    BY DEF IsNamespace, IsRuleId, MaxRuleIdLength
  <2>2. width \in ns.lengths /\ \A k \in ns.lengths : k <= width
    BY <1>2, <2>1, LargestNat
  <2> QED
    BY <1>2, <2>1, <2>2
<1>5. leaf \in [value : {v}, length : {n}]
  BY DEF Selectors
<1> HIDE DEF v, n, range, width
<1>6. 2^n \in Nat
  BY <1>1, PowerType
<1>7. v \in 0..(2^n - 1) /\ n \in 1..width
  BY <1>1, <1>3, <1>4, <1>6 DEF MaxRuleIdLength
<1>8. leaf \in [value : 0..(2^n - 1), length : {n}]
  BY <1>5, <1>7
<1> QED
  BY <1>7, <1>8 DEF RuleIdsUpTo, width

\* FreeLeaves are the leaves that are free.
LEMMA FreeLeavesAre ==
  ASSUME IsNamespace(namespace)
  PROVE  \A leaf : leaf \in FreeLeaves
           <=> leaf \in Selectors /\ IsFree(namespace, occupied, leaf)
<1> DEFINE width == Max(namespace.lengths)
<1>1. width \in Nat
  <2>1. namespace.lengths # {} /\ namespace.lengths \subseteq 0..32
    BY DEF IsNamespace, IsRuleId, MaxRuleIdLength
  <2> QED
    BY <2>1, LargestNat
<1> HIDE DEF width
<1>2. ASSUME NEW leaf \in RuleIdsUpTo(width)
      PROVE  leaf \in Selectors
  <2>1. PICK n \in 1..width : leaf \in [value : 0..(2^n - 1), length : {n}]
    BY DEF RuleIdsUpTo
  <2>2. n \in Nat
    BY <1>1
  <2>3. leaf.value \in 0..(2^n - 1) /\ leaf.length = n
        /\ leaf = [value |-> leaf.value, length |-> leaf.length]
    BY <2>1
  <2>4. leaf.value \in Nat
    BY <2>2, <2>3, PowerType
  <2> QED
    BY <2>2, <2>3, <2>4 DEF Selectors
<1>3. ASSUME NEW leaf \in Selectors, IsFree(namespace, occupied, leaf)
      PROVE  leaf \in RuleIdsUpTo(width)
  BY <1>3, LeafFits DEF IsFree, width
<1>4. \A leaf : leaf \in FreeLeaves
        <=> leaf \in RuleIdsUpTo(width) /\ IsFree(namespace, occupied, leaf)
  BY DEF FreeLeaves, IsFree, width
<1> QED
  BY <1>2, <1>3, <1>4

\* An allocated RuleID is a leaf of the namespace that is not in use.
LEMMA AllocatedLeaf ==
  ASSUME NEW ns, IsNamespace(ns), NEW ids \in SUBSET Selectors, IsFiniteSet(ids),
         Allocate(ns, ids).kind = "allocated"
  PROVE  /\ Allocate(ns, ids).id \in RuleIdsUpTo(Max(ns.lengths))
         /\ Accepts(ns, Allocate(ns, ids).id)
         /\ Allocate(ns, ids).id \notin ids
<1> DEFINE leaf == Allocate(ns, ids).id
<1>1. \A id \in ids : ~Collides(ns, id)
  BY AllocateCollides
<1>2. Allocate(ns, ids) # Exhausted
  BY DEF Exhausted
<1>3. leaf \in Selectors /\ IsFree(ns, ids, leaf)
  BY <1>1, <1>2, AllocateExact
<1> HIDE DEF leaf
<1>4. Overlaps(leaf, leaf)
  <2>1. leaf.value \in Nat /\ leaf.length \in Nat /\ leaf.length - leaf.length = 0
    BY <1>3 DEF Selectors
  <2>2. 2^(leaf.length - leaf.length) = 1
    BY <2>1, PowerZero, Zenon
  <2>3. leaf.value \div 1 = leaf.value
    BY <2>1
  <2>4. leaf.value \div 2^(leaf.length - leaf.length) = leaf.value
    BY <2>2, <2>3, Zenon
  <2> QED
    BY <2>1, <2>4 DEF Overlaps, IsRuleIdPrefix
<1> QED
  BY <1>3, <1>4, LeafFits DEF IsFree, leaf

-----------------------------------------------------------------------------
(* The tree as it grows and shrinks. *)

\* The context holds finitely many RuleIDs, none a prefix of another, and
\* each is one of the caller's own or a leaf of the namespace.
TreeInv ==
  /\ namespace \in Namespaces
  /\ occupied \in SUBSET Selectors
  /\ IsFiniteSet(occupied)
  /\ PrefixFree(occupied)
  /\ \A id \in occupied : id \in StaticIds \/ Accepts(namespace, id)

LEMMA TreeInit == Init => TreeInv
<1> SUFFICES ASSUME Init PROVE TreeInv
  OBVIOUS
<1>1. IsFiniteSet({})
  BY FS_EmptySet
<1> QED
  BY <1>1 DEF Init, TreeInv, PrefixFree

LEMMA TreeStep == TreeInv /\ [Next]_vars => TreeInv'
<1> SUFFICES ASSUME TreeInv, [Next]_vars PROVE TreeInv'
  OBVIOUS
<1>1. ASSUME NEW id \in StaticIds, AddStatic(id) PROVE TreeInv'
  <2>1. /\ occupied' = occupied \cup {id} /\ namespace' = namespace
        /\ PrefixFree(occupied \cup {id})
    BY <1>1 DEF AddStatic
  <2>2. id \in Selectors
    BY StaticIdsValid DEF Selectors
  <2>3. IsFiniteSet(occupied')
    BY <2>1, FS_AddElement DEF TreeInv
  <2> QED
    BY <2>1, <2>2, <2>3 DEF TreeInv
<1>2. CASE Install
  <2> DEFINE result == Allocate(namespace, occupied)
             leaf == result.id
  <2>1. /\ result.kind = "allocated"
        /\ occupied' = occupied \cup {leaf} /\ namespace' = namespace
    BY <1>2 DEF Install
  <2>2. IsNamespace(namespace)
    BY NamespacesValid DEF TreeInv
  <2>3. \A id \in occupied : ~Collides(namespace, id)
    BY <2>1, AllocateCollides
  <2>4. result # Exhausted
    BY <2>1 DEF Exhausted
  <2>5. leaf \in Selectors /\ IsFree(namespace, occupied, leaf)
    BY <2>2, <2>3, <2>4, AllocateExact DEF TreeInv
  <2> HIDE DEF leaf, result
  <2>6. PrefixFree(occupied')
    <3>1. \A id \in occupied : ~Overlaps(leaf, id) /\ ~Overlaps(id, leaf)
      BY <2>5 DEF IsFree, Overlaps
    <3> QED
      BY <2>1, <3>1 DEF TreeInv, PrefixFree
  <2>7. IsFiniteSet(occupied')
    BY <2>1, FS_AddElement DEF TreeInv
  <2> QED
    BY <2>1, <2>5, <2>6, <2>7 DEF TreeInv, IsFree
<1>3. ASSUME NEW id \in occupied, Omit(id) PROVE TreeInv'
  <2>1. occupied' = occupied \ {id} /\ namespace' = namespace
    BY <1>3 DEF Omit
  <2>2. IsFiniteSet(occupied')
    BY <2>1, FS_Subset DEF TreeInv
  <2> QED
    BY <2>1, <2>2 DEF TreeInv, PrefixFree
<1>4. CASE UNCHANGED vars
  BY <1>4 DEF vars, TreeInv
<1> QED
  BY <1>1, <1>2, <1>3, <1>4 DEF Next

\* The interval sweep finds the first free leaf in tree order, whatever
\* namespace and RuleIDs it is given, and reports exhaustion exactly when no
\* leaf is free.
THEOREM SweepIsExact == Spec => []AllocatesFirstFreeLeaf
<1>1. TreeInv => AllocatesFirstFreeLeaf
  <2> SUFFICES ASSUME TreeInv, \A id \in occupied : ~Collides(namespace, id)
               PROVE  LET result == Allocate(namespace, occupied) IN
                      IF FreeLeaves = {} THEN result = Exhausted
                      ELSE /\ result.kind = "allocated"
                           /\ result.id \in FreeLeaves
                           /\ \A leaf \in FreeLeaves :
                                \/ result.id.length < leaf.length
                                \/ /\ result.id.length = leaf.length
                                   /\ result.id.value <= leaf.value
    BY DEF AllocatesFirstFreeLeaf
  <2> DEFINE result == Allocate(namespace, occupied)
  <2>1. IsNamespace(namespace) /\ occupied \in SUBSET Selectors /\ IsFiniteSet(occupied)
    BY NamespacesValid DEF TreeInv
  <2>2. \A leaf : leaf \in FreeLeaves
          <=> leaf \in Selectors /\ IsFree(namespace, occupied, leaf)
    BY <2>1, FreeLeavesAre
  <2>3. \/ /\ result = Exhausted
           /\ \A leaf \in Selectors : ~IsFree(namespace, occupied, leaf)
        \/ /\ result.kind = "allocated"
           /\ result.id \in Selectors
           /\ IsFree(namespace, occupied, result.id)
           /\ \A leaf \in Selectors : IsFree(namespace, occupied, leaf) =>
                \/ result.id.length < leaf.length
                \/ result.id.length = leaf.length /\ result.id.value <= leaf.value
    BY <2>1, AllocateExact
  <2> HIDE DEF result
  <2>4. CASE FreeLeaves = {}
    <3>1. result = Exhausted
      BY <2>2, <2>3, <2>4
    <3> QED
      BY <2>4, <3>1 DEF result
  <2>5. CASE FreeLeaves # {}
    <3>1. /\ result.kind = "allocated"
          /\ result.id \in FreeLeaves
          /\ \A leaf \in FreeLeaves :
               \/ result.id.length < leaf.length
               \/ result.id.length = leaf.length /\ result.id.value <= leaf.value
      BY <2>2, <2>3, <2>5
    <3> QED
      BY <2>5, <3>1 DEF result
  <2> QED
    BY <2>4, <2>5
<1> QED
  BY TreeInit, TreeStep, <1>1, PTL DEF Spec

\* Whatever is planned, installed and removed, the context stays prefix-free,
\* and only a static RuleID of the caller can be reported as a collision.
THEOREM TreeStaysSound == Spec => []AllocationKeepsTree
<1>1. TreeInv => AllocationKeepsTree
  <2> SUFFICES ASSUME TreeInv PROVE AllocationKeepsTree
    OBVIOUS
  <2>1. ASSUME Allocate(namespace, occupied).kind = "collision"
        PROVE  \E id \in occupied \cap StaticIds : Collides(namespace, id)
    <3>1. PICK id \in occupied : Collides(namespace, id)
      BY <2>1, AllocateCollides
    <3>2. id \in StaticIds
      BY <3>1 DEF TreeInv, Collides
    <3> QED
      BY <3>1, <3>2
  <2> QED
    BY <2>1 DEF TreeInv, AllocationKeepsTree
<1> QED
  BY TreeInit, TreeStep, <1>1, PTL DEF Spec

-----------------------------------------------------------------------------
(* One option of a CoAP message. *)

\* Deltas and lengths in RFC 7252 go to 65804; the walk reads back all numbers.
Options == [delta : Nat, length : Nat]

Messages == [token : 0..8, payload : Nat, options : Seq(Options)]

\* What the report of an option should say.
CostOf(o) ==
  [step |-> o.delta, value |-> o.length, header |-> 1,
   delta |-> Len(Extension(o.delta)), length |-> Len(Extension(o.length)),
   encoded |-> Len(OptionBytes(o))]

\* The three ranges of the encoding.
LEMMA ExtensionCases ==
  ASSUME NEW v \in Nat
  PROVE  \/ v \in 0..12 /\ Extension(v) = <<>> /\ Nibble(v) = v
         \/ v \in 13..268 /\ Extension(v) = <<v - 13>> /\ Nibble(v) = 13
         \/ /\ v > 268
            /\ Extension(v) = <<(v - 269) \div 256, (v - 269) % 256>>
            /\ Nibble(v) = 14
<1> DEFINE small == v < 13
           middle == v \in 13..268
           large == v > 268
<1>2. CASE small
  <2>1. ~middle /\ ~large /\ v \in 0..12
    BY <1>2
  <2>2. Extension(v) = <<>>
    BY <1>2, <2>1, Zenon DEF Extension
  <2>3. Nibble(v) = v
    BY <1>2 DEF Nibble
  <2> QED
    BY <2>1, <2>2, <2>3, Zenon
<1>3. CASE middle
  <2>1. ~small /\ ~large /\ v < 269
    BY <1>3
  <2>2. Extension(v) = <<v - 13>>
    BY <1>3, <2>1, Zenon DEF Extension
  <2>3. Nibble(v) = 13
    BY <2>1 DEF Nibble
  <2> QED
    BY <1>3, <2>2, <2>3, Zenon
<1>4. CASE large
  <2>1. ~small /\ ~middle /\ ~(v < 269) /\ v > 268
    BY <1>4
  <2>2. Extension(v) = <<(v - 269) \div 256, (v - 269) % 256>>
    BY <1>4, <2>1, Zenon DEF Extension
  <2>3. Nibble(v) = 14
    BY <2>1 DEF Nibble
  <2> QED
    BY <2>1, <2>2, <2>3, Zenon
<1> QED
  BY <1>2, <1>3, <1>4

LEMMA ExtensionShape ==
  ASSUME NEW v \in Nat
  PROVE  /\ Extension(v) \in Seq(Nat)
         /\ Nibble(v) \in 0..14
         /\ ExtendedBytes(Nibble(v)) = Len(Extension(v))
<1>1. CASE v \in 0..12 /\ Extension(v) = <<>> /\ Nibble(v) = v
  <2>1. Extension(v) \in Seq(Nat) /\ Len(Extension(v)) = 0
    <3>1. <<>> \in Seq(Nat) /\ Len(<<>>) = 0
      OBVIOUS
    <3> QED
      BY <1>1, <3>1, Zenon
  <2>2. ExtendedBytes(Nibble(v)) = 0
    BY <1>1 DEF ExtendedBytes
  <2> QED
    BY <1>1, <2>1, <2>2
<1>2. CASE v \in 13..268 /\ Extension(v) = <<v - 13>> /\ Nibble(v) = 13
  <2>1. Extension(v) \in Seq(Nat) /\ Len(Extension(v)) = 1
    BY <1>2
  <2>2. ExtendedBytes(13) = 1
    BY DEF ExtendedBytes
  <2> QED
    BY <1>2, <2>1, <2>2
<1>3. CASE /\ v > 268
           /\ Extension(v) = <<(v - 269) \div 256, (v - 269) % 256>>
           /\ Nibble(v) = 14
  <2> DEFINE x == (v - 269) \div 256
             y == (v - 269) % 256
  <2>1. x \in Nat /\ y \in Nat /\ Extension(v) = <<x, y>>
    BY <1>3
  <2> HIDE DEF x, y
  <2>2. Extension(v) \in Seq(Nat) /\ Len(Extension(v)) = 2
    BY <2>1
  <2>3. ExtendedBytes(14) = 2
    BY DEF ExtendedBytes
  <2> QED
    BY <1>3, <2>2, <2>3
<1> QED
  BY <1>1, <1>2, <1>3, ExtensionCases

\* read_coap_extended reads back what was written.
LEMMA ReadsBack ==
  ASSUME NEW v \in Nat, NEW bytes \in Seq(Nat), NEW at \in Nat,
         at + Len(Extension(v)) <= Len(bytes),
         \A k \in 1..Len(Extension(v)) : bytes[at + k] = Extension(v)[k]
  PROVE  LET read == ReadCoapExtended(Nibble(v), bytes, at) IN
         read.value = v /\ read.next = at + Len(Extension(v)) /\ read.ok = TRUE
<1> DEFINE w == Extension(v)
           read == ReadCoapExtended(Nibble(v), bytes, at)
           Small == v \in 0..12 /\ w = <<>> /\ Nibble(v) = v
           Middle == v \in 13..268 /\ w = <<v - 13>> /\ Nibble(v) = 13
           Large == v > 268 /\ w = <<(v - 269) \div 256, (v - 269) % 256>> /\ Nibble(v) = 14
<1>0. at + Len(w) <= Len(bytes) /\ \A k \in 1..Len(w) : bytes[at + k] = w[k]
  OBVIOUS
<1> HIDE DEF read
<1>1. CASE Small
  <2>1. Len(w) = 0 /\ at + 0 = at /\ v < 13
    <3>1. Len(<<>>) = 0
      OBVIOUS
    <3>2. Len(w) = 0
      BY <1>1, <3>1, Zenon
    <3> QED
      BY <1>1, <3>2
  <2>2. read = [value |-> v, next |-> at, ok |-> TRUE]
    BY <1>1, <2>1 DEF read, ReadCoapExtended
  <2> HIDE DEF w
  <2> QED
    BY <2>1, <2>2 DEF read, w
<1>2. CASE Middle
  <2>1. Len(w) = 1 /\ w[1] = v - 13
    BY <1>2
  <2> HIDE DEF w
  <2>2. bytes[at + 1] = v - 13 /\ at < Len(bytes)
    BY <1>0, <2>1
  <2>3. Byte(bytes, at) + 13 = v
    BY <1>2, <2>2 DEF Byte
  <2>4. read = [value |-> Byte(bytes, at) + 13, next |-> at + 1, ok |-> TRUE]
    BY <1>2, <2>2 DEF read, ReadCoapExtended
  <2> QED
    BY <2>1, <2>3, <2>4 DEF read, w
<1>3. CASE Large
  <2> DEFINE x == v - 269
             p == x \div 256
             q == x % 256
  <2>1. x \in Nat /\ v = x + 269 /\ p \in Nat /\ q \in Nat /\ 256 * p + q = x
    <3>1. x \in Nat /\ v = x + 269
      BY <1>3
    <3> HIDE DEF x
    <3> QED
      BY <3>1
  <2>2. w = <<p, q>>
    BY <1>3
  <2> HIDE DEF p, q, x
  <2>3. Len(w) = 2 /\ w[1] = p /\ w[2] = q
    BY <2>1, <2>2
  <2> HIDE DEF w
  <2>4. bytes[at + 1] = p /\ bytes[at + 2] = q /\ at + 2 <= Len(bytes) /\ (at + 1) + 1 = at + 2
    BY <1>0, <2>3
  <2>5. Byte(bytes, at) = p /\ Byte(bytes, at + 1) = q
    BY <2>4 DEF Byte
  <2>6. read = [value |-> 256 * Byte(bytes, at) + Byte(bytes, at + 1) + 269,
                next |-> at + 2, ok |-> TRUE]
    BY <1>3, <2>4 DEF read, ReadCoapExtended
  <2>7. 256 * p + q + 269 = v
    BY <2>1
  <2> QED
    BY <2>3, <2>5, <2>6, <2>7 DEF read, w
<1>4. Small \/ Middle \/ Large
  BY ExtensionCases
<1> HIDE DEF Small, Middle, Large
<1> QED
  BY <1>1, <1>2, <1>3, <1>4

LEMMA JoinedNat ==
  ASSUME NEW x \in Seq(Nat), NEW y \in Seq(Nat)
  PROVE  /\ x \o y \in Seq(Nat)
         /\ Len(x \o y) = Len(x) + Len(y)
         /\ \A i \in 1..Len(x) : (x \o y)[i] = x[i]
         /\ \A i \in 1..Len(y) : (x \o y)[Len(x) + i] = y[i]
OBVIOUS

\* The parts of an encoded option.
LEMMA OptionShape ==
  ASSUME NEW o \in Options
  PROVE  /\ OptionBytes(o) \in Seq(Nat)
         /\ Len(OptionBytes(o))
              = 1 + Len(Extension(o.delta)) + Len(Extension(o.length)) + o.length
         /\ OptionBytes(o)[1] = 16 * Nibble(o.delta) + Nibble(o.length)
         /\ \A k \in 1..Len(Extension(o.delta)) : OptionBytes(o)[1 + k] = Extension(o.delta)[k]
         /\ \A k \in 1..Len(Extension(o.length)) :
              OptionBytes(o)[1 + Len(Extension(o.delta)) + k] = Extension(o.length)[k]
<1> DEFINE a == <<16 * Nibble(o.delta) + Nibble(o.length)>>
           b == Extension(o.delta)
           c == Extension(o.length)
           d == Filler(o.length)
<1>1. o.delta \in Nat /\ o.length \in Nat
  BY DEF Options
<1>2. b \in Seq(Nat) /\ c \in Seq(Nat) /\ Nibble(o.delta) \in Nat /\ Nibble(o.length) \in Nat
  <2>1. b \in Seq(Nat) /\ c \in Seq(Nat) /\ Nibble(o.delta) \in 0..14 /\ Nibble(o.length) \in 0..14
    BY <1>1, ExtensionShape, Zenon
  <2> HIDE DEF b, c
  <2> QED
    BY <2>1
<1>3. d \in Seq(Nat) /\ Len(d) = o.length
  BY <1>1 DEF Filler, Marker
<1>4. a \in Seq(Nat) /\ Len(a) = 1 /\ a[1] = 16 * Nibble(o.delta) + Nibble(o.length)
  BY <1>2
<1>5. OptionBytes(o) = ((a \o b) \o c) \o d
  BY DEF OptionBytes
<1> HIDE DEF a, b, c, d
<1> DEFINE e == a \o b
           f == e \o c
           g == f \o d
<1>6. e \in Seq(Nat) /\ Len(e) = 1 + Len(b) /\ e[1] = a[1] /\ \A k \in 1..Len(b) : e[1 + k] = b[k]
  <2>1. e \in Seq(Nat) /\ Len(e) = Len(a) + Len(b) /\ (\A k \in 1..Len(a) : e[k] = a[k])
        /\ \A k \in 1..Len(b) : e[Len(a) + k] = b[k]
    BY <1>2, <1>4, JoinedNat
  <2> HIDE DEF e
  <2> QED
    BY <1>4, <2>1
<1> HIDE DEF e
<1>7. /\ f \in Seq(Nat) /\ Len(f) = 1 + Len(b) + Len(c) /\ f[1] = a[1]
      /\ \A k \in 1..Len(b) : f[1 + k] = b[k]
      /\ \A k \in 1..Len(c) : f[1 + Len(b) + k] = c[k]
  <2>1. Len(b) \in Nat /\ Len(c) \in Nat
    BY <1>2
  <2>2. f \in Seq(Nat) /\ Len(f) = Len(e) + Len(c) /\ (\A k \in 1..Len(e) : f[k] = e[k])
        /\ \A k \in 1..Len(c) : f[Len(e) + k] = c[k]
    BY <1>2, <1>6, JoinedNat
  <2> HIDE DEF f
  <2>3. 1 \in 1..Len(e) /\ \A k \in 1..Len(b) : 1 + k \in 1..Len(e)
    BY <1>6, <2>1
  <2> QED
    BY <1>6, <2>1, <2>2, <2>3
<1> HIDE DEF f
<1>8. /\ g \in Seq(Nat) /\ Len(g) = 1 + Len(b) + Len(c) + Len(d) /\ g[1] = a[1]
      /\ \A k \in 1..Len(b) : g[1 + k] = b[k]
      /\ \A k \in 1..Len(c) : g[1 + Len(b) + k] = c[k]
  <2>1. Len(b) \in Nat /\ Len(c) \in Nat /\ Len(d) \in Nat
    BY <1>2, <1>3
  <2>2. g \in Seq(Nat) /\ Len(g) = Len(f) + Len(d) /\ \A k \in 1..Len(f) : g[k] = f[k]
    BY <1>3, <1>7, JoinedNat
  <2> HIDE DEF g
  <2>3. 1 \in 1..Len(f) /\ (\A k \in 1..Len(b) : 1 + k \in 1..Len(f))
        /\ \A k \in 1..Len(c) : 1 + Len(b) + k \in 1..Len(f)
    BY <1>7, <2>1
  <2> QED
    BY <1>7, <2>1, <2>2, <2>3
<1> QED
  BY <1>3, <1>4, <1>5, <1>8 DEF b, c, g, f, e

\* One turn of the walk reads one option.
LEMMA OptionRead ==
  ASSUME NEW o \in Options, NEW bytes \in Seq(Nat), NEW start \in Nat,
         start + Len(OptionBytes(o)) <= Len(bytes),
         \A k \in 1..Len(OptionBytes(o)) : bytes[start + k] = OptionBytes(o)[k]
  PROVE  /\ OptionAt(bytes, start).ok
         /\ OptionAt(bytes, start).end = start + Len(OptionBytes(o))
         /\ OptionAt(bytes, start).cost = CostOf(o)
         /\ Byte(bytes, start) # Marker
         /\ Len(OptionBytes(o)) \in Nat /\ Len(OptionBytes(o)) > 0
<1> DEFINE b == Extension(o.delta)
           c == Extension(o.length)
           w == OptionBytes(o)
           n == Nibble(o.delta)
           m == Nibble(o.length)
           header == Byte(bytes, start)
           delta == ReadCoapExtended(n, bytes, start + 1)
           length == ReadCoapExtended(m, bytes, start + 1 + Len(b))
<1>1. o.delta \in Nat /\ o.length \in Nat
  BY DEF Options
<1>2. b \in Seq(Nat) /\ c \in Seq(Nat) /\ n \in 0..14 /\ m \in 0..14
      /\ ExtendedBytes(n) = Len(b) /\ ExtendedBytes(m) = Len(c)
  BY <1>1, ExtensionShape
<1>3. /\ w \in Seq(Nat) /\ Len(w) = 1 + Len(b) + Len(c) + o.length
      /\ w[1] = 16 * n + m
      /\ \A k \in 1..Len(b) : w[1 + k] = b[k]
      /\ \A k \in 1..Len(c) : w[1 + Len(b) + k] = c[k]
  BY OptionShape
<1>4. Len(b) \in Nat /\ Len(c) \in Nat /\ Len(w) \in Nat
  BY <1>2, <1>3
<1>5. start + Len(w) <= Len(bytes) /\ \A k \in 1..Len(w) : bytes[start + k] = w[k]
  OBVIOUS
<1> HIDE DEF w
<1>6. header = 16 * n + m /\ header \div 16 = n /\ header % 16 = m /\ header # Marker
  <2>1. header = 16 * n + m
    <3>1. 1 \in 1..Len(w)
      BY <1>1, <1>3, <1>4
    <3>2. bytes[start + 1] = w[1]
      BY <1>5, <3>1
    <3> QED
      BY <1>3, <3>2, Zenon DEF Byte
  <2>2. n \in 0..14 /\ m \in 0..14
    BY <1>2
  <2> HIDE DEF n, m, header
  <2>3. header \div 16 = n /\ header % 16 = m /\ header # 255
    BY <2>1, <2>2
  <2> QED
    BY <2>1, <2>3, Zenon DEF Marker
<1> DEFINE bl == Len(b)
           cl == Len(c)
           wl == Len(w)
           ol == o.length
           size == Len(bytes)
<1>13. /\ bl \in Nat /\ cl \in Nat /\ wl \in Nat /\ ol \in Nat /\ wl = 1 + bl + cl + ol
       /\ start + wl <= size /\ size \in Nat
  BY <1>1, <1>3, <1>4, <1>5
<1>14. /\ start + 1 + bl \in Nat /\ (start + 1 + bl) + cl <= size
       /\ (start + 1 + bl + cl) + ol = start + wl
       /\ (start + wl) - start = wl
  <2> HIDE DEF bl, cl, wl, ol, size
  <2> QED
    BY <1>13
<1>7. delta.value = o.delta /\ delta.next = start + 1 + Len(b) /\ delta.ok = TRUE
  <2>1. start + 1 \in Nat /\ (start + 1) + Len(b) <= Len(bytes)
    <3> HIDE DEF bl, cl, wl, ol, size
    <3>1. start + 1 \in Nat /\ (start + 1) + bl <= size
      BY <1>13
    <3> QED
      BY <3>1 DEF bl, size
  <2>2. \A k \in 1..Len(b) : bytes[(start + 1) + k] = b[k]
    <3> TAKE k \in 1..Len(b)
    <3>1. 1 + k \in 1..Len(w) /\ (start + 1) + k = start + (1 + k)
      <4>1. k \in 1..bl
        OBVIOUS
      <4> HIDE DEF bl, cl, wl, ol, size
      <4>2. 1 + k \in 1..wl /\ (start + 1) + k = start + (1 + k)
        BY <1>13, <4>1
      <4> QED
        BY <4>2 DEF wl
    <3> QED
      BY <1>3, <1>5, <3>1
  <2> QED
    BY <1>1, <2>1, <2>2, ReadsBack
<1>8. /\ length.value = o.length /\ length.next = start + 1 + Len(b) + Len(c)
      /\ length.ok = TRUE
  <2>1. start + 1 + Len(b) \in Nat /\ (start + 1 + Len(b)) + Len(c) <= Len(bytes)
    BY <1>14
  <2>2. \A k \in 1..Len(c) : bytes[(start + 1 + Len(b)) + k] = c[k]
    <3> TAKE k \in 1..Len(c)
    <3>1. 1 + Len(b) + k \in 1..Len(w) /\ (start + 1 + Len(b)) + k = start + (1 + Len(b) + k)
      <4>1. k \in 1..cl
        OBVIOUS
      <4> HIDE DEF bl, cl, wl, ol, size
      <4>2. 1 + bl + k \in 1..wl /\ (start + 1 + bl) + k = start + (1 + bl + k)
        BY <1>13, <4>1
      <4> QED
        BY <4>2 DEF wl, bl
    <3> QED
      BY <1>3, <1>5, <3>1
  <2> QED
    BY <1>1, <2>1, <2>2, ReadsBack
<1> DEFINE end == length.next + length.value
<1>9. /\ delta.ok = TRUE /\ length.ok = TRUE /\ end = start + Len(w) /\ end <= Len(bytes)
      /\ end - start = Len(w) /\ delta.value = o.delta /\ length.value = o.length
      /\ delta.next = start + 1 + Len(b)
  <2> HIDE DEF delta, length, b, c
  <2>1. end = (start + 1 + bl + cl) + ol
    BY <1>8 DEF b, c
  <2> HIDE DEF end
  <2>2. end = start + wl
    BY <1>14, <2>1
  <2> QED
    BY <1>7, <1>8, <1>13, <1>14, <2>2
<1>10. OptionAt(bytes, start)
        = [ok |-> delta.ok /\ length.ok /\ end <= Len(bytes),
           end |-> end,
           cost |-> [step |-> delta.value, value |-> length.value, header |-> 1,
                     delta |-> ExtendedBytes(n), length |-> ExtendedBytes(m),
                     encoded |-> end - start]]
  <2> DEFINE wrote == ReadCoapExtended(header \div 16, bytes, start + 1)
  <2>1. wrote = delta /\ wrote.next = start + 1 + Len(b)
    BY <1>6, <1>9
  <2> HIDE DEF n, m, b, delta
  <2> QED
    BY <1>6, <1>9, <2>1, Zenon DEF OptionAt
<1> HIDE DEF delta, length, end, n, m, b, c
<1>11. /\ OptionAt(bytes, start).ok
       /\ OptionAt(bytes, start).end = start + Len(w)
       /\ OptionAt(bytes, start).cost = [step |-> o.delta, value |-> o.length, header |-> 1,
                                         delta |-> Len(b), length |-> Len(c), encoded |-> Len(w)]
  <2> DEFINE cost == [step |-> delta.value, value |-> length.value, header |-> 1,
                      delta |-> ExtendedBytes(n), length |-> ExtendedBytes(m),
                      encoded |-> end - start]
             ok == delta.ok /\ length.ok /\ end <= Len(bytes)
  <2>1. ok
    BY <1>9, Zenon
  <2>2. cost = [step |-> o.delta, value |-> o.length, header |-> 1,
                delta |-> Len(b), length |-> Len(c), encoded |-> Len(w)]
    BY <1>2, <1>9, Zenon
  <2> HIDE DEF cost, ok
  <2>3. OptionAt(bytes, start) = [ok |-> ok, end |-> end, cost |-> cost]
    BY <1>10, Zenon DEF cost, ok
  <2>4. OptionAt(bytes, start).ok = ok /\ OptionAt(bytes, start).end = end
        /\ OptionAt(bytes, start).cost = cost
    BY <2>3
  <2> QED
    BY <1>9, <2>1, <2>2, <2>4, Zenon
<1>12. Len(w) > 0
  BY <1>1, <1>3, <1>4
<1> QED
  BY <1>4, <1>6, <1>11, <1>12 DEF CostOf, w, b, c

-----------------------------------------------------------------------------
(* The walk over the options of a CoAP message. *)

LEMMA ReadForward ==
  ASSUME NEW nibble \in 0..15, NEW bytes \in Seq(Nat), NEW at \in Nat
  PROVE  LET read == ReadCoapExtended(nibble, bytes, at) IN
         read.value \in Nat /\ read.next \in Nat /\ read.next >= at
<1> DEFINE read == ReadCoapExtended(nibble, bytes, at)
<1>0. Len(bytes) \in Nat /\ \A i \in 1..Len(bytes) : bytes[i] \in Nat
  OBVIOUS
<1>1. CASE nibble < 13
  <2>1. read = [value |-> nibble, next |-> at, ok |-> TRUE]
    BY <1>1 DEF ReadCoapExtended
  <2> HIDE DEF read
  <2>2. read.value \in Nat /\ read.next \in Nat /\ read.next >= at
    BY <2>1
  <2> QED
    BY <2>2 DEF read
<1>2. CASE nibble = 13 /\ at < Len(bytes)
  <2>1. read = [value |-> Byte(bytes, at) + 13, next |-> at + 1, ok |-> TRUE]
    BY <1>2 DEF ReadCoapExtended
  <2>2. Byte(bytes, at) \in Nat
    BY <1>0, <1>2 DEF Byte
  <2> HIDE DEF read
  <2>3. read.value \in Nat /\ read.next \in Nat /\ read.next >= at
    BY <2>1, <2>2
  <2> QED
    BY <2>3 DEF read
<1>3. CASE nibble = 14 /\ at + 2 <= Len(bytes)
  <2>1. read = [value |-> 256 * Byte(bytes, at) + Byte(bytes, at + 1) + 269,
                next |-> at + 2, ok |-> TRUE]
    BY <1>3 DEF ReadCoapExtended
  <2>2. Byte(bytes, at) \in Nat /\ Byte(bytes, at + 1) \in Nat
    BY <1>0, <1>3 DEF Byte
  <2> HIDE DEF read
  <2>3. read.value \in Nat /\ read.next \in Nat /\ read.next >= at
    BY <2>1, <2>2
  <2> QED
    BY <2>3 DEF read
<1>4. CASE ~(nibble < 13) /\ ~(nibble = 13 /\ at < Len(bytes)) /\ ~(nibble = 14 /\ at + 2 <= Len(bytes))
  <2>1. read = [value |-> 0, next |-> at, ok |-> FALSE]
    BY <1>4, Zenon DEF ReadCoapExtended
  <2> HIDE DEF read
  <2>2. read.value \in Nat /\ read.next \in Nat /\ read.next >= at
    BY <2>1
  <2> QED
    BY <2>2 DEF read
<1> QED
  BY <1>1, <1>2, <1>3, <1>4

\* The walk gets on.
LEMMA WalkForward ==
  ASSUME NEW bytes \in Seq(Nat), NEW start \in Nat, start < Len(bytes),
         OptionAt(bytes, start).ok
  PROVE  OptionAt(bytes, start).end \in (start + 1)..Len(bytes)
<1> DEFINE header == Byte(bytes, start)
           delta == ReadCoapExtended(header \div 16, bytes, start + 1)
           length == ReadCoapExtended(header % 16, bytes, delta.next)
           end == length.next + length.value
<1>1. header \in Nat /\ Len(bytes) \in Nat
  BY DEF Byte
<1>2. OptionAt(bytes, start).ok = (delta.ok /\ length.ok /\ end <= Len(bytes))
      /\ OptionAt(bytes, start).end = end
  BY DEF OptionAt
<1>3. delta.ok /\ end <= Len(bytes)
  BY <1>2
<1>4. header % 16 \in 0..15 /\ header \div 16 \in Nat
  <2> HIDE DEF header
  <2> QED
    BY <1>1
<1>5. delta.next \in Nat /\ delta.next >= start + 1
  <2>1. CASE header \div 16 \in 0..15
    <3> DEFINE h == header \div 16
    <3>1. h \in 0..15 /\ start + 1 \in Nat
      BY <2>1
    <3> HIDE DEF h
    <3>2. LET read == ReadCoapExtended(h, bytes, start + 1) IN
          read.next \in Nat /\ read.next >= start + 1
      BY <3>1, ReadForward
    <3> QED
      BY <3>2 DEF h
  <2>2. CASE header \div 16 \notin 0..15
    <3> DEFINE h == header \div 16
    <3>1. ~(h < 13) /\ h # 13 /\ h # 14
      <4>1. h \in Nat /\ h \notin 0..15
        BY <1>4, <2>2
      <4> HIDE DEF h
      <4> QED
        BY <4>1
    <3> HIDE DEF h
    <3>2. ReadCoapExtended(h, bytes, start + 1) = [value |-> 0, next |-> start + 1, ok |-> FALSE]
      BY <3>1, Zenon DEF ReadCoapExtended
    <3>3. ReadCoapExtended(h, bytes, start + 1).next = start + 1
      BY <3>2
    <3> QED
      BY <3>3 DEF h
  <2> QED
    BY <2>1, <2>2
<1>6. length.value \in Nat /\ length.next \in Nat /\ length.next >= delta.next
  <2> HIDE DEF delta
  <2> QED
    BY <1>4, <1>5, ReadForward
<1> HIDE DEF length, delta
<1> QED
  BY <1>1, <1>2, <1>3, <1>5, <1>6

\* The loop of inspect_coap, at one offset.
WalkStep(from, bytes, offset) ==
  IF offset = Len(bytes) THEN Walked(TRUE, <<>>, 0)
  ELSE IF Byte(bytes, offset) = Marker
    THEN Walked(offset + 1 < Len(bytes), <<>>, Len(bytes) - (offset + 1))
  ELSE LET option == OptionAt(bytes, offset) IN
       IF ~option.ok THEN Walked(FALSE, <<>>, 0)
       ELSE [from[option.end] EXCEPT !.costs = <<option.cost>> \o @]

WalkLoop(from, bytes) == from = [offset \in 0..Len(bytes) |-> WalkStep(from, bytes, offset)]

LEMMA WalkExists ==
  ASSUME NEW bytes \in Seq(Nat)
  PROVE  \E from : WalkLoop(from, bytes)
<1> DEFINE n == Len(bytes)
           Fits(k, f) == /\ f = [o \in (n - k)..n |-> f[o]]
                         /\ \A o \in (n - k)..n : f[o] = WalkStep(f, bytes, o)
           Good == {k \in 0..n : \E f : Fits(k, f)}
<1>1. n \in Nat
  OBVIOUS
<1>2. 0 \in Good
  <2> DEFINE f == [o \in n..n |-> Walked(TRUE, <<>>, 0)]
  <2>1. (n - 0)..n = n..n /\ \A o \in n..n : o = Len(bytes)
    BY <1>1
  <2>2. f = [o \in n..n |-> f[o]]
    BY <2>1
  <2>3. \A o \in n..n : f[o] = Walked(TRUE, <<>>, 0)
    OBVIOUS
  <2> HIDE DEF f
  <2>4. \A o \in n..n : f[o] = WalkStep(f, bytes, o)
    BY <2>1, <2>3, Zenon DEF WalkStep
  <2>5. Fits(0, f)
    BY <2>1, <2>2, <2>4, Zenon
  <2> HIDE DEF Fits
  <2> QED
    BY <1>1, <2>5
<1>3. ASSUME NEW k \in 1..n, k - 1 \in Good
      PROVE  k \in Good
  <2> DEFINE low == n - k
             above == n - (k - 1)
  <2>1. PICK f : Fits(k - 1, f)
    <3> HIDE DEF Fits
    <3> QED
      BY <1>3
  <2> DEFINE e == [o \in low..n |-> WalkStep(f, bytes, o)]
  <2>2. low \in Nat /\ above = low + 1 /\ above..n \subseteq low..n
    BY <1>1
  <2>3. \A o \in above..n : e[o] = f[o]
    <3>1. \A o \in above..n : f[o] = WalkStep(f, bytes, o)
      BY <2>1
    <3> HIDE DEF low, above
    <3> QED
      BY <2>2, <3>1
  <2>4. ASSUME NEW o \in low..n PROVE e[o] = WalkStep(e, bytes, o)
    <3> DEFINE option == OptionAt(bytes, o)
    <3>1. e[o] = WalkStep(f, bytes, o)
      OBVIOUS
    <3>2. CASE o = Len(bytes)
      BY <3>1, <3>2, Zenon DEF WalkStep
    <3>3. CASE o # Len(bytes) /\ option.ok
      <4>1. o \in Nat /\ o < Len(bytes)
        BY <1>1, <2>2, <3>3
      <4>2. option.end \in (o + 1)..n
        BY <3>3, <4>1, WalkForward
      <4>3. option.end \in above..n
        <5> HIDE DEF option
        <5> QED
          BY <1>1, <2>2, <4>1, <4>2
      <4>4. e[option.end] = f[option.end]
        BY <2>3, <4>3
      <4> HIDE DEF e
      <4> QED
        BY <3>1, <4>4, Zenon DEF WalkStep
    <3>4. CASE ~option.ok
      <4> HIDE DEF e
      <4> QED
        BY <3>1, <3>4, Zenon DEF WalkStep
    <3> QED
      BY <3>2, <3>3, <3>4
  <2>5. e = [o \in low..n |-> e[o]]
    OBVIOUS
  <2>6. Fits(k, e)
    <3> HIDE DEF e
    <3> QED
      BY <2>4, <2>5
  <2> HIDE DEF Fits
  <2> QED
    BY <2>6
<1>4. n \in Good
  <2>1. n \in Nat
    BY <1>1
  <2> HIDE DEF Good, n
  <2>2. \A i \in 0..n : i \in Good
    BY <2>1, <1>2, <1>3, UpTo
  <2> QED
    BY <2>1, <2>2
<1>5. PICK f : Fits(n, f)
  <2> HIDE DEF Fits
  <2> QED
    BY <1>4
<1>6. (n - n)..n = 0..n
  BY <1>1
<1>7. f = [o \in 0..n |-> WalkStep(f, bytes, o)]
  BY <1>5, <1>6
<1> QED
  BY <1>7 DEF WalkLoop

\* The encoded message: its header, its options and its payload in their places.
LEMMA EncodedShape ==
  ASSUME NEW m \in Messages
  PROVE  \E at \in [0..Len(m.options) -> Nat] :
           LET bytes == Encoded(m)
               start == 4 + m.token
               last == Len(m.options) IN
           /\ bytes \in Seq(Nat)
           /\ at[0] = 0
           /\ \A i \in 1..last : at[i] = at[i - 1] + Len(OptionBytes(m.options[i]))
           /\ \A i \in 0..last : at[i] <= at[last]
           /\ Len(bytes) = start + at[last] + (IF m.payload = 0 THEN 0 ELSE m.payload + 1)
           /\ bytes[1] = 64 + m.token
           /\ \A i \in 1..last : \A k \in 1..Len(OptionBytes(m.options[i])) :
                bytes[start + at[i - 1] + k] = OptionBytes(m.options[i])[k]
           /\ m.payload # 0 => bytes[start + at[last] + 1] = Marker
<1> DEFINE opts == [i \in DOMAIN m.options |-> OptionBytes(m.options[i])]
           n == Len(m.options)
           a == <<64 + m.token, 0, 0, 0>>
           b == Filler(m.token)
           c == FlattenSeq(opts)
           d == IF m.payload = 0 THEN <<>> ELSE Filler(m.payload + 1)
<1>1. m.token \in Nat /\ m.payload \in Nat /\ m.options \in Seq(Options)
  BY DEF Messages
<1>2. n \in Nat /\ DOMAIN m.options = 1..n /\ \A i \in 1..n : m.options[i] \in Options
  <2> DEFINE o == m.options
  <2>1. o \in Seq(Options)
    BY <1>1
  <2> HIDE DEF o
  <2>2. Len(o) \in Nat /\ DOMAIN o = 1..Len(o) /\ \A i \in 1..Len(o) : o[i] \in Options
    BY <2>1
  <2> QED
    BY <2>2 DEF o
<1>3. opts \in Seq(Seq(Nat)) /\ Len(opts) = n /\ \A i \in 1..n : opts[i] = OptionBytes(m.options[i])
  <2> DEFINE S == Seq(Nat)
  <2>1. \A i \in 1..n : OptionBytes(m.options[i]) \in S
    BY <1>2, OptionShape
  <2>2. opts = [i \in 1..n |-> OptionBytes(m.options[i])]
    BY <1>2
  <2> HIDE DEF S, opts, n
  <2>3. opts \in [1..n -> S] /\ \A i \in 1..n : opts[i] = OptionBytes(m.options[i])
    BY <2>1, <2>2
  <2>4. opts \in Seq(S) /\ Len(opts) = n
    BY <1>2, <2>3
  <2> QED
    BY <2>3, <2>4 DEF S
<1> HIDE DEF opts, n
<1>4. /\ c \in Seq(Nat)
      /\ \E at \in [0..n -> Nat] :
           /\ at[0] = 0
           /\ \A i \in 1..n : at[i] = at[i - 1] + Len(opts[i])
           /\ \A j \in 0..n : \A i \in j..n : at[j] <= at[i]
           /\ Len(c) = at[n]
           /\ \A i \in 1..n : \A k \in 1..Len(opts[i]) : c[at[i - 1] + k] = opts[i][k]
  <2>1. Len(opts) = n /\ opts \in Seq(Seq(Nat))
    BY <1>3
  <2> DEFINE T == Nat
  <2>2. opts \in Seq(Seq(T))
    BY <2>1
  <2> HIDE DEF T
  <2>3. /\ c \in Seq(T)
        /\ \E at \in [0..Len(opts) -> Nat] :
             /\ at[0] = 0
             /\ \A i \in 1..Len(opts) : at[i] = at[i - 1] + Len(opts[i])
             /\ \A j \in 0..Len(opts) : \A i \in j..Len(opts) : at[j] <= at[i]
             /\ Len(c) = at[Len(opts)]
             /\ \A i \in 1..Len(opts) : \A k \in 1..Len(opts[i]) : c[at[i - 1] + k] = opts[i][k]
    BY <2>2, FlattenShape, Zenon
  <2> HIDE DEF c
  <2> QED
    BY <2>1, <2>3, Zenon DEF T
<1>5. PICK at \in [0..n -> Nat] :
        /\ at[0] = 0
        /\ \A i \in 1..n : at[i] = at[i - 1] + Len(opts[i])
        /\ \A j \in 0..n : \A i \in j..n : at[j] <= at[i]
        /\ Len(c) = at[n]
        /\ \A i \in 1..n : \A k \in 1..Len(opts[i]) : c[at[i - 1] + k] = opts[i][k]
  BY <1>4
<1>6. a \in Seq(Nat) /\ Len(a) = 4 /\ a[1] = 64 + m.token
  BY <1>1
<1>7. b \in Seq(Nat) /\ Len(b) = m.token
  BY <1>1 DEF Filler, Marker
<1>8. /\ d \in Seq(Nat) /\ Len(d) = (IF m.payload = 0 THEN 0 ELSE m.payload + 1)
      /\ m.payload # 0 => d[1] = Marker
  <2>1. CASE m.payload = 0
    <3>1. <<>> \in Seq(Nat) /\ Len(<<>>) = 0
      OBVIOUS
    <3>2. d = <<>>
      BY <2>1
    <3> HIDE DEF d
    <3> QED
      BY <2>1, <3>1, <3>2, Zenon
  <2>2. CASE m.payload # 0
    <3>1. d = Filler(m.payload + 1)
      BY <2>2
    <3> HIDE DEF d
    <3> QED
      BY <1>1, <2>2, <3>1 DEF Filler, Marker
  <2> QED
    BY <2>1, <2>2
<1>9. Encoded(m) = ((a \o b) \o c) \o d
  BY DEF Encoded, opts
<1> HIDE DEF a, b, c, d
<1> DEFINE e == a \o b
           f == e \o c
           g == f \o d
<1>10. e \in Seq(Nat) /\ Len(e) = 4 + m.token /\ e[1] = 64 + m.token
  <2>1. e \in Seq(Nat) /\ Len(e) = Len(a) + Len(b) /\ \A k \in 1..Len(a) : e[k] = a[k]
    BY <1>6, <1>7, JoinedNat
  <2> HIDE DEF e
  <2> QED
    BY <1>6, <1>7, <2>1
<1> HIDE DEF e
<1>11. /\ f \in Seq(Nat) /\ Len(f) = Len(e) + Len(c) /\ (\A k \in 1..Len(e) : f[k] = e[k])
       /\ \A k \in 1..Len(c) : f[Len(e) + k] = c[k]
  BY <1>4, <1>10, JoinedNat
<1> HIDE DEF f
<1>12. /\ g \in Seq(Nat) /\ Len(g) = Len(f) + Len(d) /\ (\A k \in 1..Len(f) : g[k] = f[k])
       /\ \A k \in 1..Len(d) : g[Len(f) + k] = d[k]
  BY <1>8, <1>11, JoinedNat
<1> HIDE DEF g
<1>13. Len(c) \in Nat /\ Len(d) \in Nat /\ Len(e) \in Nat /\ Len(f) \in Nat /\ Len(e) > 0
  <2>1. Len(c) \in Nat /\ Len(d) \in Nat /\ Len(e) \in Nat /\ Len(f) \in Nat
    <3>1. \A x \in Seq(Nat) : Len(x) \in Nat
      OBVIOUS
    <3> QED
      BY <1>4, <1>8, <1>10, <1>11, <3>1, Zenon
  <2> QED
    BY <1>1, <1>10, <2>1
<1>14. g[1] = 64 + m.token
  <2>1. 1 \in 1..Len(e) /\ 1 \in 1..Len(f)
    BY <1>11, <1>13
  <2> QED
    BY <1>10, <1>11, <1>12, <2>1
<1>15. ASSUME NEW i \in 1..n, NEW k \in 1..Len(opts[i])
       PROVE  g[4 + m.token + at[i - 1] + k] = opts[i][k]
  <2> DEFINE p == at[i - 1]
             q == Len(opts[i])
  <2>1. i - 1 \in 0..n /\ i \in 0..n /\ n \in i..n /\ n \in 0..n
    BY <1>2
  <2>2. opts[i] \in Seq(Nat)
    BY <1>3
  <2>3. p \in Nat /\ q \in Nat /\ at[i] = p + q /\ at[i] <= at[n] /\ Len(c) = at[n] /\ at[n] \in Nat
    BY <1>5, <2>1, <2>2
  <2>4. k \in 1..q /\ c[p + k] = opts[i][k]
    BY <1>5
  <2> HIDE DEF p, q
  <2>5. p + k \in 1..Len(c)
    BY <2>3, <2>4
  <2>6. Len(e) + (p + k) \in 1..Len(f)
    BY <1>11, <1>13, <2>5
  <2>7. f[Len(e) + (p + k)] = c[p + k]
    BY <1>11, <2>5
  <2>8. g[Len(e) + (p + k)] = f[Len(e) + (p + k)]
    BY <1>12, <2>6
  <2>9. Len(e) + (p + k) = 4 + m.token + p + k
    BY <1>1, <1>10, <2>3, <2>4
  <2> QED
    BY <2>4, <2>7, <2>8, <2>9 DEF p
<1>16. m.payload # 0 => g[4 + m.token + at[n] + 1] = Marker
  <2> SUFFICES ASSUME m.payload # 0 PROVE g[4 + m.token + at[n] + 1] = Marker
    OBVIOUS
  <2>1. 1 \in 1..Len(d)
    BY <1>1, <1>8, <1>13
  <2>2. g[Len(f) + 1] = d[1]
    BY <1>12, <2>1
  <2>3. Len(f) = 4 + m.token + at[n]
    BY <1>5, <1>10, <1>11
  <2> QED
    BY <1>8, <2>2, <2>3
<1>17. Len(g) = 4 + m.token + at[n] + (IF m.payload = 0 THEN 0 ELSE m.payload + 1)
  BY <1>5, <1>8, <1>10, <1>11, <1>12
<1>18. \A i \in 1..n : at[i] = at[i - 1] + Len(OptionBytes(m.options[i]))
  BY <1>3, <1>5
<1>19. \A i \in 1..n : \A k \in 1..Len(OptionBytes(m.options[i])) :
         g[4 + m.token + at[i - 1] + k] = OptionBytes(m.options[i])[k]
  BY <1>3, <1>15
<1>20. \A i \in 0..n : at[i] <= at[n]
  <2> TAKE i \in 0..n
  <2>1. n \in i..n
    BY <1>2
  <2> QED
    BY <1>5, <2>1
<1>21. Encoded(m) = g
  BY <1>9 DEF e, f, g
<1> QED
  BY <1>5, <1>12, <1>14, <1>16, <1>17, <1>18, <1>19, <1>20, <1>21 DEF n

\* The last d items of a list of n.
LastOf(list, n, d) == [k \in 1..d |-> list[(n - d) + k]]

LEMMA LastGrows ==
  ASSUME NEW T, NEW n \in Nat, NEW list \in [1..n -> T], NEW d \in 1..n
  PROVE  LastOf(list, n, d) = <<list[(n - d) + 1]>> \o LastOf(list, n, d - 1)
<1> DEFINE x == <<list[(n - d) + 1]>>
           y == LastOf(list, n, d - 1)
           z == LastOf(list, n, d)
<1>1. (n - d) + 1 \in 1..n /\ d - 1 \in Nat
  OBVIOUS
<1>2. x \in Seq(T) /\ Len(x) = 1 /\ x[1] = list[(n - d) + 1]
  BY <1>1
<1>3. y \in Seq(T) /\ Len(y) = d - 1 /\ \A k \in 1..(d - 1) : y[k] = list[(n - (d - 1)) + k]
  <2>1. \A k \in 1..(d - 1) : list[(n - (d - 1)) + k] \in T
    <3> TAKE k \in 1..(d - 1)
    <3>1. (n - (d - 1)) + k \in 1..n
      OBVIOUS
    <3> QED
      BY <3>1
  <2>2. y \in [1..(d - 1) -> T]
    BY <2>1 DEF LastOf
  <2>3. \A k \in 1..(d - 1) : y[k] = list[(n - (d - 1)) + k]
    BY DEF LastOf
  <2> HIDE DEF y
  <2> QED
    BY <1>1, <2>2, <2>3
<1> HIDE DEF x, y
<1>4. /\ x \o y \in Seq(T) /\ Len(x \o y) = Len(x) + Len(y)
      /\ (\A k \in 1..Len(x) : (x \o y)[k] = x[k])
      /\ \A k \in 1..Len(y) : (x \o y)[Len(x) + k] = y[k]
  <2>1. x \in Seq(T) /\ y \in Seq(T)
    BY <1>2, <1>3
  <2> QED
    BY <2>1, Joined
<1> DEFINE w == x \o y
<1>5. w \in Seq(T) /\ Len(w) = d /\ w[1] = list[(n - d) + 1]
      /\ \A k \in 1..(d - 1) : w[1 + k] = list[(n - (d - 1)) + k]
  BY <1>2, <1>3, <1>4
<1> HIDE DEF w
<1>6. \A k \in 1..d : w[k] = list[(n - d) + k]
  <2> TAKE k \in 1..d
  <2>1. CASE k = 1
    BY <1>5, <2>1
  <2>2. CASE k # 1
    <3>1. k - 1 \in 1..(d - 1) /\ 1 + (k - 1) = k /\ (n - (d - 1)) + (k - 1) = (n - d) + k
      BY <2>2
    <3>2. w[1 + (k - 1)] = list[(n - (d - 1)) + (k - 1)]
      BY <1>5, <3>1
    <3> QED
      BY <3>1, <3>2
  <2> QED
    BY <2>1, <2>2
<1>7. w = [k \in 1..d |-> w[k]]
  BY <1>5
<1>8. w = [k \in 1..d |-> list[(n - d) + k]]
  BY <1>6, <1>7
<1> QED
  BY <1>8 DEF LastOf, w, x, y

LEMMA WalkedParts ==
  ASSUME NEW ok, NEW costs, NEW payload, NEW new
  PROVE  /\ Walked(ok, costs, payload).costs = costs
         /\ Walked(ok, costs, payload).ok = ok
         /\ Walked(ok, costs, payload).payload = payload
         /\ [Walked(ok, costs, payload) EXCEPT !.costs = new] = Walked(ok, new, payload)
BY SMT DEF Walked

\* inspect_coap finds the options and the payload of the message.
LEMMA WalkFinds ==
  ASSUME NEW m \in Messages
  PROVE  InspectCoap(Encoded(m), m)
           = Walked(TRUE, [i \in 1..Len(m.options) |-> CostOf(m.options[i])], m.payload)
<1> DEFINE bytes == Encoded(m)
           start == 4 + m.token
           n == Len(m.options)
           N == Len(bytes)
           costs == [i \in 1..n |-> CostOf(m.options[i])]
           C == {CostOf(o) : o \in Options}
<1>1. m.token \in 0..8 /\ m.token \in Nat /\ m.payload \in Nat /\ m.options \in Seq(Options)
  BY DEF Messages
<1>2. n \in Nat /\ \A i \in 1..n : m.options[i] \in Options
  <2> DEFINE o == m.options
  <2>1. o \in Seq(Options)
    BY <1>1
  <2> HIDE DEF o
  <2>2. Len(o) \in Nat /\ \A i \in 1..Len(o) : o[i] \in Options
    BY <2>1
  <2> QED
    BY <2>2 DEF o
<1>3. PICK at \in [0..n -> Nat] :
        /\ bytes \in Seq(Nat)
        /\ at[0] = 0
        /\ \A i \in 1..n : at[i] = at[i - 1] + Len(OptionBytes(m.options[i]))
        /\ \A i \in 0..n : at[i] <= at[n]
        /\ N = start + at[n] + (IF m.payload = 0 THEN 0 ELSE m.payload + 1)
        /\ bytes[1] = 64 + m.token
        /\ \A i \in 1..n : \A k \in 1..Len(OptionBytes(m.options[i])) :
             bytes[start + at[i - 1] + k] = OptionBytes(m.options[i])[k]
        /\ m.payload # 0 => bytes[start + at[n] + 1] = Marker
  BY EncodedShape
<1> DEFINE from == CHOOSE from : WalkLoop(from, bytes)
<1>4. WalkLoop(from, bytes)
  BY <1>3, WalkExists
<1>5. WalkOptions(bytes, start) = from[start]
  BY Zenon DEF WalkOptions, WalkLoop, WalkStep
<1> HIDE DEF from, bytes, N
<1>6. N \in Nat /\ N = Len(bytes)
  BY <1>3 DEF N
<1>7. \A o \in 0..N : from[o] = WalkStep(from, bytes, o)
  BY <1>4, <1>6 DEF WalkLoop
<1>8. costs \in [1..n -> C] /\ \A i \in 1..n : costs[i] = CostOf(m.options[i])
  BY <1>2
<1> HIDE DEF costs, n, C
<1>9. \A i \in 0..n : at[i] \in Nat /\ start + at[i] \in Nat /\ start + at[i] <= N
  <2> TAKE i \in 0..n
  <2>1. at[i] \in Nat /\ at[n] \in Nat /\ at[i] <= at[n] /\ n \in 0..n
    BY <1>2, <1>3
  <2>2. start + at[n] <= N
    <3> DEFINE x == at[n]
               y == m.payload
               z == m.token
    <3>1. N = (4 + z) + x + (IF y = 0 THEN 0 ELSE y + 1) /\ x \in Nat /\ y \in Nat /\ z \in Nat
      BY <1>1, <1>3, <2>1
    <3> HIDE DEF x, y, z
    <3>2. (4 + z) + x <= N
      BY <3>1
    <3> QED
      BY <3>2 DEF x, z
  <2> QED
    BY <1>1, <1>6, <2>1, <2>2
<1>10. n \in 0..n /\ at[n] \in Nat /\ 0 \in 0..n
  BY <1>2
<1> DEFINE Result(d) == Walked(TRUE, LastOf(costs, n, d), m.payload)
           Good == {d \in 0..n : from[start + at[n - d]] = Result(d)}
<1>11. 0 \in Good
  <2> DEFINE end == start + at[n]
  <2>1. LastOf(costs, n, 0) = <<>>
    <3>1. 1..0 = {} /\ \A f : f = [k \in 1..0 |-> f[k]] => f = <<>>
      OBVIOUS
    <3>2. LastOf(costs, n, 0) = [k \in 1..0 |-> LastOf(costs, n, 0)[k]]
      BY DEF LastOf
    <3> QED
      BY <3>1, <3>2
  <2>2. end \in 0..N /\ end \in Nat
    BY <1>6, <1>9, <1>10
  <2>3. from[end] = WalkStep(from, bytes, end)
    BY <1>7, <2>2
  <2>4. CASE m.payload = 0
    <3>1. end = Len(bytes)
      BY <1>1, <1>3, <1>6, <1>10, <2>2, <2>4
    <3>2. from[end] = Walked(TRUE, <<>>, 0)
      BY <2>3, <3>1, Zenon DEF WalkStep
    <3>3. n - 0 = n
      BY <1>2
    <3> HIDE DEF end
    <3>4. from[end] = Result(0)
      BY <2>1, <2>4, <3>2
    <3> HIDE DEF Result
    <3> QED
      BY <1>10, <3>3, <3>4 DEF end
  <2>5. CASE m.payload # 0
    <3>1. end # Len(bytes) /\ end + 1 < Len(bytes) /\ Len(bytes) - (end + 1) = m.payload
      <4>1. N = end + (m.payload + 1)
        BY <1>3, <2>5
      <4> HIDE DEF end
      <4> QED
        BY <1>1, <1>6, <2>2, <2>5, <4>1
    <3>2. Byte(bytes, end) = Marker
      BY <1>3, <2>5 DEF Byte
    <3>3. WalkStep(from, bytes, end) = Walked(end + 1 < Len(bytes), <<>>, Len(bytes) - (end + 1))
      BY <3>1, <3>2, Zenon DEF WalkStep
    <3>4. (end + 1 < Len(bytes)) = TRUE
      BY <3>1
    <3>5. from[end] = Walked(TRUE, <<>>, m.payload)
      BY <2>3, <3>1, <3>3, <3>4, Zenon
    <3>6. n - 0 = n
      BY <1>2
    <3> HIDE DEF end
    <3>7. from[end] = Result(0)
      BY <2>1, <3>5
    <3> HIDE DEF Result
    <3> QED
      BY <1>10, <3>6, <3>7 DEF end
  <2> QED
    BY <2>4, <2>5
<1>12. ASSUME NEW d \in 1..n, d - 1 \in Good
       PROVE  d \in Good
  <2> DEFINE i == (n - d) + 1
             o == m.options[i]
             p == start + at[n - d]
             q == start + at[i]
             len == Len(OptionBytes(o))
             rest == LastOf(costs, n, d - 1)
  <2>1. i \in 1..n /\ i \in 0..n /\ i - 1 = n - d /\ n - d \in 0..n /\ n - (d - 1) = i /\ d \in 0..n
    BY <1>2
  <2>2. o \in Options /\ costs[i] = CostOf(o)
    BY <1>2, <1>8, <2>1
  <2>3. at[i] = at[n - d] + len
    BY <1>3, <2>1
  <2>4. len \in Nat /\ len > 0
    <3>1. OptionBytes(o) \in Seq(Nat) /\ len = 1 + Len(Extension(o.delta)) + Len(Extension(o.length)) + o.length
      BY <2>2, OptionShape
    <3>2. o.delta \in Nat /\ o.length \in Nat
      BY <2>2 DEF Options
    <3> HIDE DEF o
    <3>3. Extension(o.delta) \in Seq(Nat) /\ Extension(o.length) \in Seq(Nat)
      BY <3>2, ExtensionShape
    <3>4. Len(Extension(o.delta)) \in Nat /\ Len(Extension(o.length)) \in Nat
      BY <3>3
    <3> QED
      BY <3>1, <3>2, <3>4
  <2>5. p \in Nat /\ p \in 0..N /\ q = p + len /\ q <= N /\ p < N
    <3>1. at[n - d] \in Nat /\ p \in Nat /\ q <= N /\ q \in Nat
      BY <1>9, <2>1
    <3>2. q = p + len
      BY <1>1, <2>3, <2>4, <3>1
    <3> HIDE DEF p, q, len
    <3> QED
      BY <1>6, <2>4, <3>1, <3>2
  <2>6. \A k \in 1..len : bytes[p + k] = OptionBytes(o)[k]
    BY <1>3, <2>1
  <2>7. /\ OptionAt(bytes, p).ok
        /\ OptionAt(bytes, p).end = q
        /\ OptionAt(bytes, p).cost = CostOf(o)
        /\ Byte(bytes, p) # Marker
    <3> HIDE DEF o, p, q
    <3>1. p + Len(OptionBytes(o)) <= Len(bytes)
      BY <1>6, <2>5
    <3>2. \A k \in 1..Len(OptionBytes(o)) : bytes[p + k] = OptionBytes(o)[k]
      BY <2>6
    <3> QED
      BY <1>3, <2>2, <2>5, <3>1, <3>2, OptionRead
  <2>8. from[q] = Walked(TRUE, rest, m.payload)
    BY <1>12, <2>1
  <2>9. from[p] = WalkStep(from, bytes, p) /\ p # Len(bytes)
    BY <1>6, <1>7, <2>5
  <2>10. from[p] = [from[q] EXCEPT !.costs = <<CostOf(o)>> \o @]
    <3> HIDE DEF p, q, o
    <3> QED
      BY <2>7, <2>9, Zenon DEF WalkStep
  <2> HIDE DEF p, q, o, rest
  <2>11. from[p] = Walked(TRUE, <<CostOf(o)>> \o rest, m.payload)
    <3> DEFINE new == <<CostOf(o)>> \o rest
               yes == TRUE
    <3>4. from[q] = Walked(yes, rest, m.payload)
      BY <2>8, Zenon
    <3> HIDE DEF yes
    <3>1. from[q].costs = rest
      BY <3>4, WalkedParts
    <3>2. from[p] = [from[q] EXCEPT !.costs = new]
      BY <2>10, <3>1
    <3> HIDE DEF new
    <3>3. from[p] = Walked(yes, new, m.payload)
      BY <3>2, <3>4, WalkedParts
    <3> QED
      BY <3>3, Zenon DEF new, yes
  <2>12. LastOf(costs, n, d) = <<costs[i]>> \o rest
    BY <1>2, <1>8, LastGrows DEF rest
  <2>13. from[p] = Result(d)
    BY <2>2, <2>11, <2>12
  <2> HIDE DEF Result
  <2> QED
    BY <2>1, <2>13 DEF p
<1> HIDE DEF Good, Result
<1>13. \A d \in 0..n : d \in Good
  BY <1>2, <1>11, <1>12, UpTo
<1>14. from[start + at[n - n]] = Result(n)
  BY <1>10, <1>13 DEF Good
<1>15. n - n = 0 /\ start + 0 = start
  BY <1>1, <1>2
<1>16. LastOf(costs, n, n) = costs
  <2>1. LastOf(costs, n, n) = [k \in 1..n |-> costs[(n - n) + k]]
    BY DEF LastOf
  <2>2. \A k \in 1..n : (n - n) + k = k
    BY <1>2
  <2>3. costs = [k \in 1..n |-> costs[k]]
    BY <1>8
  <2> QED
    BY <2>1, <2>2, <2>3
<1>17. from[start] = Walked(TRUE, costs, m.payload)
  BY <1>3, <1>14, <1>15, <1>16 DEF Result
<1>18. InspectCoap(bytes, m) = WalkOptions(bytes, start)
  <2> DEFINE token == Byte(bytes, 0) % 16
  <2>1. Byte(bytes, 0) = 64 + m.token
    <3>1. 0 + 1 = 1
      OBVIOUS
    <3> QED
      BY <1>3, <3>1, Zenon DEF Byte
  <2>2. token = m.token
    <3> DEFINE t == m.token
    <3>1. t \in 0..8 /\ Byte(bytes, 0) = 64 + t
      BY <1>1, <2>1
    <3> HIDE DEF t
    <3>2. (64 + t) % 16 = t
      BY <3>1
    <3> QED
      BY <3>1, <3>2 DEF t
  <2>3. ~(Len(bytes) < 4) /\ ~(4 + m.token > Len(bytes))
    <3>1. start + at[n] <= N /\ start \in Nat /\ start >= 4
      BY <1>1, <1>9, <1>10
    <3> QED
      BY <1>6, <1>10, <3>1
  <2>4. InspectCoap(bytes, m)
          = IF Len(bytes) < 4 \/ 4 + token > Len(bytes) \/ token # m.token
              THEN Walked(FALSE, <<>>, 0) ELSE WalkOptions(bytes, 4 + token)
    BY DEF InspectCoap
  <2> HIDE DEF token
  <2> QED
    BY <2>2, <2>3, <2>4, Zenon
<1> QED
  BY <1>5, <1>17, <1>18 DEF bytes, costs, n

\* The sums of the report are those of the message.
LEMMA SumsAgree ==
  ASSUME NEW n \in Nat, NEW opts \in [1..n -> Options], NEW costs,
         costs = [i \in 1..n |-> CostOf(opts[i])], NEW i \in 1..n
  PROVE  SumOf(LAMBDA c : c.step, SubSeq(costs, 1, i))
           = SumOf(LAMBDA o : o.delta, SubSeq(opts, 1, i))
<1> DEFINE C == {CostOf(o) : o \in Options}
           s == SubSeq(costs, 1, i)
           t == SubSeq(opts, 1, i)
<1>1. \A k \in 1..n : costs[k] = CostOf(opts[k]) /\ CostOf(opts[k]) \in C
  OBVIOUS
<1>2. costs \in [1..n -> C]
  BY <1>1
<1> HIDE DEF C
<1>3. costs \in Seq(C) /\ Len(costs) = n /\ opts \in Seq(Options) /\ Len(opts) = n
  BY <1>2
<1>4. DOMAIN s = 1..i /\ \A k \in 1..i : s[k] = costs[k]
  BY <1>3
<1>5. DOMAIN t = 1..i /\ \A k \in 1..i : t[k] = opts[k]
  BY <1>3
<1> HIDE DEF s, t
<1>6. \A k \in 1..i : s[k].step = t[k].delta
  <2> TAKE k \in 1..i
  <2>1. k \in 1..n
    OBVIOUS
  <2>2. s[k] = CostOf(opts[k]) /\ t[k] = opts[k]
    BY <1>1, <1>4, <1>5, <2>1
  <2>3. \A o : CostOf(o).step = o.delta
    BY DEF CostOf
  <2> QED
    BY <2>2, <2>3
<1>7. [k \in DOMAIN s |-> s[k].step] = [k \in DOMAIN t |-> t[k].delta]
  BY <1>4, <1>5, <1>6
<1>8. SumOf(LAMBDA c : c.step, s) = Total([k \in DOMAIN s |-> s[k].step])
  BY DEF SumOf
<1>9. SumOf(LAMBDA o : o.delta, t) = Total([k \in DOMAIN t |-> t[k].delta])
  BY DEF SumOf
<1> QED
  BY <1>7, <1>8, <1>9 DEF s, t

\* The options take as many bytes as their costs say.
LEMMA EncodedTotal ==
  ASSUME NEW n \in Nat, NEW at \in [0..n -> Nat], NEW costs,
         costs = [i \in 1..n |-> costs[i]],
         \A i \in 1..n : costs[i].encoded \in Nat,
         at[0] = 0, \A i \in 1..n : at[i] = at[i - 1] + costs[i].encoded
  PROVE  SumOf(LAMBDA c : c.encoded, costs) = at[n]
<1> DEFINE terms == [i \in 1..n |-> costs[i].encoded]
<1>1. DOMAIN costs = 1..n
  OBVIOUS
<1>2. SumOf(LAMBDA c : c.encoded, costs) = Total(terms)
  BY <1>1 DEF SumOf
<1>3. terms \in Seq(Nat) /\ Len(terms) = n /\ \A i \in 1..n : terms[i] = costs[i].encoded
  OBVIOUS
<1> HIDE DEF terms
<1>4. PICK f \in [0..n -> Nat] :
        f[0] = 0 /\ (\A i \in 1..n : f[i] = f[i - 1] + terms[i]) /\ Total(terms) = f[n]
  BY <1>3, SumRun
<1> DEFINE Good == {i \in 0..n : f[i] = at[i]}
<1>5. 0 \in Good
  BY <1>4
<1>6. ASSUME NEW i \in 1..n, i - 1 \in Good
      PROVE  i \in Good
  <2>1. f[i - 1] = at[i - 1] /\ i \in 0..n
    BY <1>6
  <2>2. f[i] = f[i - 1] + costs[i].encoded /\ at[i] = at[i - 1] + costs[i].encoded
    BY <1>3, <1>4
  <2>3. f[i] = at[i]
    BY <2>1, <2>2, Zenon
  <2> QED
    BY <2>1, <2>3
<1> HIDE DEF Good
<1>7. \A i \in 0..n : i \in Good
  BY <1>5, <1>6, UpTo
<1> QED
  BY <1>2, <1>4, <1>7 DEF Good

\* Every well-formed packet gets its report, and the report adds up: whatever
\* its token, its options and its payload, and however many options there are
\* (inspect_coap, read_coap_extended, inspect_report).
THEOREM EveryPacketIsReported == message \in Messages => ReportsAddUp
<1> SUFFICES ASSUME message \in Messages PROVE ReportsAddUp
  OBVIOUS
<1> DEFINE m == message
           opts == m.options
           n == Len(opts)
           bytes == Encoded(m)
           costs == [i \in 1..n |-> CostOf(opts[i])]
           walk == InspectCoap(bytes, m)
           yes == TRUE
<1>1. m.token \in Nat /\ m.payload \in Nat /\ opts \in Seq(Options)
  BY DEF Messages
<1> HIDE DEF m
<1>2. n \in Nat /\ opts \in [1..n -> Options]
  <2> HIDE DEF opts
  <2> QED
    BY <1>1
<1>3. walk = Walked(yes, costs, m.payload)
  BY WalkFinds DEF m
<1> HIDE DEF walk, yes
<1>4. walk.ok = yes /\ walk.costs = costs /\ walk.payload = m.payload
  BY <1>3, WalkedParts
<1>5. \E at \in [0..n -> Nat] :
        /\ at[0] = 0
        /\ \A i \in 1..n : at[i] = at[i - 1] + Len(OptionBytes(opts[i]))
        /\ Len(bytes) = 4 + m.token + at[n] + (IF m.payload = 0 THEN 0 ELSE m.payload + 1)
  <2> message = m
    BY DEF m
  <2> HIDE DEF m
  <2> QED
    BY EncodedShape
<1>6. PICK at \in [0..n -> Nat] :
        /\ at[0] = 0
        /\ \A i \in 1..n : at[i] = at[i - 1] + Len(OptionBytes(opts[i]))
        /\ Len(bytes) = 4 + m.token + at[n] + (IF m.payload = 0 THEN 0 ELSE m.payload + 1)
  BY <1>5
<1>7. \A i \in 1..n : costs[i] = CostOf(opts[i]) /\ opts[i] \in Options
  BY <1>2
<1>8. costs = [i \in 1..n |-> costs[i]] /\ DOMAIN costs = 1..n
  OBVIOUS
<1>9. Len(costs) = n
  BY <1>2, <1>8
<1> HIDE DEF opts, n, bytes
<1>10. \A i \in 1..n : SumOf(LAMBDA c : c.step, SubSeq(costs, 1, i))
                         = SumOf(LAMBDA o : o.delta, SubSeq(opts, 1, i))
  BY <1>2, SumsAgree
<1> HIDE DEF costs
<1>11. ASSUME NEW i \in 1..n
       PROVE  /\ costs[i].value = opts[i].length
              /\ costs[i].encoded = Len(OptionBytes(opts[i]))
              /\ costs[i].encoded \in Nat
              /\ Adds(costs[i])
  <2> DEFINE o == opts[i]
             b == Len(Extension(o.delta))
             c == Len(Extension(o.length))
  <2>1. o \in Options /\ costs[i] = CostOf(o)
    BY <1>7
  <2> HIDE DEF o
  <2>2. /\ costs[i].value = o.length /\ costs[i].header = 1
        /\ costs[i].delta = b /\ costs[i].length = c
        /\ costs[i].encoded = Len(OptionBytes(o))
    BY <2>1 DEF CostOf
  <2>3. OptionBytes(o) \in Seq(Nat) /\ Len(OptionBytes(o)) = 1 + b + c + o.length
    BY <2>1, OptionShape
  <2>4. Len(OptionBytes(o)) \in Nat
    BY <2>3
  <2>5. Adds(costs[i])
    BY <2>2, <2>3 DEF Adds
  <2> QED
    BY <2>2, <2>4, <2>5 DEF o
<1>12. SumOf(LAMBDA c : c.encoded, costs) = at[n]
  <2>1. \A i \in 1..n : at[i] = at[i - 1] + costs[i].encoded
    BY <1>6, <1>11
  <2>2. at[0] = 0 /\ \A i \in 1..n : costs[i].encoded \in Nat
    BY <1>6, <1>11
  <2> QED
    BY <1>2, <1>8, <2>1, <2>2, EncodedTotal
<1>13. AgreesWithMessage(walk, m)
  BY <1>4, <1>8, <1>9, <1>10, <1>11 DEF AgreesWithMessage, opts, n
<1>14. CoapTotal(walk, m) = Len(bytes)
  <2>1. at[n] \in Nat
    BY <1>2
  <2>2. CoapTotal(walk, m) = 4 + m.token + at[n] + (IF m.payload # 0 THEN 1 ELSE 0) + m.payload
    BY <1>4, <1>12 DEF CoapTotal
  <2>3. Len(bytes) = 4 + m.token + at[n] + (IF m.payload = 0 THEN 0 ELSE m.payload + 1)
    BY <1>6
  <2> DEFINE a == at[n]
             t == m.token
             p == m.payload
             total == CoapTotal(walk, m)
             size == Len(bytes)
  <2>4. a \in Nat /\ t \in Nat /\ p \in Nat
        /\ total = 4 + t + a + (IF p # 0 THEN 1 ELSE 0) + p
        /\ size = 4 + t + a + (IF p = 0 THEN 0 ELSE p + 1)
    BY <1>1, <2>1, <2>2, <2>3
  <2> HIDE DEF a, t, p, total, size
  <2>5. total = size
    BY <2>4
  <2> QED
    BY <2>5 DEF total, size
<1>15. Reported(bytes, walk, m)
  <2>1. walk.ok
    BY <1>4, Zenon DEF yes
  <2> QED
    BY <1>13, <1>14, <2>1 DEF Reported
<1>16. \A i \in DOMAIN walk.costs : Adds(walk.costs[i])
  BY <1>4, <1>8, <1>11
<1> QED
  BY <1>15, <1>16 DEF ReportsAddUp, walk, bytes, m

-----------------------------------------------------------------------------
(* Base64: octets and characters as bits. *)

LEMMA Powers ==
  /\ 2^0 = 1 /\ 2^1 = 2 /\ 2^2 = 4 /\ 2^3 = 8
  /\ 2^4 = 16 /\ 2^5 = 32 /\ 2^6 = 64 /\ 2^7 = 128
<1>1. \A n \in Nat : 2^(n + 1) = 2 * 2^n
  BY PowerStep
<1>2. 2^1 = 2 /\ 2^2 = 4 /\ 2^3 = 8
  <2>1. 2^(0 + 1) = 2 * 2^0 /\ 2^(1 + 1) = 2 * 2^1 /\ 2^(2 + 1) = 2 * 2^2
    BY <1>1
  <2> QED
    BY <2>1, PowerZero
<1>3. 2^4 = 16 /\ 2^5 = 32
  <2>1. 2^(3 + 1) = 2 * 2^3 /\ 2^(4 + 1) = 2 * 2^4
    BY <1>1
  <2> QED
    BY <1>2, <2>1
<1>4. 2^6 = 64 /\ 2^7 = 128
  <2>1. 2^(5 + 1) = 2 * 2^5 /\ 2^(6 + 1) = 2 * 2^6
    BY <1>1
  <2> QED
    BY <1>3, <2>1
<1> QED
  BY <1>2, <1>3, <1>4, PowerZero

\* A number below 64 as its bits.
LEMMA SixBits ==
  ASSUME NEW a \in 0..1, NEW b \in 0..1, NEW c \in 0..1,
         NEW d \in 0..1, NEW e \in 0..1, NEW f \in 0..1,
         NEW x, x = 32 * a + 16 * b + 8 * c + 4 * d + 2 * e + f
  PROVE  /\ x \in 0..63
         /\ (x \div 32) % 2 = a /\ (x \div 16) % 2 = b /\ (x \div 8) % 2 = c
         /\ (x \div 4) % 2 = d /\ (x \div 2) % 2 = e /\ (x \div 1) % 2 = f
<1>1. x \in 0..63
  OBVIOUS
<1>2. x \div 32 = a
  OBVIOUS
<1>3. x \div 16 = 2 * a + b
  OBVIOUS
<1>4. x \div 8 = 4 * a + 2 * b + c
  OBVIOUS
<1>5. x \div 4 = 8 * a + 4 * b + 2 * c + d
  OBVIOUS
<1>6. x \div 2 = 16 * a + 8 * b + 4 * c + 2 * d + e
  OBVIOUS
<1>7. x \div 1 = x
  OBVIOUS
<1> QED
  BY <1>1, <1>2, <1>3, <1>4, <1>5, <1>6, <1>7

\* An octet as its bits.
LEMMA EightBits ==
  ASSUME NEW x \in 0..255
  PROVE  \E a, b, c, d, e, f, g, h \in 0..1 :
           /\ x = 128 * a + 64 * b + 32 * c + 16 * d + 8 * e + 4 * f + 2 * g + h
           /\ (x \div 128) % 2 = a /\ (x \div 64) % 2 = b /\ (x \div 32) % 2 = c
           /\ (x \div 16) % 2 = d /\ (x \div 8) % 2 = e /\ (x \div 4) % 2 = f
           /\ (x \div 2) % 2 = g /\ (x \div 1) % 2 = h
<1> DEFINE a == (x \div 128) % 2
           b == (x \div 64) % 2
           c == (x \div 32) % 2
           d == (x \div 16) % 2
           e == (x \div 8) % 2
           f == (x \div 4) % 2
           g == (x \div 2) % 2
           h == (x \div 1) % 2
<1>1. a \in 0..1 /\ b \in 0..1 /\ c \in 0..1 /\ d \in 0..1 /\ e \in 0..1 /\ f \in 0..1
      /\ g \in 0..1 /\ h \in 0..1
  OBVIOUS
<1>2. x \div 1 = x /\ x = 2 * (x \div 2) + h
  OBVIOUS
<1>3. x \div 2 = 2 * (x \div 4) + g
  OBVIOUS
<1>4. x \div 4 = 2 * (x \div 8) + f
  OBVIOUS
<1>5. x \div 8 = 2 * (x \div 16) + e
  OBVIOUS
<1>6. x \div 16 = 2 * (x \div 32) + d
  OBVIOUS
<1>7. x \div 32 = 2 * (x \div 64) + c
  OBVIOUS
<1>8. x \div 64 = 2 * (x \div 128) + b
  OBVIOUS
<1>9. x \div 128 = a
  OBVIOUS
<1>10. x = 128 * a + 64 * b + 32 * c + 16 * d + 8 * e + 4 * f + 2 * g + h
  <2> DEFINE p == x \div 2
             q == x \div 4
             r == x \div 8
             s == x \div 16
             t == x \div 32
             u == x \div 64
             v == x \div 128
  <2>1. x = 2 * p + h /\ p = 2 * q + g /\ q = 2 * r + f /\ r = 2 * s + e /\ s = 2 * t + d
        /\ t = 2 * u + c /\ u = 2 * v + b /\ v = a
    BY <1>2, <1>3, <1>4, <1>5, <1>6, <1>7, <1>8, <1>9
  <2> HIDE DEF a, b, c, d, e, f, g, h, p, q, r, s, t, u, v
  <2> QED
    BY <1>1, <2>1
<1> HIDE DEF a, b, c, d, e, f, g, h
<1> QED
  BY <1>1, <1>10 DEF a, b, c, d, e, f, g, h

\* The characters for three octets.
Digit(x, y, z, k) ==
  IF k = 1 THEN x \div 4
  ELSE IF k = 2 THEN (x % 4) * 16 + y \div 16
  ELSE IF k = 3 THEN (y % 16) * 4 + z \div 64
  ELSE z % 64

Third(x, y, z, k) == IF k = 1 THEN x ELSE IF k = 2 THEN y ELSE z

\* The 24 bits of four characters are those of the three octets.
LEMMA ChunkBits ==
  ASSUME NEW x \in 0..255, NEW y \in 0..255, NEW z \in 0..255
  PROVE  /\ \A k \in 1..4 : Digit(x, y, z, k) \in 0..63
         /\ \A r \in 0..23 :
              (Digit(x, y, z, (r \div 6) + 1) \div 2^(5 - (r % 6))) % 2
                = (Third(x, y, z, (r \div 8) + 1) \div 2^(7 - (r % 8))) % 2
<1>1. PICK a1, b1, c1, d1, e1, f1, g1, h1 \in 0..1 :
        /\ x = 128 * a1 + 64 * b1 + 32 * c1 + 16 * d1 + 8 * e1 + 4 * f1 + 2 * g1 + h1
        /\ (x \div 128) % 2 = a1 /\ (x \div 64) % 2 = b1 /\ (x \div 32) % 2 = c1
        /\ (x \div 16) % 2 = d1 /\ (x \div 8) % 2 = e1 /\ (x \div 4) % 2 = f1
        /\ (x \div 2) % 2 = g1 /\ (x \div 1) % 2 = h1
  BY EightBits
<1>2. PICK a2, b2, c2, d2, e2, f2, g2, h2 \in 0..1 :
        /\ y = 128 * a2 + 64 * b2 + 32 * c2 + 16 * d2 + 8 * e2 + 4 * f2 + 2 * g2 + h2
        /\ (y \div 128) % 2 = a2 /\ (y \div 64) % 2 = b2 /\ (y \div 32) % 2 = c2
        /\ (y \div 16) % 2 = d2 /\ (y \div 8) % 2 = e2 /\ (y \div 4) % 2 = f2
        /\ (y \div 2) % 2 = g2 /\ (y \div 1) % 2 = h2
  BY EightBits
<1>3. PICK a3, b3, c3, d3, e3, f3, g3, h3 \in 0..1 :
        /\ z = 128 * a3 + 64 * b3 + 32 * c3 + 16 * d3 + 8 * e3 + 4 * f3 + 2 * g3 + h3
        /\ (z \div 128) % 2 = a3 /\ (z \div 64) % 2 = b3 /\ (z \div 32) % 2 = c3
        /\ (z \div 16) % 2 = d3 /\ (z \div 8) % 2 = e3 /\ (z \div 4) % 2 = f3
        /\ (z \div 2) % 2 = g3 /\ (z \div 1) % 2 = h3
  BY EightBits
<1> DEFINE w1 == x \div 4
           w2 == (x % 4) * 16 + y \div 16
           w3 == (y % 16) * 4 + z \div 64
           w4 == z % 64
<1>4. w1 = 32 * a1 + 16 * b1 + 8 * c1 + 4 * d1 + 2 * e1 + f1
  BY <1>1
<1>5. x % 4 = 2 * g1 + h1
  BY <1>1
<1>6. y \div 16 = 8 * a2 + 4 * b2 + 2 * c2 + d2 /\ y % 16 = 8 * e2 + 4 * f2 + 2 * g2 + h2
  BY <1>2
<1>7. z \div 64 = 2 * a3 + b3 /\ z % 64 = 32 * c3 + 16 * d3 + 8 * e3 + 4 * f3 + 2 * g3 + h3
  BY <1>3
<1>8. w2 = 32 * g1 + 16 * h1 + 8 * a2 + 4 * b2 + 2 * c2 + d2
  BY <1>5, <1>6
<1>9. w3 = 32 * e2 + 16 * f2 + 8 * g2 + 4 * h2 + 2 * a3 + b3
  BY <1>6, <1>7
<1>10. w4 = 32 * c3 + 16 * d3 + 8 * e3 + 4 * f3 + 2 * g3 + h3
  BY <1>7
<1> HIDE DEF w1, w2, w3, w4
<1>11. /\ w1 \in 0..63
       /\ (w1 \div 32) % 2 = a1 /\ (w1 \div 16) % 2 = b1 /\ (w1 \div 8) % 2 = c1
       /\ (w1 \div 4) % 2 = d1 /\ (w1 \div 2) % 2 = e1 /\ (w1 \div 1) % 2 = f1
  BY <1>4, SixBits
<1>12. /\ w2 \in 0..63
       /\ (w2 \div 32) % 2 = g1 /\ (w2 \div 16) % 2 = h1 /\ (w2 \div 8) % 2 = a2
       /\ (w2 \div 4) % 2 = b2 /\ (w2 \div 2) % 2 = c2 /\ (w2 \div 1) % 2 = d2
  BY <1>8, SixBits
<1>13. /\ w3 \in 0..63
       /\ (w3 \div 32) % 2 = e2 /\ (w3 \div 16) % 2 = f2 /\ (w3 \div 8) % 2 = g2
       /\ (w3 \div 4) % 2 = h2 /\ (w3 \div 2) % 2 = a3 /\ (w3 \div 1) % 2 = b3
  BY <1>9, SixBits
<1>14. /\ w4 \in 0..63
       /\ (w4 \div 32) % 2 = c3 /\ (w4 \div 16) % 2 = d3 /\ (w4 \div 8) % 2 = e3
       /\ (w4 \div 4) % 2 = f3 /\ (w4 \div 2) % 2 = g3 /\ (w4 \div 1) % 2 = h3
  BY <1>10, SixBits
<1> DEFINE W(k) == Digit(x, y, z, k)
           O(k) == Third(x, y, z, k)
<1>15. W(1) = w1 /\ W(2) = w2 /\ W(3) = w3 /\ W(4) = w4
  BY DEF Digit, w1, w2, w3, w4
<1>16. O(1) = x /\ O(2) = y /\ O(3) = z
  BY DEF Third
<1>17. \A k \in 1..4 : W(k) \in 0..63
  <2>1. \A k \in 1..4 : k = 1 \/ k = 2 \/ k = 3 \/ k = 4
    OBVIOUS
  <2> HIDE DEF W
  <2> QED
    BY <1>11, <1>12, <1>13, <1>14, <1>15, <2>1
<1> DEFINE D(k, p) == (W(k) \div p) % 2
           E(k, p) == (O(k) \div p) % 2
<1> HIDE DEF W, O
<1>18. /\ D(1, 32) = a1 /\ D(1, 16) = b1 /\ D(1, 8) = c1
       /\ D(1, 4) = d1 /\ D(1, 2) = e1 /\ D(1, 1) = f1
       /\ D(2, 32) = g1 /\ D(2, 16) = h1
       /\ D(2, 8) = a2 /\ D(2, 4) = b2 /\ D(2, 2) = c2 /\ D(2, 1) = d2
       /\ D(3, 32) = e2 /\ D(3, 16) = f2
       /\ D(3, 8) = g2 /\ D(3, 4) = h2 /\ D(3, 2) = a3 /\ D(3, 1) = b3
       /\ D(4, 32) = c3 /\ D(4, 16) = d3
       /\ D(4, 8) = e3 /\ D(4, 4) = f3 /\ D(4, 2) = g3 /\ D(4, 1) = h3
  BY <1>11, <1>12, <1>13, <1>14, <1>15, Zenon
<1>19. /\ E(1, 128) = a1 /\ E(1, 64) = b1 /\ E(1, 32) = c1
       /\ E(1, 16) = d1 /\ E(1, 8) = e1 /\ E(1, 4) = f1 /\ E(1, 2) = g1 /\ E(1, 1) = h1
       /\ E(2, 128) = a2 /\ E(2, 64) = b2 /\ E(2, 32) = c2
       /\ E(2, 16) = d2 /\ E(2, 8) = e2 /\ E(2, 4) = f2 /\ E(2, 2) = g2 /\ E(2, 1) = h2
       /\ E(3, 128) = a3 /\ E(3, 64) = b3 /\ E(3, 32) = c3
       /\ E(3, 16) = d3 /\ E(3, 8) = e3 /\ E(3, 4) = f3 /\ E(3, 2) = g3 /\ E(3, 1) = h3
  BY <1>1, <1>2, <1>3, <1>16, Zenon
<1> DEFINE F(k, q) == D(k, 2^q)
           G(k, q) == E(k, 2^q)
<1> HIDE DEF D, E
<1>20. /\ F(1, 5) = a1 /\ F(1, 4) = b1
       /\ F(1, 3) = c1 /\ F(1, 2) = d1 /\ F(1, 1) = e1 /\ F(1, 0) = f1
       /\ F(2, 5) = g1 /\ F(2, 4) = h1
       /\ F(2, 3) = a2 /\ F(2, 2) = b2 /\ F(2, 1) = c2 /\ F(2, 0) = d2
       /\ F(3, 5) = e2 /\ F(3, 4) = f2
       /\ F(3, 3) = g2 /\ F(3, 2) = h2 /\ F(3, 1) = a3 /\ F(3, 0) = b3
       /\ F(4, 5) = c3 /\ F(4, 4) = d3
       /\ F(4, 3) = e3 /\ F(4, 2) = f3 /\ F(4, 1) = g3 /\ F(4, 0) = h3
  BY <1>18, Powers, Zenon
<1>21. /\ G(1, 7) = a1 /\ G(1, 6) = b1 /\ G(1, 5) = c1
       /\ G(1, 4) = d1 /\ G(1, 3) = e1 /\ G(1, 2) = f1 /\ G(1, 1) = g1 /\ G(1, 0) = h1
       /\ G(2, 7) = a2 /\ G(2, 6) = b2 /\ G(2, 5) = c2
       /\ G(2, 4) = d2 /\ G(2, 3) = e2 /\ G(2, 2) = f2 /\ G(2, 1) = g2 /\ G(2, 0) = h2
       /\ G(3, 7) = a3 /\ G(3, 6) = b3 /\ G(3, 5) = c3
       /\ G(3, 4) = d3 /\ G(3, 3) = e3 /\ G(3, 2) = f3 /\ G(3, 1) = g3 /\ G(3, 0) = h3
  BY <1>19, Powers, Zenon
<1> DEFINE Same(r) == F((r \div 6) + 1, 5 - (r % 6)) = G((r \div 8) + 1, 7 - (r % 8))
<1> HIDE DEF F, G
<1>22. Same(0) /\ Same(1) /\ Same(2) /\ Same(3) /\ Same(4) /\ Same(5)
  BY <1>20, <1>21
<1>23. Same(6) /\ Same(7) /\ Same(8) /\ Same(9) /\ Same(10) /\ Same(11)
  BY <1>20, <1>21
<1>24. Same(12) /\ Same(13) /\ Same(14) /\ Same(15) /\ Same(16) /\ Same(17)
  BY <1>20, <1>21
<1>25. Same(18) /\ Same(19) /\ Same(20) /\ Same(21) /\ Same(22) /\ Same(23)
  BY <1>20, <1>21
<1>26. \A r \in 0..23 : Same(r)
  <2>1. \A r \in 0..23 :
          \/ r = 0 \/ r = 1 \/ r = 2 \/ r = 3 \/ r = 4 \/ r = 5
          \/ r = 6 \/ r = 7 \/ r = 8 \/ r = 9 \/ r = 10 \/ r = 11
          \/ r = 12 \/ r = 13 \/ r = 14 \/ r = 15 \/ r = 16 \/ r = 17
          \/ r = 18 \/ r = 19 \/ r = 20 \/ r = 21 \/ r = 22 \/ r = 23
    OBVIOUS
  <2> HIDE DEF Same
  <2> QED
    BY <1>22, <1>23, <1>24, <1>25, <2>1
<1> QED
  BY <1>17, <1>26 DEF W, O, D, E, F, G

-----------------------------------------------------------------------------
(* Base64: texts.  A text of n chunks with p characters of padding is for    *)
(* 3 * n - p octets.                                                         *)

\* An octet, 0 behind the last one.
At(octets, i) == IF i <= Len(octets) THEN octets[i] ELSE 0

LEMMA ItemsOf ==
  ASSUME NEW T, NEW seq \in Seq(T)
  PROVE  /\ Len(seq) \in Nat /\ DOMAIN seq = 1..Len(seq)
         /\ \A i \in 1..Len(seq) : seq[i] \in T
         /\ seq = [i \in 1..Len(seq) |-> seq[i]]
OBVIOUS

LEMMA AtOctet ==
  ASSUME NEW octets \in Seq(0..255), NEW i \in Nat, i > 0
  PROVE  At(octets, i) \in 0..255
<1> DEFINE m == Len(octets)
           v(k) == octets[k]
<1>1. m \in Nat /\ \A k \in 1..m : v(k) \in 0..255
  BY ItemsOf
<1> HIDE DEF m, v
<1>2. i <= m => v(i) \in 0..255
  BY <1>1
<1> QED
  BY <1>2 DEF At, m, v

\* The octets fill chunks.
LEMMA ChunksOf ==
  ASSUME NEW m \in Nat
  PROVE  \E n \in Nat, p \in 0..2 : m = 3 * n - p /\ (n = 0 => p = 0)
<1> DEFINE n == (m + 2) \div 3
           p == 3 * n - m
<1>1. n \in Nat /\ p \in 0..2 /\ (n = 0 => p = 0)
  OBVIOUS
<1> HIDE DEF n
<1>2. m = 3 * n - p
  BY <1>1
<1> HIDE DEF p
<1> QED
  BY <1>1, <1>2

\* Every place of a text is one of four of a chunk.
LEMMA PlaceOf ==
  ASSUME NEW n \in Nat, NEW i \in 1..4 * n
  PROVE  \E c \in 0..(n - 1), q \in 1..4 : i = 4 * c + q
<1> DEFINE c == (i - 1) \div 4
           q == ((i - 1) % 4) + 1
<1>1. c \in 0..(n - 1) /\ q \in 1..4 /\ i = 4 * c + q
  OBVIOUS
<1> HIDE DEF c, q
<1> QED
  BY <1>1

LEMMA EncodedLength ==
  ASSUME NEW octets, Len(octets) \in Nat, NEW n \in Nat, NEW p \in 0..2, Len(octets) = 3 * n - p
  PROVE  DOMAIN Encode(octets) = 1..4 * n /\ Encode(octets) = [i \in 1..4 * n |-> Encode(octets)[i]]
<1>1. (Len(octets) + 2) \div 3 = n
  OBVIOUS
<1> QED
  BY <1>1 DEF Encode

\* The character at each place.
LEMMA EncodedAt ==
  ASSUME NEW octets, Len(octets) \in Nat, NEW n \in Nat, NEW p \in 0..2, Len(octets) = 3 * n - p,
         NEW c \in 0..(n - 1), NEW q \in 1..4
  PROVE  Encode(octets)[4 * c + q]
           = IF 4 * c + q > 4 * n - p THEN Pad
             ELSE Digit(At(octets, 3 * c + 1), At(octets, 3 * c + 2), At(octets, 3 * c + 3), q)
<1> DEFINE m == Len(octets)
           i == 4 * c + q
           left == m - (3 * c + 1) + 1
           o(k) == IF k <= left THEN octets[(3 * c + 1) + k - 1] ELSE 0
           x == At(octets, 3 * c + 1)
           y == At(octets, 3 * c + 2)
           z == At(octets, 3 * c + 3)
           chunk == EncodeChunk(octets, 3 * c + 1)
<1>1. (m + 2) \div 3 = n /\ i \in 1..4 * n /\ (i - 1) \div 4 = c /\ ((i - 1) % 4) + 1 = q
  OBVIOUS
<1>2. Encode(octets)[i] = chunk[q]
  <2>1. Encode(octets) = [j \in 1..4 * n |->
                            EncodeChunk(octets, 3 * ((j - 1) \div 4) + 1)[((j - 1) % 4) + 1]]
    BY <1>1 DEF Encode
  <2> HIDE DEF i, m
  <2> QED
    BY <1>1, <2>1
<1>3. o(1) = x /\ o(2) = y /\ o(3) = z
  <2>1. /\ 1 <= left <=> 3 * c + 1 <= m
        /\ 2 <= left <=> 3 * c + 2 <= m
        /\ 3 <= left <=> 3 * c + 3 <= m
    OBVIOUS
  <2>2. (3 * c + 1) + 1 - 1 = 3 * c + 1 /\ (3 * c + 1) + 2 - 1 = 3 * c + 2
        /\ (3 * c + 1) + 3 - 1 = 3 * c + 3
    OBVIOUS
  <2> HIDE DEF left
  <2> QED
    BY <2>1, <2>2 DEF At
<1>4. chunk = <<o(1) \div 4, (o(1) % 4) * 16 + o(2) \div 16,
                IF left > 1 THEN (o(2) % 16) * 4 + o(3) \div 64 ELSE Pad,
                IF left > 2 THEN o(3) % 64 ELSE Pad>>
  BY DEF EncodeChunk
<1> DEFINE u == IF left > 1 THEN (y % 16) * 4 + z \div 64 ELSE Pad
           v == IF left > 2 THEN z % 64 ELSE Pad
           s == x \div 4
           t == (x % 4) * 16 + y \div 16
<1>5. chunk = <<s, t, u, v>>
  <2> HIDE DEF o, x, y, z, left
  <2> QED
    BY <1>3, <1>4
<1> HIDE DEF chunk, o, x, y, z, s, t, u, v
<1>6. chunk[1] = s /\ chunk[2] = t /\ chunk[3] = u /\ chunk[4] = v
  BY <1>5
<1>7. /\ ~(4 * c + 1 > 4 * n - p) /\ ~(4 * c + 2 > 4 * n - p)
      /\ 4 * c + 3 > 4 * n - p <=> ~(left > 1)
      /\ 4 * c + 4 > 4 * n - p <=> ~(left > 2)
  OBVIOUS
<1>8. q = 1 \/ q = 2 \/ q = 3 \/ q = 4
  OBVIOUS
<1> HIDE DEF left
<1>9. CASE q = 1
  BY <1>2, <1>6, <1>7, <1>9 DEF Digit, s, i, x, y, z
<1>10. CASE q = 2
  BY <1>2, <1>6, <1>7, <1>10 DEF Digit, t, i, x, y, z
<1>11. CASE q = 3
  BY <1>2, <1>6, <1>7, <1>11 DEF Digit, u, i, x, y, z
<1>12. CASE q = 4
  BY <1>2, <1>6, <1>7, <1>12 DEF Digit, v, i, x, y, z
<1> QED
  BY <1>8, <1>9, <1>10, <1>11, <1>12

-----------------------------------------------------------------------------
(* Base64: what the encoder writes. *)

\* The text is digits, and padding behind them.
LEMMA EncodedText ==
  ASSUME NEW octets \in Seq(0..255), NEW n \in Nat, NEW p \in 0..2, Len(octets) = 3 * n - p
  PROVE  \A i \in 1..4 * n :
           /\ i > 4 * n - p => Encode(octets)[i] = Pad
           /\ i <= 4 * n - p => Encode(octets)[i] \in 0..63
<1> TAKE i \in 1..4 * n
<1>1. PICK c \in 0..(n - 1), q \in 1..4 : i = 4 * c + q
  BY PlaceOf
<1> DEFINE x == At(octets, 3 * c + 1)
           y == At(octets, 3 * c + 2)
           z == At(octets, 3 * c + 3)
<1>2. c \in Nat /\ Len(octets) \in Nat
  BY ItemsOf
<1>3. Encode(octets)[i] = IF i > 4 * n - p THEN Pad ELSE Digit(x, y, z, q)
  BY <1>1, <1>2, EncodedAt
<1>4. x \in 0..255 /\ y \in 0..255 /\ z \in 0..255
  <2>1. 3 * c + 1 \in Nat /\ 3 * c + 1 > 0 /\ 3 * c + 2 \in Nat /\ 3 * c + 2 > 0
        /\ 3 * c + 3 \in Nat /\ 3 * c + 3 > 0
    BY <1>2
  <2> QED
    BY <2>1, AtOctet
<1> HIDE DEF x, y, z
<1>5. Digit(x, y, z, q) \in 0..63
  BY <1>4, ChunkBits
<1> QED
  BY <1>3, <1>5

LEMMA DigitIsNoPad == \A d \in 0..63 : d # Pad
  BY DEF Pad

\* The padding of a text is found from its end.
LEMMA PaddingIs ==
  ASSUME NEW t \in Seq(Characters), NEW n \in Nat, NEW p \in 0..2, n = 0 => p = 0, Len(t) = 4 * n,
         \A i \in 1..4 * n : (i > 4 * n - p => t[i] = Pad) /\ (i <= 4 * n - p => t[i] \in 0..63)
  PROVE  Padding(t) = p
<1>1. CASE n = 0
  BY <1>1 DEF Padding
<1>2. CASE n # 0
  <2>1. 4 * n \in 1..4 * n /\ 4 * n - 1 \in 1..4 * n /\ Len(t) # 0
    BY <1>2
  <2> DEFINE u == t[4 * n]
             v == t[4 * n - 1]
  <2>2. /\ 4 * n > 4 * n - p => u = Pad
        /\ 4 * n <= 4 * n - p => u \in 0..63
        /\ 4 * n - 1 > 4 * n - p => v = Pad
        /\ 4 * n - 1 <= 4 * n - p => v \in 0..63
    BY <2>1
  <2>3. Padding(t) = IF u # Pad THEN 0 ELSE IF v # Pad THEN 1 ELSE 2
    BY <2>1 DEF Padding
  <2> HIDE DEF u, v
  <2>4. p = 0 \/ p = 1 \/ p = 2
    OBVIOUS
  <2>5. p = 0 => u # Pad
    <3>1. p = 0 => u \in 0..63
      BY <2>2
    <3> QED
      BY <3>1, DigitIsNoPad
  <2>6. p = 1 => u = Pad /\ v # Pad
    <3>1. p = 1 => u = Pad /\ v \in 0..63
      BY <2>2
    <3> QED
      BY <3>1, DigitIsNoPad
  <2>7. p = 2 => u = Pad /\ v = Pad
    BY <2>2
  <2> QED
    BY <2>3, <2>4, <2>5, <2>6, <2>7
<1> QED
  BY <1>1, <1>2

\* The digits of a text.
LEMMA UnpaddedIs ==
  ASSUME NEW t \in Seq(Characters), NEW n \in Nat, NEW p \in 0..2, n = 0 => p = 0, Len(t) = 4 * n,
         Padding(t) = p
  PROVE  /\ Unpadded(t) \in Seq(Characters)
         /\ Len(Unpadded(t)) = 4 * n - p
         /\ DOMAIN Unpadded(t) = 1..4 * n - p
         /\ \A i \in 1..4 * n - p : Unpadded(t)[i] = t[i]
<1> DEFINE N == 4 * n - p
           s == SubSeq(t, 1, N)
<1>1. N \in Nat /\ N <= Len(t) /\ 1..N \subseteq 1..Len(t)
  OBVIOUS
<1>2. \A i \in 1..N : t[i] \in Characters
  BY <1>1, ItemsOf
<1> HIDE DEF N
<1>3. /\ s \in Seq(Characters)
      /\ Len(s) = IF 1 <= N THEN N - 1 + 1 ELSE 0
      /\ \A i \in 1..(N - 1 + 1) : s[i] = t[1 + i - 1]
  BY <1>1, <1>2, SubSeqProperties
<1>4. Len(s) = N
  BY <1>1, <1>3
<1>5. \A i \in 1..N : i \in 1..(N - 1 + 1) /\ 1 + i - 1 = i
  BY <1>1
<1>6. \A i \in 1..N : s[i] = t[i]
  BY <1>3, <1>5
<1>7. DOMAIN s = 1..N
  BY <1>3, <1>4, ItemsOf
<1>8. Unpadded(t) = s
  BY DEF Unpadded, N
<1> HIDE DEF s
<1> QED
  BY <1>3, <1>4, <1>6, <1>7, <1>8 DEF N

LEMMA EncodedCharacters ==
  ASSUME NEW octets \in Seq(0..255), NEW n \in Nat, NEW p \in 0..2, Len(octets) = 3 * n - p
  PROVE  Encode(octets) \in Seq(Characters) /\ Len(Encode(octets)) = 4 * n
<1>0. Len(octets) \in Nat
  BY ItemsOf
<1> DEFINE t == Encode(octets)
           v(i) == t[i]
<1>1. DOMAIN t = 1..4 * n /\ t = [i \in 1..4 * n |-> v(i)]
  BY <1>0, EncodedLength
<1>2. \A i \in 1..4 * n : v(i) \in Characters
  <2>1. \A i \in 1..4 * n : v(i) = Pad \/ v(i) \in 0..63
    <3> TAKE i \in 1..4 * n
    <3>1. i > 4 * n - p \/ i <= 4 * n - p
      OBVIOUS
    <3> QED
      BY <3>1, EncodedText
  <2> HIDE DEF v
  <2> QED
    BY <2>1 DEF Characters, Pad
<1> HIDE DEF v
<1>3. [i \in 1..4 * n |-> v(i)] \in Seq(Characters) /\ Len([i \in 1..4 * n |-> v(i)]) = 4 * n
  BY <1>2
<1> QED
  BY <1>1, <1>3

\* Where a bit is: in a chunk of 24, in a character of 6 and in an octet of 8.
LEMMA BitPlace ==
  ASSUME NEW j \in Nat
  PROVE  \E c \in Nat, r \in 0..23 :
           /\ j = 24 * c + r
           /\ j \div 6 = 4 * c + r \div 6 /\ j % 6 = r % 6
           /\ j \div 8 = 3 * c + r \div 8 /\ j % 8 = r % 8
           /\ r \div 6 \in 0..3 /\ r \div 8 \in 0..2
<1> DEFINE c == j \div 24
           r == j % 24
<1>1. c \in Nat /\ r \in 0..23 /\ j = 24 * c + r
  OBVIOUS
<1> HIDE DEF c, r
<1>2. j \div 6 = 4 * c + r \div 6 /\ j % 6 = r % 6 /\ r \div 6 \in 0..3
  BY <1>1
<1>3. j \div 8 = 3 * c + r \div 8 /\ j % 8 = r % 8 /\ r \div 8 \in 0..2
  BY <1>1
<1> QED
  BY <1>1, <1>2, <1>3

\* The characters carry the bits of the octets, and zeros behind the last one.
LEMMA EncodedBits ==
  ASSUME NEW octets \in Seq(0..255), NEW n \in Nat, NEW p \in 0..2, Len(octets) = 3 * n - p,
         NEW digits, \A i \in 1..4 * n - p : digits[i] = Encode(octets)[i],
         NEW j \in 0..(6 * (4 * n - p) - 1)
  PROVE  Bit(digits, 6, j) = IF j < 8 * Len(octets) THEN Bit(octets, 8, j) ELSE 0
<1>1. PICK c \in Nat, r \in 0..23 :
        /\ j = 24 * c + r
        /\ j \div 6 = 4 * c + r \div 6 /\ j % 6 = r % 6
        /\ j \div 8 = 3 * c + r \div 8 /\ j % 8 = r % 8
        /\ r \div 6 \in 0..3 /\ r \div 8 \in 0..2
  <2>1. j \in Nat
    OBVIOUS
  <2> QED
    BY <2>1, BitPlace, Zenon
<1> DEFINE m == Len(octets)
           q == (r \div 6) + 1
           w == (r \div 8) + 1
           x == At(octets, 3 * c + 1)
           y == At(octets, 3 * c + 2)
           z == At(octets, 3 * c + 3)
           d == 5 - (r % 6)
           e == 7 - (r % 8)
<1>2. m \in Nat /\ m = 3 * n - p
  BY ItemsOf
<1>3. x \in 0..255 /\ y \in 0..255 /\ z \in 0..255
  <2>1. 3 * c + 1 \in Nat /\ 3 * c + 1 > 0 /\ 3 * c + 2 \in Nat /\ 3 * c + 2 > 0
        /\ 3 * c + 3 \in Nat /\ 3 * c + 3 > 0
    OBVIOUS
  <2> QED
    BY <2>1, AtOctet
<1>4. q \in 1..4 /\ w \in 1..3 /\ d \in 0..5 /\ e \in 0..7
  BY <1>1
<1>5. (Digit(x, y, z, q) \div 2^d) % 2 = (Third(x, y, z, w) \div 2^e) % 2
  <2> HIDE DEF x, y, z
  <2> QED
    BY <1>3, ChunkBits
<1>6. /\ (j \div 6) + 1 = 4 * c + q /\ 6 - 1 - (j % 6) = d
      /\ (j \div 8) + 1 = 3 * c + w /\ 8 - 1 - (j % 8) = e
  BY <1>1
<1>7. c \in 0..(n - 1) /\ 4 * c + q \in 1..4 * n - p
  <2>1. j \div 6 <= 4 * n - p - 1
    OBVIOUS
  <2> HIDE DEF q
  <2>2. 4 * c + q <= 4 * n - p
    BY <1>1, <1>4, <1>6, <2>1
  <2> QED
    BY <1>4, <2>2
<1>8. digits[4 * c + q] = Digit(x, y, z, q)
  <2>1. digits[4 * c + q] = Encode(octets)[4 * c + q]
    BY <1>7
  <2>2. ~(4 * c + q > 4 * n - p)
    BY <1>4, <1>7
  <2>3. Encode(octets)[4 * c + q] = IF 4 * c + q > 4 * n - p THEN Pad ELSE Digit(x, y, z, q)
    <3> HIDE DEF q
    <3> QED
      BY <1>2, <1>4, <1>7, EncodedAt
  <2> QED
    BY <2>1, <2>2, <2>3
<1>9. Third(x, y, z, w) = At(octets, 3 * c + w)
  <2>1. w = 1 \/ w = 2 \/ w = 3
    BY <1>4
  <2> HIDE DEF w
  <2> QED
    BY <2>1 DEF Third
<1>10. j < 8 * m <=> 3 * c + w <= m
  <2>1. j < 8 * m <=> (j \div 8) + 1 <= m
    BY <1>2
  <2> QED
    BY <1>6, <2>1
<1>11. Bit(digits, 6, j) = (Third(x, y, z, w) \div 2^e) % 2
  <2>1. Bit(digits, 6, j) = (digits[4 * c + q] \div 2^d) % 2
    <3> HIDE DEF q, d
    <3> QED
      BY <1>6 DEF Bit
  <2> QED
    BY <1>5, <1>8, <2>1
<1>12. CASE j < 8 * m
  <2>1. At(octets, 3 * c + w) = octets[3 * c + w]
    BY <1>10, <1>12 DEF At
  <2>2. Bit(octets, 8, j) = (octets[3 * c + w] \div 2^e) % 2
    <3> HIDE DEF w, e
    <3> QED
      BY <1>6 DEF Bit
  <2> QED
    BY <1>9, <1>11, <1>12, <2>1, <2>2
<1>13. CASE ~(j < 8 * m)
  <2>1. At(octets, 3 * c + w) = 0
    BY <1>10, <1>13 DEF At
  <2>2. (0 \div 2^e) % 2 = 0
    <3>1. 2^e \in Nat /\ 2^e > 0
      BY <1>4, PowerType
    <3> DEFINE b == 2^e
    <3> HIDE DEF b
    <3>2. b \in Nat /\ b > 0
      BY <3>1 DEF b
    <3>3. (0 \div b) % 2 = 0
      BY <3>2
    <3> QED
      BY <3>3 DEF b
  <2> QED
    BY <1>9, <1>11, <1>13, <2>1, <2>2
<1> QED
  BY <1>12, <1>13

\* What the encoder writes represents the octets.
LEMMA EncodedRepresents ==
  ASSUME NEW octets \in Seq(0..255)
  PROVE  Represents(Encode(octets), octets)
<1> DEFINE m == Len(octets)
           t == Encode(octets)
           digits == Unpadded(t)
<1>1. m \in Nat
  BY ItemsOf
<1>2. PICK n \in Nat, p \in 0..2 : m = 3 * n - p /\ (n = 0 => p = 0)
  BY <1>1, ChunksOf
<1>3. t \in Seq(Characters) /\ Len(t) = 4 * n
  BY <1>2, EncodedCharacters
<1>4. \A i \in 1..4 * n : (i > 4 * n - p => t[i] = Pad) /\ (i <= 4 * n - p => t[i] \in 0..63)
  BY <1>2, EncodedText
<1> HIDE DEF t
<1>5. Padding(t) = p
  BY <1>2, <1>3, <1>4, PaddingIs
<1>6. /\ Len(digits) = 4 * n - p
      /\ DOMAIN digits = 1..4 * n - p
      /\ \A i \in 1..4 * n - p : digits[i] = t[i]
  BY <1>2, <1>3, <1>5, UnpaddedIs
<1> HIDE DEF digits
<1>7. \A i \in DOMAIN digits : digits[i] < Pad
  <2> SUFFICES ASSUME NEW i \in 1..4 * n - p PROVE digits[i] < Pad
    BY <1>6
  <2>1. i \in 1..4 * n /\ i <= 4 * n - p
    BY <1>2
  <2> DEFINE v == digits[i]
  <2>2. v \in 0..63
    BY <1>4, <1>6, <2>1
  <2> HIDE DEF v
  <2>3. v < Pad
    BY <2>2 DEF Pad
  <2> QED
    BY <2>3 DEF v
<1>8. Len(t) % 4 = 0
  BY <1>3
<1>9. 6 * Len(digits) - 8 * m \in {0, 2, 4}
  <2> HIDE DEF m
  <2>1. 6 * (4 * n - p) - 8 * m = 2 * p
    BY <1>1, <1>2
  <2>2. p = 0 \/ p = 1 \/ p = 2
    OBVIOUS
  <2> QED
    BY <1>6, <2>1, <2>2
<1>10. \A j \in 0..6 * Len(digits) - 1 :
         Bit(digits, 6, j) = IF j < 8 * m THEN Bit(octets, 8, j) ELSE 0
  BY <1>2, <1>6, EncodedBits DEF t
<1> QED
  BY <1>7, <1>8, <1>9, <1>10 DEF Represents, t, digits

-----------------------------------------------------------------------------
(* Base64: what the decoder reads. *)

\* The octets of four digits, before any is dropped for padding.
FirstOctet(a, b) == 4 * a + b \div 16
SecondOctet(b, d) == ((16 * b) % 256) + d \div 4
ThirdOctet(d, e) == ((64 * d) % 256) + e

OctetRange == 0..255

\* What a shift of a u8 leaves.
LEMMA ShiftedOut ==
  ASSUME NEW b \in 0..63
  PROVE  (16 * b) % 256 = 16 * (b % 16) /\ (64 * b) % 256 = 64 * (b % 4)
<1>1. (16 * b) % 256 = 16 * (b % 16)
  <2> DEFINE u == b \div 16
             v == b % 16
  <2>1. u \in 0..3 /\ v \in 0..15 /\ b = 16 * u + v
    OBVIOUS
  <2> HIDE DEF u, v
  <2>2. (16 * b) % 256 = 16 * v
    BY <2>1
  <2> QED
    BY <2>2 DEF v
<1>2. (64 * b) % 256 = 64 * (b % 4)
  <2> DEFINE u == b \div 4
             v == b % 4
  <2>1. u \in 0..15 /\ v \in 0..3 /\ b = 4 * u + v
    OBVIOUS
  <2> HIDE DEF u, v
  <2>2. (64 * b) % 256 = 64 * v
    BY <2>1
  <2> QED
    BY <2>2 DEF v
<1> QED
  BY <1>1, <1>2

LEMMA OctetsInRange ==
  ASSUME NEW a \in 0..63, NEW b \in 0..63, NEW d \in 0..63, NEW e \in 0..63
  PROVE  /\ FirstOctet(a, b) \in OctetRange
         /\ SecondOctet(b, d) \in OctetRange
         /\ ThirdOctet(d, e) \in OctetRange
<1>1. b \div 16 \in 0..3 /\ b % 16 \in 0..15 /\ d \div 4 \in 0..15 /\ d % 4 \in 0..3
  OBVIOUS
<1>2. FirstOctet(a, b) \in OctetRange
  BY <1>1 DEF FirstOctet, OctetRange
<1>3. SecondOctet(b, d) \in OctetRange
  BY <1>1, ShiftedOut DEF SecondOctet, OctetRange
<1>4. ThirdOctet(d, e) \in OctetRange
  BY <1>1, ShiftedOut DEF ThirdOctet, OctetRange
<1> QED
  BY <1>2, <1>3, <1>4

\* The octets of a chunk.
LEMMA ChunkShape ==
  ASSUME NEW c, c[1] \in 0..63, c[2] \in 0..63, c[3] \in 0..64, c[4] \in 0..64, c[3] = Pad => c[4] = Pad
  PROVE  /\ ChunkOctets(c) \in Seq(0..255)
         /\ Len(ChunkOctets(c)) = IF c[3] = Pad THEN 1 ELSE IF c[4] = Pad THEN 2 ELSE 3
         /\ ChunkOctets(c)[1] = FirstOctet(c[1], c[2])
         /\ c[3] # Pad => ChunkOctets(c)[2] = SecondOctet(c[2], c[3])
         /\ c[4] # Pad => ChunkOctets(c)[3] = ThirdOctet(c[3], c[4])
<1> DEFINE a == c[1]
           b == c[2]
           d == IF c[3] = Pad THEN 0 ELSE c[3]
           e == IF c[4] = Pad THEN 0 ELSE c[4]
           x == FirstOctet(a, b)
           y == SecondOctet(b, d)
           z == ThirdOctet(d, e)
<1>1. a \in 0..63 /\ b \in 0..63
  OBVIOUS
<1>2. d \in 0..63
  <2> DEFINE v == c[3]
  <2>1. v \in 0..64
    OBVIOUS
  <2> HIDE DEF v
  <2>2. (IF v = Pad THEN 0 ELSE v) \in 0..63
    BY <2>1 DEF Pad
  <2> QED
    BY <2>2 DEF v
<1>3. e \in 0..63
  <2> DEFINE v == c[4]
  <2>1. v \in 0..64
    OBVIOUS
  <2> HIDE DEF v
  <2>2. (IF v = Pad THEN 0 ELSE v) \in 0..63
    BY <2>1 DEF Pad
  <2> QED
    BY <2>2 DEF v
<1> HIDE DEF a, b, d, e
<1>4. x \in OctetRange /\ y \in OctetRange /\ z \in OctetRange
  BY <1>1, <1>2, <1>3, OctetsInRange, Zenon
<1>5. ChunkOctets(c) = <<4 * a + b \div 16>>
        \o (IF c[3] = Pad THEN <<>> ELSE <<((16 * b) % 256) + d \div 4>>)
        \o (IF c[4] = Pad THEN <<>> ELSE <<((64 * d) % 256) + e>>)
  BY Zenon DEF ChunkOctets, a, b, d, e
<1>6. ChunkOctets(c) = <<x>> \o (IF c[3] = Pad THEN <<>> ELSE <<y>>)
                             \o (IF c[4] = Pad THEN <<>> ELSE <<z>>)
  BY <1>5 DEF FirstOctet, SecondOctet, ThirdOctet
<1>7. c[3] # Pad => d = c[3]
  BY DEF d
<1>8. c[4] # Pad => e = c[4]
  BY DEF e
<1> DEFINE P == c[3] = Pad
           Q == c[4] = Pad
           w == ChunkOctets(c)
<1> HIDE DEF x, y, z
<1>9. /\ P => w = <<x>> \o <<>> \o <<>>
      /\ ~P /\ Q => w = <<x>> \o <<y>> \o <<>>
      /\ ~P /\ ~Q => w = <<x>> \o <<y>> \o <<z>>
      /\ P => Q
  BY <1>6
<1> HIDE DEF P, Q, w
<1>10. w \in Seq(OctetRange) /\ Len(w) = (IF P THEN 1 ELSE IF Q THEN 2 ELSE 3)
       /\ w[1] = x /\ (~P => w[2] = y) /\ (~Q => w[3] = z)
  <2> DEFINE l1 == <<x>> \o <<>> \o <<>>
             l2 == <<x>> \o <<y>> \o <<>>
             l3 == <<x>> \o <<y>> \o <<z>>
  <2>1. /\ l1 \in Seq(OctetRange) /\ Len(l1) = 1 /\ l1[1] = x
        /\ l2 \in Seq(OctetRange) /\ Len(l2) = 2 /\ l2[1] = x /\ l2[2] = y
        /\ l3 \in Seq(OctetRange) /\ Len(l3) = 3 /\ l3[1] = x /\ l3[2] = y /\ l3[3] = z
    BY <1>4
  <2>2. (P => w = l1) /\ (~P /\ Q => w = l2) /\ (~P /\ ~Q => w = l3) /\ (P => Q)
    BY <1>9
  <2> HIDE DEF l1, l2, l3
  <2> QED
    BY <2>1, <2>2, Zenon
<1>11. x = FirstOctet(c[1], c[2]) /\ (~P => y = SecondOctet(c[2], c[3])) /\ (~P /\ ~Q => z = ThirdOctet(c[3], c[4]))
  BY <1>7, <1>8, Zenon DEF x, y, z, P, Q, a, b
<1> QED
  BY <1>9, <1>10, <1>11, Zenon DEF P, Q, w, OctetRange

\* The chunks of a text.
LEMMA ChunkCharacters ==
  ASSUME NEW t \in Seq(Characters), NEW n \in Nat, 4 * n <= Len(t), NEW c \in 1..n
  PROVE  \A k \in 1..4 : Chunk(t, c)[k] = t[4 * (c - 1) + k] /\ Chunk(t, c)[k] \in Characters
<1> TAKE k \in 1..4
<1>1. 4 * (c - 1) + k \in 1..Len(t)
  <2>1. Len(t) \in Nat
    BY ItemsOf
  <2>2. 4 * (c - 1) + k <= 4 * n /\ 4 * (c - 1) + k \in Nat /\ 4 * (c - 1) + k >= 1
    OBVIOUS
  <2> QED
    BY <2>1, <2>2
<1>2. t[4 * (c - 1) + k] \in Characters
  BY <1>1, ItemsOf
<1>3. Chunk(t, c)[k] = t[4 * (c - 1) + k]
  BY DEF Chunk
<1> QED
  BY <1>2, <1>3

LEMMA ValidCharacters ==
  ASSUME NEW c, \A k \in 1..4 : c[k] \in Characters
  PROVE  ValidChunk(c) <=> /\ c[1] \in 0..63 /\ c[2] \in 0..63 /\ c[3] \in 0..64 /\ c[4] \in 0..64
                           /\ c[3] = Pad => c[4] = Pad
<1>1. c[1] \in Characters /\ c[2] \in Characters /\ c[3] \in Characters /\ c[4] \in Characters
  OBVIOUS
<1>2. \A v \in Characters : (v < Pad <=> v \in 0..63) /\ (v # Foreign <=> v \in 0..64)
  BY DEF Characters, Pad, Foreign
<1> QED
  BY <1>1, <1>2, Zenon DEF ValidChunk

\* An accepted chunk gives octets.
LEMMA DecodedOctets ==
  ASSUME NEW t \in Seq(Characters), DecodeChunks(t).ok
  PROVE  DecodeChunks(t).octets \in Seq(0..255)
<1> DEFINE n == Len(t) \div 4
           s == [c \in 1..n |-> ChunkOctets(Chunk(t, c))]
<1>1. n \in Nat /\ 4 * n <= Len(t)
  <2>1. Len(t) \in Nat
    BY ItemsOf
  <2> QED
    BY <2>1
<1>2. \A c \in 1..n : ValidChunk(Chunk(t, c))
  BY Zenon DEF DecodeChunks
<1>3. DecodeChunks(t).octets = FlattenSeq(s)
  BY Zenon DEF DecodeChunks
<1> HIDE DEF n
<1>4. \A c \in 1..n : ChunkOctets(Chunk(t, c)) \in Seq(0..255)
  <2> TAKE c \in 1..n
  <2>1. \A k \in 1..4 : Chunk(t, c)[k] \in Characters
    BY <1>1, ChunkCharacters
  <2> QED
    BY <1>2, <2>1, ValidCharacters, ChunkShape
<1>5. s \in Seq(Seq(0..255))
  <2> DEFINE S == Seq(0..255)
             v(c) == ChunkOctets(Chunk(t, c))
  <2>1. \A c \in 1..n : v(c) \in S
    BY <1>4
  <2> HIDE DEF S, v
  <2>2. [c \in 1..n |-> v(c)] \in Seq(S)
    BY <1>1, <2>1
  <2> QED
    BY <2>2 DEF S, v
<1> HIDE DEF s
<1>6. FlattenSeq(s) \in Seq(0..255)
  BY <1>5, FlattenShape
<1> QED
  BY <1>3, <1>6

\* Encoding the octets of four digits gives the digits.
LEMMA FirstBack ==
  ASSUME NEW a \in 0..63, NEW b \in 0..63, NEW y, NEW z
  PROVE  Digit(FirstOctet(a, b), y, z, 1) = a
<1> DEFINE b1 == b \div 16
<1>1. b1 \in 0..3
  OBVIOUS
<1> HIDE DEF b1
<1>2. (4 * a + b1) \div 4 = a
  BY <1>1
<1> QED
  BY <1>2 DEF Digit, FirstOctet, b1

LEMMA SecondBack ==
  ASSUME NEW a \in 0..63, NEW b \in 0..63, NEW d \in 0..63, NEW z
  PROVE  /\ Digit(FirstOctet(a, b), SecondOctet(b, d), z, 2) = b
         /\ b % 16 = 0 => Digit(FirstOctet(a, b), 0, z, 2) = b
<1> DEFINE b1 == b \div 16
           b0 == b % 16
           d1 == d \div 4
<1>1. b1 \in 0..3 /\ b0 \in 0..15 /\ b = 16 * b1 + b0 /\ d1 \in 0..15
  OBVIOUS
<1>2. (16 * b) % 256 = 16 * b0
  BY ShiftedOut
<1>3. FirstOctet(a, b) = 4 * a + b1 /\ SecondOctet(b, d) = 16 * b0 + d1
  BY <1>2 DEF FirstOctet, SecondOctet
<1>4. b % 16 = b0
  OBVIOUS
<1> HIDE DEF b1, b0, d1
<1>5. (4 * a + b1) % 4 = b1 /\ (16 * b0 + d1) \div 16 = b0
  BY <1>1
<1>6. Digit(FirstOctet(a, b), SecondOctet(b, d), z, 2) = b1 * 16 + b0
  BY <1>3, <1>5 DEF Digit
<1>7. Digit(FirstOctet(a, b), 0, z, 2) = b1 * 16 + 0 \div 16
  BY <1>3, <1>5 DEF Digit
<1> QED
  BY <1>1, <1>4, <1>6, <1>7

LEMMA ThirdBack ==
  ASSUME NEW b \in 0..63, NEW d \in 0..63, NEW e \in 0..63, NEW x
  PROVE  /\ Digit(x, SecondOctet(b, d), ThirdOctet(d, e), 3) = d
         /\ d % 4 = 0 => Digit(x, SecondOctet(b, d), 0, 3) = d
<1> DEFINE b0 == b % 16
           d1 == d \div 4
           d0 == d % 4
<1>1. b0 \in 0..15 /\ d1 \in 0..15 /\ d0 \in 0..3 /\ d = 4 * d1 + d0
  OBVIOUS
<1>2. (16 * b) % 256 = 16 * b0 /\ (64 * d) % 256 = 64 * d0
  BY ShiftedOut
<1>3. SecondOctet(b, d) = 16 * b0 + d1 /\ ThirdOctet(d, e) = 64 * d0 + e
  BY <1>2 DEF SecondOctet, ThirdOctet
<1>4. d % 4 = d0
  OBVIOUS
<1> HIDE DEF b0, d1, d0
<1>5. (16 * b0 + d1) % 16 = d1 /\ (64 * d0 + e) \div 64 = d0
  BY <1>1
<1>6. Digit(x, SecondOctet(b, d), ThirdOctet(d, e), 3) = d1 * 4 + d0
  BY <1>3, <1>5 DEF Digit
<1>7. Digit(x, SecondOctet(b, d), 0, 3) = d1 * 4 + 0 \div 64
  BY <1>3, <1>5 DEF Digit
<1> QED
  BY <1>1, <1>4, <1>6, <1>7

LEMMA FourthBack ==
  ASSUME NEW d \in 0..63, NEW e \in 0..63, NEW x, NEW y
  PROVE  Digit(x, y, ThirdOctet(d, e), 4) = e
<1> DEFINE d0 == d % 4
<1>1. d0 \in 0..3
  OBVIOUS
<1>2. ThirdOctet(d, e) = 64 * d0 + e
  BY ShiftedOut DEF ThirdOctet
<1> HIDE DEF d0
<1>3. (64 * d0 + e) % 64 = e
  BY <1>1
<1> QED
  BY <1>2, <1>3 DEF Digit

\* Digits and padding behind them, with zeros in what the last octet leaves
\* of the last digit.
WellFormed(t, n, p) ==
  /\ n \in Nat /\ p \in 0..2 /\ (n = 0 => p = 0) /\ Len(t) = 4 * n
  /\ \A i \in 1..4 * n : (i > 4 * n - p => t[i] = Pad) /\ (i <= 4 * n - p => t[i] \in 0..63)
  /\ p = 1 => t[4 * n - 1] % 4 = 0
  /\ p = 2 => t[4 * n - 2] % 16 = 0

\* A text that is not malformed.
LEMMA NotMalformed ==
  ASSUME NEW t \in Seq(Characters), ~Malformed(t)
  PROVE  \E n, p : WellFormed(t, n, p)
<1> DEFINE n == Len(t) \div 4
           p == Padding(t)
           digits == Unpadded(t)
           N == 4 * n - p
<1>1. Len(t) \in Nat /\ Len(t) % 4 = 0
  BY ItemsOf DEF Malformed
<1>2. n \in Nat /\ Len(t) = 4 * n
  BY <1>1
<1> HIDE DEF n
<1>3. /\ p \in 0..2 /\ (n = 0 => p = 0)
      /\ \A i \in 1..4 * n : i > 4 * n - p => t[i] = Pad
  <2>1. CASE n = 0
    BY <1>2, <2>1 DEF Padding
  <2>2. CASE n # 0
    <3>1. p = IF t[4 * n] # Pad THEN 0 ELSE IF t[4 * n - 1] # Pad THEN 1 ELSE 2
      BY <1>2, <2>2 DEF Padding
    <3> HIDE DEF p
    <3>2. p \in 0..2 /\ (p > 0 => t[4 * n] = Pad) /\ (p > 1 => t[4 * n - 1] = Pad)
      BY <3>1
    <3>3. \A i \in 1..4 * n : i > 4 * n - p => (i = 4 * n /\ p > 0) \/ (i = 4 * n - 1 /\ p > 1)
      BY <1>2, <3>2
    <3> QED
      BY <2>2, <3>2, <3>3
  <2> QED
    BY <2>1, <2>2
<1> HIDE DEF p
<1>4. /\ digits \in Seq(Characters)
      /\ Len(digits) = N /\ DOMAIN digits = 1..N /\ \A i \in 1..N : digits[i] = t[i]
  BY <1>2, <1>3, UnpaddedIs DEF p
<1>5. N \in Nat /\ (N = 0 => n = 0) /\ N <= 4 * n
  BY <1>2, <1>3
<1>6. /\ \A i \in DOMAIN digits : ~(digits[i] >= Pad)
      /\ digits = <<>> \/ digits[Len(digits)] % (2 ^ ((6 * Len(digits)) % 8)) = 0
  BY DEF Malformed
<1> HIDE DEF digits, N
<1>7. \A i \in 1..N : t[i] \in 0..63
  <2> TAKE i \in 1..N
  <2>1. t[i] \in Characters /\ ~(t[i] >= Pad)
    BY <1>4, <1>6, ItemsOf
  <2>2. \A v \in Characters : ~(v >= Pad) => v \in 0..63
    BY DEF Characters, Pad, Foreign
  <2> QED
    BY <2>1, <2>2
<1>8. n # 0 => N \in 1..N /\ t[N] % (2 ^ ((6 * N) % 8)) = 0
  <2> HAVE n # 0
  <2>1. N \in 1..N /\ Len(digits) # 0
    BY <1>4, <1>5
  <2>2. digits # <<>>
    BY <2>1
  <2>3. digits[N] % (2 ^ ((6 * N) % 8)) = 0
    BY <1>4, <1>6, <2>2
  <2> QED
    BY <1>4, <2>1, <2>3
<1>9. p = 1 => t[4 * n - 1] % 4 = 0
  <2> HAVE p = 1
  <2>1. n # 0 /\ N = 4 * n - 1
    BY <1>3 DEF N
  <2>2. (6 * N) % 8 = 2
    BY <1>2, <2>1
  <2> QED
    BY <1>8, <2>1, <2>2, Powers
<1>10. p = 2 => t[4 * n - 2] % 16 = 0
  <2> HAVE p = 2
  <2>1. n # 0 /\ N = 4 * n - 2
    BY <1>3 DEF N
  <2>2. (6 * N) % 8 = 4
    BY <1>2, <2>1
  <2> QED
    BY <1>8, <2>1, <2>2, Powers
<1>11. \A i \in 1..4 * n : i <= 4 * n - p => t[i] \in 0..63
  <2> TAKE i \in 1..4 * n
  <2> HAVE i <= 4 * n - p
  <2>1. i \in 1..N
    BY <1>5 DEF N
  <2> QED
    BY <1>7, <2>1
<1>12. WellFormed(t, n, p)
  BY <1>2, <1>3, <1>9, <1>10, <1>11 DEF WellFormed
<1> QED
  BY <1>12

\* The chunks of such a text: all but the last are full.
LEMMA WellFormedChunk ==
  ASSUME NEW t \in Seq(Characters), NEW n, NEW p, WellFormed(t, n, p), NEW c \in 1..n
  PROVE  LET u == Chunk(t, c) IN
         /\ u[1] \in 0..63 /\ u[2] \in 0..63 /\ u[3] \in 0..64 /\ u[4] \in 0..64
         /\ \A k \in 1..4 : u[k] = t[4 * (c - 1) + k]
         /\ IF c = n /\ p = 2 THEN u[3] = Pad /\ u[2] % 16 = 0 ELSE u[3] \in 0..63
         /\ IF c = n /\ p > 0 THEN u[4] = Pad ELSE u[4] \in 0..63
         /\ c = n /\ p = 1 => u[3] % 4 = 0
<1> DEFINE u == Chunk(t, c)
           i(k) == 4 * (c - 1) + k
<1>1. n \in Nat /\ p \in 0..2 /\ Len(t) = 4 * n
  BY DEF WellFormed
<1>2. \A k \in 1..4 : u[k] = t[i(k)]
  <2>1. 4 * n <= Len(t)
    BY <1>1
  <2> QED
    BY <1>1, <2>1, ChunkCharacters
<1>3. \A k \in 1..4 : i(k) \in 1..4 * n /\ (i(k) > 4 * n - p <=> c = n /\ k > 4 - p)
  BY <1>1
<1>4. \A k \in 1..4 : IF c = n /\ k > 4 - p THEN u[k] = Pad ELSE u[k] \in 0..63
  <2> TAKE k \in 1..4
  <2>1. i(k) \in 1..4 * n /\ (i(k) > 4 * n - p <=> c = n /\ k > 4 - p) /\ u[k] = t[i(k)]
    BY <1>2, <1>3
  <2>2. i(k) \in Nat /\ 4 * n - p \in Int
    BY <1>1
  <2> HIDE DEF u, i
  <2>3. i(k) > 4 * n - p \/ i(k) <= 4 * n - p
    BY <2>2
  <2> DEFINE j == i(k)
  <2>4. (j > 4 * n - p => t[j] = Pad) /\ (j <= 4 * n - p => t[j] \in 0..63)
    BY <2>1 DEF WellFormed
  <2> QED
    BY <2>1, <2>3, <2>4
<1>5. c = n => i(3) = 4 * n - 1 /\ i(2) = 4 * n - 2
  BY <1>1
<1>6. (c = n /\ p = 1 => u[3] % 4 = 0) /\ (c = n /\ p = 2 => u[2] % 16 = 0)
  <2>1. u[3] = t[i(3)] /\ u[2] = t[i(2)]
    BY <1>2
  <2> HIDE DEF u, i
  <2> QED
    BY <1>5, <2>1 DEF WellFormed
<1>7. /\ 1 \in 1..4 /\ 2 \in 1..4 /\ 3 \in 1..4 /\ 4 \in 1..4
      /\ ~(1 > 4 - p) /\ ~(2 > 4 - p) /\ (3 > 4 - p <=> p = 2) /\ (4 > 4 - p <=> p > 0)
  BY <1>1
<1> HIDE DEF u, i
<1>8. /\ u[1] \in 0..63 /\ u[2] \in 0..63
      /\ IF c = n /\ p = 2 THEN u[3] = Pad ELSE u[3] \in 0..63
      /\ IF c = n /\ p > 0 THEN u[4] = Pad ELSE u[4] \in 0..63
  BY <1>4, <1>7, Zenon
<1>9. \A v : v = Pad \/ v \in 0..63 => v \in 0..64
  BY DEF Pad
<1>10. u[3] \in 0..64 /\ u[4] \in 0..64
  BY <1>8, <1>9, Zenon
<1> QED
  BY <1>2, <1>6, <1>8, <1>10, Zenon DEF u, i

\* The octets of such a text: three for every chunk, but for the padding.
LEMMA WellFormedOctets ==
  ASSUME NEW t \in Seq(Characters), NEW n, NEW p, WellFormed(t, n, p)
  PROVE  LET o == DecodeChunks(t).octets IN
         /\ DecodeChunks(t).ok
         /\ o \in Seq(0..255) /\ Len(o) = 3 * n - p
         /\ \A c \in 1..n : LET u == Chunk(t, c) IN
              /\ At(o, 3 * (c - 1) + 1) = FirstOctet(u[1], u[2])
              /\ At(o, 3 * (c - 1) + 2) = IF c = n /\ p = 2 THEN 0 ELSE SecondOctet(u[2], u[3])
              /\ At(o, 3 * (c - 1) + 3) = IF c = n /\ p > 0 THEN 0 ELSE ThirdOctet(u[3], u[4])
<1> DEFINE o == DecodeChunks(t).octets
           u(c) == Chunk(t, c)
           v(c) == ChunkOctets(u(c))
           s == [c \in 1..n |-> v(c)]
<1>1. n \in Nat /\ p \in 0..2 /\ (n = 0 => p = 0) /\ Len(t) = 4 * n
  BY DEF WellFormed
<1>2. Len(t) % 4 = 0 /\ Len(t) \div 4 = n
  BY <1>1
<1>3. \A c \in 1..n :
        /\ u(c)[1] \in 0..63 /\ u(c)[2] \in 0..63 /\ u(c)[3] \in 0..64 /\ u(c)[4] \in 0..64
        /\ IF c = n /\ p = 2 THEN u(c)[3] = Pad ELSE u(c)[3] \in 0..63
        /\ IF c = n /\ p > 0 THEN u(c)[4] = Pad ELSE u(c)[4] \in 0..63
  <2> TAKE c \in 1..n
  <2> QED
    BY WellFormedChunk
<1>4. \A c \in 1..n : (u(c)[3] = Pad <=> c = n /\ p = 2) /\ (u(c)[4] = Pad <=> c = n /\ p > 0)
  <2> HIDE DEF u
  <2> QED
    BY <1>3, DigitIsNoPad, Zenon
<1>5. p = 2 => p > 0
  BY <1>1
<1>6. \A c \in 1..n : ValidChunk(u(c))
  <2> TAKE c \in 1..n
  <2>1. \A k \in 1..4 : u(c)[k] \in Characters
    BY <1>1, ChunkCharacters
  <2> HIDE DEF u
  <2> QED
    BY <1>3, <1>4, <1>5, <2>1, ValidCharacters
<1>7. DecodeChunks(t).ok
  <2>1. DecodeChunks(t).ok = (Len(t) % 4 = 0 /\ \A c \in 1..(Len(t) \div 4) : ValidChunk(Chunk(t, c)))
    BY Zenon DEF DecodeChunks
  <2> QED
    BY <1>2, <1>6, <2>1
<1>8. o = FlattenSeq(s)
  <2>1. o = FlattenSeq([c \in 1..(Len(t) \div 4) |-> ChunkOctets(Chunk(t, c))])
    BY Zenon DEF DecodeChunks
  <2> QED
    BY <1>2, <2>1
<1> HIDE DEF o, u
<1>9. \A c \in 1..n :
        /\ v(c) \in Seq(0..255)
        /\ Len(v(c)) = IF c = n THEN 3 - p ELSE 3
        /\ v(c)[1] = FirstOctet(u(c)[1], u(c)[2])
        /\ ~(c = n /\ p = 2) => v(c)[2] = SecondOctet(u(c)[2], u(c)[3])
        /\ ~(c = n /\ p > 0) => v(c)[3] = ThirdOctet(u(c)[3], u(c)[4])
  <2> TAKE c \in 1..n
  <2>1. /\ v(c) \in Seq(0..255)
        /\ Len(v(c)) = IF u(c)[3] = Pad THEN 1 ELSE IF u(c)[4] = Pad THEN 2 ELSE 3
        /\ v(c)[1] = FirstOctet(u(c)[1], u(c)[2])
        /\ u(c)[3] # Pad => v(c)[2] = SecondOctet(u(c)[2], u(c)[3])
        /\ u(c)[4] # Pad => v(c)[3] = ThirdOctet(u(c)[3], u(c)[4])
    BY <1>3, <1>4, <1>5, ChunkShape
  <2>2. (u(c)[3] = Pad <=> c = n /\ p = 2) /\ (u(c)[4] = Pad <=> c = n /\ p > 0)
    BY <1>4
  <2> HIDE DEF v
  <2>3. p = 0 \/ p = 1 \/ p = 2
    BY <1>1
  <2>4. Len(v(c)) = IF c = n THEN 3 - p ELSE 3
    BY <2>1, <2>2, <2>3
  <2> QED
    BY <2>1, <2>2, <2>4, Zenon
<1> HIDE DEF v
<1>10. s \in Seq(Seq(0..255)) /\ Len(s) = n /\ \A c \in 1..n : s[c] = v(c)
  <2> DEFINE S == Seq(0..255)
  <2>1. \A c \in 1..n : v(c) \in S
    BY <1>9
  <2> HIDE DEF S
  <2>2. s \in Seq(S) /\ Len(s) = n
    BY <1>1, <2>1
  <2>3. \A c \in 1..n : s[c] = v(c)
    OBVIOUS
  <2> QED
    BY <2>2, <2>3 DEF S
<1> HIDE DEF s
<1>11. o \in Seq(0..255)
  BY <1>8, <1>10, FlattenShape
<1>12. PICK at \in [0..n -> Nat] :
        /\ at[0] = 0
        /\ \A c \in 1..n : at[c] = at[c - 1] + Len(v(c))
        /\ Len(o) = at[n]
        /\ \A c \in 1..n : \A k \in 1..Len(v(c)) : o[at[c - 1] + k] = v(c)[k]
  <2>1. \E at \in [0..Len(s) -> Nat] :
          /\ at[0] = 0
          /\ \A i \in 1..Len(s) : at[i] = at[i - 1] + Len(s[i])
          /\ Len(FlattenSeq(s)) = at[Len(s)]
          /\ \A i \in 1..Len(s) : \A k \in 1..Len(s[i]) : FlattenSeq(s)[at[i - 1] + k] = s[i][k]
    BY <1>10, FlattenShape, Zenon
  <2>2. PICK at \in [0..Len(s) -> Nat] :
          /\ at[0] = 0
          /\ \A i \in 1..Len(s) : at[i] = at[i - 1] + Len(s[i])
          /\ Len(FlattenSeq(s)) = at[Len(s)]
          /\ \A i \in 1..Len(s) : \A k \in 1..Len(s[i]) : FlattenSeq(s)[at[i - 1] + k] = s[i][k]
    BY <2>1
  <2>3. at \in [0..n -> Nat] /\ at[0] = 0 /\ Len(o) = at[n]
    BY <1>8, <1>10, <2>2
  <2>4. \A c \in 1..n : at[c] = at[c - 1] + Len(v(c))
    BY <1>10, <2>2
  <2>5. \A c \in 1..n : \A k \in 1..Len(v(c)) : o[at[c - 1] + k] = v(c)[k]
    <3> TAKE c \in 1..n
    <3>1. c \in 1..Len(s) /\ s[c] = v(c)
      BY <1>10
    <3> TAKE k \in 1..Len(v(c))
    <3>2. FlattenSeq(s)[at[c - 1] + k] = s[c][k]
      BY <2>2, <3>1, Zenon
    <3> QED
      BY <1>8, <3>1, <3>2
  <2> QED
    BY <2>3, <2>4, <2>5
<1>13. \A c \in 0..n : at[c] = 3 * c - (IF c = n THEN p ELSE 0)
  <2> DEFINE Good == {c \in 0..n : at[c] = 3 * c - (IF c = n THEN p ELSE 0)}
  <2>1. 0 \in Good
    BY <1>1, <1>12
  <2>2. ASSUME NEW c \in 1..n, c - 1 \in Good
        PROVE  c \in Good
    <3>1. at[c] = at[c - 1] + Len(v(c)) /\ Len(v(c)) = IF c = n THEN 3 - p ELSE 3
      BY <1>9, <1>12
    <3>2. c - 1 # n /\ c - 1 \in 0..n /\ c \in 0..n
      BY <1>1
    <3>3. at[c - 1] = 3 * (c - 1)
      BY <1>1, <2>2, <3>2
    <3> DEFINE x == at[c]
    <3>4. x = 3 * (c - 1) + (IF c = n THEN 3 - p ELSE 3)
      BY <3>1, <3>3
    <3> HIDE DEF x
    <3>5. x = 3 * c - (IF c = n THEN p ELSE 0)
      BY <1>1, <3>4
    <3> QED
      BY <3>2, <3>5 DEF x
  <2> HIDE DEF Good
  <2>3. \A c \in 0..n : c \in Good
    BY <1>1, <2>1, <2>2, UpTo
  <2> QED
    BY <2>3 DEF Good
<1>14. Len(o) = 3 * n - p
  <2>1. n \in 0..n
    BY <1>1
  <2> QED
    BY <1>12, <1>13, <2>1
<1>15. ASSUME NEW c \in 1..n
       PROVE  /\ At(o, 3 * (c - 1) + 1) = FirstOctet(u(c)[1], u(c)[2])
              /\ At(o, 3 * (c - 1) + 2) = IF c = n /\ p = 2 THEN 0 ELSE SecondOctet(u(c)[2], u(c)[3])
              /\ At(o, 3 * (c - 1) + 3) = IF c = n /\ p > 0 THEN 0 ELSE ThirdOctet(u(c)[3], u(c)[4])
  <2>1. at[c - 1] = 3 * (c - 1)
    <3>1. c - 1 # n /\ c - 1 \in 0..n
      BY <1>1
    <3>2. at[c - 1] = 3 * (c - 1) - 0
      BY <1>13, <3>1
    <3> QED
      BY <3>2
  <2> DEFINE l == IF c = n THEN 3 - p ELSE 3
             b == 3 * (c - 1)
  <2>2. \A k \in 1..l : o[b + k] = v(c)[k]
    <3>1. Len(v(c)) = l
      BY <1>9
    <3>2. \A k \in 1..Len(v(c)) : o[at[c - 1] + k] = v(c)[k]
      BY <1>12
    <3> HIDE DEF l, b
    <3>3. at[c - 1] = b
      BY <2>1 DEF b
    <3> QED
      BY <3>1, <3>2, <3>3
  <2>3. /\ 1 \in 1..l /\ (2 \in 1..l <=> ~(c = n /\ p = 2)) /\ (3 \in 1..l <=> ~(c = n /\ p > 0))
        /\ b + 1 <= 3 * n - p
        /\ b + 2 <= 3 * n - p <=> 2 \in 1..l
        /\ b + 3 <= 3 * n - p <=> 3 \in 1..l
    BY <1>1
  <2> HIDE DEF l, b
  <2>4. /\ At(o, b + 1) = v(c)[1]
        /\ At(o, b + 2) = IF 2 \in 1..l THEN v(c)[2] ELSE 0
        /\ At(o, b + 3) = IF 3 \in 1..l THEN v(c)[3] ELSE 0
    BY <1>14, <2>2, <2>3, Zenon DEF At
  <2>5. /\ v(c)[1] = FirstOctet(u(c)[1], u(c)[2])
        /\ ~(c = n /\ p = 2) => v(c)[2] = SecondOctet(u(c)[2], u(c)[3])
        /\ ~(c = n /\ p > 0) => v(c)[3] = ThirdOctet(u(c)[3], u(c)[4])
    BY <1>9
  <2>6. /\ At(o, b + 1) = FirstOctet(u(c)[1], u(c)[2])
        /\ At(o, b + 2) = IF c = n /\ p = 2 THEN 0 ELSE SecondOctet(u(c)[2], u(c)[3])
        /\ At(o, b + 3) = IF c = n /\ p > 0 THEN 0 ELSE ThirdOctet(u(c)[3], u(c)[4])
    BY <2>3, <2>4, <2>5, Zenon
  <2> QED
    BY <2>6 DEF b
<1> QED
  BY <1>7, <1>11, <1>14, <1>15, Zenon DEF o, u

\* Encoding them gives the text back.
LEMMA WellFormedBack ==
  ASSUME NEW t \in Seq(Characters), NEW n, NEW p, WellFormed(t, n, p)
  PROVE  Encode(DecodeChunks(t).octets) = t
<1> DEFINE o == DecodeChunks(t).octets
           u(c) == Chunk(t, c)
<1>1. n \in Nat /\ p \in 0..2 /\ Len(t) = 4 * n
  BY DEF WellFormed
<1>2. /\ o \in Seq(0..255) /\ Len(o) = 3 * n - p
      /\ \A c \in 1..n :
           /\ At(o, 3 * (c - 1) + 1) = FirstOctet(u(c)[1], u(c)[2])
           /\ At(o, 3 * (c - 1) + 2) = IF c = n /\ p = 2 THEN 0 ELSE SecondOctet(u(c)[2], u(c)[3])
           /\ At(o, 3 * (c - 1) + 3) = IF c = n /\ p > 0 THEN 0 ELSE ThirdOctet(u(c)[3], u(c)[4])
  BY WellFormedOctets, Zenon
<1>3. \A c \in 1..n :
        /\ u(c)[1] \in 0..63 /\ u(c)[2] \in 0..63
        /\ \A k \in 1..4 : u(c)[k] = t[4 * (c - 1) + k]
        /\ IF c = n /\ p = 2 THEN u(c)[3] = Pad /\ u(c)[2] % 16 = 0 ELSE u(c)[3] \in 0..63
        /\ IF c = n /\ p > 0 THEN u(c)[4] = Pad ELSE u(c)[4] \in 0..63
        /\ c = n /\ p = 1 => u(c)[3] % 4 = 0
  <2> TAKE c \in 1..n
  <2> QED
    BY WellFormedChunk
<1> HIDE DEF o, u
<1>4. Len(o) \in Nat
  BY <1>2, ItemsOf
<1>5. \A i \in 1..4 * n : Encode(o)[i] = t[i]
  <2> TAKE i \in 1..4 * n
  <2>1. PICK c0 \in 0..(n - 1), q \in 1..4 : i = 4 * c0 + q
    BY <1>1, PlaceOf
  <2> DEFINE c == c0 + 1
             x == At(o, 3 * c0 + 1)
             y == At(o, 3 * c0 + 2)
             z == At(o, 3 * c0 + 3)
             a == u(c)[1]
             b == u(c)[2]
             d == u(c)[3]
             e == u(c)[4]
  <2>2. c \in 1..n /\ c - 1 = c0
    BY <1>1
  <2>3. Encode(o)[i] = IF i > 4 * n - p THEN Pad ELSE Digit(x, y, z, q)
    BY <1>1, <1>2, <1>4, <2>1, EncodedAt
  <2> HIDE DEF c
  <2>4. /\ x = FirstOctet(a, b)
        /\ y = IF c = n /\ p = 2 THEN 0 ELSE SecondOctet(b, d)
        /\ z = IF c = n /\ p > 0 THEN 0 ELSE ThirdOctet(d, e)
    BY <1>2, <2>2
  <2>5. /\ a \in 0..63 /\ b \in 0..63
        /\ IF c = n /\ p = 2 THEN b % 16 = 0 ELSE d \in 0..63
        /\ IF c = n /\ p > 0 THEN TRUE ELSE e \in 0..63
        /\ c = n /\ p = 1 => d % 4 = 0
    BY <1>3, <2>2
  <2>6. t[i] = u(c)[q]
    BY <1>3, <2>1, <2>2
  <2>7. i > 4 * n - p <=> c = n /\ q > 4 - p
    BY <1>1, <2>1 DEF c
  <2>8. CASE i > 4 * n - p
    <3>1. t[i] = Pad
      BY <2>8 DEF WellFormed
    <3> QED
      BY <2>3, <2>8, <3>1
  <2>9. ASSUME ~(i > 4 * n - p)
        PROVE  Digit(x, y, z, q) = u(c)[q]
    <3> HIDE DEF x, y, z, a, b, d, e
    <3>1. ~(c = n /\ q > 4 - p)
      BY <2>7, <2>9
    <3>2. 0 \in 0..63
      OBVIOUS
    <3>3. q = 1 \/ q = 2 \/ q = 3 \/ q = 4
      OBVIOUS
    <3>4. CASE q = 1
      <4>1. Digit(x, y, z, 1) = a
        BY <2>4, <2>5, FirstBack
      <4> QED
        BY <3>4, <4>1 DEF a
    <3>5. CASE q = 2
      <4>1. Digit(x, y, z, 2) = b
        <5>1. CASE c = n /\ p = 2
          BY <2>4, <2>5, <3>2, <5>1, SecondBack
        <5>2. CASE ~(c = n /\ p = 2)
          <6>1. x = FirstOctet(a, b) /\ y = SecondOctet(b, d) /\ a \in 0..63 /\ b \in 0..63 /\ d \in 0..63
            BY <2>4, <2>5, <5>2
          <6>2. Digit(FirstOctet(a, b), SecondOctet(b, d), z, 2) = b
            BY <6>1, SecondBack
          <6> QED
            BY <6>1, <6>2
        <5> QED
          BY <5>1, <5>2
      <4> QED
        BY <3>5, <4>1 DEF b
    <3>6. CASE q = 3
      <4>1. Digit(x, y, z, 3) = d
        <5>1. ~(c = n /\ p = 2)
          BY <1>1, <3>1, <3>6
        <5>2. CASE c = n /\ p = 1
          <6>1. p > 0
            BY <5>2
          <6> QED
            BY <2>4, <2>5, <3>2, <5>1, <5>2, <6>1, ThirdBack
        <5>3. CASE ~(c = n /\ p = 1)
          <6>1. ~(c = n /\ p > 0)
            BY <1>1, <5>1, <5>3
          <6>2. y = SecondOctet(b, d) /\ z = ThirdOctet(d, e) /\ b \in 0..63 /\ d \in 0..63 /\ e \in 0..63
            BY <2>4, <2>5, <5>1, <6>1
          <6>3. Digit(x, SecondOctet(b, d), ThirdOctet(d, e), 3) = d
            BY <6>2, ThirdBack
          <6> QED
            BY <6>2, <6>3
        <5> QED
          BY <5>2, <5>3
      <4> QED
        BY <3>6, <4>1 DEF d
    <3>7. CASE q = 4
      <4>1. Digit(x, y, z, 4) = e
        <5>1. ~(c = n /\ p > 0) /\ ~(c = n /\ p = 2)
          BY <1>1, <3>1, <3>7
        <5> QED
          BY <2>4, <2>5, <5>1, FourthBack
      <4> QED
        BY <3>7, <4>1 DEF e
    <3> QED
      BY <3>3, <3>4, <3>5, <3>6, <3>7
  <2> QED
    BY <2>3, <2>6, <2>8, <2>9
<1>6. Encode(o) = [i \in 1..4 * n |-> Encode(o)[i]]
  BY <1>1, <1>2, <1>4, EncodedLength
<1>7. t = [i \in 1..4 * n |-> t[i]]
  BY <1>1, ItemsOf
<1>8. Encode(o) = t
  <2> DEFINE f(i) == Encode(o)[i]
             g(i) == t[i]
  <2>1. \A i \in 1..4 * n : f(i) = g(i)
    BY <1>5
  <2> HIDE DEF f, g
  <2>2. [i \in 1..4 * n |-> f(i)] = [i \in 1..4 * n |-> g(i)]
    BY <2>1
  <2> QED
    BY <1>6, <1>7, <2>2 DEF f, g
<1> QED
  BY <1>8 DEF o

\* base64_decode accepts exactly the texts that represent octets, and returns
\* these: whatever the length of the text and the characters in it.
THEOREM Base64DecodesExactly == text \in Seq(Characters) => DecodesExactly
<1> SUFFICES ASSUME text \in Seq(Characters) PROVE DecodesExactly
  OBVIOUS
<1> DEFINE o == DecodeChunks(text).octets
<1>1. /\ Decode(text).ok = (DecodeChunks(text).ok /\ Encode(o) = text)
      /\ Decode(text).octets = o
  BY Zenon DEF Decode
<1>2. Decode(text).ok => Represents(text, Decode(text).octets)
  <2> HAVE Decode(text).ok
  <2>1. o \in Seq(0..255) /\ Encode(o) = text
    BY <1>1, DecodedOctets
  <2> HIDE DEF o
  <2>2. Represents(Encode(o), o)
    BY <2>1, EncodedRepresents
  <2> QED
    BY <1>1, <2>1, <2>2
<1>3. ~Decode(text).ok => Malformed(text)
  <2> SUFFICES ASSUME ~Malformed(text) PROVE Decode(text).ok
    OBVIOUS
  <2>1. PICK n, p : WellFormed(text, n, p)
    BY NotMalformed
  <2>2. DecodeChunks(text).ok
    BY <2>1, WellFormedOctets, Zenon
  <2>3. Encode(o) = text
    BY <2>1, WellFormedBack
  <2> QED
    BY <1>1, <2>2, <2>3
<1> QED
  BY <1>2, <1>3, Zenon DEF DecodesExactly
=============================================================================
