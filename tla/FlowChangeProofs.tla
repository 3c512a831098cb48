-------------------------- MODULE FlowChangeProofs --------------------------
(***************************************************************************)
(* What flow_change tells its caller, for any rules, packets and           *)
(* publications of other threads between its reads.                        *)
(*                                                                         *)
(* The reads of a planner are several steps, so its variables describe     *)
(* contexts that are no longer active.  PlanInv relates them to the        *)
(* snapshot they were taken from: the loops walk over rules of that        *)
(* snapshot (LoopsOK), the rule that the flow takes is still to be looked  *)
(* at (ChosenAhead), and every candidate would install on the snapshot and *)
(* carry the flow there (CandidatesOK).  That the destination is free on   *)
(* the planner's snapshot comes from what is proved of the allocator,      *)
(* taken over by an instance of that module (Facts).                       *)
(*                                                                         *)
(* A plan is smallest because every parent was tried (AllTried) and        *)
(* because any request that makes a copy compress the flow sets what the   *)
(* planner would set (SmallerRequest).                                     *)
(*                                                                         *)
(* "Already matches" is about the past: Watching says that every context   *)
(* that was active while the planner worked is remembered as seen.         *)
(***************************************************************************)
EXTENDS FlowChange, SchcContextProofs, TLAPS

\* What is proved of the allocator, for the planner's namespace and rules.
Facts == INSTANCE AlgorithmProofs
  WITH Namespaces <- {}, StaticIds <- {}, MaxRules <- 0,
       namespace <- Namespace, occupied <- DOMAIN active,
       text <- <<>>, message <- <<>>

-----------------------------------------------------------------------------
(* Lists in canonical order.  Induction takes the form of a smallest         *)
(* counterexample.                                                           *)

\* A set of naturals has a smallest element.
LEMMA SmallestNat ==
  ASSUME NEW T, T \subseteq Nat, T # {}
  PROVE  \E x \in T : \A y \in T : x <= y
BY Facts!SmallestNat

\* RuleIDs are ordered by length and value, and there is a first one.
LEMMA FirstRule ==
  ASSUME NEW ids, ids \subseteq RuleIds, ids # {}
  PROVE  \E id \in ids : \A other \in ids \ {id} : RuleOrder(id, other)
<1>1. \A id \in ids : id \in [value : Nat, length : Nat]
  BY RuleIdsExplicit
<1> DEFINE lengths == {id.length : id \in ids}
<1>2. PICK n \in lengths : \A m \in lengths : n <= m
  <2>1. lengths \subseteq Nat /\ lengths # {}
    BY <1>1
  <2> QED
    BY <2>1, SmallestNat
<1> DEFINE values == {id.value : id \in {d \in ids : d.length = n}}
<1>3. PICK v \in values : \A w \in values : v <= w
  <2>1. values \subseteq Nat /\ values # {}
    BY <1>1
  <2> QED
    BY <2>1, SmallestNat
<1>4. PICK id \in ids : id.length = n /\ id.value = v
  OBVIOUS
<1>5. ASSUME NEW other \in ids, other # id
      PROVE  RuleOrder(id, other)
  <2>1. /\ id \in [value : Nat, length : Nat]
        /\ other \in [value : Nat, length : Nat]
    BY <1>1
  <2>2. n <= other.length
    BY <1>2
  <2>3. other.length = n => v <= other.value
    BY <1>3
  <2>4. other.length # id.length \/ other.value # id.value
    BY <1>5, <2>1
  <2>5. /\ id.length \in Nat /\ id.value \in Nat
        /\ other.length \in Nat /\ other.value \in Nat
    BY <2>1
  <2> QED
    BY <1>4, <2>2, <2>3, <2>4, <2>5 DEF RuleOrder
<1> QED
  BY <1>5

\* A list of RuleIDs in order.
InOrder(s, n, ids) ==
  /\ s \in [1..n -> ids]
  /\ \A i, j \in 1..n : i < j => RuleOrder(s[i], s[j])

\* Any RuleIDs can be listed in order.
LEMMA OrderExists ==
  ASSUME NEW ids \in SUBSET RuleIds
  PROVE  \E s : InOrder(s, Cardinality(ids), ids)
<1>1. \A S \in SUBSET RuleIds : IsFiniteSet(S) /\ Cardinality(S) \in Nat
  BY RuleIdsFinite, FS_Subset, FS_CardinalityType
<1> DEFINE Bad == {Cardinality(S) : S \in {T \in SUBSET RuleIds :
                     ~ \E s : InOrder(s, Cardinality(T), T)}}
<1>2. Bad = {}
  <2> SUFFICES ASSUME Bad # {} PROVE FALSE
    OBVIOUS
  <2>1. Bad \subseteq Nat
    BY <1>1
  <2>2. PICK n \in Bad : \A m \in Bad : n <= m
    BY <2>1, SmallestNat
  <2>3. PICK S \in SUBSET RuleIds :
          /\ Cardinality(S) = n
          /\ ~ \E s : InOrder(s, n, S)
    BY <2>2
  <2>4. S # {}
    <3>1. ASSUME S = {} PROVE InOrder(<<>>, n, S)
      <4>1. n = 0
        BY <2>3, <3>1, FS_EmptySet
      <4> QED
        BY <4>1 DEF InOrder
    <3> QED
      BY <2>3, <3>1
  <2>5. PICK first \in S : \A other \in S \ {first} : RuleOrder(first, other)
    BY <2>3, <2>4, FirstRule
  <2> DEFINE rest == S \ {first}
  <2>6. Cardinality(rest) = n - 1 /\ n \in Nat
    BY <1>1, <2>3, FS_RemoveElement
  <2>7. n - 1 \notin Bad
    BY <2>1, <2>2, <2>6
  <2>8. PICK t : InOrder(t, n - 1, rest)
    BY <2>3, <2>6, <2>7
  <2>9. n - 1 \in Nat
    <3>1. IsFiniteSet(S) /\ Cardinality(S) # 0
      BY <1>1, <2>4, FS_EmptySet
    <3> QED
      BY <2>3, <2>6, <3>1
  <2> DEFINE s == [i \in 1..n |-> IF i = 1 THEN first ELSE t[i - 1]]
  <2>10. s \in [1..n -> S]
    <3>1. \A i \in 1..n : i # 1 => t[i - 1] \in S
      BY <2>6, <2>8, <2>9 DEF InOrder
    <3> QED
      BY <3>1
  <2>11. ASSUME NEW i \in 1..n, NEW j \in 1..n, i < j
         PROVE  RuleOrder(s[i], s[j])
    <3>1. j - 1 \in 1..(n - 1) /\ j # 1 /\ (i # 1 => i - 1 \in 1..(n - 1) /\ i - 1 < j - 1)
      BY <2>6, <2>11
    <3>2. t[j - 1] \in rest /\ (i # 1 => RuleOrder(t[i - 1], t[j - 1]))
      BY <2>8, <3>1 DEF InOrder
    <3> QED
      BY <2>5, <3>1, <3>2
  <2>12. InOrder(s, n, S)
    BY <2>10, <2>11 DEF InOrder
  <2> QED
    BY <2>3, <2>12
<1> QED
  BY <1>2

\* The canonical order lists each rule.
LEMMA SortedLists ==
  ASSUME NEW ids \in SUBSET RuleIds
  PROVE  /\ Sorted(ids) \in Seq(ids)
         /\ \A id \in ids : \E i \in 1..Len(Sorted(ids)) : Sorted(ids)[i] = id
<1> DEFINE n == Cardinality(ids)
           s == Sorted(ids)
<1>1. IsFiniteSet(ids) /\ n \in Nat
  BY RuleIdsFinite, FS_Subset, FS_CardinalityType
<1>2. s \in [1..n -> ids] /\ \A i, j \in DOMAIN s : i < j => RuleOrder(s[i], s[j])
  <2>1. \E t \in [1..n -> ids] : \A i, j \in DOMAIN t : i < j => RuleOrder(t[i], t[j])
    BY OrderExists DEF InOrder
  <2> QED
    BY <2>1 DEF Sorted
<1> HIDE DEF n, s
<1>3. ASSUME NEW i \in 1..n, NEW j \in 1..n, s[i] = s[j]
      PROVE  i = j
  <2>1. s[i].length \in Nat /\ s[i].value \in Nat
    BY <1>2, RuleIdsExplicit
  <2>2. ~ RuleOrder(s[i], s[i])
    BY <2>1 DEF RuleOrder
  <2> QED
    BY <1>2, <1>3, <2>2
<1>4. s \in Injection(1..n, ids)
  BY <1>2, <1>3 DEF Injection, IsInjective
<1>5. IsFiniteSet(1..n) /\ Cardinality(1..n) = n
  BY <1>1, FS_Interval
<1>6. s \in Surjection(1..n, ids)
  BY <1>1, <1>4, <1>5, FS_Injection DEF n
<1>7. s \in Seq(ids) /\ Len(s) = n
  BY <1>1, <1>2
<1> QED
  BY <1>6, <1>7 DEF Surjection, s

-----------------------------------------------------------------------------
(* The ranking of candidates. *)

\* A candidate has a key of naturals.
LEMMA KeyType ==
  ASSUME NEW r \in DuplicateRequests
  PROVE  /\ WireBytes(r) \in Nat
         /\ Cardinality(DOMAIN r.overrides) \in Nat
         /\ r.source.value \in Nat
         /\ r.source.length \in Nat
<1>1. r.source \in RuleIds /\ r.overrides \in Overrides
  BY DEF DuplicateRequests
<1>2. DOMAIN r.overrides \in SUBSET Entries
  BY <1>1 DEF Overrides
<1>3. IsFiniteSet(DOMAIN r.overrides)
  BY <1>2, EntriesFinite, FS_Subset
<1>4. r.source.value \in Nat /\ r.source.length \in Nat
  BY <1>1, RuleIdsExplicit
<1> QED
  BY <1>3, <1>4, FS_CardinalityType, WireBytesAssumption

\* A request comes before another if its key is smaller at the first place
\* where they differ, or nowhere larger.
LEMMA RankedBy ==
  ASSUME NEW r \in DuplicateRequests, NEW s \in DuplicateRequests,
         WireBytes(r) <= WireBytes(s),
         WireBytes(r) = WireBytes(s) =>
           Cardinality(DOMAIN r.overrides) <= Cardinality(DOMAIN s.overrides),
         /\ WireBytes(r) = WireBytes(s)
         /\ Cardinality(DOMAIN r.overrides) = Cardinality(DOMAIN s.overrides)
         => r.source.value <= s.source.value,
         /\ WireBytes(r) = WireBytes(s)
         /\ Cardinality(DOMAIN r.overrides) = Cardinality(DOMAIN s.overrides)
         /\ r.source.value = s.source.value
         => r.source.length <= s.source.length
  PROVE  Ranked(r, s)
<1> DEFINE a == <<WireBytes(r), Cardinality(DOMAIN r.overrides), r.source.value, r.source.length>>
           b == <<WireBytes(s), Cardinality(DOMAIN s.overrides), s.source.value, s.source.length>>
           differing == {i \in 1..4 : a[i] # b[i]}
<1>1. /\ a[1] \in Nat /\ a[2] \in Nat /\ a[3] \in Nat /\ a[4] \in Nat
      /\ b[1] \in Nat /\ b[2] \in Nat /\ b[3] \in Nat /\ b[4] \in Nat
  BY KeyType
<1>2. /\ a[1] <= b[1]
      /\ a[1] = b[1] => a[2] <= b[2]
      /\ a[1] = b[1] /\ a[2] = b[2] => a[3] <= b[3]
      /\ a[1] = b[1] /\ a[2] = b[2] /\ a[3] = b[3] => a[4] <= b[4]
  OBVIOUS
<1>3. Ranked(r, s) <=> (differing = {} \/ a[Min(differing)] < b[Min(differing)])
  BY DEF Ranked
<1> HIDE DEF a, b
<1>4. ASSUME differing # {}
      PROVE  a[Min(differing)] < b[Min(differing)]
  <2>1. PICK k \in differing : \A i \in differing : k <= i
    BY <1>4, SmallestNat
  <2>2. Min(differing) \in differing /\ \A i \in differing : Min(differing) <= i
    BY <2>1 DEF Min
  <2>3. Min(differing) \in 1..4 /\ \A i \in 1..4 : i < Min(differing) => a[i] = b[i]
    BY <2>2
  <2> DEFINE m == Min(differing)
  <2>4. m \in {1, 2, 3, 4} /\ a[m] # b[m]
    BY <2>2
  <2> HIDE DEF m
  <2>5. \A i \in {1, 2, 3, 4} : i < m => a[i] = b[i]
    BY <2>3 DEF m
  <2>6. a[m] < b[m]
    BY <1>1, <1>2, <2>4, <2>5
  <2> QED
    BY <2>6 DEF m
<1> QED
  BY <1>3, <1>4

\* The ranking has a first candidate, and the planner returns one such.
LEMMA BestExists ==
  ASSUME NEW requests, requests \subseteq DuplicateRequests, requests # {}
  PROVE  Best(requests) \in requests /\ \A s \in requests : Ranked(Best(requests), s)
<1> DEFINE n(q) == Cardinality(DOMAIN q.overrides)
           A == {WireBytes(q) : q \in requests}
<1>1. \A q \in requests : /\ WireBytes(q) \in Nat /\ n(q) \in Nat
                          /\ q.source.value \in Nat /\ q.source.length \in Nat
  BY KeyType
<1> HIDE DEF n
<1>2. PICK bytes \in A : \A x \in A : bytes <= x
  <2>1. A \subseteq Nat /\ A # {}
    BY <1>1
  <2> QED
    BY <2>1, SmallestNat
<1> DEFINE Q1 == {q \in requests : WireBytes(q) = bytes}
           B == {n(q) : q \in Q1}
<1>3. PICK count \in B : \A x \in B : count <= x
  <2>1. B \subseteq Nat /\ B # {}
    BY <1>1
  <2> QED
    BY <2>1, SmallestNat
<1> DEFINE Q2 == {q \in Q1 : n(q) = count}
           C == {q.source.value : q \in Q2}
<1>4. PICK value \in C : \A x \in C : value <= x
  <2>1. C \subseteq Nat /\ C # {}
    BY <1>1
  <2> QED
    BY <2>1, SmallestNat
<1> DEFINE Q3 == {q \in Q2 : q.source.value = value}
           D == {q.source.length : q \in Q3}
<1>5. PICK length \in D : \A x \in D : length <= x
  <2>1. D \subseteq Nat /\ D # {}
    BY <1>1
  <2> QED
    BY <2>1, SmallestNat
<1>6. PICK r \in Q3 : r.source.length = length
  OBVIOUS
<1>7. ASSUME NEW s \in requests
      PROVE  Ranked(r, s)
  <2>1. r \in requests /\ WireBytes(r) = bytes /\ n(r) = count /\ r.source.value = value
    BY <1>6
  <2>2. bytes <= WireBytes(s)
    BY <1>2
  <2>3. WireBytes(s) = bytes => count <= n(s)
    BY <1>3
  <2>4. WireBytes(s) = bytes /\ n(s) = count => value <= s.source.value
    BY <1>4
  <2>5. WireBytes(s) = bytes /\ n(s) = count /\ s.source.value = value
          => length <= s.source.length
    BY <1>5
  <2> QED
    BY <1>6, <2>1, <2>2, <2>3, <2>4, <2>5, RankedBy DEF n
<1> QED
  BY <1>6, <1>7 DEF Best

-----------------------------------------------------------------------------
(* What the planner computes. *)

\* An allocation succeeds, finds the branch full, or finds a static rule on it.
LEMMA AllocateKinds ==
  ASSUME NEW ns, NEW ids
  PROVE  Allocation!Allocate(ns, ids).kind \in {"allocated", "exhausted", "collision"}
BY DEF Allocation!Allocate, Allocation!Allocated, Allocation!Exhausted, Allocation!Collision

\* The rules for application traffic are themselves a context.
LEMMA RulesForType ==
  ASSUME NEW c \in Contexts
  PROVE  /\ RulesFor(c, "application") \in Contexts
         /\ \A id \in DOMAIN RulesFor(c, "application") :
              RulesFor(c, "application")[id] = c[id]
<1> DEFINE d == ApplicationRules(c)
<1>1. RulesFor(c, "application") = d
  BY DEF RulesFor
<1>2. DOMAIN c \subseteq RuleIds /\ c \in [DOMAIN c -> Rules]
  BY ContextShape
<1>3. DOMAIN d \subseteq DOMAIN c /\ \A id \in DOMAIN d : d[id] = c[id]
  BY DEF ApplicationRules
<1>4. d \in [DOMAIN d -> Rules]
  BY <1>2, <1>3 DEF ApplicationRules
<1>5. d \in Contexts
  BY <1>2, <1>3, <1>4, ContextShape
<1> QED
  BY <1>1, <1>3, <1>5

\* The rules considered are ordinary rules of the snapshot, and the planner
\* knows the packet's value in each of their restricted fields.
LEMMA ConsideredShape ==
  ASSUME NEW c \in Contexts, NEW p \in Packets, NEW id \in Considered(c, p)
  PROVE  /\ id \in DOMAIN c /\ id \in RuleIds /\ id \notin Protected(c)
         /\ c[id] \in Rules
         /\ Restricted(c[id]) \subseteq Entries
         /\ \A e \in Restricted(c[id]) : Field(p, e) \in TargetValues
<1>1. DOMAIN c \subseteq RuleIds /\ c \in [DOMAIN c -> Rules]
  BY ContextShape
<1>2. id \in DOMAIN c /\ id \notin Protected(c) /\ Readable(c[id], p)
  BY DEF Considered, Eligible
<1>3. \A e \in Restricted(c[id]) : e \in Entries /\ Field(p, e) # NoField
  BY <1>2 DEF Readable, Restricted
<1> QED
  BY <1>1, <1>2, <1>3, FieldAssumption

\* The rule that compresses a packet needs no overrides for it.
LEMMA ChosenMatched ==
  ASSUME NEW c \in Contexts, NEW p \in Packets,
         Encodes(c, "application", p), Chosen(c, p) \in Considered(c, p)
  PROVE  Chosen(c, p) \in Matched(c, p)
<1> DEFINE d == RulesFor(c, "application")
           id == Chosen(c, p)
<1>1. d \in Contexts /\ \A k \in DOMAIN d : d[k] = c[k]
  BY RulesForType
<1>2. id \in Matching(d, p)
  BY <1>1, SelectMatches DEF Encodes, Chosen
<1>3. Matches(c[id], p)
  BY <1>1, <1>2 DEF Matching
<1>4. c[id] \in Rules /\ \A e \in Restricted(c[id]) : Field(p, e) \in TargetValues
  BY ConsideredShape
<1>5. \A e \in Restricted(c[id]) : Field(p, e) = c[id].tv[e]
  BY <1>3, <1>4, FieldsAgree, NoFieldAssumption
<1>6. DOMAIN FlowOverrides(c[id], p) = {}
  BY <1>5 DEF FlowOverrides
<1> QED
  BY <1>6 DEF Matched

\* The request for a considered rule is a well-formed duplicate-rule request.
LEMMA RequestType ==
  ASSUME NEW c \in Contexts, NEW p \in Packets, NEW id \in Considered(c, p),
         NEW dest \in RuleIds
  PROVE  /\ Request(c, id, dest, p) \in DuplicateRequests
         /\ Request(c, id, dest, p).destination = dest
<1>1. /\ id \in RuleIds
      /\ Restricted(c[id]) \subseteq Entries
      /\ \A e \in Restricted(c[id]) : Field(p, e) \in TargetValues
  BY ConsideredShape
<1> DEFINE o == FlowOverrides(c[id], p)
           S == {d \in Restricted(c[id]) : c[id].tv[d] # Field(p, d)}
<1>2. o = [e \in S |-> Field(p, e)]
  BY DEF FlowOverrides
<1>3. S \in SUBSET Entries /\ \A e \in S : Field(p, e) \in TargetValues
  BY <1>1
<1>4. o \in [S -> TargetValues]
  BY <1>2, <1>3
<1>5. o \in Overrides
  BY <1>3, <1>4 DEF Overrides
<1> QED
  BY <1>1, <1>5 DEF Request, DuplicateRequests

\* A copy of an ordinary rule at a RuleID that is not protected leaves the
\* protected rules as they are.
LEMMA DuplicatedEnforced ==
  ASSUME NEW c \in Contexts, NEW r \in DuplicateRequests, DuplicateSourceOk(c, r)
  PROVE  Enforce(c, Duplicated(c, r))
<1> DEFINE d == Duplicated(c, r)
<1>1. c \in [DOMAIN c -> Rules] /\ r.source \in DOMAIN c
  BY ContextShape DEF DuplicateSourceOk
<1>2. Copied(c, r).nature = c[r.source].nature
  BY <1>1, RuleShape DEF Copied
<1>3. c[r.source].nature # "management"
  BY <1>1 DEF DuplicateSourceOk, Protected
<1>4. DOMAIN d = DOMAIN c \cup {r.destination} /\ d[r.destination] = Copied(c, r)
  BY DEF Duplicated
<1>5. \A id \in DOMAIN c : id # r.destination => d[id] = c[id]
  BY DEF Duplicated
<1>6. r.destination \notin Protected(c)
  BY DEF DuplicateSourceOk
<1> HIDE DEF d
<1>7. Protected(d) = Protected(c)
  BY <1>2, <1>3, <1>4, <1>5, <1>6 DEF Protected
<1>8. \A id \in Protected(c) : d[id] = c[id]
  BY <1>5, <1>6 DEF Protected
<1> QED
  BY <1>7, <1>8 DEF Enforce, d

-----------------------------------------------------------------------------
(* The allocator.  AlgorithmProofs names the same operators through          *)
(* another instance of RuleIdAllocation.                                     *)

LEMMA SameRuleIds ==
  ASSUME NEW ns, NEW id
  PROVE  /\ Facts!Collides(ns, id) = Allocation!Collides(ns, id)
         /\ Facts!Accepts(ns, id) = Accepts(ns, id)
         /\ Facts!IsNamespace(ns) = IsNamespace(ns)
         /\ \A width : Facts!RuleIdsUpTo(width) = RuleIdsUpTo(width)
BY DEF Facts!Collides, Facts!Overlaps, Facts!Accepts, Facts!IsRuleIdPrefix,
       Facts!IsNamespace, Facts!IsRuleId, Facts!MaxRuleIdLength, Facts!RuleIdsUpTo,
       Allocation!Collides, Allocation!Overlaps, Allocation!Accepts,
       Allocation!IsRuleIdPrefix, Allocation!IsNamespace, Allocation!IsRuleId,
       Allocation!MaxRuleIdLength, Accepts, IsRuleIdPrefix, IsNamespace, IsRuleId,
       MaxRuleIdLength, RuleIdsUpTo

LEMMA SameSweep ==
  ASSUME NEW range, NEW blocked
  PROVE  Facts!FirstFree(range, blocked) = Allocation!FirstFree(range, blocked)
BY DEF Facts!FirstFree, Facts!Sweep, Facts!FoldLeft, Facts!MapThenFoldSet, Facts!Max,
       Allocation!FirstFree, Allocation!Sweep, Allocation!FoldLeft,
       Allocation!MapThenFoldSet, Allocation!Max

LEMMA SameBlocked ==
  ASSUME NEW range, NEW ids, NEW n
  PROVE  Facts!BlockedIntervals(range, ids, n) = Allocation!BlockedIntervals(range, ids, n)
<1>1. Facts!ClippedIntervals(range, ids, n) = Allocation!ClippedIntervals(range, ids, n)
  BY Zenon DEF Facts!ClippedIntervals, Facts!Projection, Facts!Max, Facts!Min,
       Allocation!ClippedIntervals, Allocation!Projection, Allocation!Max, Allocation!Min
<1>2. ASSUME NEW U
      PROVE  Facts!SortedIntervals(U) = Allocation!SortedIntervals(U)
  BY DEF Facts!SortedIntervals, Facts!IntervalOrder, Facts!Cardinality,
         Allocation!SortedIntervals, Allocation!IntervalOrder, Allocation!Cardinality
<1>3. ASSUME NEW seq
      PROVE  Facts!FoldLeft(Facts!MergeInterval, <<>>, seq)
               = Allocation!FoldLeft(Allocation!MergeInterval, <<>>, seq)
  BY Zenon DEF Facts!MergeInterval, Facts!FoldLeft, Facts!MapThenFoldSet, Facts!Max,
       Facts!Last, Facts!Front, Allocation!MergeInterval, Allocation!FoldLeft,
       Allocation!MapThenFoldSet, Allocation!Max, Allocation!Last, Allocation!Front
<1>4. Facts!BlockedIntervals(range, ids, n)
        = Facts!FoldLeft(Facts!MergeInterval, <<>>,
            Facts!SortedIntervals(Facts!ClippedIntervals(range, ids, n)))
  BY Zenon DEF Facts!BlockedIntervals
<1>5. Allocation!BlockedIntervals(range, ids, n)
        = Allocation!FoldLeft(Allocation!MergeInterval, <<>>,
            Allocation!SortedIntervals(Allocation!ClippedIntervals(range, ids, n)))
  BY Zenon DEF Allocation!BlockedIntervals
<1> QED
  BY <1>1, <1>2, <1>3, <1>4, <1>5, Zenon

LEMMA SameAllocate ==
  ASSUME NEW ns, NEW ids
  PROVE  Facts!Allocate(ns, ids) = Allocation!Allocate(ns, ids)
BY SameRuleIds, SameSweep, SameBlocked
   DEF Facts!Allocate, Facts!CandidateRange, Facts!Exhausted, Facts!Collision,
       Facts!Allocated, Facts!Min, Allocation!Allocate, Allocation!CandidateRange,
       Allocation!Exhausted, Allocation!Collision, Allocation!Allocated, Allocation!Min

\* An allocated destination is a leaf of the namespace that the snapshot does
\* not use.
LEMMA AllocatorSound ==
  ASSUME NEW ctx \in Contexts, Namespace # NoNamespace,
         Allocation!Allocate(Namespace, DOMAIN ctx).kind = "allocated"
  PROVE  LET result == Allocation!Allocate(Namespace, DOMAIN ctx) IN
         /\ result.id \in RuleIds
         /\ result.id \notin DOMAIN ctx
         /\ Accepts(Namespace, result.id)
<1> DEFINE leaf == Facts!Allocate(Namespace, DOMAIN ctx).id
<1>1. IsNamespace(Namespace) /\ Facts!IsNamespace(Namespace)
  BY NamespaceValid, SameRuleIds
<1>2. DOMAIN ctx \in SUBSET RuleIds
  BY ContextShape
<1>3. DOMAIN ctx \in SUBSET Facts!Selectors
  BY <1>2, RuleIdsExplicit DEF Facts!Selectors
<1>4. Facts!IsFiniteSet(DOMAIN ctx)
  <2>1. IsFiniteSet(DOMAIN ctx)
    BY <1>2, RuleIdsFinite, FS_Subset
  <2> QED
    BY <2>1 DEF IsFiniteSet, Facts!IsFiniteSet
<1>5. Facts!Allocate(Namespace, DOMAIN ctx).kind = "allocated"
  BY SameAllocate
<1>6. /\ leaf \in Facts!RuleIdsUpTo(Facts!Max(Namespace.lengths))
      /\ Facts!Accepts(Namespace, leaf)
      /\ leaf \notin DOMAIN ctx
  BY <1>1, <1>3, <1>4, <1>5, Facts!AllocatedLeaf
<1> HIDE DEF leaf
<1>7. Facts!Max(Namespace.lengths) = Max(Namespace.lengths)
  BY DEF Facts!Max, Max
<1>8. leaf \in RuleIdsUpTo(Max(Namespace.lengths)) /\ Accepts(Namespace, leaf)
  BY <1>6, <1>7, SameRuleIds
<1>9. leaf \in RuleIds
  BY <1>8, NamespaceLeaves
<1>10. leaf = Allocation!Allocate(Namespace, DOMAIN ctx).id
  BY SameAllocate DEF leaf
<1> QED
  BY <1>6, <1>8, <1>9, <1>10

-----------------------------------------------------------------------------
(* A reported rule was in use. *)

\* While the planner is at work it has no result yet, and the context that is
\* active now counts as seen.
Watching == phase # "idle" => active \in seen /\ outcome = NoOutcome

\* The rule that flow_change reports did compress the packet, in a context
\* that was active while it planned.
THEOREM ReportedWasUsed == Spec => []AlreadyMatchesSound
<1> DEFINE Inv == Watching /\ AlreadyMatchesSound
<1>1. Init => Inv
  BY DEF Init, Watching, AlreadyMatchesSound
<1>2. Inv /\ [Next]_vars => Inv'
  <2> SUFFICES ASSUME Inv, [Next]_vars PROVE Inv'
    OBVIOUS
  <2>1. ASSUME NEW p \in Packets, Begin(p) PROVE Inv'
    BY <2>1 DEF Begin, Watching, AlreadyMatchesSound, Error
  <2>2. CASE Inspect
    BY <2>2 DEF Inspect, Watching, AlreadyMatchesSound
  <2>3. CASE MatchNext
    <3>1. CASE Reported(active, Head(todo), flow) /\ outcome' = Already(Head(todo)) /\ phase' = "idle"
      BY <2>3, <3>1 DEF MatchNext, Watching, AlreadyMatchesSound, Reported, Already
    <3>2. CASE UNCHANGED <<phase, outcome>>
      BY <2>3, <3>2 DEF MatchNext, Watching, AlreadyMatchesSound
    <3> QED
      BY <2>3, <3>1, <3>2 DEF MatchNext
  <2>4. CASE AllocateDestination
    <3> DEFINE result == Allocation!Allocate(Namespace, DOMAIN base)
    <3>1. result.kind # "already"
      BY AllocateKinds
    <3>2. CASE phase' = "costing" /\ UNCHANGED outcome
      BY <2>4, <3>2 DEF AllocateDestination, Watching, AlreadyMatchesSound
    <3>3. CASE phase' = "idle" /\ outcome' = Error(result.kind)
      <4>1. outcome'.kind # "already"
        BY <3>1, <3>3 DEF Error
      <4> QED
        BY <3>3, <4>1 DEF Watching, AlreadyMatchesSound
    <3> HIDE DEF result
    <3> QED
      BY <2>4, <3>2, <3>3 DEF AllocateDestination, result
  <2>5. CASE CostNext
    BY <2>5 DEF CostNext, Watching, AlreadyMatchesSound
  <2>6. CASE BuildNext
    BY <2>6 DEF BuildNext, Watching, AlreadyMatchesSound
  <2>7. CASE Conclude
    <3>1. outcome'.kind # "already" /\ phase' = "idle"
      BY <2>7 DEF Conclude, Error, Plan
    <3> QED
      BY <3>1 DEF Watching, AlreadyMatchesSound
  <2>8. CASE Change
    BY <2>8 DEF Change, plannerVariables, Watching, AlreadyMatchesSound
  <2>9. CASE Install
    BY <2>9 DEF Install, plannerVariables, Watching, AlreadyMatchesSound
  <2>10. CASE UNCHANGED vars
    BY <2>10 DEF vars, Watching, AlreadyMatchesSound
  <2> QED
    BY <2>1, <2>2, <2>3, <2>4, <2>5, <2>6, <2>7, <2>8, <2>9, <2>10 DEF Next
<1> QED
  BY <1>1, <1>2, PTL DEF Spec

-----------------------------------------------------------------------------
(* The inductive invariant. *)

Phases == {"idle", "opened", "matching", "costing", "building"}

\* The contexts are contexts, the planner at work has a flow and a namespace,
\* and a plan is a well-formed request.
PlannerOK ==
  /\ active \in Contexts
  /\ base \in Contexts
  /\ phase \in Phases
  /\ phase # "idle" => flow \in Packets /\ Namespace # NoNamespace
  /\ Planned => outcome.request \in DuplicateRequests

\* Each loop works on rules of the snapshot.
LoopsOK ==
  /\ phase = "matching" => todo \in Seq(Matched(base, flow))
  /\ phase \in {"costing", "building"} => todo \in Seq(Parents(base, flow))
  /\ phase = "building" => todo # <<>>

\* The rule that the flow takes will be reported: it is among those still to
\* be looked at, and the planner does not get past that loop.
ChosenAhead ==
  seen = {base} /\ Encodes(base, "application", flow)
    /\ Chosen(base, flow) \in Considered(base, flow)
  => /\ phase = "matching" =>
          \E i \in 1..Len(todo) : todo[i] = Chosen(base, flow)
     /\ phase \notin {"costing", "building"}

\* The candidates so far would all install on the snapshot.
CandidatesOK ==
  phase \in {"costing", "building"} =>
    /\ destination \in RuleIds
    /\ destination \notin DOMAIN base
    /\ Accepts(Namespace, destination)
    /\ \A r \in candidates : /\ r \in DuplicateRequests
                              /\ r.destination = destination
                              /\ Usable(base, r, flow)

PlanInv ==
  /\ Watching
  /\ PlannerOK
  /\ LoopsOK
  /\ ChosenAhead
  /\ CandidatesOK
  /\ AlreadyMatchesComplete
  /\ PlanWorksOnSnapshot

\* The rules that a loop runs over are RuleIDs.
LEMMA LoopRules ==
  ASSUME NEW c \in Contexts, NEW p \in Packets
  PROVE  /\ Matched(c, p) \in SUBSET RuleIds
         /\ Parents(c, p) \in SUBSET RuleIds
         /\ Matched(c, p) \subseteq Considered(c, p)
         /\ Parents(c, p) \subseteq Considered(c, p)
<1>1. Matched(c, p) \subseteq Considered(c, p) /\ Parents(c, p) \subseteq Considered(c, p)
  BY DEF Matched, Parents
<1> QED
  BY <1>1, ConsideredShape

\* The tail of a list keeps what is not its head.
LEMMA TailKeeps ==
  ASSUME NEW S, NEW s \in Seq(S), s # <<>>
  PROVE  /\ Tail(s) \in Seq(S)
         /\ Head(s) \in S
         /\ \A x : (\E i \in 1..Len(s) : s[i] = x) /\ x # Head(s)
                => \E i \in 1..Len(Tail(s)) : Tail(s)[i] = x
<1>1. Tail(s) \in Seq(S) /\ Head(s) \in S /\ Head(s) = s[1]
      /\ Len(Tail(s)) = Len(s) - 1 /\ Len(s) \in Nat /\ Len(s) # 0
      /\ \A i \in 1..(Len(s) - 1) : Tail(s)[i] = s[i + 1]
  OBVIOUS
<1>2. ASSUME NEW x, NEW i \in 1..Len(s), s[i] = x, x # Head(s)
      PROVE  \E j \in 1..Len(Tail(s)) : Tail(s)[j] = x
  <2>1. i # 1
    BY <1>1, <1>2
  <2>2. i - 1 \in 1..(Len(s) - 1) /\ (i - 1) + 1 = i
    BY <1>1, <2>1
  <2> QED
    BY <1>1, <1>2, <2>2
<1> QED
  BY <1>1, <1>2

\* The planner starts idle.
LEMMA PlanInit == Init => PlanInv
<1> SUFFICES ASSUME Init PROVE PlanInv
  OBVIOUS
<1>1. PlannerOK
  BY InitialPrepared DEF Init, PlannerOK, Phases, Planned
<1>2. Watching /\ LoopsOK /\ ChosenAhead /\ CandidatesOK
  BY DEF Init, Watching, LoopsOK, ChosenAhead, CandidatesOK
<1>3. AlreadyMatchesComplete /\ PlanWorksOnSnapshot
  BY DEF Init, AlreadyMatchesComplete, PlanWorksOnSnapshot, Planned
<1> QED
  BY <1>1, <1>2, <1>3 DEF PlanInv

\* Begin, and the turns of either loop.
LEMMA BeginKeeps ==
  ASSUME PlanInv, NEW p \in Packets, Begin(p)
  PROVE  PlanInv'
<1>1. ~Planned'
  BY DEF Begin, Error, Planned
<1>2. Watching' /\ PlannerOK'
  BY <1>1 DEF PlanInv, Begin, Watching, PlannerOK, Phases
<1>3. phase' \in {"idle", "opened"}
  BY DEF Begin
<1>4. LoopsOK' /\ ChosenAhead' /\ CandidatesOK'
  BY <1>3 DEF LoopsOK, ChosenAhead, CandidatesOK
<1>5. AlreadyMatchesComplete'
  BY DEF Begin, AlreadyMatchesComplete
<1> QED
  BY <1>1, <1>2, <1>4, <1>5 DEF PlanInv, PlanWorksOnSnapshot

LEMMA InspectKeeps ==
  ASSUME PlanInv, Inspect
  PROVE  PlanInv'
<1>1. /\ active \in Contexts /\ flow \in Packets /\ Namespace # NoNamespace
      /\ base' = active /\ active' = active /\ flow' = flow /\ seen' = seen
      /\ phase' = "matching" /\ todo' = Sorted(Matched(active, flow))
      /\ outcome = NoOutcome /\ outcome' = outcome
  BY DEF PlanInv, PlannerOK, Watching, Inspect
<1>2. Matched(active, flow) \in SUBSET RuleIds
  BY <1>1, LoopRules
<1>3. ~Planned' /\ ~Planned
  BY <1>1 DEF Planned
<1>4. Watching' /\ PlannerOK'
  BY <1>1, <1>3 DEF PlanInv, Inspect, Watching, PlannerOK, Phases
<1>5. LoopsOK'
  BY <1>1, <1>2, SortedLists DEF LoopsOK
<1>6. ChosenAhead'
  <2> SUFFICES ASSUME Encodes(active, "application", flow),
                      Chosen(active, flow) \in Considered(active, flow)
               PROVE  \E i \in 1..Len(todo') : todo'[i] = Chosen(active, flow)
    BY <1>1 DEF ChosenAhead
  <2>1. Chosen(active, flow) \in Matched(active, flow)
    BY <1>1, ChosenMatched
  <2> QED
    BY <1>1, <1>2, <2>1, SortedLists
<1>7. CandidatesOK' /\ AlreadyMatchesComplete' /\ PlanWorksOnSnapshot'
  BY <1>1, <1>3 DEF CandidatesOK, AlreadyMatchesComplete, PlanWorksOnSnapshot
<1> QED
  BY <1>4, <1>5, <1>6, <1>7 DEF PlanInv

LEMMA MatchNextKeeps ==
  ASSUME PlanInv, MatchNext
  PROVE  PlanInv'
<1>1. /\ active \in seen /\ flow \in Packets /\ outcome = NoOutcome
      /\ Namespace # NoNamespace
      /\ todo \in Seq(Matched(base, flow)) /\ todo # <<>> /\ phase = "matching"
      /\ UNCHANGED <<active, flow, base, destination, candidates, seen>>
  BY DEF PlanInv, PlannerOK, Watching, LoopsOK, MatchNext
<1>2. CASE /\ Reported(active, Head(todo), flow)
           /\ outcome' = Already(Head(todo))
           /\ phase' = "idle"
  <2>1. ~Planned'
    BY <1>2 DEF Planned, Already
  <2>2. Watching' /\ PlannerOK' /\ LoopsOK' /\ ChosenAhead' /\ CandidatesOK'
    BY <1>1, <1>2, <2>1
       DEF PlanInv, Watching, PlannerOK, Phases, LoopsOK, ChosenAhead, CandidatesOK
  <2>3. AlreadyMatchesComplete'
    <3>1. Chosen(active, flow) = Head(todo)
      BY <1>2 DEF Reported
    <3>2. seen = {base} => active = base
      BY <1>1
    <3> QED
      BY <1>1, <1>2, <3>1, <3>2 DEF AlreadyMatchesComplete
  <2> QED
    BY <2>1, <2>2, <2>3 DEF PlanInv, PlanWorksOnSnapshot
<1>3. CASE /\ ~Reported(active, Head(todo), flow)
           /\ todo' = Tail(todo)
           /\ UNCHANGED <<phase, outcome>>
  <2>1. ~Planned' /\ ~Planned
    BY <1>1, <1>3 DEF Planned
  <2>2. Watching' /\ PlannerOK' /\ CandidatesOK'
    BY <1>1, <1>3, <2>1 DEF PlanInv, Watching, PlannerOK, CandidatesOK
  <2>3. LoopsOK'
    BY <1>1, <1>3, TailKeeps DEF LoopsOK
  <2>4. ChosenAhead'
    <3> SUFFICES ASSUME seen = {base}, Encodes(base, "application", flow),
                        Chosen(base, flow) \in Considered(base, flow)
                 PROVE  \E i \in 1..Len(Tail(todo)) : Tail(todo)[i] = Chosen(base, flow)
      BY <1>1, <1>3 DEF ChosenAhead
    <3>1. active = base
      BY <1>1
    <3>2. Chosen(base, flow) # Head(todo)
      BY <1>3, <3>1 DEF Reported
    <3>3. \E i \in 1..Len(todo) : todo[i] = Chosen(base, flow)
      BY <1>1 DEF PlanInv, ChosenAhead
    <3> QED
      BY <1>1, <3>2, <3>3, TailKeeps
  <2>5. AlreadyMatchesComplete'
    BY <1>1, <1>3 DEF AlreadyMatchesComplete
  <2> QED
    BY <2>1, <2>2, <2>3, <2>4, <2>5 DEF PlanInv, PlanWorksOnSnapshot
<1> QED
  BY <1>2, <1>3 DEF MatchNext

LEMMA AllocateKeeps ==
  ASSUME PlanInv, AllocateDestination
  PROVE  PlanInv'
<1> DEFINE result == Allocation!Allocate(Namespace, DOMAIN base)
<1>1. /\ base \in Contexts /\ flow \in Packets /\ outcome = NoOutcome
      /\ Namespace # NoNamespace
      /\ todo = <<>> /\ phase = "matching"
      /\ UNCHANGED <<active, flow, base, seen>>
  BY DEF PlanInv, PlannerOK, Watching, AllocateDestination
<1>2. ~ (/\ seen = {base} /\ Encodes(base, "application", flow)
         /\ Chosen(base, flow) \in Considered(base, flow))
  BY <1>1 DEF PlanInv, ChosenAhead
<1>3. ChosenAhead' /\ AlreadyMatchesComplete'
  BY <1>1, <1>2 DEF ChosenAhead, AlreadyMatchesComplete
<1>4. result.kind # "plan"
  BY AllocateKinds
<1>5. result.kind = "allocated" => /\ result.id \in RuleIds
                                   /\ result.id \notin DOMAIN base
                                   /\ Accepts(Namespace, result.id)
  BY <1>1, AllocatorSound
<1>6. /\ result.kind = "allocated" => /\ destination' = result.id
                                      /\ todo' = Sorted(Parents(base, flow))
                                      /\ candidates' = {}
                                      /\ phase' = "costing"
                                      /\ UNCHANGED outcome
      /\ result.kind # "allocated" => /\ outcome' = Error(result.kind)
                                      /\ phase' = "idle"
  BY DEF AllocateDestination
<1> HIDE DEF result
<1>7. CASE result.kind = "allocated"
  <2>1. ~Planned'
    BY <1>1, <1>6, <1>7 DEF Planned
  <2>2. Watching' /\ PlannerOK'
    BY <1>1, <1>6, <1>7, <2>1 DEF PlanInv, Watching, PlannerOK, Phases
  <2>3. Parents(base, flow) \in SUBSET RuleIds
    BY <1>1, LoopRules
  <2>4. LoopsOK'
    BY <1>1, <1>6, <1>7, <2>3, SortedLists DEF LoopsOK
  <2>5. CandidatesOK'
    BY <1>1, <1>5, <1>6, <1>7 DEF CandidatesOK
  <2> QED
    BY <1>3, <2>1, <2>2, <2>4, <2>5 DEF PlanInv, PlanWorksOnSnapshot
<1>8. CASE result.kind # "allocated"
  <2>1. ~Planned'
    BY <1>4, <1>6, <1>8 DEF Planned, Error
  <2>2. Watching' /\ PlannerOK' /\ LoopsOK' /\ CandidatesOK'
    BY <1>1, <1>6, <1>8, <2>1
       DEF PlanInv, Watching, PlannerOK, Phases, LoopsOK, CandidatesOK
  <2> QED
    BY <1>3, <2>1, <2>2 DEF PlanInv, PlanWorksOnSnapshot
<1> QED
  BY <1>7, <1>8

LEMMA CostKeeps ==
  ASSUME PlanInv, CostNext
  PROVE  PlanInv'
<1>1. /\ outcome = NoOutcome /\ todo # <<>> /\ phase = "costing"
      /\ todo \in Seq(Parents(base, flow))
      /\ UNCHANGED <<active, flow, base, destination, candidates, outcome, seen>>
      /\ \/ phase' = "building" /\ todo' = todo
         \/ phase' = "costing" /\ todo' = Tail(todo)
  BY DEF PlanInv, LoopsOK, Watching, CostNext
<1>2. ~Planned'
  BY <1>1 DEF Planned
<1>3. Watching' /\ PlannerOK'
  BY <1>1, <1>2 DEF PlanInv, Watching, PlannerOK, Phases
<1>4. LoopsOK'
  BY <1>1, TailKeeps DEF LoopsOK
<1>5. ChosenAhead' /\ CandidatesOK' /\ AlreadyMatchesComplete'
  BY <1>1 DEF PlanInv, ChosenAhead, CandidatesOK, AlreadyMatchesComplete
<1> QED
  BY <1>2, <1>3, <1>4, <1>5 DEF PlanInv, PlanWorksOnSnapshot

LEMMA BuildKeeps ==
  ASSUME PlanInv, BuildNext
  PROVE  PlanInv'
<1> DEFINE r == Request(base, Head(todo), destination, flow)
<1>1. /\ outcome = NoOutcome /\ todo # <<>> /\ phase = "building"
      /\ base \in Contexts /\ flow \in Packets /\ destination \in RuleIds
      /\ todo \in Seq(Parents(base, flow))
      /\ UNCHANGED <<active, flow, base, destination, outcome, seen>>
      /\ phase' = "costing" /\ todo' = Tail(todo)
  BY DEF PlanInv, PlannerOK, LoopsOK, CandidatesOK, Watching, BuildNext
<1>2. \/ candidates' = candidates
      \/ candidates' = candidates \cup {r} /\ Usable(base, r, flow)
  BY DEF BuildNext
<1>3. r \in DuplicateRequests /\ r.destination = destination
  <2>1. Head(todo) \in Parents(base, flow)
    BY <1>1, TailKeeps
  <2>2. Head(todo) \in Considered(base, flow)
    BY <1>1, <2>1, LoopRules
  <2> QED
    BY <1>1, <2>2, RequestType
<1> HIDE DEF r
<1>4. ~Planned'
  BY <1>1 DEF Planned
<1>5. Watching' /\ PlannerOK'
  BY <1>1, <1>4 DEF PlanInv, Watching, PlannerOK, Phases
<1>6. LoopsOK'
  BY <1>1, TailKeeps DEF LoopsOK
<1>7. CandidatesOK'
  <2>1. /\ destination \notin DOMAIN base
        /\ Accepts(Namespace, destination)
        /\ \A q \in candidates : /\ q \in DuplicateRequests
                                 /\ q.destination = destination
                                 /\ Usable(base, q, flow)
    BY <1>1 DEF PlanInv, CandidatesOK
  <2>2. \A q \in candidates' : /\ q \in DuplicateRequests
                               /\ q.destination = destination
                               /\ Usable(base, q, flow)
    BY <1>2, <1>3, <2>1
  <2> QED
    BY <1>1, <2>1, <2>2 DEF CandidatesOK
<1>8. ChosenAhead' /\ AlreadyMatchesComplete'
  BY <1>1 DEF PlanInv, ChosenAhead, AlreadyMatchesComplete
<1> QED
  BY <1>4, <1>5, <1>6, <1>7, <1>8 DEF PlanInv, PlanWorksOnSnapshot

\* A usable request for a free leaf is applied to the snapshot.
LEMMA UsableApplies ==
  ASSUME NEW c \in Contexts, NEW r \in DuplicateRequests, NEW p,
         Usable(c, r, p), r.destination \notin DOMAIN c,
         Accepts(Namespace, r.destination)
  PROVE  DuplicateResult(c, r) = "applied"
<1>1. DuplicateSourceOk(c, r) /\ r.source # r.destination /\ Prepared(Duplicated(c, r))
  BY DEF Usable
<1>2. Admissible(c, Duplicated(c, r))
  BY <1>1, DuplicatedEnforced DEF Admissible
<1> QED
  BY <1>1, <1>2 DEF DuplicateApplies, DuplicateResult

LEMMA ConcludeKeeps ==
  ASSUME PlanInv, Conclude
  PROVE  PlanInv'
<1>1. /\ phase = "costing" /\ phase' = "idle"
      /\ base \in Contexts
      /\ UNCHANGED <<active, flow, base, seen>>
  BY DEF PlanInv, PlannerOK, Conclude
<1>2. /\ destination \notin DOMAIN base
      /\ Accepts(Namespace, destination)
      /\ \A q \in candidates : /\ q \in DuplicateRequests
                               /\ q.destination = destination
                               /\ Usable(base, q, flow)
  BY <1>1 DEF PlanInv, CandidatesOK
<1>3. Watching' /\ LoopsOK' /\ ChosenAhead' /\ CandidatesOK'
  BY <1>1 DEF Watching, LoopsOK, ChosenAhead, CandidatesOK
<1>4. AlreadyMatchesComplete'
  BY <1>1 DEF PlanInv, ChosenAhead, AlreadyMatchesComplete
<1>5. /\ Planned' => outcome'.request \in DuplicateRequests
      /\ PlanWorksOnSnapshot'
  <2>1. CASE candidates = {}
    <3>1. ~Planned'
      BY <2>1 DEF Conclude, Planned, Error
    <3> QED
      BY <3>1 DEF PlanWorksOnSnapshot
  <2>2. CASE candidates # {}
    <3> DEFINE r == Best(candidates)
    <3>1. r \in candidates
      BY <1>2, <2>2, BestExists
    <3>2. outcome'.request = r
      BY <2>2 DEF Conclude, Plan
    <3> HIDE DEF r
    <3>3. DuplicateResult(base, r) = "applied"
      BY <1>1, <1>2, <3>1, UsableApplies
    <3>4. Encodes(Duplicated(base, r), "application", flow)
      BY <1>2, <3>1 DEF Usable
    <3> QED
      BY <1>1, <1>2, <3>1, <3>2, <3>3, <3>4 DEF PlanWorksOnSnapshot
  <2> QED
    BY <2>1, <2>2
<1>6. PlannerOK'
  BY <1>1, <1>5 DEF PlanInv, PlannerOK, Phases
<1> QED
  BY <1>3, <1>4, <1>5, <1>6 DEF PlanInv

\* Another thread publishes a context.
LEMMA ChangeKeeps ==
  ASSUME PlanInv, Change
  PROVE  PlanInv'
<1>1. /\ active' \in Publications(active)
      /\ seen' = IF phase = "idle" THEN seen ELSE seen \cup {active'}
      /\ UNCHANGED <<phase, flow, base, todo, destination, candidates, outcome>>
  BY DEF Change, plannerVariables
<1>2. active' \in Contexts
  BY <1>1, PublicationsAdmissible DEF PlanInv, PlannerOK
<1>3. Watching' /\ PlannerOK'
  BY <1>1, <1>2 DEF PlanInv, Watching, PlannerOK, Planned
<1>4. LoopsOK' /\ CandidatesOK' /\ PlanWorksOnSnapshot'
  BY <1>1 DEF PlanInv, LoopsOK, CandidatesOK, PlanWorksOnSnapshot, Planned
<1>5. phase # "idle" => (seen' = {base} => seen = {base})
  <2>1. phase # "idle" => active \in seen /\ seen \subseteq seen'
    BY <1>1 DEF PlanInv, Watching
  <2> QED
    BY <2>1
<1>6. ChosenAhead'
  BY <1>1, <1>5 DEF PlanInv, ChosenAhead
<1>7. AlreadyMatchesComplete'
  BY <1>1 DEF PlanInv, AlreadyMatchesComplete
<1> QED
  BY <1>3, <1>4, <1>6, <1>7 DEF PlanInv

\* A caller installs a plan.
LEMMA InstallKeeps ==
  ASSUME PlanInv, Install
  PROVE  PlanInv'
<1>1. /\ phase = "idle" /\ Planned
      /\ DuplicateResult(active, outcome.request) = "applied"
      /\ active' = Duplicated(active, outcome.request)
      /\ UNCHANGED <<phase, flow, base, todo, destination, candidates, outcome, seen>>
  BY DEF Install, plannerVariables, Planned
<1>2. active' \in Contexts
  <2>1. DuplicateSourceOk(active, outcome.request)
    BY <1>1, AcceptedAdmissible DEF DuplicateApplies
  <2> QED
    BY <1>1, <2>1, DuplicatedType DEF PlanInv, PlannerOK
<1>3. Watching' /\ PlannerOK'
  BY <1>1, <1>2 DEF PlanInv, Watching, PlannerOK, Planned
<1>4. LoopsOK' /\ CandidatesOK' /\ PlanWorksOnSnapshot'
  BY <1>1 DEF PlanInv, LoopsOK, CandidatesOK, PlanWorksOnSnapshot, Planned
<1>5. ChosenAhead' /\ AlreadyMatchesComplete'
  BY <1>1 DEF PlanInv, ChosenAhead, AlreadyMatchesComplete
<1> QED
  BY <1>3, <1>4, <1>5 DEF PlanInv

\* Every step keeps the invariant.
LEMMA PlanStep ==
  ASSUME PlanInv, [Next]_vars
  PROVE  PlanInv'
<1>1. CASE UNCHANGED vars
  <2>1. Watching' /\ PlannerOK' /\ LoopsOK'
    BY <1>1 DEF PlanInv, vars, Watching, PlannerOK, LoopsOK, Planned
  <2>2. ChosenAhead' /\ CandidatesOK'
    BY <1>1 DEF PlanInv, vars, ChosenAhead, CandidatesOK
  <2>3. AlreadyMatchesComplete' /\ PlanWorksOnSnapshot'
    BY <1>1 DEF PlanInv, vars, AlreadyMatchesComplete, PlanWorksOnSnapshot, Planned
  <2> QED
    BY <2>1, <2>2, <2>3 DEF PlanInv
<1>2. CASE Next
  BY <1>2, BeginKeeps, InspectKeeps, MatchNextKeeps, AllocateKeeps, CostKeeps,
     BuildKeeps, ConcludeKeeps, ChangeKeeps, InstallKeeps DEF Next
<1> QED
  BY <1>1, <1>2

\* If no other thread publishes meanwhile, a rule with complete flow fields
\* that compresses the packet is the one flow_change reports: the planner's
\* own reading of the fields never misses it.
THEOREM UsedIsReported == Spec => []AlreadyMatchesComplete
<1>1. PlanInv /\ [Next]_vars => PlanInv'
  BY PlanStep
<1>2. PlanInv => AlreadyMatchesComplete
  BY DEF PlanInv
<1> QED
  BY PlanInit, <1>1, <1>2, PTL DEF Spec

\* Whatever the other threads publish while flow_change plans, the planned
\* operation applies to the planner's snapshot and makes the flow compressible.
THEOREM PlansWork == Spec => []PlanWorksOnSnapshot
<1>1. PlanInv /\ [Next]_vars => PlanInv'
  BY PlanStep
<1>2. PlanInv => PlanWorksOnSnapshot
  BY DEF PlanInv
<1> QED
  BY PlanInit, <1>1, <1>2, PTL DEF Spec

-----------------------------------------------------------------------------
(* The smallest operation. *)

\* What comes first in the ranking takes no more bytes.
LEMMA RankedBytes ==
  ASSUME NEW r \in DuplicateRequests, NEW s \in DuplicateRequests, Ranked(r, s)
  PROVE  WireBytes(r) <= WireBytes(s)
<1> DEFINE a == <<WireBytes(r), Cardinality(DOMAIN r.overrides), r.source.value, r.source.length>>
           b == <<WireBytes(s), Cardinality(DOMAIN s.overrides), s.source.value, s.source.length>>
           differing == {i \in 1..4 : a[i] # b[i]}
           m == Min(differing)
<1>1. differing = {} \/ a[m] < b[m]
  BY DEF Ranked
<1>2. a[1] = WireBytes(r) /\ b[1] = WireBytes(s)
  OBVIOUS
<1>3. WireBytes(r) \in Nat /\ WireBytes(s) \in Nat
  BY KeyType
<1> HIDE DEF a, b
<1>4. ASSUME a[1] # b[1]
      PROVE  a[1] < b[1]
  <2>1. 1 \in differing
    BY <1>4
  <2>2. PICK k \in differing : \A i \in differing : k <= i
    BY <2>1, SmallestNat
  <2>3. m \in differing /\ \A i \in differing : m <= i
    BY <2>2 DEF Min
  <2>4. m = 1
    BY <2>1, <2>3
  <2> QED
    BY <1>1, <2>1, <2>4
<1> QED
  BY <1>2, <1>3, <1>4

\* A context in which a rule for application traffic matches encodes.
LEMMA MatchEncodes ==
  ASSUME NEW c \in Contexts, NEW p \in Packets, NEW id \in DOMAIN c,
         id \notin Protected(c), Matches(c[id], p)
  PROVE  Encodes(c, "application", p)
<1> DEFINE d == RulesFor(c, "application")
<1>1. d \in Contexts /\ \A k \in DOMAIN d : d[k] = c[k]
  BY RulesForType
<1>2. DOMAIN d = DOMAIN c \ Protected(c)
  BY DEF RulesFor, ApplicationRules
<1>3. id \in Matching(d, p)
  BY <1>1, <1>2 DEF Matching
<1>4. Select(d, p) \in DOMAIN d
  BY <1>1, <1>3, SelectMatches DEF Matching
<1>5. EnforceOrigin(c, "application", Select(d, p))
  BY <1>2, <1>4 DEF EnforceOrigin, Class
<1> QED
  BY <1>3, <1>5 DEF Encodes

\* A copy, entry by entry.
LEMMA CopiedShape ==
  ASSUME NEW c \in Contexts, NEW r \in DuplicateRequests, DuplicateSourceOk(c, r)
  PROVE  /\ Copied(c, r) \in Rules
         /\ Copied(c, r).nature = c[r.source].nature
         /\ \A e \in Entries :
              Copied(c, r).tv[e] = IF e \in DOMAIN r.overrides THEN r.overrides[e]
                                   ELSE c[r.source].tv[e]
         /\ Duplicated(c, r) \in Contexts
         /\ r.destination \in DOMAIN Duplicated(c, r)
         /\ DOMAIN Duplicated(c, r) = DOMAIN c \cup {r.destination}
         /\ Duplicated(c, r)[r.destination] = Copied(c, r)
<1> DEFINE parent == c[r.source]
           f == [e \in Entries |-> IF e \in DOMAIN r.overrides THEN r.overrides[e]
                                   ELSE parent.tv[e]]
<1>1. Duplicated(c, r) \in Contexts
  BY DuplicatedType
<1>2. /\ r.destination \in DOMAIN Duplicated(c, r)
      /\ DOMAIN Duplicated(c, r) = DOMAIN c \cup {r.destination}
      /\ Duplicated(c, r)[r.destination] = Copied(c, r)
  BY DEF Duplicated
<1>3. Copied(c, r) \in Rules
  <2>1. Duplicated(c, r) \in [DOMAIN Duplicated(c, r) -> Rules]
    BY <1>1, ContextShape
  <2> QED
    BY <1>2, <2>1
<1>4. parent \in Rules
  BY ContextShape DEF DuplicateSourceOk
<1>5. Copied(c, r) = [parent EXCEPT !.tv = f]
  BY DEF Copied
<1> HIDE DEF f, parent
<1>6. Copied(c, r).tv = f /\ Copied(c, r).nature = parent.nature
  BY <1>4, <1>5 DEF Rules
<1> QED
  BY <1>1, <1>2, <1>3, <1>6 DEF f, parent

\* A request that makes the flow compressible by a copy sets at least what the
\* planner would set, and then the planner's own request does it, too.
LEMMA SmallerRequest ==
  ASSUME NEW c \in Contexts, NEW p \in Packets, NEW r \in DuplicateRequests,
         r.source \in Considered(c, p), ~Matches(c[r.source], p),
         DuplicateResult(c, r) = "applied",
         Encodes(Duplicated(c, r), "application", p),
         Chosen(Duplicated(c, r), p) = r.destination
  PROVE  LET s == Request(c, r.source, r.destination, p) IN
         /\ r.source \in Parents(c, p)
         /\ Builds(c, s) /\ Usable(c, s, p)
         /\ WireBytes(s) <= WireBytes(r)
<1> DEFINE parent == c[r.source]
           copy == Copied(c, r)
           o == FlowOverrides(parent, p)
           s == Request(c, r.source, r.destination, p)
           small == Copied(c, s)
<1>1. /\ DuplicateSourceOk(c, r) /\ r.source # r.destination
      /\ Prepared(Duplicated(c, r))
  BY AcceptedAdmissible DEF DuplicateApplies, Admissible
<1>2. /\ parent \in Rules /\ parent.nature # "management"
      /\ \A e \in Restricted(parent) : e \in Entries /\ Field(p, e) \in TargetValues
  BY ConsideredShape DEF Protected
<1>3. r.source \in RuleIds /\ r.destination \in RuleIds
  BY DEF DuplicateRequests
<1>4. s \in DuplicateRequests /\ s.source = r.source /\ s.destination = r.destination
      /\ s.overrides = o
  BY <1>3, RequestType DEF Request
<1>5. /\ copy \in Rules /\ copy.nature = parent.nature
      /\ \A e \in Entries : copy.tv[e] = IF e \in DOMAIN r.overrides THEN r.overrides[e]
                                         ELSE parent.tv[e]
      /\ Duplicated(c, r) \in Contexts
      /\ DOMAIN Duplicated(c, r) = DOMAIN c \cup {r.destination}
      /\ Duplicated(c, r)[r.destination] = copy
  BY <1>1, CopiedShape
<1>6. DuplicateSourceOk(c, s)
  BY <1>1, <1>4 DEF DuplicateSourceOk
<1>7. /\ small \in Rules /\ small.nature = parent.nature
      /\ \A e \in Entries : small.tv[e] = IF e \in DOMAIN o THEN o[e] ELSE parent.tv[e]
      /\ Duplicated(c, s) \in Contexts
      /\ DOMAIN Duplicated(c, s) = DOMAIN c \cup {r.destination}
      /\ Duplicated(c, s)[r.destination] = small
  BY <1>4, <1>6, CopiedShape
<1>8. Matches(copy, p)
  <2> DEFINE d == RulesFor(Duplicated(c, r), "application")
  <2>1. d \in Contexts /\ \A k \in DOMAIN d : d[k] = Duplicated(c, r)[k]
    BY <1>5, RulesForType
  <2>2. r.destination \in Matching(d, p)
    BY <2>1, SelectMatches DEF Encodes, Chosen
  <2> QED
    BY <1>5, <2>1, <2>2 DEF Matching
<1>9. \A e \in DOMAIN r.overrides : r.overrides[e] \in TargetValues
  BY DEF DuplicateRequests, Overrides
<1>10. /\ DOMAIN o = {e \in Restricted(parent) : parent.tv[e] # Field(p, e)}
       /\ \A e \in DOMAIN o : o[e] = Field(p, e)
  BY DEF FlowOverrides
<1> HIDE DEF parent, copy, o, s, small
<1>11. \A e \in Restricted(parent) : copy.tv[e] = Field(p, e)
  <2> TAKE e \in Restricted(parent)
  <2>1. e \in Entries /\ Field(p, e) \in TargetValues /\ parent.tv[e] # NoTarget
    BY <1>2 DEF Restricted
  <2>2. copy.tv[e] # NoTarget
    BY <1>5, <1>9, <2>1, SentinelsDistinct
  <2>3. e \in Restricted(copy)
    BY <2>1, <2>2 DEF Restricted
  <2>4. Field(p, e) \in {NoField, copy.tv[e]}
    BY <1>5, <1>8, <2>3, FieldsAgree
  <2> QED
    BY <2>1, <2>4, NoFieldAssumption
<1>12. \A e \in DOMAIN o : e \in DOMAIN r.overrides /\ o[e] = r.overrides[e]
  BY <1>2, <1>5, <1>10, <1>11
<1>13. WireBytes(s) <= WireBytes(r)
  BY <1>4, <1>12, OverridesCost
<1>14. \A e \in Entries : small.tv[e] \in {NoTarget, copy.tv[e]}
  <2> TAKE e \in Entries
  <2>1. CASE e \in DOMAIN o
    BY <1>7, <1>10, <1>11, <2>1
  <2>2. CASE e \notin DOMAIN o
    <3>1. small.tv[e] = parent.tv[e]
      BY <1>7, <2>2
    <3>2. parent.tv[e] # NoTarget => e \in Restricted(parent)
      BY DEF Restricted
    <3>3. parent.tv[e] # NoTarget => parent.tv[e] = copy.tv[e]
      BY <1>10, <1>11, <2>2, <3>2
    <3> QED
      BY <3>1, <3>3
  <2> QED
    BY <2>1, <2>2
<1>15. Matches(small, p)
  BY <1>5, <1>7, <1>8, <1>14, TargetsOnlyRestrict
<1>16. DOMAIN o # {}
  <2> SUFFICES ASSUME DOMAIN o = {} PROVE FALSE
    OBVIOUS
  <2>1. \A e \in Entries : parent.tv[e] = small.tv[e]
    BY <1>7
  <2>2. \A e \in Entries : parent.tv[e] \in {NoTarget, small.tv[e]}
    BY <2>1
  <2>3. Matches(parent, p)
    BY <1>2, <1>7, <1>15, <2>2, TargetsOnlyRestrict
  <2> QED
    BY <2>3 DEF parent
<1>17. r.source \in Parents(c, p)
  BY <1>16 DEF Parents, o, parent
<1>18. Builds(c, s)
  <2>1. \A e \in DOMAIN o : parent.tv[e] \in TargetValues
    <3> TAKE e \in DOMAIN o
    <3>1. e \in Entries /\ parent.tv[e] # NoTarget
      BY <1>10 DEF Restricted
    <3>2. parent.tv \in [Entries -> TargetValues \cup {NoTarget}]
      BY <1>2, RuleShape
    <3> QED
      BY <3>1, <3>2
  <2> QED
    BY <1>4, <1>6, <2>1 DEF Builds, parent
<1>19. Usable(c, s, p)
  <2>1. Prepared(Duplicated(c, s))
    BY <1>1, <1>5, <1>7 DEF Prepared
  <2>2. Encodes(Duplicated(c, s), "application", p)
    <3>1. r.destination \notin Protected(Duplicated(c, s))
      BY <1>2, <1>7 DEF Protected
    <3>2. r.destination \in DOMAIN Duplicated(c, s)
      BY <1>7
    <3> QED
      BY <1>7, <1>15, <3>1, <3>2, MatchEncodes
  <2> QED
    BY <1>1, <1>4, <1>6, <2>1, <2>2 DEF Usable
<1> QED
  BY <1>13, <1>17, <1>18, <1>19 DEF s

\* If no other thread publishes, every usable request is a candidate or its
\* parent is still to come.
AllTried ==
  phase \in {"costing", "building"} /\ seen = {base} =>
    \A id \in Parents(base, flow) :
      /\ Builds(base, Request(base, id, destination, flow))
      /\ Usable(base, Request(base, id, destination, flow), flow)
      => \/ Request(base, id, destination, flow) \in candidates
         \/ \E i \in 1..Len(todo) : todo[i] = id

LEMMA TriedStep ==
  ASSUME PlanInv, AllTried, [Next]_vars
  PROVE  AllTried'
<1>1. ASSUME NEW p \in Packets, Begin(p) PROVE AllTried'
  BY <1>1 DEF Begin, AllTried
<1>2. CASE Inspect
  BY <1>2 DEF Inspect, AllTried
<1>3. CASE MatchNext
  BY <1>3 DEF MatchNext, AllTried
<1>4. CASE AllocateDestination
  <2>1. CASE phase' = "idle"
    BY <2>1 DEF AllTried
  <2>2. CASE todo' = Sorted(Parents(base, flow))
    <3>1. base \in Contexts /\ flow \in Packets /\ base' = base /\ flow' = flow
      BY <1>4 DEF AllocateDestination, PlanInv, PlannerOK
    <3>2. Parents(base, flow) \in SUBSET RuleIds
      BY <3>1, LoopRules
    <3>3. \A id \in Parents(base, flow) : \E i \in 1..Len(todo') : todo'[i] = id
      BY <2>2, <3>2, SortedLists
    <3> QED
      BY <3>1, <3>3 DEF AllTried
  <2> QED
    BY <1>4, <2>1, <2>2 DEF AllocateDestination
<1>5. CASE CostNext
  <2>1. /\ todo \in Seq(Parents(base, flow)) /\ todo # <<>> /\ phase = "costing"
        /\ active \in seen
        /\ UNCHANGED <<flow, base, destination, candidates, seen>>
        /\ \/ todo' = todo
           \/ /\ ~Builds(active, Request(base, Head(todo), destination, flow))
              /\ todo' = Tail(todo)
    BY <1>5 DEF CostNext, PlanInv, LoopsOK, Watching
  <2>2. CASE todo' = todo
    BY <2>1, <2>2 DEF AllTried
  <2>3. CASE /\ ~Builds(active, Request(base, Head(todo), destination, flow))
             /\ todo' = Tail(todo)
    <3> SUFFICES ASSUME seen = {base}, NEW id \in Parents(base, flow),
                        Builds(base, Request(base, id, destination, flow)),
                        Usable(base, Request(base, id, destination, flow), flow),
                        Request(base, id, destination, flow) \notin candidates
                 PROVE  \E i \in 1..Len(Tail(todo)) : Tail(todo)[i] = id
      BY <2>1, <2>3 DEF AllTried
    <3>1. \E i \in 1..Len(todo) : todo[i] = id
      BY <2>1 DEF AllTried
    <3>2. id # Head(todo)
      BY <2>1, <2>3
    <3> QED
      BY <2>1, <3>1, <3>2, TailKeeps
  <2> QED
    BY <2>1, <2>2, <2>3
<1>6. CASE BuildNext
  <2> DEFINE r == Request(base, Head(todo), destination, flow)
  <2>1. /\ todo \in Seq(Parents(base, flow)) /\ todo # <<>> /\ phase = "building"
        /\ active \in seen /\ todo' = Tail(todo)
        /\ UNCHANGED <<flow, base, destination, seen>>
        /\ candidates' = IF Builds(active, r) /\ Usable(base, r, flow)
                           THEN candidates \cup {r} ELSE candidates
    BY <1>6 DEF BuildNext, PlanInv, LoopsOK, Watching
  <2> SUFFICES ASSUME seen = {base}, NEW id \in Parents(base, flow),
                      Builds(base, Request(base, id, destination, flow)),
                      Usable(base, Request(base, id, destination, flow), flow),
                      Request(base, id, destination, flow) \notin candidates'
               PROVE  \E i \in 1..Len(Tail(todo)) : Tail(todo)[i] = id
    BY <2>1 DEF AllTried
  <2>2. active = base
    BY <2>1
  <2>3. id # Head(todo)
    BY <2>1, <2>2
  <2>4. Request(base, id, destination, flow) \notin candidates
    BY <2>1
  <2>5. \E i \in 1..Len(todo) : todo[i] = id
    BY <2>1, <2>4 DEF AllTried
  <2> QED
    BY <2>1, <2>3, <2>5, TailKeeps
<1>7. CASE Conclude
  BY <1>7 DEF Conclude, AllTried
<1>8. CASE Change
  <2>1. phase # "idle" => (seen' = {base} => seen = {base})
    <3>1. phase # "idle" => active \in seen /\ seen' = seen \cup {active'}
      BY <1>8 DEF Change, PlanInv, Watching
    <3> QED
      BY <3>1
  <2>2. UNCHANGED <<phase, flow, base, todo, destination, candidates>>
    BY <1>8 DEF Change, plannerVariables
  <2> QED
    BY <2>1, <2>2 DEF AllTried
<1>9. CASE Install
  BY <1>9 DEF Install, plannerVariables, AllTried
<1>10. CASE UNCHANGED vars
  BY <1>10 DEF vars, AllTried
<1> QED
  BY <1>1, <1>2, <1>3, <1>4, <1>5, <1>6, <1>7, <1>8, <1>9, <1>10 DEF Next

\* A plan is returned by Conclude, and kept until the next one is begun.
LEMMA SmallestStep ==
  ASSUME PlanInv, AllTried, PlanSmallest, [Next]_vars
  PROVE  PlanSmallest'
<1>0. phase = "idle" \/ ~Planned
  BY DEF PlanInv, Watching, Planned
<1>1. ASSUME NEW p \in Packets, Begin(p) PROVE ~Planned'
  BY <1>1 DEF Begin, Error, Planned
<1>2. CASE Inspect
  BY <1>0, <1>2 DEF Inspect, Planned, PlanSmallest
<1>3. CASE MatchNext
  BY <1>0, <1>3 DEF MatchNext, Already, Planned, PlanSmallest
<1>4. CASE AllocateDestination
  <2>1. ~Planned'
    BY <1>0, <1>4, AllocateKinds DEF AllocateDestination, Error, Planned
  <2> QED
    BY <2>1 DEF PlanSmallest
<1>5. CASE CostNext \/ BuildNext
  BY <1>0, <1>5 DEF CostNext, BuildNext, Planned, PlanSmallest
<1>6. CASE Conclude
  <2>1. /\ phase = "costing" /\ todo = <<>>
        /\ base \in Contexts /\ flow \in Packets
        /\ UNCHANGED <<flow, base, seen>>
        /\ candidates \subseteq DuplicateRequests
        /\ \A q \in candidates : q.destination = destination
    BY <1>6 DEF Conclude, PlanInv, PlannerOK, CandidatesOK
  <2>2. CASE candidates = {}
    <3>1. ~Planned'
      BY <1>6, <2>2 DEF Conclude, Error, Planned
    <3> QED
      BY <3>1 DEF PlanSmallest
  <2>3. CASE candidates # {}
    <3> DEFINE best == Best(candidates)
    <3>1. best \in candidates /\ \A q \in candidates : Ranked(best, q)
      BY <2>1, <2>3, BestExists
    <3>2. outcome'.request = best
      BY <1>6, <2>3 DEF Conclude, Plan
    <3> HIDE DEF best
    <3> SUFFICES ASSUME seen = {base}, NEW r \in DuplicateRequests,
                        r.destination = best.destination,
                        r.source \in Considered(base, flow),
                        ~Matches(base[r.source], flow),
                        DuplicateResult(base, r) = "applied",
                        Encodes(Duplicated(base, r), "application", flow),
                        Chosen(Duplicated(base, r), flow) = r.destination
                 PROVE  WireBytes(best) <= WireBytes(r)
      BY <2>1, <3>2 DEF PlanSmallest
    <3> DEFINE s == Request(base, r.source, destination, flow)
    <3>3. r.destination = destination
      BY <2>1, <3>1
    <3>4. /\ r.source \in Parents(base, flow)
          /\ Builds(base, s) /\ Usable(base, s, flow)
          /\ WireBytes(s) <= WireBytes(r)
      BY <2>1, <3>3, SmallerRequest
    <3>5. s \in candidates
      <4>1. ~\E i \in 1..Len(todo) : todo[i] = r.source
        BY <2>1
      <4> QED
        BY <2>1, <3>4, <4>1 DEF AllTried
    <3> HIDE DEF s
    <3>6. WireBytes(best) <= WireBytes(s)
      BY <2>1, <3>1, <3>5, RankedBytes
    <3>7. WireBytes(best) \in Nat /\ WireBytes(s) \in Nat /\ WireBytes(r) \in Nat
      BY <2>1, <3>1, <3>5, WireBytesAssumption
    <3> QED
      BY <3>4, <3>6, <3>7
  <2> QED
    BY <2>2, <2>3
<1>7. CASE Change
  <2>1. UNCHANGED <<flow, base, outcome>> /\ (phase = "idle" => seen' = seen)
    BY <1>7 DEF Change, plannerVariables
  <2> QED
    BY <1>0, <2>1 DEF Planned, PlanSmallest
<1>8. CASE Install
  BY <1>8 DEF Install, plannerVariables, Planned, PlanSmallest
<1>9. CASE UNCHANGED vars
  BY <1>9 DEF vars, Planned, PlanSmallest
<1> QED
  BY <1>1, <1>2, <1>3, <1>4, <1>5, <1>6, <1>7, <1>8, <1>9 DEF Next, PlanSmallest

\* flow_change "plans the smallest duplicate-rule operation for one logical
\* flow": without interference no other request that makes a copy of a
\* considered rule compress the flow, as the rule itself did not, takes fewer
\* bytes, whatever it sets beside what the flow needs.
THEOREM PlansSmallest == Spec => []PlanSmallest
<1>1. Init => AllTried /\ PlanSmallest
  BY DEF Init, AllTried, PlanSmallest, Planned
<1>2. PlanInv /\ [Next]_vars => PlanInv'
  BY PlanStep
<1>3. PlanInv /\ AllTried /\ [Next]_vars => AllTried'
  BY TriedStep
<1>4. PlanInv /\ AllTried /\ PlanSmallest /\ [Next]_vars => PlanSmallest'
  BY SmallestStep
<1> QED
  BY PlanInit, <1>1, <1>2, <1>3, <1>4, PTL DEF Spec
=============================================================================
