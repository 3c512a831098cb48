-------------------------- MODULE RuleIdAllocation --------------------------
(***************************************************************************)
(* DynamicRuleIdNamespace::allocate (allocation.rs): the RuleID that a     *)
(* planned rule gets.  The code does not try the leaves one by one: per    *)
(* permitted depth it projects the occupied RuleIDs onto intervals of leaf *)
(* values, merges them and sweeps for the first gap.  The state machine    *)
(* grows and shrinks a context so that every occupation of the tree is     *)
(* met, the exhausted ones included.                                       *)
(***************************************************************************)
EXTENDS RuleId, FiniteSets, SequencesExt

CONSTANTS
  Namespaces,   \* the namespaces a profile may configure
  StaticIds,    \* RuleIDs that a profile may give to its own rules
  MaxRules      \* bound on the rules of a context

ASSUME NamespacesValid == \A ns \in Namespaces : IsNamespace(ns)

ASSUME StaticIdsValid ==
  /\ StaticIds \subseteq [value : Nat, length : Nat]
  /\ \A id \in StaticIds : IsRuleId(id)

VARIABLES
  namespace,    \* the configured namespace
  occupied      \* the RuleIDs of the context

vars == <<namespace, occupied>>

-----------------------------------------------------------------------------
(* The allocator. An interval <<start, end>> excludes its end. *)

\* Fault variant of CandidateRange: the last leaf is left out.
CandidateRangeShort(prefix, length) ==
  LET leaves == 2^(length - prefix.length) IN
  <<prefix.value * leaves, prefix.value * leaves + leaves - 1>>

\* The values that the leaves of one depth have below the prefix.
CandidateRange(prefix, length) ==
  LET leaves == 2^(length - prefix.length) IN
  <<prefix.value * leaves, prefix.value * leaves + leaves>>

\* Fault variant of Projection: RuleIDs below a leaf do not block it.
ProjectionOfPrefixes(id, length) ==
  LET below == 2^(length - id.length)
      start == IF id.length <= length
                 THEN id.value * below
                 ELSE id.value \div 2^(id.length - length) IN
  <<start, IF id.length <= length THEN start + below ELSE start>>

\* The values of the given length that a RuleID overlaps.
Projection(id, length) ==
  IF id.length <= length
    THEN LET below == 2^(length - id.length) IN
         <<id.value * below, id.value * below + below>>
    ELSE LET start == id.value \div 2^(id.length - length) IN
         <<start, start + 1>>

ClippedIntervals(range, ids, length) ==
  LET projections == {Projection(id, length) : id \in ids} IN
  {<<Max({p[1], range[1]}), Min({p[2], range[2]})>> :
     p \in {q \in projections : q[2] > range[1] /\ q[1] < range[2]}}

IntervalOrder(a, b) == a[1] < b[1] \/ (a[1] = b[1] /\ a[2] < b[2])

\* Appends an interval, or widens the last one if the two touch.
MergeInterval(merged, interval) ==
  LET last == Last(merged) IN
  IF merged # <<>> /\ interval[1] <= last[2]
    THEN Append(Front(merged), <<last[1], Max({last[2], interval[2]})>>)
    ELSE Append(merged, interval)

SortedIntervals(intervals) ==
  CHOOSE s \in [1..Cardinality(intervals) -> intervals] :
    \A i, j \in DOMAIN s : i < j => IntervalOrder(s[i], s[j])

BlockedIntervals(range, ids, length) ==
  FoldLeft(MergeInterval, <<>>, SortedIntervals(ClippedIntervals(range, ids, length)))

\* One turn of the sweep: the candidate moves past an interval that covers
\* it and stops before one that starts later.
Sweep(sweep, interval) ==
  IF sweep.stopped \/ interval[2] <= sweep.candidate THEN sweep
  ELSE IF interval[1] > sweep.candidate THEN [sweep EXCEPT !.stopped = TRUE]
  ELSE [sweep EXCEPT !.candidate = interval[2]]

\* The first value of the range outside the blocked intervals; the range's
\* end if there is none.
FirstFree(range, blocked) ==
  FoldLeft(Sweep, [candidate |-> range[1], stopped |-> FALSE], blocked).candidate

Exhausted == [kind |-> "exhausted"]
Collision == [kind |-> "collision"]
Allocated(id) == [kind |-> "allocated", id |-> id]

\* allocate: the shallowest permitted depth that has a gap.
Allocate(ns, ids) ==
  LET Leaves(n) == CandidateRange(ns.prefix, n)
      Gap(n) == FirstFree(Leaves(n), BlockedIntervals(Leaves(n), ids, n))
      open == {n \in ns.lengths : Gap(n) < Leaves(n)[2]} IN
  IF \E id \in ids : Collides(ns, id) THEN Collision
  ELSE IF open = {} THEN Exhausted
  ELSE Allocated([value |-> Gap(Min(open)), length |-> Min(open)])

-----------------------------------------------------------------------------
(* A context that grows and shrinks. *)

Init ==
  /\ namespace \in Namespaces
  /\ occupied = {}

\* The caller's context holds a rule of its own, on or off the branch; a
\* prepared context keeps off it, and allocate checks that again.
AddStatic(id) ==
  /\ Cardinality(occupied) < MaxRules
  /\ PrefixFree(occupied \cup {id})
  /\ occupied' = occupied \cup {id}
  /\ UNCHANGED namespace

\* flow_change plans a rule at the allocated RuleID, and duplicate-rule
\* installs it.
Install ==
  LET result == Allocate(namespace, occupied) IN
  /\ Cardinality(occupied) < MaxRules
  /\ result.kind = "allocated"
  /\ occupied' = occupied \cup {result.id}
  /\ UNCHANGED namespace

\* A replacement tree leaves a rule out.
Omit(id) ==
  /\ occupied' = occupied \ {id}
  /\ UNCHANGED namespace

Next ==
  \/ \E id \in StaticIds : AddStatic(id)
  \/ Install
  \/ \E id \in occupied : Omit(id)

Spec == Init /\ [][Next]_vars

-----------------------------------------------------------------------------
(* Properties. *)

\* The leaves of the namespace that no occupied RuleID overlaps.
FreeLeaves ==
  {leaf \in RuleIdsUpTo(Max(namespace.lengths)) :
     /\ Accepts(namespace, leaf)
     /\ \A id \in occupied : ~Overlaps(leaf, id)}

\* "Returns the first free valid leaf in tree order": the interval sweep
\* finds what trying every leaf by increasing depth and value would find, and
\* reports exhaustion exactly when no leaf is free.
AllocatesFirstFreeLeaf ==
  LET result == Allocate(namespace, occupied) IN
  (\A id \in occupied : ~Collides(namespace, id)) =>
    IF FreeLeaves = {}
      THEN result = Exhausted
      ELSE /\ result.kind = "allocated"
           /\ result.id \in FreeLeaves
           /\ \A leaf \in FreeLeaves :
                \/ result.id.length < leaf.length
                \/ /\ result.id.length = leaf.length
                   /\ result.id.value <= leaf.value

\* Whatever is planned, installed and removed, no RuleID of the context is a
\* prefix of another, and a planned rule never makes the next allocation
\* report a collision.
AllocationKeepsTree ==
  /\ PrefixFree(occupied)
  /\ Allocate(namespace, occupied).kind = "collision"
       => \E id \in occupied \cap StaticIds : Collides(namespace, id)
=============================================================================
