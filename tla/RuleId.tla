------------------------------- MODULE RuleId -------------------------------
(***************************************************************************)
(* SCHC RuleIDs and the dynamic RuleID namespace (allocation.rs).  A       *)
(* RuleID is a bit string: a value and an explicit bit length, and the     *)
(* length is part of its identity (5/3 and 5/4 are different RuleIDs).  A  *)
(* frame starts with its RuleID, so the RuleIDs of one context must be     *)
(* prefix-free for the receiver to tell them apart.                        *)
(***************************************************************************)
EXTENDS Naturals

\* The longest RuleID the codec carries.
MaxRuleIdLength == 32

\* RuleIdSpec::new accepts: an explicit length and a value that fits it.
IsRuleId(id) ==
  /\ id.length \in 1..MaxRuleIdLength
  /\ id.value \in 0..(2^id.length - 1)

\* The RuleIDs of at most width bits.
RuleIdsUpTo(width) ==
  UNION {[value : 0..(2^n - 1), length : {n}] : n \in 1..width}

\* The bits of p are the first bits of id.
IsRuleIdPrefix(p, id) ==
  /\ p.length <= id.length
  /\ id.value \div 2^(id.length - p.length) = p.value

\* One of the two RuleIDs is a prefix of the other.
Overlaps(left, right) == IsRuleIdPrefix(left, right) \/ IsRuleIdPrefix(right, left)

\* No two RuleIDs of the set can start the same frame.
PrefixFree(ids) == \A a, b \in ids : a # b => ~Overlaps(a, b)

(***************************************************************************)
(* A dynamic namespace is a reserved prefix and the depths at which leaves *)
(* below it may be allocated; sorting and deduplicating the depths         *)
(* (DynamicRuleIdNamespace::validate) makes them a set.                    *)
(***************************************************************************)
IsNamespace(ns) ==
  /\ IsRuleId(ns.prefix)
  /\ ns.lengths # {}
  /\ ns.lengths \subseteq (ns.prefix.length + 1)..MaxRuleIdLength

\* The RuleID is a leaf of the namespace at a permitted depth.
Accepts(ns, id) ==
  /\ IsNamespace(ns)
  /\ id.length \in ns.lengths
  /\ IsRuleIdPrefix(ns.prefix, id)

\* The RuleID is on the reserved branch without being one of its leaves.
Collides(ns, id) == Overlaps(id, ns.prefix) /\ ~Accepts(ns, id)
=============================================================================
