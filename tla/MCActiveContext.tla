-------------------------- MODULE MCActiveContext --------------------------
(***************************************************************************)
(* ActiveContext on a small instance: one protected rule 00, one ordinary  *)
(* rule 01 and, in the dynamic namespace below prefix 1, the leaf 10 and   *)
(* the deeper leaf 100, of which 10 is a prefix.                           *)
(***************************************************************************)
EXTENDS ActiveContext, TLC

CONSTANTS t1, t2, v1, v2

MCManagement == [value |-> 0, length |-> 2]
MCOrdinary == [value |-> 1, length |-> 2]
MCLeaf == [value |-> 2, length |-> 2]

MCDeepLeaf == [value |-> 4, length |-> 3]

MCEntries == {1}

MCRuleIds == {MCManagement, MCOrdinary, MCLeaf}
MCOverlappingRuleIds == MCRuleIds \cup {MCDeepLeaf}

MCNamespace == [prefix |-> [value |-> 1, length |-> 1], lengths |-> {2, 3}]

MCInitial ==
  [id \in {MCManagement, MCOrdinary} |->
     [nature |-> IF id = MCManagement THEN "management" ELSE "compression",
      tv     |-> [e \in MCEntries |-> v1]]]

MCOffered == {[nature |-> "management", tv |-> [e \in MCEntries |-> v2]],
              [nature |-> "compression", tv |-> [e \in MCEntries |-> v1]]}

MCDigest(ctx) == <<"sha-256", ctx>>
MCUndigest(digest) == digest[2]

MCThreads == {t1, t2}
MCTargetValues == {v1, v2}

Symmetry == Permutations(MCThreads)
=============================================================================
