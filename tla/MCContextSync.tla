---------------------------- MODULE MCContextSync ----------------------------
(***************************************************************************)
(* ContextSync on a small instance: the protected rule 00, the ordinary    *)
(* rule 01 and the free leaf 10 of the dynamic namespace below prefix 1.   *)
(***************************************************************************)
EXTENDS ContextSync

CONSTANTS v1, v2

MCManagement == [value |-> 0, length |-> 2]
MCOrdinary == [value |-> 1, length |-> 2]
MCLeaf == [value |-> 2, length |-> 2]

MCEntries == {1}

MCRuleIds == {MCManagement, MCOrdinary, MCLeaf}

MCNamespace == [prefix |-> [value |-> 1, length |-> 1], lengths |-> {2}]

MCInitial ==
  [id \in {MCManagement, MCOrdinary} |->
     [nature |-> IF id = MCManagement THEN "management" ELSE "compression",
      tv     |-> [e \in MCEntries |-> v1]]]

MCDigest(ctx) == <<"sha-256", ctx>>
MCUndigest(digest) == digest[2]

MCTargetValues == {v1, v2}
=============================================================================
