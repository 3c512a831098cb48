------------------------------- MODULE MCLink -------------------------------
(***************************************************************************)
(* Link on a small instance: the protected rule 00, the ordinary rule 01   *)
(* and, in the dynamic namespace below prefix 1, the leaves 10 and 100.  A *)
(* packet is a port and one field.  A rule with a target value matches     *)
(* this value and does not send it, a rule without one sends the field; a  *)
(* management rule matches the management port only, an ordinary rule any  *)
(* port.                                                                   *)
(***************************************************************************)
EXTENDS Link

CONSTANTS v1, v2, NotSent

MCManagement == [value |-> 0, length |-> 2]
MCOrdinary == [value |-> 1, length |-> 2]
MCLeaf == [value |-> 2, length |-> 2]
MCDeepLeaf == [value |-> 4, length |-> 3]

MCEntries == {1}

MCRuleIds == {MCManagement, MCOrdinary, MCLeaf, MCDeepLeaf}

MCNamespace == [prefix |-> [value |-> 1, length |-> 1], lengths |-> {2, 3}]

MCTargetValues == {v1, v2}

MCInitial ==
  [id \in {MCManagement, MCOrdinary} |->
     IF id = MCManagement THEN [nature |-> "management", tv |-> [e \in MCEntries |-> NoTarget]]
     ELSE [nature |-> "compression", tv |-> [e \in MCEntries |-> v1]]]

MCOffered == {[nature |-> "management", tv |-> [e \in MCEntries |-> v2]],
              [nature |-> "compression", tv |-> [e \in MCEntries |-> NoTarget]]}

MCDigest(ctx) == <<"sha-256", ctx>>
MCUndigest(digest) == digest[2]

MCPackets == [port : Origins, field : MCTargetValues]

MCMatches(rule, p) ==
  /\ rule.nature = "management" => p.port = "management"
  /\ rule.tv[1] \in {NoTarget, p.field}

MCResidue(rule, p) ==
  [port  |-> IF rule.nature = "management" THEN NotSent ELSE p.port,
   field |-> IF rule.tv[1] = NoTarget THEN p.field ELSE NotSent]

\* A residue of another shape is padding, or padding is read as a residue.
MCExpand(rule, residue) ==
  LET fits == /\ (residue.port = NotSent) <=> (rule.nature = "management")
              /\ (residue.field = NotSent) <=> (rule.tv[1] # NoTarget) IN
  {p \in MCPackets :
     /\ MCMatches(rule, p)
     /\ fits => MCResidue(rule, p) = residue}

\* Shorter residues first, then protected rules, then the order of RuleIDs.
MCBefore(ctx, a, b) ==
  LET sent(id) == ctx[id].tv[1] = NoTarget
      protected(id) == ctx[id].nature = "management" IN
  IF sent(a) # sent(b) THEN sent(b)
  ELSE IF protected(a) # protected(b) THEN protected(a)
  ELSE IF a.length # b.length THEN a.length < b.length
  ELSE a.value <= b.value

MCSelect(ctx, p) ==
  CHOOSE id \in Matching(ctx, p) :
    \A other \in Matching(ctx, p) : MCBefore(ctx, id, other)
=============================================================================
