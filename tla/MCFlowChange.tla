---------------------------- MODULE MCFlowChange ----------------------------
(***************************************************************************)
(* FlowChange on a small instance: the protected rule 00, the ordinary     *)
(* rule 01 and, in the dynamic namespace below prefix 1, the leaves 10 and *)
(* 11, of which 10 holds a rule.  A rule has two entries, of which the     *)
(* first identifies a flow.  Every rule also describes CoAP fields, which  *)
(* the planner ignores: a packet that is not CoAP is compressed by none.   *)
(***************************************************************************)
EXTENDS FlowChange

MCManagement == [value |-> 0, length |-> 2]
MCOrdinary == [value |-> 1, length |-> 2]
MCLeaf == [value |-> 2, length |-> 2]
MCFreeLeaf == [value |-> 3, length |-> 2]

MCRuleIds == {MCManagement, MCOrdinary, MCLeaf, MCFreeLeaf}

MCNamespace == [prefix |-> [value |-> 1, length |-> 1], lengths |-> {2}]

MCEntries == {1, 2}
MCTargetValues == {1, 2}

\* Rules of the third kind have a list of target values in the second entry, or
\* none there, and then describe headers only.
MCNatures == {"management", "compression", "list"}

Rule(first, second) == [nature |-> "compression", tv |-> <<first, second>>]

MCInitial ==
  [id \in {MCManagement, MCOrdinary, MCLeaf} |->
     CASE id = MCManagement -> [nature |-> "management", tv |-> <<NoTarget, NoTarget>>]
       [] id = MCOrdinary -> Rule(1, 1)
       [] id = MCLeaf -> Rule(1, 2)]

\* A rule that sends both fields, two that send the second, and two that send
\* none.
MCOffered == {Rule(NoTarget, NoTarget), Rule(1, NoTarget), Rule(2, 1)}
               \cup {[Rule(first, second) EXCEPT !.nature = "list"] :
                       <<first, second>> \in {<<1, NoTarget>>, <<2, 1>>}}

MCDigest(ctx) == <<"sha-256", ctx>>
MCUndigest(digest) == digest[2]

MCPackets ==
  {[port |-> "application", coap |-> TRUE, field |-> f] : f \in {<<1, 2>>, <<2, 2>>}}
    \cup {[port |-> "application", coap |-> FALSE, field |-> <<2, 1>>]}

MCFlowEntries == {1}

MCHasPayload(rule) == rule.nature = "list" => rule.tv[2] # NoTarget

MCSettable(rule) == IF rule.nature = "list" THEN {1} ELSE MCEntries

MCField(p, e) == p.field[e]

MCMatches(rule, p) ==
  /\ rule.nature = "management" => p.port = "management"
  /\ p.coap
  /\ \A e \in MCEntries : rule.tv[e] \in {NoTarget, p.field[e]}

\* A residue holds the fields that have no target value, and the port.
Sent(rule) == {e \in MCEntries : rule.tv[e] = NoTarget}

MCResidue(rule, p) == [port |-> p.port, field |-> [e \in Sent(rule) |-> p.field[e]]]

MCExpand(rule, residue) ==
  {p \in MCPackets : MCMatches(rule, p) /\ MCResidue(rule, p) = residue}

\* Shorter residues first, then the order of RuleIDs.
MCBefore(ctx, a, b) ==
  LET sent(id) == Cardinality(Sent(ctx[id])) IN
  \/ sent(a) < sent(b)
  \/ sent(a) = sent(b) /\ (a = b \/ RuleOrder(a, b))

MCSelect(ctx, p) ==
  CHOOSE id \in Matching(ctx, p) :
    \A other \in Matching(ctx, p) : MCBefore(ctx, id, other)

\* The first field is a port, the second a longer interface identifier.
MCWireBytes(r) ==
  20 + (IF 1 \in DOMAIN r.overrides THEN 5 ELSE 0)
     + (IF 2 \in DOMAIN r.overrides THEN 11 ELSE 0)
=============================================================================
