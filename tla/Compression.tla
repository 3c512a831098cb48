---------------------------- MODULE Compression ----------------------------
(***************************************************************************)
(* How a context compresses packets (SchcLink::encode).  Compression       *)
(* itself (r-schc) is external and enters as the constants Matches,        *)
(* Residue, Expand and Select; the link decides which rules it offers and  *)
(* checks which one was taken.  Link sends and receives frames with it,    *)
(* FlowChange asks it which rule a flow would take.                        *)
(***************************************************************************)
EXTENDS SchcContext

CONSTANTS
  Packets,        \* packets that reach the link, each with a UDP port
  Matches(_, _),  \* Matches(rule, packet): the rule applies to the packet
  Residue(_, _),  \* Residue(rule, packet): the bits after the RuleID
  Expand(_, _),   \* Expand(rule, residue): the packets that the rule may
                  \* read from such bits and writes back as the same bytes
  Select(_, _)    \* Select(ctx, packet): the RuleID that compresses it

Origins == {"application", "management"}

\* The rules of a runtime that can compress the packet.
Matching(ctx, p) == {id \in DOMAIN ctx : Matches(ctx[id], p)}

ASSUME PacketsHavePorts == \A p \in Packets : p.port \in Origins

ASSUME SelectMatches ==
  \A c \in Contexts, p \in Packets :
    Matching(c, p) # {} => Select(c, p) \in Matching(c, p)

\* A rule reads back exactly what it has written.
ASSUME Lossless ==
  \A rule \in Rules, p \in Packets :
    Matches(rule, p) => Expand(rule, Residue(rule, p)) = {p}

\* application_runtime: the context without its protected rules.
ApplicationRules(ctx) == [id \in DOMAIN ctx \ Protected(ctx) |-> ctx[id]]

\* classify: the class follows from the RuleID alone.
Class(ctx, id) == IF id \in Protected(ctx) THEN "management" ELSE "application"

\* The rules that encode_validated offers to traffic of the given origin.
RulesFor(ctx, origin) ==
  IF origin = "application" THEN ApplicationRules(ctx) ELSE ctx

\* Fault variant of EnforceOrigin: the selected rule is not checked.
EnforceOriginNever(ctx, origin, id) == TRUE

\* enforce_origin: the class of the selected rule is the declared origin.
EnforceOrigin(ctx, origin, id) == Class(ctx, id) = origin

\* encode succeeds: a rule on offer matches, and the one that is selected has
\* the class of the declared origin.
Encodes(ctx, origin, p) ==
  LET offered == RulesFor(ctx, origin) IN
  /\ Matching(offered, p) # {}
  /\ EnforceOrigin(ctx, origin, Select(offered, p))
=============================================================================
