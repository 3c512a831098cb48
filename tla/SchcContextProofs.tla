-------------------------- MODULE SchcContextProofs --------------------------
(***************************************************************************)
(* Facts about the context operators that hold for every set of RuleIDs,   *)
(* every namespace and every digest: the operations stay within Contexts,  *)
(* and what they accept keeps the protected rules.                         *)
(***************************************************************************)
EXTENDS SchcContext, FiniteSetTheorems, TLAPS

\* A context maps some of the RuleIDs to rules.
LEMMA ContextShape ==
  \A c : c \in Contexts <=> /\ DOMAIN c \subseteq RuleIds
                            /\ c \in [DOMAIN c -> Rules]
  BY DEF Contexts

\* A rule has a nature and, in each entry, a target value or none.
LEMMA RuleShape ==
  ASSUME NEW rule \in Rules
  PROVE  /\ rule.nature \in Natures
         /\ rule.tv \in [Entries -> TargetValues \cup {NoTarget}]
         /\ \A f \in [Entries -> TargetValues \cup {NoTarget}] :
              [rule EXCEPT !.tv = f] \in Rules
         /\ \A f : [rule EXCEPT !.tv = f].nature = rule.nature
  BY DEF Rules

\* apply_target_ipatch publishes a context of the same RuleIDs.
LEMMA PatchedType ==
  ASSUME NEW c \in Contexts, NEW r \in PatchRequests, PatchApplies(c, r)
  PROVE  Patched(c, r) \in Contexts
<1>1. /\ r.id \in DOMAIN c
      /\ r.tv \in TargetValues
      /\ r.entry \in Entries
  BY DEF PatchApplies, PatchRequests
<1>2. /\ DOMAIN c \subseteq RuleIds
      /\ c \in [DOMAIN c -> Rules]
  BY ContextShape
<1>3. [c[r.id] EXCEPT !.tv[r.entry] = r.tv] \in Rules
  <2>1. c[r.id] \in Rules
    BY <1>1, <1>2
  <2>2. [c[r.id].tv EXCEPT ![r.entry] = r.tv]
          \in [Entries -> TargetValues \cup {NoTarget}]
    BY <1>1, <2>1, RuleShape
  <2> QED
    BY <2>1, <2>2, RuleShape
<1>4. Patched(c, r) \in [DOMAIN c -> Rules]
  BY <1>1, <1>2, <1>3 DEF Patched
<1> QED
  BY <1>2, <1>4, ContextShape

\* apply_duplicate_operation publishes a context with at most one new RuleID.
LEMMA DuplicatedType ==
  ASSUME NEW c \in Contexts, NEW r \in DuplicateRequests,
         DuplicateSourceOk(c, r)
  PROVE  Duplicated(c, r) \in Contexts
<1>1. /\ DOMAIN c \subseteq RuleIds
      /\ c \in [DOMAIN c -> Rules]
  BY ContextShape
<1>2. c[r.source] \in Rules
  BY <1>1 DEF DuplicateSourceOk
<1>3. /\ r.destination \in RuleIds
      /\ \A e \in DOMAIN r.overrides : r.overrides[e] \in TargetValues
  BY DEF DuplicateRequests, Overrides
<1>4. Copied(c, r) \in Rules
  <2>1. [e \in Entries |-> IF e \in DOMAIN r.overrides
                            THEN r.overrides[e] ELSE c[r.source].tv[e]]
          \in [Entries -> TargetValues \cup {NoTarget}]
    BY <1>2, <1>3, RuleShape
  <2> QED
    BY <1>2, <2>1, RuleShape DEF Copied
<1>5. Duplicated(c, r) \in [DOMAIN c \cup {r.destination} -> Rules]
  BY <1>1, <1>4 DEF Duplicated
<1> QED
  BY <1>1, <1>3, <1>5, ContextShape

\* A tree that a handler derives from a context is a context.
LEMMA EditsType ==
  ASSUME NEW c \in Contexts
  PROVE  Edits(c) \subseteq Contexts
<1>1. /\ DOMAIN c \subseteq RuleIds
      /\ c \in [DOMAIN c -> Rules]
  BY ContextShape
<1>2. ASSUME NEW e \in RuleIds, NEW rule \in Offered
      PROVE  WithRule(c, e, rule) \in Contexts
  <2>1. rule \in Rules
    BY OfferedRules
  <2>2. WithRule(c, e, rule) \in [DOMAIN c \cup {e} -> Rules]
    BY <1>1, <2>1 DEF WithRule
  <2> QED
    BY <1>1, <2>2, ContextShape
<1>3. ASSUME NEW e \in DOMAIN c
      PROVE  WithoutRule(c, e) \in Contexts
  <2>1. WithoutRule(c, e) \in [DOMAIN c \ {e} -> Rules]
    BY <1>1 DEF WithoutRule
  <2> QED
    BY <1>1, <2>1, ContextShape
<1> QED
  BY <1>2, <1>3 DEF Edits

\* ProtectedRules::enforce compares a count and looks up each current rule;
\* for finite contexts that is equality of the protected rules.
LEMMA EnforceExact ==
  ASSUME NEW c \in Contexts, NEW d \in Contexts, Enforce(c, d)
  PROVE  /\ Protected(d) = Protected(c)
         /\ \A id \in Protected(c) : d[id] = c[id]
<1>1. Protected(c) \subseteq Protected(d)
  BY DEF Enforce
<1>2. IsFiniteSet(Protected(d))
  <2>1. Protected(d) \subseteq RuleIds
    BY ContextShape DEF Protected
  <2> QED
    BY <2>1, RuleIdsFinite, FS_Subset
<1>3. Cardinality(Protected(c)) = Cardinality(Protected(d))
  BY DEF Enforce
<1>4. Protected(c) = Protected(d)
  BY <1>1, <1>2, <1>3, FS_Subset
<1> QED
  BY <1>4 DEF Enforce

\* The two operations publish admissible contexts only.
LEMMA AcceptedAdmissible ==
  ASSUME NEW c, NEW r
  PROVE  /\ PatchCode(c, r) = "2.04"
              => PatchApplies(c, r) /\ Admissible(c, Patched(c, r))
         /\ DuplicateResult(c, r) = "applied"
              => DuplicateApplies(c, r) /\ Admissible(c, Duplicated(c, r))
<1>1. PatchCode(c, r) = "2.04" => PatchApplies(c, r)
  BY DEF PatchCode
<1>2. PatchApplies(c, r) => Admissible(c, Patched(c, r))
  BY DEF PatchApplies
<1>3. DuplicateResult(c, r) = "applied" => DuplicateApplies(c, r)
  BY DEF DuplicateResult
<1>4. DuplicateApplies(c, r) => Admissible(c, Duplicated(c, r))
  BY DEF DuplicateApplies
<1> QED
  BY <1>1, <1>2, <1>3, <1>4

\* What writers publish is a context that may replace the current one.
LEMMA PublicationsAdmissible ==
  ASSUME NEW c \in Contexts, NEW d \in Publications(c)
  PROVE  d \in Contexts /\ Admissible(c, d)
<1>1. ASSUME NEW r \in PatchesSeeing(c), PatchCode(c, r) = "2.04",
             d = Patched(c, r)
      PROVE  d \in Contexts /\ Admissible(c, d)
  <2>1. r \in PatchRequests
    BY DEF PatchesSeeing, PatchRequests, Digests
  <2> QED
    BY <1>1, <2>1, AcceptedAdmissible, PatchedType
<1>2. ASSUME NEW r \in DuplicateRequests, DuplicateResult(c, r) = "applied",
             d = Duplicated(c, r)
      PROVE  d \in Contexts /\ Admissible(c, d)
  <2>1. DuplicateApplies(c, r) /\ Admissible(c, Duplicated(c, r))
    BY <1>2, AcceptedAdmissible
  <2>2. DuplicateSourceOk(c, r)
    BY <2>1 DEF DuplicateApplies
  <2> QED
    BY <1>2, <2>1, <2>2, DuplicatedType
<1>3. ASSUME d \in Edits(c), Admissible(c, d)
      PROVE  d \in Contexts /\ Admissible(c, d)
  BY <1>3, EditsType
<1> QED
  BY <1>1, <1>2, <1>3 DEF Publications
=============================================================================
