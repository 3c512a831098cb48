----------------------------- MODULE SchcContext -----------------------------
(***************************************************************************)
(* The SCHC rule context as data: what a context is, which candidates may  *)
(* replace it, and what the two management operations compute from it.     *)
(* The modules ActiveContext (threads of one process) and ContextSync      *)
(* (core and device) run these operations.                                 *)
(*                                                                         *)
(* A context is a function from its RuleIDs to its rules.  Of a rule the   *)
(* model keeps the target value of each entry, the leaf that iPATCH and    *)
(* duplicate-rule change; its nature, on which protection depends, stands  *)
(* for everything else in it.                                              *)
(* Being a function, it is the canonical (sorted, duplicate-free) tree of  *)
(* the code: a tree in any other order is refused before validation.       *)
(***************************************************************************)
EXTENDS RuleId, FiniteSets

CONSTANTS
  RuleIds,        \* RuleIDs that contexts and requests may name
  Entries,        \* the field entries of a rule, by their entry-index
  TargetValues,   \* target values of the right width for the field
  Misfit,         \* a target value of the wrong width
  NoTarget,       \* an entry without a target-value leaf
  Natures,        \* "management", and what kinds of ordinary rules there are
  Namespace,      \* the configured dynamic RuleID namespace, or NoNamespace
  NoNamespace,
  NoTag,          \* an iPATCH without If-Match
  Offered,        \* rules that a backend user may write into a tree
  Initial,        \* the context loaded at start-up
  Digest(_),      \* SHA-256 of the canonical context; the tag is its prefix
  Undigest(_)     \* the context of a digest: what makes digests unique

Rules == [nature : Natures,
          tv     : [Entries -> TargetValues \cup {NoTarget}]]

Contexts == UNION {[ids -> Rules] : ids \in SUBSET RuleIds}

Digests == {Digest(c) : c \in Contexts}

ASSUME RuleIdsFinite == IsFiniteSet(RuleIds)

ASSUME RuleIdsExplicit ==
  /\ RuleIds \subseteq [value : Nat, length : Nat]
  /\ \A id \in RuleIds : IsRuleId(id)

ASSUME OfferedRules == Offered \subseteq Rules

ASSUME SentinelsDistinct ==
  /\ Misfit \notin TargetValues \cup {NoTarget}
  /\ NoTarget \notin TargetValues

\* A context with an invalid namespace is never built.
ASSUME NamespaceValid == Namespace # NoNamespace => IsNamespace(Namespace)

\* Tags compared in place of contexts: no two contexts share a digest.
ASSUME DigestInjective ==
  \A c \in Contexts : Undigest(Digest(c)) = c /\ Digest(c) # NoTag

-----------------------------------------------------------------------------
(* Protection and candidate validation. *)

\* ProtectedRules::derive: protection follows the management nature.
Protected(ctx) == {id \in DOMAIN ctx : ctx[id].nature = "management"}

\* Fault variant of Enforce: protected rules are counted, not compared.
EnforceCountOnly(current, candidate) ==
  Cardinality(Protected(current)) = Cardinality(Protected(candidate))

\* ProtectedRules::enforce: as many protected rules as before, and each of
\* the current ones is still there with the same content.
Enforce(current, candidate) ==
  /\ Cardinality(Protected(current)) = Cardinality(Protected(candidate))
  /\ \A id \in Protected(current) :
        id \in Protected(candidate) /\ candidate[id] = current[id]

\* PreparedContext::from_loaded: the rule set decodes unambiguously and
\* keeps off the reserved namespace except at its leaves.
Prepared(ctx) ==
  /\ PrefixFree(DOMAIN ctx)
  /\ Namespace # NoNamespace => \A id \in DOMAIN ctx : ~Collides(Namespace, id)

ASSUME InitialPrepared == Initial \in Contexts /\ Prepared(Initial)

\* Fault variant of Admissible: the candidate is not rebuilt and checked.
AdmissibleUnprepared(current, candidate) == Enforce(current, candidate)

\* What every writer requires of a candidate before it publishes it.
Admissible(current, candidate) ==
  Prepared(candidate) /\ Enforce(current, candidate)

-----------------------------------------------------------------------------
(* Targeted iPATCH: replace one target value of one ordinary rule. *)

PatchRequests == [kind : {"ipatch"}, id : RuleIds, entry : Entries,
                  tv : TargetValues \cup {Misfit},
                  tag : Digests \cup {NoTag}]

\* The iPATCHes of clients that saw ctx, or that send no If-Match.
PatchesSeeing(ctx) == [kind : {"ipatch"}, id : RuleIds, entry : Entries,
                       tv : TargetValues \cup {Misfit},
                       tag : {Digest(ctx), NoTag}]

Patched(ctx, r) == [ctx EXCEPT ![r.id].tv[r.entry] = r.tv]

IfMatchHolds(ctx, r) == r.tag = NoTag \/ r.tag = Digest(ctx)

\* Fault variant of PatchApplies: the width of the new value is not checked.
PatchAppliesAnyWidth(ctx, r) ==
  /\ r.id \in DOMAIN ctx
  /\ r.id \notin Protected(ctx)
  /\ ctx[r.id].tv[r.entry] \in TargetValues
  /\ Admissible(ctx, Patched(ctx, r))

\* The patched rule exists, is ordinary, and old and new values fit its field.
PatchApplies(ctx, r) ==
  /\ r.id \in DOMAIN ctx
  /\ r.id \notin Protected(ctx)
  /\ ctx[r.id].tv[r.entry] \in TargetValues
  /\ r.tv \in TargetValues
  /\ Admissible(ctx, Patched(ctx, r))

\* The response code of apply_target_ipatch.
PatchCode(ctx, r) ==
  IF ~IfMatchHolds(ctx, r) THEN "4.12"
  ELSE IF PatchApplies(ctx, r) THEN "2.04" ELSE "4.09"

-----------------------------------------------------------------------------
(* duplicate-rule: copy an ordinary rule to a new RuleID, with overrides. *)

Overrides == UNION {[entries -> TargetValues] : entries \in SUBSET Entries}

DuplicateRequests == [kind : {"duplicate"}, source : RuleIds,
                      destination : RuleIds, overrides : Overrides]

Copied(ctx, r) ==
  LET parent == ctx[r.source] IN
  [parent EXCEPT !.tv = [e \in Entries |-> IF e \in DOMAIN r.overrides
                                            THEN r.overrides[e]
                                            ELSE parent.tv[e]]]

\* The context with the copy, which takes the place of any rule at the
\* destination.
Duplicated(ctx, r) ==
  [id \in DOMAIN ctx \cup {r.destination} |->
     IF id = r.destination THEN Copied(ctx, r) ELSE ctx[id]]

\* The checks that core and device both make of source and destination.
DuplicateSourceOk(ctx, r) ==
  /\ r.source \in DOMAIN ctx
  /\ r.source \notin Protected(ctx)
  /\ r.destination \notin Protected(ctx)

\* duplicate_inner_payload builds the request: a target override needs a
\* target value to replace.
Builds(ctx, r) ==
  /\ DuplicateSourceOk(ctx, r)
  /\ \A e \in DOMAIN r.overrides : ctx[r.source].tv[e] \in TargetValues

\* Everything apply_duplicate_operation checks before it looks whether the
\* destination exists.
DuplicateApplies(ctx, r) ==
  /\ DuplicateSourceOk(ctx, r)
  /\ r.source # r.destination
  /\ \/ Namespace = NoNamespace
     \/ r.destination \in DOMAIN ctx
     \/ Accepts(Namespace, r.destination)
  /\ Admissible(ctx, Duplicated(ctx, r))

\* Fault variant of DuplicateResult: an existing destination is overwritten.
DuplicateResultOverwriting(ctx, r) ==
  IF DuplicateApplies(ctx, r) THEN "applied" ELSE "failed"

\* The result of apply_duplicate_operation: a replay whose outcome is already
\* in place is idempotent, any other use of an existing destination fails.
DuplicateResult(ctx, r) ==
  IF ~DuplicateApplies(ctx, r) THEN "failed"
  ELSE IF r.destination \notin DOMAIN ctx THEN "applied"
  ELSE IF ctx[r.destination] = Copied(ctx, r) THEN "idempotent" ELSE "failed"

-----------------------------------------------------------------------------
(* Whole-tree replacement through the rustconf backend. *)

WithRule(ctx, e, rule) ==
  [id \in DOMAIN ctx \cup {e} |-> IF id = e THEN rule ELSE ctx[id]]

WithoutRule(ctx, e) == [id \in DOMAIN ctx \ {e} |-> ctx[id]]

\* Trees a request handler derives from the one it read: one rule set, or
\* one rule deleted.
Edits(ctx) ==
  {WithRule(ctx, e, rule) : e \in RuleIds, rule \in Offered}
    \cup {WithoutRule(ctx, e) : e \in DOMAIN ctx}

\* What any writer may publish next.
Publications(ctx) ==
  {Patched(ctx, r) : r \in {q \in PatchesSeeing(ctx) : PatchCode(ctx, q) = "2.04"}}
    \cup {Duplicated(ctx, r) :
            r \in {q \in DuplicateRequests : DuplicateResult(ctx, q) = "applied"}}
    \cup {c \in Edits(ctx) : Admissible(ctx, c)}
=============================================================================
