---------------------------- MODULE ContextStore ----------------------------
(***************************************************************************)
(* What the active context of a process promises its users: one versioned  *)
(* store whose operations are atomic.  Every publication is the effect of  *)
(* one operation on the content that was current, and advances the         *)
(* generation by one; a refused operation is no step at all.               *)
(***************************************************************************)
EXTENDS SchcContext

VARIABLES
  rules,        \* the current context
  generation    \* the number of contexts published so far

storeVars == <<rules, generation>>

StoreInit == rules = Initial /\ generation = 1

StorePatch(r) ==
  /\ PatchCode(rules, r) = "2.04"
  /\ rules' = Patched(rules, r)

StoreDuplicate(r) ==
  /\ DuplicateResult(rules, r) = "applied"
  /\ rules' = Duplicated(rules, r)

\* The replacement is an edit of the current content, not of an older one.
StoreReplace(next) ==
  /\ Admissible(rules, next)
  /\ rules' = next

StoreNext ==
  /\ generation' = generation + 1
  /\ \/ \E r \in PatchesSeeing(rules) : StorePatch(r)
     \/ \E r \in DuplicateRequests : StoreDuplicate(r)
     \/ \E next \in Edits(rules) : StoreReplace(next)

StoreSpec == StoreInit /\ [][StoreNext]_storeVars
=============================================================================
