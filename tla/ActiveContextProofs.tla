------------------------- MODULE ActiveContextProofs -------------------------
(***************************************************************************)
(* The safety properties of ActiveContext, for any number of threads, any  *)
(* rule set and any namespace.  The inductive invariant is Inv: the mutex  *)
(* makes a validated candidate stay the effect of its request on the live  *)
(* snapshot, so that publishing it is one atomic step of ContextStore.     *)
(***************************************************************************)
EXTENDS ActiveContext, SchcContextProofs

\* A request is one of the three kinds, told apart by its kind.
LEMMA RequestKinds ==
  ASSUME NEW r \in Requests
  PROVE  /\ r.kind \in {"ipatch", "duplicate", "replace"}
         /\ r.kind = "ipatch" => r \in PatchRequests
         /\ r.kind = "duplicate" => r \in DuplicateRequests
         /\ r.kind = "replace" => r.next \in Contexts
  BY DEF Requests, PatchRequests, DuplicateRequests, ReplaceRequests

\* What a writer accepts turns a context into an admissible context.
LEMMA EffectAdmissible ==
  ASSUME NEW t \in Threads, NEW c \in Contexts,
         request[t] \in Requests, Accepted(t, c)
  PROVE  /\ Effect(request[t], c) \in Contexts
         /\ Admissible(c, Effect(request[t], c))
<1> DEFINE r == request[t]
<1> HIDE DEF r
<1>1. CASE r.kind = "ipatch"
  <2>1. PatchCode(c, r) = "2.04"
    BY <1>1 DEF Accepted, r
  <2>2. PatchApplies(c, r) /\ Admissible(c, Patched(c, r))
    BY <2>1, AcceptedAdmissible
  <2>3. Patched(c, r) \in Contexts
    BY <1>1, <2>2, RequestKinds, PatchedType DEF r
  <2>4. Effect(r, c) = Patched(c, r)
    BY <1>1 DEF Effect
  <2> QED
    BY <2>2, <2>3, <2>4 DEF r
<1>2. CASE r.kind = "duplicate"
  <2>1. DuplicateResult(c, r) = "applied"
    BY <1>2 DEF Accepted, r
  <2>2. DuplicateApplies(c, r) /\ Admissible(c, Duplicated(c, r))
    BY <2>1, AcceptedAdmissible
  <2>3. DuplicateSourceOk(c, r)
    BY <2>2 DEF DuplicateApplies
  <2>4. Duplicated(c, r) \in Contexts
    BY <1>2, <2>3, RequestKinds, DuplicatedType DEF r
  <2>5. Effect(r, c) = Duplicated(c, r)
    BY <1>2 DEF Effect
  <2> QED
    BY <2>2, <2>4, <2>5 DEF r
<1>3. CASE r.kind = "replace"
  <2>1. Admissible(c, r.next)
    BY <1>3 DEF Accepted, r
  <2>2. r.next \in Contexts
    BY <1>3, RequestKinds DEF r
  <2>3. Effect(r, c) = r.next
    BY <1>3 DEF Effect
  <2> QED
    BY <2>1, <2>2, <2>3 DEF r
<1> QED
  BY <1>1, <1>2, <1>3, RequestKinds DEF r

\* ActiveContext::new establishes the invariant.
LEMMA InitInv == Init => Inv
<1> SUFFICES ASSUME Init PROVE Inv
  OBVIOUS
<1>1. Initial \in Contexts /\ Prepared(Initial)
  BY InitialPrepared
<1>2. TypeOK
  BY <1>1 DEF Init, TypeOK, Digests
<1>3. HandlesConsistent /\ WritersSerialized
  BY DEF Init, HandlesConsistent, WritersSerialized
<1>4. ProtectedImmutable /\ PublishedPrepared
  BY <1>1 DEF Init, ProtectedImmutable, PublishedPrepared
<1>5. GenerationIdentifiesContext
  BY DEF Init, GenerationIdentifiesContext
<1> QED
  BY <1>2, <1>3, <1>4, <1>5 DEF Inv

\* What a step that is no stutter does: some thread reads, submits a
\* well-formed request, or moves on with its operation.
LEMMA StepCases ==
  ASSUME TypeOK, [Next]_vars, ~UNCHANGED vars
  PROVE  \E t \in Threads :
          \/ ReadTree(t)
          \/ \E r \in Requests :
               /\ Submit(t, r)
               /\ r.kind = "replace" => r.next \in Edits(tree[t])
          \/ Lock(t) \/ Validate(t) \/ Refuse(t) \/ LoadGeneration(t) \/ Store(t)
<1>1. PICK t \in Threads : \/ ReadTree(t)
                          \/ SubmitReplace(t)
                          \/ SubmitPatch(t)
                          \/ SubmitDuplicate(t)
                          \/ Step(t)
  BY DEF Next
<1>2. CASE SubmitReplace(t)
  <2>1. PICK next \in Edits(tree[t]) :
               Submit(t, [kind |-> "replace", next |-> next])
    BY <1>2 DEF SubmitReplace
  <2>2. tree[t] \in Contexts
    BY DEF TypeOK
  <2>3. next \in Contexts
    BY <2>1, <2>2, EditsType
  <2>4. [kind |-> "replace", next |-> next] \in Requests
    BY <2>3 DEF Requests, ReplaceRequests
  <2> QED
    BY <2>1, <2>4
<1>3. CASE SubmitPatch(t)
  <2>1. PICK r \in PatchesSeeing(snapshot.rules) : Submit(t, r)
    BY <1>3 DEF SubmitPatch
  <2>2. Digest(snapshot.rules) \in Digests
    BY DEF TypeOK, Digests
  <2>3. r \in Requests /\ r.kind = "ipatch"
    BY <2>1, <2>2 DEF PatchesSeeing, Requests, PatchRequests
  <2> QED
    BY <2>1, <2>3
<1>4. CASE SubmitDuplicate(t)
  <2>1. PICK r \in DuplicateRequests : Submit(t, r)
    BY <1>4 DEF SubmitDuplicate
  <2>2. r \in Requests /\ r.kind = "duplicate"
    BY <2>1 DEF DuplicateRequests, Requests
  <2> QED
    BY <2>1, <2>2
<1> QED
  BY <1>1, <1>2, <1>3, <1>4 DEF Step

\* Every action keeps the types.
LEMMA TypeStep ==
  ASSUME TypeOK, HandlesConsistent, [Next]_vars
  PROVE  TypeOK'
<1> USE DEF TypeOK
<1>1. CASE UNCHANGED vars
  BY <1>1 DEF vars
<1>2. CASE ~UNCHANGED vars
  <2>1. PICK t \in Threads :
          \/ ReadTree(t)
          \/ \E r \in Requests :
               /\ Submit(t, r)
               /\ r.kind = "replace" => r.next \in Edits(tree[t])
          \/ Lock(t) \/ Validate(t) \/ Refuse(t) \/ LoadGeneration(t) \/ Store(t)
    BY <1>2, StepCases
  <2>2. snapshot.rules \in Contexts /\ snapshot.generation \in Nat
    OBVIOUS
  <2>3. CASE ReadTree(t)
    BY <2>2, <2>3 DEF ReadTree, storeVariables, threadVariables, Digests
  <2>4. ASSUME NEW r \in Requests, Submit(t, r)
        PROVE  TypeOK'
    BY <2>4 DEF Submit, storeVariables, handleVariables
  <2>5. CASE Lock(t)
    BY <2>5 DEF Lock, handleVariables
  <2>6. CASE Validate(t)
    <3>1. Effect(request[t], snapshot.rules) \in Contexts
      BY <2>2, <2>6, EffectAdmissible DEF Validate, HandlesConsistent
    <3> QED
      BY <2>6, <3>1 DEF Validate, storeVariables, handleVariables
  <2>7. CASE Refuse(t)
    BY <2>7 DEF Refuse, handleVariables
  <2>8. CASE LoadGeneration(t)
    BY <2>2, <2>8 DEF LoadGeneration, storeVariables, handleVariables
  <2>9. CASE Store(t)
    <3>1. candidate[t] \in Contexts /\ Digest(candidate[t]) \in Digests
      BY DEF Digests
    <3>2. Initial \in Contexts
      BY InitialPrepared
    <3> QED
      BY <2>9, <3>1, <3>2 DEF Store, RememberReplaced, handleVariables
  <2> QED
    BY <2>1, <2>3, <2>4, <2>5, <2>6, <2>7, <2>8, <2>9
<1> QED
  BY <1>1, <1>2

\* Every action keeps what a handle remembers consistent.
LEMMA HandlesStep ==
  ASSUME TypeOK, HandlesConsistent, [Next]_vars
  PROVE  HandlesConsistent'
<1>1. CASE UNCHANGED vars
  BY <1>1 DEF vars, HandlesConsistent
<1>2. CASE ~UNCHANGED vars
  <2>1. PICK t \in Threads :
          \/ ReadTree(t)
          \/ \E r \in Requests :
               /\ Submit(t, r)
               /\ r.kind = "replace" => r.next \in Edits(tree[t])
          \/ Lock(t) \/ Validate(t) \/ Refuse(t) \/ LoadGeneration(t) \/ Store(t)
    BY <1>2, StepCases
  <2> DEFINE Ok(u) == /\ observed[u] = Digest(tree[u])
                      /\ pc[u] # "idle" => request[u] \in Requests
                      /\ pc[u] # "idle" /\ request[u].kind = "replace"
                           => request[u].next \in Edits(tree[u])
  <2> SUFFICES ASSUME NEW u \in Threads
               PROVE  Ok(u)'
    BY DEF HandlesConsistent
  <2>2. Ok(u)
    BY DEF HandlesConsistent
  <2>3. CASE ReadTree(t)
    BY <2>2, <2>3 DEF ReadTree, TypeOK, threadVariables
  <2>4. ASSUME NEW r \in Requests, Submit(t, r),
               r.kind = "replace" => r.next \in Edits(tree[t])
        PROVE  Ok(u)'
    BY <2>2, <2>4 DEF Submit, TypeOK, handleVariables
  <2>5. CASE Lock(t) \/ Validate(t) \/ LoadGeneration(t)
    BY <2>2, <2>5 DEF Lock, Validate, LoadGeneration, TypeOK, handleVariables
  <2>6. CASE Refuse(t)
    BY <2>2, <2>6 DEF Refuse, TypeOK, handleVariables
  <2>7. CASE Store(t)
    BY <2>2, <2>7 DEF Store, RememberReplaced, TypeOK, handleVariables
  <2> QED
    BY <2>1, <2>3, <2>4, <2>5, <2>6, <2>7
<1> QED
  BY <1>1, <1>2

\* The mutex keeps a validated candidate valid until it is stored.
LEMMA SerialStep ==
  ASSUME TypeOK, HandlesConsistent, WritersSerialized, [Next]_vars
  PROVE  WritersSerialized'
<1>1. CASE UNCHANGED vars
  BY <1>1 DEF vars, WritersSerialized, Accepted
<1>2. CASE ~UNCHANGED vars
  <2>1. PICK t \in Threads :
          \/ ReadTree(t)
          \/ \E r \in Requests :
               /\ Submit(t, r)
               /\ r.kind = "replace" => r.next \in Edits(tree[t])
          \/ Lock(t) \/ Validate(t) \/ Refuse(t) \/ LoadGeneration(t) \/ Store(t)
    BY <1>2, StepCases
  <2> DEFINE Holds(u) == pc[u] \in {"locked", "validated", "storing"} => writer = u
             Valid(u) == pc[u] \in {"validated", "storing"} =>
                           /\ Accepted(u, snapshot.rules)
                           /\ candidate[u] = Effect(request[u], snapshot.rules)
             Counts(u) == pc[u] = "storing" => nextGen[u] = snapshot.generation + 1
  <2> SUFFICES ASSUME NEW u \in Threads
               PROVE  Holds(u)' /\ Valid(u)' /\ Counts(u)'
    BY DEF WritersSerialized
  <2>2. Holds(u) /\ Valid(u) /\ Counts(u) /\ Holds(t) /\ Valid(t) /\ Counts(t)
    BY DEF WritersSerialized
  <2>3. CASE ReadTree(t)
    BY <2>2, <2>3 DEF ReadTree, TypeOK, threadVariables, storeVariables, Accepted
  <2>4. ASSUME NEW r \in Requests, Submit(t, r)
        PROVE  Holds(u)' /\ Valid(u)' /\ Counts(u)'
    BY <2>2, <2>4 DEF Submit, TypeOK, storeVariables, handleVariables, Accepted
  <2>5. CASE Lock(t)
    BY <2>2, <2>5, NobodyNoThread DEF Lock, TypeOK, handleVariables, Accepted
  <2>6. CASE Validate(t)
    BY <2>2, <2>6 DEF Validate, TypeOK, storeVariables, handleVariables, Accepted
  <2>7. CASE Refuse(t)
    BY <2>2, <2>7, NobodyNoThread DEF Refuse, TypeOK, handleVariables, Accepted
  <2>8. CASE LoadGeneration(t)
    BY <2>2, <2>8 DEF LoadGeneration, TypeOK, storeVariables, handleVariables, Accepted
  <2>9. CASE Store(t)
    BY <2>2, <2>9 DEF Store, TypeOK
  <2> QED
    BY <2>1, <2>3, <2>4, <2>5, <2>6, <2>7, <2>8, <2>9
<1> QED
  BY <1>1, <1>2

\* What Store publishes, and that nothing else changes the snapshot.
LEMMA Publication ==
  ASSUME TypeOK, HandlesConsistent, WritersSerialized, [Next]_vars
  PROVE  \/ UNCHANGED snapshot
         \/ \E t \in Threads :
              /\ Store(t)
              /\ request[t] \in Requests
              /\ Accepted(t, snapshot.rules)
              /\ snapshot' = [rules |-> Effect(request[t], snapshot.rules),
                              generation |-> snapshot.generation + 1]
<1>1. CASE UNCHANGED vars
  BY <1>1 DEF vars
<1>2. CASE ~UNCHANGED vars
  <2>1. PICK t \in Threads :
          \/ ReadTree(t)
          \/ \E r \in Requests :
               /\ Submit(t, r)
               /\ r.kind = "replace" => r.next \in Edits(tree[t])
          \/ Lock(t) \/ Validate(t) \/ Refuse(t) \/ LoadGeneration(t) \/ Store(t)
    BY <1>2, StepCases
  <2>2. CASE Store(t)
    <3>1. pc[t] = "storing"
      BY <2>2 DEF Store
    <3>2. /\ request[t] \in Requests
          /\ Accepted(t, snapshot.rules)
          /\ candidate[t] = Effect(request[t], snapshot.rules)
          /\ nextGen[t] = snapshot.generation + 1
      BY <3>1 DEF HandlesConsistent, WritersSerialized
    <3> QED
      BY <2>2, <3>2 DEF Store
  <2>3. CASE ~Store(t)
    BY <2>1, <2>3 DEF ReadTree, Submit, Lock, Validate, Refuse, LoadGeneration,
                      storeVariables
  <2> QED
    BY <2>2, <2>3
<1> QED
  BY <1>1, <1>2

\* No publication touches a protected rule or publishes an undecodable set.
LEMMA ProtectionStep ==
  ASSUME TypeOK, HandlesConsistent, WritersSerialized, [Next]_vars,
         ProtectedImmutable, PublishedPrepared
  PROVE  ProtectedImmutable' /\ PublishedPrepared'
<1>1. CASE UNCHANGED snapshot
  BY <1>1 DEF ProtectedImmutable, PublishedPrepared
<1>2. CASE ~UNCHANGED snapshot
  <2>1. PICK t \in Threads :
          /\ request[t] \in Requests
          /\ Accepted(t, snapshot.rules)
          /\ snapshot' = [rules |-> Effect(request[t], snapshot.rules),
                          generation |-> snapshot.generation + 1]
    BY <1>2, Publication
  <2> DEFINE c == snapshot.rules
             d == Effect(request[t], c)
  <2> HIDE DEF c, d
  <2>2. c \in Contexts
    BY DEF TypeOK, c
  <2>3. d \in Contexts /\ Admissible(c, d)
    BY <2>1, <2>2, EffectAdmissible DEF c, d
  <2>4. Prepared(d) /\ Enforce(c, d)
    BY <2>3 DEF Admissible
  <2>5. /\ Protected(d) = Protected(c)
        /\ \A id \in Protected(c) : d[id] = c[id]
    BY <2>2, <2>3, <2>4, EnforceExact
  <2>6. snapshot'.rules = d
    BY <2>1 DEF c, d
  <2>7. /\ Protected(c) = Protected(Initial)
        /\ \A id \in Protected(Initial) : c[id] = Initial[id]
    BY DEF ProtectedImmutable, c
  <2>8. ProtectedImmutable'
    BY <2>5, <2>6, <2>7 DEF ProtectedImmutable
  <2> QED
    BY <2>4, <2>6, <2>8 DEF PublishedPrepared
<1> QED
  BY <1>1, <1>2

\* Generations keep naming one context each.
LEMMA GenerationStep ==
  ASSUME TypeOK, HandlesConsistent, WritersSerialized, [Next]_vars,
         GenerationIdentifiesContext
  PROVE  GenerationIdentifiesContext'
<1>1. CASE UNCHANGED vars
  BY <1>1 DEF vars, GenerationIdentifiesContext
<1>2. CASE ~UNCHANGED vars
  <2>1. PICK t \in Threads :
          \/ ReadTree(t)
          \/ \E r \in Requests :
               /\ Submit(t, r)
               /\ r.kind = "replace" => r.next \in Edits(tree[t])
          \/ Lock(t) \/ Validate(t) \/ Refuse(t) \/ LoadGeneration(t) \/ Store(t)
    BY <1>2, StepCases
  <2>2. CASE ReadTree(t)
    BY <2>2 DEF ReadTree, GenerationIdentifiesContext, TypeOK, storeVariables
  <2>3. CASE \E r \in Requests : Submit(t, r)
    BY <2>3 DEF Submit, GenerationIdentifiesContext, storeVariables, handleVariables
  <2>4. CASE Lock(t) \/ Validate(t) \/ Refuse(t) \/ LoadGeneration(t)
    BY <2>4 DEF Lock, Validate, Refuse, LoadGeneration,
                GenerationIdentifiesContext, storeVariables, handleVariables
  <2>5. CASE Store(t)
    <3>1. nextGen[t] = snapshot.generation + 1
      BY <2>5 DEF Store, WritersSerialized
    <3>2. snapshot' = [rules |-> candidate[t], generation |-> snapshot.generation + 1]
      BY <2>5, <3>1 DEF Store
    <3>3. CASE request[t].kind = "replace"
      BY <2>5, <3>1, <3>2, <3>3
         DEF Store, RememberReplaced, GenerationIdentifiesContext, TypeOK
    <3>4. CASE request[t].kind # "replace"
      BY <2>5, <3>2, <3>4
         DEF Store, handleVariables, GenerationIdentifiesContext, TypeOK
    <3> QED
      BY <3>3, <3>4
  <2> QED
    BY <2>1, <2>2, <2>3, <2>4, <2>5
<1> QED
  BY <1>1, <1>2

\* Inv is inductive.
LEMMA InvStep == Inv /\ [Next]_vars => Inv'
  BY TypeStep, HandlesStep, SerialStep, ProtectionStep, GenerationStep DEF Inv

\* Inv is an invariant of ActiveContext.
LEMMA Invariance == Spec => []Inv
  BY InitInv, InvStep, PTL DEF Spec

\* Every state of every behaviour of the writers and readers is well typed;
\* in particular every published context is a context.
THEOREM TypeCorrect == Spec => []TypeOK
<1>1. Inv => TypeOK
  BY DEF Inv
<1> QED
  BY <1>1, Invariance, PTL

\* docs/COMPOSITION.md, "Protected rules cannot be changed or removed": no
\* interleaving of iPATCH, duplicate-rule and tree replacement, by any number
\* of threads, changes, removes or adds a protected rule.
THEOREM ProtectedForever == Spec => []ProtectedImmutable
<1>1. Inv => ProtectedImmutable
  BY DEF Inv
<1> QED
  BY <1>1, Invariance, PTL

\* Every published context can be decoded: PreparedContext::from_loaded
\* stands before every publication.
THEOREM AlwaysPrepared == Spec => []PublishedPrepared
<1>1. Inv => PublishedPrepared
  BY DEF Inv
<1> QED
  BY <1>1, Invariance, PTL

\* The mutex of ActiveContext serialises load, validation and publication.
THEOREM Serialized == Spec => []WritersSerialized
<1>1. Inv => WritersSerialized
  BY DEF Inv
<1> QED
  BY <1>1, Invariance, PTL

\* publish_locked never gives two contexts the same generation.
THEOREM GenerationsUnique == Spec => []GenerationIdentifiesContext
<1>1. Inv => GenerationIdentifiesContext
  BY DEF Inv
<1> QED
  BY <1>1, Invariance, PTL

-----------------------------------------------------------------------------
(* The threads implement the atomic store. *)

\* The tests that ContextStore instantiates are those of SchcContext.
LEMMA SameTests ==
  ASSUME NEW c, NEW d
  PROVE  /\ Abstract!Admissible(c, d) <=> Admissible(c, d)
         /\ Abstract!Protected(c) = Protected(c)
         /\ \A ns, id : Abstract!Accepts(ns, id) <=> Accepts(ns, id)
<1>1. \A p, id : Abstract!IsRuleIdPrefix(p, id) <=> IsRuleIdPrefix(p, id)
  BY DEF Abstract!IsRuleIdPrefix, IsRuleIdPrefix
<1>2. \A a, b : Abstract!Overlaps(a, b) <=> Overlaps(a, b)
  BY <1>1 DEF Abstract!Overlaps, Overlaps
<1>3. \A id : Abstract!IsRuleId(id) <=> IsRuleId(id)
  BY Zenon DEF Abstract!IsRuleId, IsRuleId, Abstract!MaxRuleIdLength,
               MaxRuleIdLength
<1>4. \A ns : Abstract!IsNamespace(ns) <=> IsNamespace(ns)
  BY <1>3 DEF Abstract!IsNamespace, IsNamespace, Abstract!MaxRuleIdLength,
              MaxRuleIdLength
<1>5. \A ns, id : Abstract!Accepts(ns, id) <=> Accepts(ns, id)
  BY <1>1, <1>4 DEF Abstract!Accepts, Accepts
<1>6. \A ns, id : Abstract!Collides(ns, id) <=> Collides(ns, id)
  BY <1>2, <1>5 DEF Abstract!Collides, Collides
<1>7. \A ids : Abstract!PrefixFree(ids) <=> PrefixFree(ids)
  BY <1>2 DEF Abstract!PrefixFree, PrefixFree
<1>8. Abstract!Prepared(d) <=> Prepared(d)
  BY <1>6, <1>7 DEF Abstract!Prepared, Prepared
<1>9. Abstract!Protected(c) = Protected(c) /\ Abstract!Protected(d) = Protected(d)
  BY DEF Abstract!Protected, Protected
<1>10. Abstract!Enforce(c, d) <=> Enforce(c, d)
  <2>1. \A S : Abstract!Cardinality(S) = Cardinality(S)
    BY Zenon DEF Abstract!Cardinality, Cardinality, Abstract!IsFiniteSet, IsFiniteSet
  <2> QED
    BY <1>9, <2>1 DEF Abstract!Enforce, Enforce
<1> QED
  BY <1>5, <1>8, <1>9, <1>10 DEF Abstract!Admissible, Admissible

\* So are the operations.
LEMMA SameOperations ==
  ASSUME NEW c, NEW r
  PROVE  /\ Abstract!PatchCode(c, r) = PatchCode(c, r)
         /\ Abstract!Patched(c, r) = Patched(c, r)
         /\ Abstract!PatchesSeeing(c) = PatchesSeeing(c)
         /\ Abstract!DuplicateResult(c, r) = DuplicateResult(c, r)
         /\ Abstract!Duplicated(c, r) = Duplicated(c, r)
         /\ Abstract!DuplicateRequests = DuplicateRequests
         /\ Abstract!Edits(c) = Edits(c)
<1>1. Abstract!Patched(c, r) = Patched(c, r)
  BY DEF Abstract!Patched, Patched
<1>2. /\ Abstract!PatchesSeeing(c) = PatchesSeeing(c)
      /\ Abstract!DuplicateRequests = DuplicateRequests
  BY DEF Abstract!PatchesSeeing, PatchesSeeing,
         Abstract!DuplicateRequests, DuplicateRequests,
         Abstract!Overrides, Overrides
<1>3. Abstract!Copied(c, r) = Copied(c, r)
  BY DEF Abstract!Copied, Copied
<1>4. Abstract!Duplicated(c, r) = Duplicated(c, r)
  BY <1>3 DEF Abstract!Duplicated, Duplicated
<1>5. Abstract!Edits(c) = Edits(c)
  <2>1. \A e, rule : Abstract!WithRule(c, e, rule) = WithRule(c, e, rule)
    BY DEF Abstract!WithRule, WithRule
  <2>2. \A e : Abstract!WithoutRule(c, e) = WithoutRule(c, e)
    BY DEF Abstract!WithoutRule, WithoutRule
  <2> QED
    BY <2>1, <2>2 DEF Abstract!Edits, Edits
<1>6. Abstract!PatchApplies(c, r) <=> PatchApplies(c, r)
  BY <1>1, SameTests DEF Abstract!PatchApplies, PatchApplies
<1>7. Abstract!PatchCode(c, r) = PatchCode(c, r)
  BY <1>6 DEF Abstract!PatchCode, PatchCode, Abstract!IfMatchHolds, IfMatchHolds
<1>8. Abstract!DuplicateSourceOk(c, r) <=> DuplicateSourceOk(c, r)
  BY SameTests DEF Abstract!DuplicateSourceOk, DuplicateSourceOk
<1>9. Abstract!DuplicateApplies(c, r) <=> DuplicateApplies(c, r)
  BY <1>4, <1>8, SameTests DEF Abstract!DuplicateApplies, DuplicateApplies
<1>10. Abstract!DuplicateResult(c, r) = DuplicateResult(c, r)
  BY <1>3, <1>9 DEF Abstract!DuplicateResult, DuplicateResult
<1> QED
  BY <1>1, <1>2, <1>4, <1>5, <1>7, <1>10

\* A publication is one step of the store, made on the content it replaces.
LEMMA RefinementStep ==
  ASSUME Inv, [Next]_vars
  PROVE  [Abstract!StoreNext]_(Abstract!storeVars)
<1> USE DEF Inv
<1>1. CASE UNCHANGED snapshot
  BY <1>1 DEF Abstract!storeVars
<1>2. CASE ~UNCHANGED snapshot
  <2>1. PICK t \in Threads :
          /\ Store(t)
          /\ request[t] \in Requests
          /\ Accepted(t, snapshot.rules)
          /\ snapshot' = [rules |-> Effect(request[t], snapshot.rules),
                          generation |-> snapshot.generation + 1]
    BY <1>2, Publication
  <2> DEFINE r == request[t]
             c == snapshot.rules
  <2> HIDE DEF r, c
  <2>2. /\ snapshot'.generation = snapshot.generation + 1
        /\ snapshot'.rules = Effect(r, c)
    BY <2>1 DEF r, c
  <2>3. CASE r.kind = "ipatch"
    <3>1. PatchCode(c, r) = "2.04" /\ r \in PatchRequests
      BY <2>1, <2>3, RequestKinds DEF Accepted, r, c
    <3>2. r \in PatchesSeeing(c)
      BY <3>1 DEF PatchCode, IfMatchHolds, PatchRequests, PatchesSeeing
    <3>3. snapshot'.rules = Patched(c, r)
      BY <2>2, <2>3 DEF Effect
    <3>4. Abstract!StorePatch(r)
      BY <3>1, <3>3, SameOperations DEF Abstract!StorePatch, c
    <3> QED
      BY <2>2, <3>2, <3>4, SameOperations DEF Abstract!StoreNext, c
  <2>4. CASE r.kind = "duplicate"
    <3>1. DuplicateResult(c, r) = "applied" /\ r \in DuplicateRequests
      BY <2>1, <2>4, RequestKinds DEF Accepted, r, c
    <3>2. snapshot'.rules = Duplicated(c, r)
      BY <2>2, <2>4 DEF Effect
    <3>3. Abstract!StoreDuplicate(r)
      BY <3>1, <3>2, SameOperations DEF Abstract!StoreDuplicate, c
    <3> QED
      BY <2>2, <3>1, <3>3, SameOperations DEF Abstract!StoreNext, c
  <2>5. CASE r.kind = "replace"
    <3>1. observed[t] = Digest(c) /\ Admissible(c, r.next)
      BY <2>1, <2>5 DEF Accepted, r, c
    <3>2. observed[t] = Digest(tree[t])
      BY DEF HandlesConsistent
    <3>3. tree[t] \in Contexts /\ c \in Contexts
      BY DEF TypeOK, c
    <3>4. tree[t] = c
      BY <3>1, <3>2, <3>3, DigestInjective
    <3>5. pc[t] # "idle"
      BY <2>1 DEF Store
    <3>6. r.next \in Edits(c)
      BY <2>5, <3>4, <3>5 DEF HandlesConsistent, r
    <3>7. snapshot'.rules = r.next
      BY <2>2, <2>5 DEF Effect
    <3>8. Abstract!StoreReplace(r.next)
      BY <3>1, <3>7, SameTests DEF Abstract!StoreReplace, c
    <3> QED
      BY <2>2, <3>6, <3>8, SameOperations DEF Abstract!StoreNext, c
  <2> QED
    BY <2>1, <2>3, <2>4, <2>5, RequestKinds DEF r
<1> QED
  BY <1>1, <1>2

\* The mutex, the digest a backend handle remembers and the two halves of
\* publish_locked together make every writer atomic: ActiveContext implements
\* ContextStore, so no update is lost.
THEOREM Refinement == Spec => ImplementsContextStore
<1>1. Init => Abstract!StoreInit
  BY DEF Init, Abstract!StoreInit
<1>2. Inv /\ [Next]_vars => [Abstract!StoreNext]_(Abstract!storeVars)
  BY RefinementStep
<1> QED
  BY <1>1, <1>2, Invariance, PTL DEF Spec, ImplementsContextStore, Abstract!StoreSpec
=============================================================================
