---------------------------- MODULE ActiveContext ----------------------------
(***************************************************************************)
(* ActiveContext (context.rs): the immutable snapshot a process publishes, *)
(* the writer mutex, and the three kinds of writer that contend for it:    *)
(*   - rustconf request handlers, each through an ActiveContextBackend of  *)
(*     its own that remembers the digest of the tree it read;              *)
(*   - targeted iPATCH (apply_target_ipatch), with or without If-Match;    *)
(*   - duplicate-rule (apply_duplicate_operation).                         *)
(* Readers take snapshots at any time and are never blocked.               *)
(*                                                                         *)
(* A thread runs one operation at a time.  Between two of its steps any    *)
(* other thread may move: the lock is the only thing that orders them.     *)
(* Loading the snapshot and validating a candidate against it is one step, *)
(* since the validation reads nothing shared; loading the generation and   *)
(* storing the new snapshot (publish_locked) are two.                      *)
(***************************************************************************)
EXTENDS SchcContext

CONSTANTS
  Threads,
  Nobody,          \* the writer mutex is free
  NoRequest,
  MaxGeneration    \* bound: no operation starts beyond this generation

ASSUME NobodyNoThread == Nobody \notin Threads

ASSUME BoundIsNat == MaxGeneration \in Nat

VARIABLES
  snapshot,    \* the published tuple: rules and generation
  writer,      \* holder of the writer mutex
  pc,          \* per thread: where in its operation it is
  request,     \* per thread: the operation's arguments
  candidate,   \* per thread: the prepared context it is about to publish
  nextGen,     \* per thread: the generation publish_locked computed
  tree,        \* per backend handle: the tree its user works from
  observed,    \* per backend handle: the digest it recorded
  readGen      \* history: generation of the snapshot in tree

storeVariables == <<snapshot, writer>>
threadVariables == <<pc, request, candidate, nextGen>>
handleVariables == <<tree, observed, readGen>>
vars == <<snapshot, writer, pc, request, candidate, nextGen,
          tree, observed, readGen>>

ReplaceRequests == [kind : {"replace"}, next : Contexts]

Requests == PatchRequests \cup DuplicateRequests \cup ReplaceRequests

\* ActiveContext::new, and one backend handle per thread.
Init ==
  /\ snapshot = [rules |-> Initial, generation |-> 1]
  /\ writer = Nobody
  /\ pc = [t \in Threads |-> "idle"]
  /\ request = [t \in Threads |-> NoRequest]
  /\ candidate = [t \in Threads |-> Initial]
  /\ nextGen = [t \in Threads |-> 0]
  /\ tree = [t \in Threads |-> Initial]
  /\ observed = [t \in Threads |-> Digest(Initial)]
  /\ readGen = [t \in Threads |-> 1]

-----------------------------------------------------------------------------
\* Backend::read_tree: the handle records the digest of what it returns.
ReadTree(t) ==
  /\ pc[t] = "idle"
  /\ tree' = [tree EXCEPT ![t] = snapshot.rules]
  /\ observed' = [observed EXCEPT ![t] = Digest(snapshot.rules)]
  /\ readGen' = [readGen EXCEPT ![t] = snapshot.generation]
  /\ UNCHANGED <<storeVariables, threadVariables>>

\* An operation arrives and its thread asks for the writer lock.
Submit(t, r) ==
  /\ pc[t] = "idle"
  /\ snapshot.generation < MaxGeneration
  /\ pc' = [pc EXCEPT ![t] = "waiting"]
  /\ request' = [request EXCEPT ![t] = r]
  /\ UNCHANGED <<storeVariables, candidate, nextGen, handleVariables>>

\* A handler replaces the tree it read by one it derived from it.
SubmitReplace(t) ==
  \E next \in Edits(tree[t]) :
     Submit(t, [kind |-> "replace", next |-> next])

\* A client patches a rule, perhaps only if the context is the one it saw.
SubmitPatch(t) ==
  \E r \in PatchesSeeing(snapshot.rules) : Submit(t, r)

SubmitDuplicate(t) ==
  \E r \in DuplicateRequests : Submit(t, r)

\* Fault variant of Lock: the writer does not wait for the mutex.
LockUnguarded(t) ==
  /\ pc[t] = "waiting"
  /\ writer' = t
  /\ pc' = [pc EXCEPT ![t] = "locked"]
  /\ UNCHANGED <<snapshot, request, candidate, nextGen, handleVariables>>

Lock(t) ==
  /\ pc[t] = "waiting"
  /\ writer = Nobody
  /\ writer' = t
  /\ pc' = [pc EXCEPT ![t] = "locked"]
  /\ UNCHANGED <<snapshot, request, candidate, nextGen, handleVariables>>

\* Fault variant of Accepted: a replacement may be stale.
AcceptedUnobserved(t, ctx) ==
  LET r == request[t] IN
  \/ r.kind = "ipatch" /\ PatchCode(ctx, r) = "2.04"
  \/ r.kind = "duplicate" /\ DuplicateResult(ctx, r) = "applied"
  \/ r.kind = "replace" /\ Admissible(ctx, r.next)

\* The operation accepts the current context ctx, given what t's handle
\* observed.
Accepted(t, ctx) ==
  LET r == request[t] IN
  \/ r.kind = "ipatch" /\ PatchCode(ctx, r) = "2.04"
  \/ r.kind = "duplicate" /\ DuplicateResult(ctx, r) = "applied"
  \/ /\ r.kind = "replace"
     /\ observed[t] = Digest(ctx)
     /\ Admissible(ctx, r.next)

\* The context the operation makes of ctx.
Effect(r, ctx) ==
  CASE r.kind = "ipatch"    -> Patched(ctx, r)
    [] r.kind = "duplicate" -> Duplicated(ctx, r)
    [] r.kind = "replace"   -> r.next

\* Under the lock: load the snapshot, build the candidate, validate it.
Validate(t) ==
  /\ pc[t] = "locked"
  /\ Accepted(t, snapshot.rules)
  /\ candidate' = [candidate EXCEPT ![t] = Effect(request[t], snapshot.rules)]
  /\ pc' = [pc EXCEPT ![t] = "validated"]
  /\ UNCHANGED <<storeVariables, request, nextGen, handleVariables>>

\* Fault variant of Refuse: an early return keeps the guard.
RefuseKeepingLock(t) ==
  /\ pc[t] = "locked"
  /\ ~Accepted(t, snapshot.rules)
  /\ pc' = [pc EXCEPT ![t] = "idle"]
  /\ request' = [request EXCEPT ![t] = NoRequest]
  /\ UNCHANGED <<storeVariables, candidate, nextGen, handleVariables>>

\* Every early return drops the lock guard and publishes nothing.
Refuse(t) ==
  /\ pc[t] = "locked"
  /\ ~Accepted(t, snapshot.rules)
  /\ writer' = Nobody
  /\ pc' = [pc EXCEPT ![t] = "idle"]
  /\ request' = [request EXCEPT ![t] = NoRequest]
  /\ UNCHANGED <<snapshot, candidate, nextGen, handleVariables>>

\* publish_locked, first half: the next generation from the live snapshot.
LoadGeneration(t) ==
  /\ pc[t] = "validated"
  /\ nextGen' = [nextGen EXCEPT ![t] = snapshot.generation + 1]
  /\ pc' = [pc EXCEPT ![t] = "storing"]
  /\ UNCHANGED <<storeVariables, request, candidate, handleVariables>>

\* The backend handle remembers what it has just published.
RememberReplaced(t) ==
  /\ tree' = [tree EXCEPT ![t] = candidate[t]]
  /\ observed' = [observed EXCEPT ![t] = Digest(candidate[t])]
  /\ readGen' = [readGen EXCEPT ![t] = nextGen[t]]

\* publish_locked, second half, and the return that drops the guard.
Store(t) ==
  /\ pc[t] = "storing"
  /\ snapshot' = [rules |-> candidate[t], generation |-> nextGen[t]]
  /\ writer' = Nobody
  /\ IF request[t].kind = "replace"
       THEN RememberReplaced(t)
       ELSE UNCHANGED handleVariables
  /\ pc' = [pc EXCEPT ![t] = "idle"]
  /\ request' = [request EXCEPT ![t] = NoRequest]
  /\ candidate' = [candidate EXCEPT ![t] = Initial]
  /\ nextGen' = [nextGen EXCEPT ![t] = 0]

Step(t) ==
  Lock(t) \/ Validate(t) \/ Refuse(t) \/ LoadGeneration(t) \/ Store(t)

Next ==
  \E t \in Threads :
    \/ ReadTree(t)
    \/ SubmitReplace(t)
    \/ SubmitPatch(t)
    \/ SubmitDuplicate(t)
    \/ Step(t)

Spec == Init /\ [][Next]_vars

\* A thread that holds the lock keeps running.  Nothing is assumed of which
\* waiting thread the mutex admits, nor that clients submit anything.
FairSpec ==
  Spec /\ \A t \in Threads :
            WF_vars(Validate(t) \/ Refuse(t) \/ LoadGeneration(t) \/ Store(t))

-----------------------------------------------------------------------------
(* Properties. *)

TypeOK ==
  /\ snapshot \in [rules : Contexts, generation : Nat]
  /\ writer \in Threads \cup {Nobody}
  /\ pc \in [Threads -> {"idle", "waiting", "locked", "validated", "storing"}]
  /\ request \in [Threads -> Requests \cup {NoRequest}]
  /\ candidate \in [Threads -> Contexts]
  /\ nextGen \in [Threads -> Nat]
  /\ tree \in [Threads -> Contexts]
  /\ observed \in [Threads -> Digests]
  /\ readGen \in [Threads -> Nat]

\* docs/COMPOSITION.md: "Protected rules cannot be changed or removed from a
\* candidate context."  Over any interleaving of operations, the protected
\* rules of the published context are the ones the process started with, and
\* no rule becomes protected.
ProtectedImmutable ==
  /\ Protected(snapshot.rules) = Protected(Initial)
  /\ \A id \in Protected(Initial) : snapshot.rules[id] = Initial[id]

\* Every published context is one the SCHC runtime can decode: prefix-free
\* RuleIDs that respect the dynamic namespace.
PublishedPrepared == Prepared(snapshot.rules)

\* What a writer validated stays valid until it publishes: at most one thread
\* is between lock and unlock, its request is still acceptable to the live
\* snapshot, its candidate is the request's effect on that snapshot, and the
\* generation it computed is the next one.
WritersSerialized ==
  \A t \in Threads :
    /\ pc[t] \in {"locked", "validated", "storing"} => writer = t
    /\ pc[t] \in {"validated", "storing"} =>
         /\ Accepted(t, snapshot.rules)
         /\ candidate[t] = Effect(request[t], snapshot.rules)
    /\ pc[t] = "storing" => nextGen[t] = snapshot.generation + 1

\* A handle's digest is the one of its tree, a running operation has its
\* arguments, and a pending replacement is an edit of the handle's tree.
HandlesConsistent ==
  \A t \in Threads :
    /\ observed[t] = Digest(tree[t])
    /\ pc[t] # "idle" => request[t] \in Requests
    /\ pc[t] # "idle" /\ request[t].kind = "replace"
         => request[t].next \in Edits(tree[t])

\* A generation names one context: handles that read the same generation
\* hold the same tree, and no handle holds a generation from the future
\* (the core detects its own publication by comparing generations).
GenerationIdentifiesContext ==
  \A t \in Threads :
    /\ readGen[t] <= snapshot.generation
    /\ readGen[t] = snapshot.generation => tree[t] = snapshot.rules
    /\ \A u \in Threads : readGen[t] = readGen[u] => tree[t] = tree[u]

\* The inductive invariant behind the safety properties.
Inv ==
  /\ TypeOK
  /\ HandlesConsistent
  /\ WritersSerialized
  /\ ProtectedImmutable
  /\ PublishedPrepared
  /\ GenerationIdentifiesContext

\* The threads together behave as the atomic versioned store: no publication
\* overwrites one its operation did not see (no lost update), If-Match
\* patches hit the context they name, and each publication counts once.
Abstract == INSTANCE ContextStore
              WITH rules <- snapshot.rules, generation <- snapshot.generation

ImplementsContextStore == Abstract!StoreSpec

\* Every path through a writer, the failing ones included, releases the lock:
\* the mutex is free again and again.
LockReleased == []<>(writer = Nobody)

\* The documentation of ActiveContext::backend, taken literally: "Each
\* backend handle tracks the snapshot it read and rejects a stale
\* replacement, so concurrent request handlers cannot overwrite a later
\* publication."  A replacement is stored only over the very publication the
\* handle read.
BackendSeesLatestPublication ==
  [][\A t \in Threads :
       Store(t) /\ request[t].kind = "replace"
         => readGen[t] = snapshot.generation]_vars
=============================================================================
