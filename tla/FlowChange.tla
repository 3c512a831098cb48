----------------------------- MODULE FlowChange -----------------------------
(***************************************************************************)
(* InspectionService::flow_change (management.rs): plan the duplicate-rule *)
(* operation that makes a flow compressible, or report the rule that       *)
(* already compresses it.  The planner takes no lock.  It keeps one        *)
(* snapshot of the rules, but each link it encodes through and each        *)
(* payload it builds reads the active context again, which other threads   *)
(* replace meanwhile.  A plan may be installed at any time after it was    *)
(* made.                                                                   *)
(*                                                                         *)
(* A packet stands for a packet and its direction.  Values that the        *)
(* matching operator of an entry does not tell apart count as one value,   *)
(* so a target matches the value of its field if the two are equal.        *)
(***************************************************************************)
EXTENDS Compression, Sequences, FiniteSetsExt

CONSTANTS
  FlowEntries,    \* the entries of the seven fields that identify a flow
  Field(_, _),    \* Field(packet, entry): the value the planner reads there
  NoField,        \* a field the planner does not know
  HasPayload(_),  \* HasPayload(rule): the rule describes the application payload
  Settable(_),    \* Settable(rule): the entries that have a single target value,
                  \* of a fixed length of at most 64 bits
  WireBytes(_),   \* the bytes of a duplicate-rule frame
  NoFlow,
  NoOutcome,
  NoDestination,
  MaxChanges      \* bound on the publications of other threads

ASSUME FlowEntriesAssumption == FlowEntries \subseteq Entries

ASSUME NoFieldAssumption == NoField \notin TargetValues \cup {NoTarget}

ASSUME FieldAssumption ==
  \A p \in Packets, e \in Entries : Field(p, e) \in TargetValues \cup {NoField}

\* Contexts and requests may name any leaf of the namespace.
ASSUME NamespaceLeaves ==
  Namespace # NoNamespace =>
    \A leaf \in RuleIdsUpTo(Max(Namespace.lengths)) :
      Accepts(Namespace, leaf) => leaf \in RuleIds

ASSUME EntriesFinite == IsFiniteSet(Entries)

ASSUME WireBytesAssumption == \A r \in DuplicateRequests : WireBytes(r) \in Nat

ASSUME MaxChangesAssumption == MaxChanges \in Nat

VARIABLES
  active,       \* the active context
  phase,        \* where the planner stands
  flow,         \* the packet it plans for
  base,         \* its snapshot of the rules
  todo,         \* parents of the current loop, in context order
  destination,  \* the RuleID allocated for the copy
  candidates,   \* requests that passed every check
  outcome,      \* what the planner returned
  seen,         \* history: the contexts active while it planned
  changes       \* publications of other threads

plannerVariables == <<flow, base, todo, destination, candidates, outcome>>
vars == <<active, phase, flow, base, todo, destination, candidates, outcome,
          seen, changes>>

Allocation == INSTANCE RuleIdAllocation
  WITH Namespaces <- {Namespace}, StaticIds <- {}, MaxRules <- 0,
       namespace <- Namespace, occupied <- DOMAIN active

Init ==
  /\ active = Initial
  /\ phase = "idle"
  /\ flow = NoFlow
  /\ base = Initial
  /\ todo = <<>>
  /\ destination = NoDestination
  /\ candidates = {}
  /\ outcome = NoOutcome
  /\ seen = {}
  /\ changes = 0

-----------------------------------------------------------------------------
(* What the planner computes from a rule and the packet. *)

\* The rules of a snapshot in canonical order.
RuleOrder(a, b) == a.length < b.length \/ (a.length = b.length /\ a.value < b.value)

\* has_application_payload, has_complete_flow_fields and the checks on nature
\* and protection.
Eligible(ctx) ==
  {id \in DOMAIN ctx \ Protected(ctx) :
     /\ HasPayload(ctx[id])
     /\ \A e \in FlowEntries : ctx[id].tv[e] \in TargetValues}

\* The entries that restrict the packets a rule matches.
Restricted(rule) == {e \in Entries : rule.tv[e] # NoTarget}

\* flow_overrides returns Some: the planner knows every restricted field, and
\* can set each one that does not match.
Readable(rule, p) ==
  \A e \in Restricted(rule) :
    /\ Field(p, e) # NoField
    /\ rule.tv[e] # Field(p, e) => e \in Settable(rule)

\* flow_overrides: the packet's value for every entry it does not match.
FlowOverrides(rule, p) ==
  [e \in {d \in Restricted(rule) : rule.tv[d] # Field(p, d)} |-> Field(p, e)]

\* The rules that either loop looks at.
Considered(ctx, p) == {id \in Eligible(ctx) : Readable(ctx[id], p)}

\* Parents of the snapshot that need overrides, and those that need none.
Parents(ctx, p) == {id \in Considered(ctx, p) : DOMAIN FlowOverrides(ctx[id], p) # {}}

Matched(ctx, p) == {id \in Considered(ctx, p) : DOMAIN FlowOverrides(ctx[id], p) = {}}

\* The planner reads a packet as compression does, in the fields it knows.
ASSUME FieldsAgree ==
  \A rule \in Rules, p \in Packets : Matches(rule, p) =>
    \A e \in Restricted(rule) : Field(p, e) \in {NoField, rule.tv[e]}

\* A target value restricts what a rule matches and does nothing else: a
\* rule with fewer of them matches the same packets.
ASSUME TargetsOnlyRestrict ==
  \A rule, fewer \in Rules, p \in Packets :
    /\ Matches(rule, p)
    /\ fewer.nature = rule.nature
    /\ \A e \in Entries : fewer.tv[e] \in {NoTarget, rule.tv[e]}
    => Matches(fewer, p)

\* Each override takes its place in the payload of the request.
ASSUME OverridesCost ==
  \A r, fewer \in DuplicateRequests :
    /\ fewer.source = r.source /\ fewer.destination = r.destination
    /\ \A e \in DOMAIN fewer.overrides :
         e \in DOMAIN r.overrides /\ fewer.overrides[e] = r.overrides[e]
    => WireBytes(fewer) <= WireBytes(r)

Request(ctx, id, dest, p) ==
  [kind |-> "duplicate", source |-> id, destination |-> dest,
   overrides |-> FlowOverrides(ctx[id], p)]

\* The rule that compresses the packet as application traffic.
Chosen(ctx, p) == Select(RulesFor(ctx, "application"), p)

\* Fault variant of Reported: that the packet encodes at all is enough.
ReportedAny(ctx, id, p) == Encodes(ctx, "application", p)

\* existing_application_match accepts the rule.
Reported(ctx, id, p) == Encodes(ctx, "application", p) /\ Chosen(ctx, p) = id


\* The expected tree can be built and prepared and encodes the packet.
Usable(ctx, r, p) ==
  /\ DuplicateSourceOk(ctx, r)
  /\ r.source # r.destination
  /\ Prepared(Duplicated(ctx, r))
  /\ Encodes(Duplicated(ctx, r), "application", p)

\* Fault variant of Ranked: the bytes on the wire are left out.
RankedByOverrides(r, s) ==
  LET key(q) == <<Cardinality(DOMAIN q.overrides), q.source.value, q.source.length>>
      differing == {i \in 1..3 : key(r)[i] # key(s)[i]} IN
  differing = {} \/ key(r)[Min(differing)] < key(s)[Min(differing)]

\* The ranking: bytes on the wire, changed entries, source selector.
Ranked(r, s) ==
  LET key(q) == <<WireBytes(q), Cardinality(DOMAIN q.overrides),
                  q.source.value, q.source.length>>
      differing == {i \in 1..4 : key(r)[i] # key(s)[i]} IN
  differing = {} \/ key(r)[Min(differing)] < key(s)[Min(differing)]

Best(requests) == CHOOSE r \in requests : \A s \in requests : Ranked(r, s)

-----------------------------------------------------------------------------
(* The planner. *)

Already(id) == [kind |-> "already", rule |-> id]
Plan(r) == [kind |-> "plan", request |-> r]
Error(reason) == [kind |-> reason]

\* The RuleIDs in that order.
Sorted(ids) ==
  CHOOSE s \in [1..Cardinality(ids) -> ids] :
    \A i, j \in DOMAIN s : i < j => RuleOrder(s[i], s[j])

\* flow_change: the namespace of a first snapshot.
Begin(p) ==
  /\ phase = "idle"
  /\ flow' = p
  /\ seen' = {active}
  /\ outcome' = IF Namespace = NoNamespace
                  THEN Error("no namespace") ELSE NoOutcome
  /\ phase' = IF Namespace = NoNamespace THEN "idle" ELSE "opened"
  /\ UNCHANGED <<active, base, todo, destination, candidates, changes>>

\* flow_change_impl: the snapshot the planner keeps.
Inspect ==
  /\ phase = "opened"
  /\ phase' = "matching"
  /\ base' = active
  /\ todo' = Sorted(Matched(active, flow))
  /\ UNCHANGED <<active, flow, destination, candidates, outcome, seen, changes>>

\* Fault variant of MatchNext: the loop ends with the first rule that is not
\* taken.
MatchNextBreaks ==
  /\ phase = "matching"
  /\ todo # <<>>
  /\ \/ /\ Reported(active, Head(todo), flow)
        /\ outcome' = Already(Head(todo))
        /\ phase' = "idle"
        /\ UNCHANGED todo
     \/ /\ ~Reported(active, Head(todo), flow)
        /\ todo' = <<>>
        /\ UNCHANGED <<phase, outcome>>
  /\ UNCHANGED <<active, flow, base, destination, candidates, seen, changes>>

\* existing_application_match: one turn, which encodes with the live context.
MatchNext ==
  /\ phase = "matching"
  /\ todo # <<>>
  /\ \/ /\ Reported(active, Head(todo), flow)
        /\ outcome' = Already(Head(todo))
        /\ phase' = "idle"
        /\ UNCHANGED todo
     \/ /\ ~Reported(active, Head(todo), flow)
        /\ todo' = Tail(todo)
        /\ UNCHANGED <<phase, outcome>>
  /\ UNCHANGED <<active, flow, base, destination, candidates, seen, changes>>

\* Fault variant of AllocateDestination: it looks at the live context.
AllocateDestinationLive ==
  LET result == Allocation!Allocate(Namespace, DOMAIN active) IN
  /\ phase = "matching"
  /\ todo = <<>>
  /\ \/ /\ result.kind = "allocated"
        /\ destination' = result.id
        /\ todo' = Sorted(Parents(base, flow))
        /\ candidates' = {}
        /\ phase' = "costing"
        /\ UNCHANGED outcome
     \/ /\ result.kind # "allocated"
        /\ outcome' = Error(result.kind)
        /\ phase' = "idle"
        /\ UNCHANGED <<destination, todo, candidates>>
  /\ UNCHANGED <<active, flow, base, seen, changes>>

\* No rule matches already: allocate the destination.
AllocateDestination ==
  LET result == Allocation!Allocate(Namespace, DOMAIN base) IN
  /\ phase = "matching"
  /\ todo = <<>>
  /\ \/ /\ result.kind = "allocated"
        /\ destination' = result.id
        /\ todo' = Sorted(Parents(base, flow))
        /\ candidates' = {}
        /\ phase' = "costing"
        /\ UNCHANGED outcome
     \/ /\ result.kind # "allocated"
        /\ outcome' = Error(result.kind)
        /\ phase' = "idle"
        /\ UNCHANGED <<destination, todo, candidates>>
  /\ UNCHANGED <<active, flow, base, seen, changes>>

\* duplicate_rule_wire_bytes, which builds the request from the live context;
\* a parent that fails is skipped.
CostNext ==
  LET r == Request(base, Head(todo), destination, flow) IN
  /\ phase = "costing"
  /\ todo # <<>>
  /\ \/ /\ Builds(active, r)
        /\ phase' = "building"
        /\ UNCHANGED todo
     \/ /\ ~Builds(active, r)
        /\ todo' = Tail(todo)
        /\ UNCHANGED phase
  /\ UNCHANGED <<active, flow, base, destination, candidates, outcome, seen, changes>>

\* duplicate_rule_payload, again from the live context, and the trial of the
\* candidate on the snapshot.
BuildNext ==
  LET r == Request(base, Head(todo), destination, flow) IN
  /\ phase = "building"
  /\ candidates' = IF Builds(active, r) /\ Usable(base, r, flow)
                     THEN candidates \cup {r} ELSE candidates
  /\ todo' = Tail(todo)
  /\ phase' = "costing"
  /\ UNCHANGED <<active, flow, base, destination, outcome, seen, changes>>

\* Return the first candidate of the ranking.
Conclude ==
  /\ phase = "costing"
  /\ todo = <<>>
  /\ outcome' = IF candidates = {} THEN Error("unrepresentable")
                ELSE Plan(Best(candidates))
  /\ phase' = "idle"
  /\ UNCHANGED <<active, flow, base, todo, destination, candidates, seen, changes>>

-----------------------------------------------------------------------------
(* The other threads, and the caller who installs the plan. *)

Change ==
  /\ changes < MaxChanges
  /\ changes' = changes + 1
  /\ active' \in Publications(active)
  /\ seen' = IF phase = "idle" THEN seen ELSE seen \cup {active'}
  /\ UNCHANGED <<phase, plannerVariables>>

\* apply_duplicate_operation with the planned request.
Install ==
  /\ phase = "idle"
  /\ outcome # NoOutcome /\ outcome.kind = "plan"
  /\ DuplicateResult(active, outcome.request) = "applied"
  /\ active' = Duplicated(active, outcome.request)
  /\ UNCHANGED <<phase, plannerVariables, seen, changes>>

Next ==
  \/ \E p \in Packets : Begin(p)
  \/ Inspect
  \/ MatchNext
  \/ AllocateDestination
  \/ CostNext
  \/ BuildNext
  \/ Conclude
  \/ Change
  \/ Install

Spec == Init /\ [][Next]_vars

-----------------------------------------------------------------------------
(* Properties. *)

Planned == outcome # NoOutcome /\ outcome.kind = "plan"

\* What flow_change returns if nothing changes while it plans.
PlanFor(ctx, p) ==
  LET matched == {id \in Matched(ctx, p) : Reported(ctx, id, p)}
      allocated == Allocation!Allocate(Namespace, DOMAIN ctx)
      requests == {Request(ctx, id, allocated.id, p) : id \in Parents(ctx, p)}
      usable == {r \in requests : Builds(ctx, r) /\ Usable(ctx, r, p)} IN
  IF Namespace = NoNamespace THEN Error("no namespace")
  ELSE IF matched # {} THEN Already(Chosen(ctx, p))
  ELSE IF allocated.kind # "allocated" THEN Error(allocated.kind)
  ELSE IF usable = {} THEN Error("unrepresentable")
  ELSE Plan(Best(usable))

\* flow_change: "The current authoritative snapshot is inspected once."  The
\* result is the one for a single context that was active while it planned.
InspectedOnce ==
  phase = "idle" /\ outcome # NoOutcome
    => \E ctx \in seen : outcome = PlanFor(ctx, flow)

\* "An existing application rule that already encodes the packet is reported
\* as AlreadyMatches": at some moment during the planning the packet was
\* compressed by exactly the reported rule.
AlreadyMatchesSound ==
  outcome # NoOutcome /\ outcome.kind = "already"
    => \E ctx \in seen : Encodes(ctx, "application", flow)
                           /\ Chosen(ctx, flow) = outcome.rule

\* The converse, for the rules that the planner considers: one with complete
\* flow fields that compresses the packet is reported, if there is a namespace
\* at all and no other thread interferes.
AlreadyMatchesComplete ==
  phase = "idle" /\ outcome # NoOutcome /\ Namespace # NoNamespace /\ seen = {base}
    /\ Encodes(base, "application", flow) /\ Chosen(base, flow) \in Considered(base, flow)
    => outcome = Already(Chosen(base, flow))

\* A plan is complete: whatever was published while it was made, applied to
\* the planner's snapshot it installs a new rule, and the flow is then
\* compressed.
PlanWorksOnSnapshot ==
  Planned => /\ DuplicateResult(base, outcome.request) = "applied"
             /\ Encodes(Duplicated(base, outcome.request), "application", flow)

\* "Plans the smallest duplicate-rule operation for one logical flow": if no
\* other thread interferes, no duplicate-rule request for the same destination
\* that copies a rule the planner considers and makes the flow compressible by
\* the copy, as the rule itself did not, takes fewer bytes.
PlanSmallest ==
  Planned /\ seen = {base} =>
    \A r \in DuplicateRequests :
      /\ r.destination = outcome.request.destination
      /\ r.source \in Considered(base, flow)
      /\ ~Matches(base[r.source], flow)
      /\ DuplicateResult(base, r) = "applied"
      /\ Encodes(Duplicated(base, r), "application", flow)
      /\ Chosen(Duplicated(base, r), flow) = r.destination
      => WireBytes(outcome.request) <= WireBytes(r)

=============================================================================
