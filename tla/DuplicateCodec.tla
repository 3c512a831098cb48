--------------------------- MODULE DuplicateCodec ---------------------------
(***************************************************************************)
(* The path of the overrides of a duplicate-rule command (management.rs,   *)
(* duplicate.rs): parse_rule_duplicate_command reads the arguments,        *)
(* duplicate_inner_payload writes an ipatch-sequence with one map per      *)
(* entry, decode_duplicate_inner reads it on either side,                  *)
(* expected_duplicate_tree applies it to the copy of the source rule, and  *)
(* duplicate_rpc_cost describes it in a packet report.                     *)
(*                                                                         *)
(* SchcContext takes the overrides of a request as given; this module is   *)
(* about how they get there.  An instance of the ipatch-sequence is a      *)
(* record of what its path names and its value; the bytes of CBOR, which   *)
(* both sides require to be canonical, are left out.                       *)
(***************************************************************************)
EXTENDS Naturals, Sequences, SequencesExt, FiniteSets, TargetValue

CONSTANTS
  Source,          \* the source rule: its entries by entry-index, with a value
                   \* for each of Leaves and a length in bits
  CopyIndexes,     \* entry-indexes that commands name
  CopyNumbers,     \* target values that commands name
  MatchingNames,   \* identities that can be set, without their prefix
  CdaNames,
  Payloads,        \* ipatch-sequences of other CORECONF clients
  MaxArguments     \* bound on the arguments of a command

Leaves == {"target", "mo", "cda"}

\* Binary targets are bytes; one that is not single, or not binary, is Nothing.
ASSUME SourceValid ==
  Source \in [DOMAIN Source ->
    [target : {Nothing} \cup Seq(0..255), bits : {Nothing} \cup Nat,
     mo : {Source[e].mo : e \in DOMAIN Source}, cda : {Source[e].cda : e \in DOMAIN Source}]]

\* Lists of lists of instances; of the values only those of targets matter.
ASSUME PayloadsValid ==
  \A payload \in Payloads :
    /\ payload \in Seq(Range(payload))
    /\ \A map \in Range(payload) :
         /\ map \in Seq(Range(map))
         /\ \A i \in Range(map) : i.leaf = "target" => i.value \in {Nothing} \cup Seq(0..255)

\* Nothing is no value, and what cannot be read no key.
ASSUME NothingElse ==
  /\ Unknown \notin Leaves \cup {"entry"}
  /\ CopyNumbers \subseteq Nat
  /\ Nothing \notin CopyIndexes
  /\ Nothing \notin Nat
  /\ Nothing \notin Seq(0..255)
  /\ Nothing \notin Leaves \X (MatchingNames \cup CdaNames)

VARIABLES
  stage,       \* "parsing", "building", "decoding", "decoded", "applied",
               \* "refused" by the console or "rejected" by the decoder
  said,        \* history: the arguments of the command
  current,     \* the override that is being parsed, or NoOverride
  overrides,   \* those before it
  wire,        \* the ipatch-sequence, a sequence of maps
  instances,   \* the instances of the maps decoded so far
  taken,       \* number of those maps
  groups,      \* the entries they override
  cost,        \* what duplicate_rpc_cost says of the payload, or NoCost
  copy         \* the copied rule

duplicateVars == <<stage, said, current, overrides, wire, instances, taken, groups, cost, copy>>

\* An identity may be written with its prefix, mo- or cda-.
Identities(names) == [name : names \cup {Unknown}, prefixed : BOOLEAN]

Arguments ==
  [key : {"entry"}, value : CopyIndexes]
    \cup [key : {"target"}, value : CopyNumbers \cup {Unknown}]
    \cup [key : {"mo"}, value : Identities(MatchingNames)]
    \cup [key : {"cda"}, value : Identities(CdaNames)]
    \cup [key : {Unknown}, value : {Unknown}]

NoOverride == [entry |-> Nothing, leaf |-> <<>>]

NoCost == [described |-> {}, targets |-> Nothing]

DuplicateInit ==
  /\ stage = "parsing"
  /\ said = <<>>
  /\ current = NoOverride
  /\ overrides = <<>>
  /\ wire = <<>>
  /\ instances = <<>>
  /\ taken = 0
  /\ groups = {}
  /\ cost = NoCost
  /\ copy = Nothing

-----------------------------------------------------------------------------
(* parse_rule_duplicate_command. *)

Parsed == UNCHANGED <<wire, instances, taken, groups, cost, copy>>

\* The override that is being parsed is complete.
Complete == current # NoOverride => DOMAIN current.leaf # {}

Pushed == IF current = NoOverride THEN overrides ELSE Append(overrides, current)

\* Fault variant of NewEntry: an entry may be named twice.
NewEntryAgain(a) == a.key = "entry" /\ Complete

NewEntry(a) ==
  /\ a.key = "entry"
  /\ Complete
  /\ \A i \in DOMAIN Pushed : Pushed[i].entry # a.value

NewLeaf(a) ==
  /\ a.key \in Leaves
  /\ current # NoOverride
  /\ a.key \notin DOMAIN current.leaf

StartOverride(a) ==
  /\ NewEntry(a)
  /\ overrides' = Pushed
  /\ current' = [entry |-> a.value, leaf |-> <<>>]
  /\ UNCHANGED stage

SetLeaf(a) ==
  /\ NewLeaf(a)
  /\ current' = [current EXCEPT !.leaf =
       [l \in DOMAIN @ \cup {a.key} |-> IF l = a.key THEN a.value ELSE @[l]]]
  /\ UNCHANGED <<overrides, stage>>

RefuseArgument(a) ==
  /\ ~NewEntry(a) /\ ~NewLeaf(a)
  /\ stage' = "refused"
  /\ UNCHANGED <<overrides, current>>

ReadDuplicateArgument(a) ==
  /\ stage = "parsing"
  /\ Len(said) < MaxArguments
  /\ said' = Append(said, a)
  /\ StartOverride(a) \/ SetLeaf(a) \/ RefuseArgument(a)
  /\ Parsed

EndDuplicate ==
  /\ stage = "parsing"
  /\ stage' = IF Complete THEN "building" ELSE "refused"
  /\ overrides' = Pushed
  /\ current' = NoOverride
  /\ UNCHANGED said
  /\ Parsed

-----------------------------------------------------------------------------
(* duplicate_inner_payload. *)

\* The entry exists, a target override replaces one binary target of a field
\* of fixed length, and identities are among those supported.
Buildable(o) ==
  /\ o.entry \in DOMAIN Source
  /\ "target" \in DOMAIN o.leaf =>
       /\ Source[o.entry].target # Nothing
       /\ Source[o.entry].bits # Nothing
       /\ o.leaf.target # Unknown
       /\ FitsWidth(o.leaf.target, Len(Source[o.entry].target))
       /\ FitsField(o.leaf.target, Source[o.entry].bits)
  /\ "mo" \in DOMAIN o.leaf => o.leaf.mo.name \in MatchingNames
  /\ "cda" \in DOMAIN o.leaf => o.leaf.cda.name \in CdaNames

\* The value of a leaf: bytes, or the identity by its full name
\* (duplicate_identity_sid).
LeafValue(o, l) ==
  IF l = "target" THEN TargetBytes(o.leaf.target, Len(Source[o.entry].target))
  ELSE <<l, o.leaf[l].name>>

\* One map: target, matching operator and CDA in this order.
Part(o, l) ==
  IF l \in DOMAIN o.leaf
    THEN <<[destination |-> TRUE, entry |-> o.entry, leaf |-> l, value |-> LeafValue(o, l)]>>
    ELSE <<>>

Group(o) == Part(o, "target") \o Part(o, "mo") \o Part(o, "cda")

BuildNext ==
  /\ stage = "building"
  /\ Len(wire) < Len(overrides)
  /\ LET o == overrides[Len(wire) + 1] IN
     \/ Buildable(o) /\ wire' = Append(wire, Group(o)) /\ UNCHANGED stage
     \/ ~Buildable(o) /\ stage' = "refused" /\ UNCHANGED wire
  /\ UNCHANGED <<said, current, overrides, instances, taken, groups, cost, copy>>

\* encode_duplicate_rpc_payload leaves an empty ipatch-sequence out, and
\* decode_duplicate_operation takes a missing one for empty.
Send ==
  /\ stage = "building"
  /\ Len(wire) = Len(overrides)
  /\ stage' = "decoding"
  /\ UNCHANGED <<said, current, overrides, wire, instances, taken, groups, cost, copy>>

\* Another client writes the request itself.
ClientSendsPayload ==
  /\ stage = "parsing" /\ said = <<>>
  /\ wire' \in Payloads
  /\ stage' = "decoding"
  /\ UNCHANGED <<said, current, overrides, instances, taken, groups, cost, copy>>

-----------------------------------------------------------------------------
(* decode_duplicate_inner, duplicate_rpc_cost and expected_duplicate_tree. *)

Key(instance) == <<instance.entry, instance.leaf>>

EntriesOf(map) == {map[i].entry : i \in DOMAIN map}

\* duplicate_leaf_from_path knows the path, and it leads into the copy.
PathOk(instance) == instance.destination /\ instance.leaf \in Leaves

\* One to three leaves, none twice, of entries that no earlier map names.
MapOk(map) ==
  /\ Len(map) \in 1..3
  /\ \A i \in DOMAIN map : PathOk(map[i])
  /\ \A i, j \in DOMAIN map : Key(map[i]) = Key(map[j]) => i = j
  /\ EntriesOf(map) \cap groups = {}

DecodeNext ==
  /\ stage = "decoding"
  /\ taken < Len(wire)
  /\ LET map == wire[taken + 1] IN
     \/ /\ MapOk(map)
        /\ instances' = instances \o map
        /\ groups' = groups \cup EntriesOf(map)
        /\ taken' = taken + 1
        /\ UNCHANGED stage
     \/ /\ ~MapOk(map)
        /\ stage' = "rejected"
        /\ UNCHANGED <<instances, groups, taken>>
  /\ UNCHANGED <<said, current, overrides, wire, cost, copy>>

\* Fault variant of BytesNumber: the last byte counts most.
BytesNumberReversed(bytes) == FoldRight(LAMBDA b, n : 256 * n + b, bytes, 0)

BytesNumber(bytes) == FoldLeft(LAMBDA n, b : 256 * n + b, 0, bytes)

\* target_bytes_label: the number that the bytes stand for, or how many they
\* are if they are more than a u64 holds.
TargetLabel(bytes) ==
  IF Len(bytes) <= 8 THEN <<"number", BytesNumber(bytes)>> ELSE <<"bytes", Len(bytes)>>

Label(instance, value) == IF instance.leaf = "target" THEN TargetLabel(value) ELSE instance.value

\* The walk over the maps beside the decoded instances: the value of the
\* first, the path of the second.
Described ==
  LET values == FlattenSeq(wire) IN
  {[entry |-> instances[i].entry, leaf |-> instances[i].leaf,
    label |-> Label(instances[i], values[i].value)] : i \in DOMAIN instances}

TargetValueBytes ==
  Total([i \in DOMAIN instances |->
           IF instances[i].leaf = "target" THEN Len(instances[i].value) ELSE 0])

\* Every target value is a byte string; otherwise there is no report.
Describable == \A i \in DOMAIN instances : instances[i].leaf = "target" =>
                                            instances[i].value # Nothing

Describe ==
  /\ stage = "decoding"
  /\ taken = Len(wire)
  /\ cost' = IF Describable THEN [described |-> Described, targets |-> TargetValueBytes]
             ELSE NoCost
  /\ stage' = "decoded"
  /\ UNCHANGED <<said, current, overrides, wire, instances, taken, groups, copy>>

\* Every instance names an entry of the rule and sets it, none twice.
Applicable ==
  /\ \A i \in DOMAIN instances : /\ instances[i].entry \in DOMAIN Source
                                 /\ instances[i].value # Nothing
  /\ \A i, j \in DOMAIN instances : Key(instances[i]) = Key(instances[j]) => i = j

Override(rule, i) == [rule EXCEPT ![i.entry][i.leaf] = i.value]

Apply ==
  /\ stage = "decoded"
  /\ \/ /\ Applicable
        /\ copy' = FoldLeft(Override, Source, instances)
        /\ stage' = "applied"
     \/ /\ ~Applicable
        /\ stage' = "rejected"
        /\ UNCHANGED copy
  /\ UNCHANGED <<said, current, overrides, wire, instances, taken, groups, cost>>

DuplicateNext ==
  \/ \E a \in Arguments : ReadDuplicateArgument(a)
  \/ EndDuplicate
  \/ BuildNext
  \/ Send
  \/ ClientSendsPayload
  \/ DecodeNext
  \/ Describe
  \/ Apply

DuplicateSpec == DuplicateInit /\ [][DuplicateNext]_duplicateVars

-----------------------------------------------------------------------------
(* Properties. *)

\* The entry that the i-th argument belongs to: the one named last before it.
EntryOf(i) ==
  said[CHOOSE j \in 1..i : /\ said[j].key = "entry"
                           /\ \A k \in (j + 1)..i : said[k].key # "entry"].value

Means(value, leaf, argument) ==
  IF leaf = "target" THEN Number(value) = argument ELSE value = <<leaf, argument.name>>

\* What is installed is what the operator has typed: a leaf named after an
\* entry has the value typed there, under either spelling of an identity, and
\* all other leaves are those of the source.
CopyIsWhatWasTyped ==
  stage = "applied" /\ overrides # <<>> =>
    \A e \in DOMAIN Source, l \in Leaves :
      LET typed == {i \in DOMAIN said : said[i].key = l /\ EntryOf(i) = e} IN
      IF typed = {} THEN copy[e][l] = Source[e][l]
      ELSE /\ \A i \in typed : Means(copy[e][l], l, said[i].value)
           /\ l = "target" => Len(copy[e][l]) = Len(Source[e][l])

\* The console never sends what the decoder would refuse if both sides have
\* the same source rule: duplicate-rule is not answered, so nobody would tell
\* the operator.
SentIsDecoded == said # <<>> => stage # "rejected"

\* The report of a duplicate-rule packet tells what its receiver installs,
\* whoever sent it: there is one, every leaf that differs from the source is in
\* it with the value it gets, and the target bytes are counted.
ReportTellsCopy ==
  stage = "applied" =>
    /\ cost # NoCost
    /\ \A d \in cost.described :
         LET value == copy[d.entry][d.leaf] IN
         d.label = IF d.leaf # "target" THEN value
                   ELSE IF Len(value) <= 8 THEN <<"number", Number(value)>>
                   ELSE <<"bytes", Len(value)>>
    /\ \A e \in DOMAIN Source, l \in Leaves :
         copy[e][l] # Source[e][l] => \E d \in cost.described : d.entry = e /\ d.leaf = l
    /\ cost.targets = Cardinality(
         UNION {{d.entry} \X DOMAIN copy[d.entry].target :
                  d \in {d \in cost.described : d.leaf = "target"}})

\* Both of the above promises to the operator.
TypedIsInstalled == SentIsDecoded /\ CopyIsWhatWasTyped
=============================================================================
