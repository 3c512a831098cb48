----------------------------- MODULE RuleUpdate -----------------------------
(***************************************************************************)
(* The path of one rule update (management.rs): parse_rule_update_command  *)
(* reads the arguments, resolve_entry_index finds the entry they name,     *)
(* ResolvedRuleUpdate::from_request turns the number typed into bytes,     *)
(* and apply_target_ipatch checks path, widths and bits again before the   *)
(* device's rule changes.                                                  *)
(*                                                                         *)
(* SchcContext takes an update as an entry and a value that fits or does   *)
(* not; this module is about which entry and when it fits.  The rule is    *)
(* ordinary; --if-match, protection and publication are ContextSync's and  *)
(* ActiveContext's.                                                        *)
(***************************************************************************)
EXTENDS Naturals, Sequences, TargetValue

CONSTANTS
  CoreRules,       \* rules the core may have under the RuleID; an entry has a
                   \* field, a position, a direction, a length in bits, and a
                   \* list of target values, each a sequence of bytes
  DeviceRules,     \* rules the device may have there if the contexts differ
  Fields,          \* names of fields
  Indexes, Positions, Numbers,   \* what commands name
  ClientPatches    \* iPATCHes of other CORECONF clients

Directions == {"bi", "up", "down"}

\* A rule, as a list of entries by entry-index.
ASSUME UpdateRulesValid ==
  \A rule \in CoreRules \cup DeviceRules :
    rule \in [DOMAIN rule -> [fid : Fields, fp : Nat, di : Directions,
                             bits : Nat \cup {Nothing}, targets : Seq(Seq(0..255))]]

ASSUME UpdateInputs ==
  /\ Numbers \subseteq Nat
  /\ \A patch \in ClientPatches : patch.bytes \in Seq(0..255)

VARIABLES
  status,     \* "parsing", "parsed", "sent", "changed", or "refused" by the
              \* core, "rejected" by the device
  arguments,  \* the arguments so far
  core,       \* the rule of the core
  before,     \* history: the rule of the device when the request is sent
  device,     \* the rule of the device
  update      \* the iPATCH: entry, index in the target list, bytes

updateVars == <<status, arguments, core, before, device, update>>

Keys == {"entry", "fid", "fp", "di", "tv"}

\* A field name may be written with or without fid-, dots and hyphens.
Spelled == [name : Fields \cup {Unknown}, short : BOOLEAN]

UpdateInit ==
  /\ status = "parsing"
  /\ arguments = [key \in Keys |-> Nothing]
  /\ core \in CoreRules
  /\ device \in {core} \cup DeviceRules
  /\ before = device
  /\ update = Nothing

-----------------------------------------------------------------------------
(* parse_rule_update_command. *)

ArgumentValues(key) ==
  CASE key = "entry" -> Indexes \cup {Unknown}
    [] key = "fid" -> Spelled
    [] key = "fp" -> Positions \cup {Unknown}
    [] key = "di" -> Directions \cup {Unknown}
    [] key = "tv" -> Numbers \cup {Unknown}

Readable(key, value) ==
  CASE key = "fid" -> value.name # Unknown
    [] key = "fp" -> value \notin {0, Unknown}
    [] key \in {"entry", "di"} -> value # Unknown
    [] key = "tv" -> TRUE

ReadUpdateArgument(key, value) ==
  /\ status = "parsing"
  /\ IF arguments[key] = Nothing /\ Readable(key, value)
       THEN arguments' = [arguments EXCEPT ![key] = value] /\ UNCHANGED status
       ELSE status' = "refused" /\ UNCHANGED arguments
  /\ UNCHANGED <<core, before, device, update>>

Given(key) == arguments[key] # Nothing

\* Fault variant of WellFormed: an exact entry may have discriminators.
WellFormedLoosely ==
  /\ Given("tv")
  /\ Given("entry") \/ Given("fid")

\* One target value and one selector; only a field has discriminators.
WellFormed ==
  /\ Given("tv")
  /\ \/ Given("entry") /\ ~Given("fid") /\ ~Given("fp") /\ ~Given("di")
     \/ ~Given("entry") /\ Given("fid")

EndUpdate ==
  /\ status = "parsing"
  /\ status' = IF WellFormed THEN "parsed" ELSE "refused"
  /\ UNCHANGED <<arguments, core, before, device, update>>

-----------------------------------------------------------------------------
(* resolve_target_value. *)

NormalizeFid(fid) == fid.name

EntryMatches(e, entry) ==
  IF Given("entry") THEN e = arguments["entry"]
  ELSE /\ entry.fid = NormalizeFid(arguments["fid"])
       /\ Given("fp") => entry.fp = arguments["fp"]
       /\ Given("di") => entry.di = arguments["di"]

Matches == {e \in DOMAIN core : EntryMatches(e, core[e])}

\* resolve_entry_index: the one entry that matches.
Resolved(e) == Matches = {e}

\* from_request: the entry has exactly one target value.
Convertible(e) ==
  /\ Len(core[e].targets) = 1
  /\ arguments["tv"] # Unknown
  /\ FitsWidth(arguments["tv"], Len(core[e].targets[1]))
  /\ core[e].bits # Nothing => FitsField(arguments["tv"], core[e].bits)

Resolve ==
  /\ status = "parsed"
  /\ \/ \E e \in DOMAIN core :
          /\ Resolved(e) /\ Convertible(e)
          /\ update' = [entry |-> e, index |-> 1,
                        bytes |-> TargetBytes(arguments["tv"], Len(core[e].targets[1]))]
          /\ status' = "sent"
     \/ /\ \A e \in DOMAIN core : ~Resolved(e) \/ ~Convertible(e)
        /\ status' = "refused"
        /\ UNCHANGED update
  /\ UNCHANGED <<arguments, core, before, device>>

\* Another client sends a canonical path and any bytes.
ClientSendsPatch ==
  /\ status = "parsing" /\ \A key \in Keys : ~Given(key)
  /\ update' \in ClientPatches
  /\ status' = "sent"
  /\ UNCHANGED <<arguments, core, before, device>>

-----------------------------------------------------------------------------
(* apply_target_ipatch. *)

\* Fault variant of BinaryFits: the byte that is used in part is not masked.
BinaryFitsUnmasked(bytes, bits) ==
  LET whole == (8 * Len(bytes) - bits) \div 8 IN
  /\ bits \in 1..8 * Len(bytes)
  /\ \A i \in 1..whole : bytes[i] = 0

\* binary_fits_field_length: the whole bytes in excess are zero, and so are
\* the upper bits of the next byte.
BinaryFits(bytes, bits) ==
  LET excess == 8 * Len(bytes) - bits
      whole == excess \div 8
      rest == excess % 8 IN
  /\ bits \in 1..8 * Len(bytes)
  /\ \A i \in 1..whole : bytes[i] = 0
  /\ rest # 0 => bytes[whole + 1] < 2 ^ (8 - rest)

\* The leaf exists, the field has a length, and old and new value fit both.
Acceptable(u) ==
  /\ u.entry \in DOMAIN device
  /\ u.index \in DOMAIN device[u.entry].targets
  /\ device[u.entry].bits # Nothing
  /\ LET current == device[u.entry].targets[u.index] IN
     /\ BinaryFits(current, device[u.entry].bits)
     /\ Len(u.bytes) = Len(current)
     /\ BinaryFits(u.bytes, device[u.entry].bits)

DeviceApplies ==
  /\ status = "sent"
  /\ \/ /\ Acceptable(update)
        /\ device' = [device EXCEPT ![update.entry].targets[update.index] = update.bytes]
        /\ status' = "changed"
     \/ /\ ~Acceptable(update)
        /\ status' = "rejected"
        /\ UNCHANGED device
  /\ UNCHANGED <<arguments, core, before, update>>

UpdateNext ==
  \/ \E key \in Keys : \E value \in ArgumentValues(key) : ReadUpdateArgument(key, value)
  \/ EndUpdate
  \/ Resolve
  \/ ClientSendsPatch
  \/ DeviceApplies

UpdateSpec == UpdateInit /\ [][UpdateNext]_updateVars

-----------------------------------------------------------------------------
(* Properties. *)

\* A target value that is changed fits its field, which has a length, and
\* keeps its width in bytes, whatever the operator or another client sends and
\* whichever rule they had in mind.
TargetsFitField ==
  \A e \in DOMAIN device : \A t \in DOMAIN device[e].targets :
    device[e].targets[t] # before[e].targets[t] =>
      /\ device[e].bits # Nothing
      /\ Number(device[e].targets[t]) < 2 ^ device[e].bits
      /\ Len(device[e].targets[t]) = Len(before[e].targets[t])

\* The entries that everything typed is true of.
Meant ==
  {e \in DOMAIN core : /\ Given("entry") => e = arguments["entry"]
                       /\ Given("fid") => core[e].fid = arguments["fid"].name
                       /\ Given("fp") => core[e].fp = arguments["fp"]
                       /\ Given("di") => core[e].di = arguments["di"]}

\* An update that goes through sets the one entry that all arguments
\* describe to the number typed, and nothing else: no argument is ignored and
\* no entry is picked out of several.
ChangesWhatWasMeant ==
  status = "changed" /\ Given("tv") =>
    \E e \in Meant :
      /\ Meant = {e}
      /\ Number(device[e].targets[1]) = arguments["tv"]
      /\ device = [before EXCEPT ![e].targets[1] = device[e].targets[1]]

\* What the core has checked, a device with the same rule does not refuse,
\* unless the field has no length, the target too few bytes for it, or the
\* old value too many bits: the two checks of width and bits are written
\* independently.
CheckedIsAccepted ==
  status = "rejected" /\ Given("tv") /\ core = before =>
    \/ core[update.entry].bits = Nothing
    \/ core[update.entry].bits > 8 * Len(update.bytes)
    \/ Number(core[update.entry].targets[1]) >= 2 ^ core[update.entry].bits
=============================================================================
