----------------------------- MODULE TargetValue -----------------------------
(***************************************************************************)
(* A binary target value typed as a number: numeric_target_value of        *)
(* management.rs, for rule update and rule duplicate alike.                *)
(***************************************************************************)
EXTENDS Naturals, Sequences, SequencesExt

CONSTANTS
  Unknown,   \* what is no number, no readable name and no key
  Nothing    \* an argument or override that is missing, a field without a fixed
             \* length, no single binary target, or the null that deletes

\* The number fits the bytes of the value it replaces.
FitsWidth(number, width) == width # 0 /\ number < 2 ^ (8 * width)

\* Fault variant of FitsField: the length of the field is ignored.
FitsFieldAlways(number, bits) == TRUE

\* The number fits the field.
FitsField(number, bits) == bits # 0 /\ number < 2 ^ bits

\* As many bytes as before, the most significant one first.
TargetBytes(number, width) ==
  [i \in 1..width |-> (number \div 2 ^ (8 * (width - i))) % 256]

\* What bytes stand for; the properties are stated with it.
Total(seq) == FoldLeft(LAMBDA sum, x : sum + x, 0, seq)

Number(bytes) == Total([i \in DOMAIN bytes |-> bytes[i] * 2 ^ (8 * (Len(bytes) - i))])
=============================================================================
