------------------------------ MODULE CoapCost ------------------------------
(***************************************************************************)
(* What a packet report says of the bytes of a packet (report.rs):         *)
(* inspect_coap walks over the encoded CoAP datagram, option by option,    *)
(* and inspect_report checks the sums.  A process that cannot make the     *)
(* report of a packet it has encoded or decoded ends, so the walk must     *)
(* accept every well-formed packet.                                        *)
(*                                                                         *)
(* The datagram is the encoding (RFC 7252, by schc-core) of the message    *)
(* that Ipv6UdpCoapPacket::parse returns beside it.  All bytes of tokens,  *)
(* values and payloads are 16#FF, the byte of the payload marker.          *)
(***************************************************************************)
EXTENDS Naturals, Sequences, SequencesExt

VARIABLE message   \* lengths of token and payload, deltas and lengths of options

-----------------------------------------------------------------------------
(* The encoding. *)

Marker == 255

Filler(n) == [i \in 1..n |-> Marker]

\* The half byte for a delta or a length, and the bytes that extend it.
Nibble(v) == IF v < 13 THEN v ELSE IF v < 269 THEN 13 ELSE 14

Extension(v) ==
  CASE v < 13 -> <<>>
    [] v \in 13..268 -> <<v - 13>>
    [] v > 268 -> <<(v - 269) \div 256, (v - 269) % 256>>

OptionBytes(o) ==
  <<16 * Nibble(o.delta) + Nibble(o.length)>> \o Extension(o.delta)
    \o Extension(o.length) \o Filler(o.length)

Encoded(m) ==
  <<64 + m.token, 0, 0, 0>> \o Filler(m.token)
    \o FlattenSeq([i \in DOMAIN m.options |-> OptionBytes(m.options[i])])
    \o IF m.payload = 0 THEN <<>> ELSE Filler(m.payload + 1)

-----------------------------------------------------------------------------
(* The walk over the options.  Offsets count from 0, as in the code. *)

Byte(bytes, i) == bytes[i + 1]

\* Fault variant of ReadCoapExtended: two bytes extend from 255 on.
ReadCoapExtendedFrom255(nibble, bytes, at) ==
  CASE nibble < 13 -> [value |-> nibble, next |-> at, ok |-> TRUE]
    [] nibble = 13 /\ at < Len(bytes) ->
         [value |-> Byte(bytes, at) + 13, next |-> at + 1, ok |-> TRUE]
    [] nibble = 14 /\ at + 2 <= Len(bytes) ->
         [value |-> 256 * Byte(bytes, at) + Byte(bytes, at + 1) + 255,
          next |-> at + 2, ok |-> TRUE]
    [] OTHER -> [value |-> 0, next |-> at, ok |-> FALSE]

\* read_coap_extended: the value, the offset behind it, and whether the bytes
\* are there and the nibble is not reserved.
ReadCoapExtended(nibble, bytes, at) ==
  CASE nibble < 13 -> [value |-> nibble, next |-> at, ok |-> TRUE]
    [] nibble = 13 /\ at < Len(bytes) ->
         [value |-> Byte(bytes, at) + 13, next |-> at + 1, ok |-> TRUE]
    [] nibble = 14 /\ at + 2 <= Len(bytes) ->
         [value |-> 256 * Byte(bytes, at) + Byte(bytes, at + 1) + 269,
          next |-> at + 2, ok |-> TRUE]
    [] OTHER -> [value |-> 0, next |-> at, ok |-> FALSE]

ExtendedBytes(nibble) == CASE nibble = 13 -> 1 [] nibble = 14 -> 2 [] OTHER -> 0

\* The option at an offset, its CoapOptionCost but for the number, which is
\* the sum of the deltas so far, and the offset behind it.
OptionAt(bytes, start) ==
  LET header == Byte(bytes, start)
      delta == ReadCoapExtended(header \div 16, bytes, start + 1)
      length == ReadCoapExtended(header % 16, bytes, delta.next)
      end == length.next + length.value IN
  [ok |-> delta.ok /\ length.ok /\ end <= Len(bytes),
   end |-> end,
   cost |-> [step |-> delta.value, value |-> length.value, header |-> 1,
             delta |-> ExtendedBytes(header \div 16),
             length |-> ExtendedBytes(header % 16),
             encoded |-> end - start]]

Walked(ok, costs, payload) == [ok |-> ok, costs |-> costs, payload |-> payload]

\* The loop: the costs of the options from an offset on, up to the end of the
\* datagram or the payload marker, and the length of the payload.
WalkOptions(bytes, start) ==
  LET from[offset \in 0..Len(bytes)] ==
        IF offset = Len(bytes) THEN Walked(TRUE, <<>>, 0)
        ELSE IF Byte(bytes, offset) = Marker
          THEN Walked(offset + 1 < Len(bytes), <<>>, Len(bytes) - (offset + 1))
        ELSE LET option == OptionAt(bytes, offset) IN
             IF ~option.ok THEN Walked(FALSE, <<>>, 0)
             ELSE [from[option.end] EXCEPT !.costs = <<option.cost>> \o @]
  IN from[start]

\* inspect_coap: the token first.
InspectCoap(bytes, m) ==
  LET token == Byte(bytes, 0) % 16 IN
  IF Len(bytes) < 4 \/ 4 + token > Len(bytes) \/ token # m.token
    THEN Walked(FALSE, <<>>, 0)
    ELSE WalkOptions(bytes, 4 + token)

-----------------------------------------------------------------------------
(* The rest of inspect_coap, and the sums of inspect_report. *)

Total(seq) == FoldLeft(LAMBDA sum, x : sum + x, 0, seq)

SumOf(field(_), seq) == Total([i \in DOMAIN seq |-> field(seq[i])])

\* The options, by number and length, and the payload are those of the
\* parsed message.
AgreesWithMessage(walk, m) ==
  /\ Len(walk.costs) = Len(m.options)
  /\ walk.payload = m.payload
  /\ \A i \in DOMAIN walk.costs :
       /\ SumOf(LAMBDA c : c.step, SubSeq(walk.costs, 1, i))
            = SumOf(LAMBDA o : o.delta, SubSeq(m.options, 1, i))
       /\ walk.costs[i].value = m.options[i].length

CoapTotal(walk, m) ==
  4 + m.token + SumOf(LAMBDA c : c.encoded, walk.costs)
    + (IF walk.payload # 0 THEN 1 ELSE 0) + walk.payload

\* The IPv6 and UDP headers, of fixed length, are added to both sides of the
\* last comparison in the code.
Reported(bytes, walk, m) ==
  /\ walk.ok
  /\ AgreesWithMessage(walk, m)
  /\ CoapTotal(walk, m) = Len(bytes)

-----------------------------------------------------------------------------
(* Properties. *)

\* CoapOptionCost: "The additive invariant is header_bytes +
\* delta_extension_bytes + length_extension_bytes + value_bytes ==
\* encoded_bytes".
Adds(cost) == cost.encoded = cost.header + cost.delta + cost.length + cost.value

\* Every well-formed packet gets its report, and the cost of every option in
\* it adds up: the walk of inspect_coap reads back the options at every
\* boundary of the extended encoding and never takes a value byte for the
\* payload marker.
ReportsAddUp ==
  LET bytes == Encoded(message)
      walk == InspectCoap(bytes, message) IN
  /\ Reported(bytes, walk, message)
  /\ \A i \in DOMAIN walk.costs : Adds(walk.costs[i])
=============================================================================
