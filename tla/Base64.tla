------------------------------- MODULE Base64 -------------------------------
(***************************************************************************)
(* base64_decode and base64_encode of duplicate.rs, through which the      *)
(* ipatch-sequence of a duplicate-rule request passes when the model       *)
(* library returns it as text.  A character is its index in the alphabet,  *)
(* Pad or Foreign.                                                         *)
(***************************************************************************)
EXTENDS Naturals, Sequences, SequencesExt

Pad == 64
Foreign == 255

Characters == 0..Pad \cup {Foreign}

VARIABLE text     \* the text to decode

-----------------------------------------------------------------------------
(* base64_encode. *)

\* The characters for the octets at i, i + 1 and i + 2.
EncodeChunk(octets, i) ==
  LET left == Len(octets) - i + 1
      octet(k) == IF k <= left THEN octets[i + k - 1] ELSE 0 IN
  << octet(1) \div 4,
     (octet(1) % 4) * 16 + octet(2) \div 16,
     IF left > 1 THEN (octet(2) % 16) * 4 + octet(3) \div 64 ELSE Pad,
     IF left > 2 THEN octet(3) % 64 ELSE Pad >>

Encode(octets) ==
  [i \in 1..4 * ((Len(octets) + 2) \div 3) |->
     EncodeChunk(octets, 3 * ((i - 1) \div 4) + 1)[((i - 1) % 4) + 1]]

-----------------------------------------------------------------------------
(* base64_decode. *)

ValidChunk(c) ==
  /\ c[1] < Pad /\ c[2] < Pad
  /\ Foreign \notin {c[3], c[4]}
  /\ c[3] = Pad => c[4] = Pad

\* Padding counts as 0.  Shifts of a u8 lose the upper bits.
ChunkOctets(c) ==
  LET value(k) == IF c[k] = Pad THEN 0 ELSE c[k] IN
  <<4 * c[1] + c[2] \div 16>>
    \o (IF c[3] = Pad THEN <<>> ELSE <<((16 * c[2]) % 256) + value(3) \div 4>>)
    \o (IF c[4] = Pad THEN <<>> ELSE <<((64 * value(3)) % 256) + value(4)>>)

Chunk(t, c) == [k \in 1..4 |-> t[4 * (c - 1) + k]]

\* The loop ends at a chunk that is not valid.
DecodeChunks(t) ==
  LET chunks == 1..(Len(t) \div 4) IN
  [ok |-> Len(t) % 4 = 0 /\ \A c \in chunks : ValidChunk(Chunk(t, c)),
   octets |-> FlattenSeq([c \in chunks |-> ChunkOctets(Chunk(t, c))])]

\* Fault variant of Decode: the text is not compared with its encoding.
DecodeUncompared(t) == DecodeChunks(t)

\* The octets, and whether the text is accepted.
Decode(t) ==
  LET decoded == DecodeChunks(t) IN
  [ok |-> decoded.ok /\ Encode(decoded.octets) = t, octets |-> decoded.octets]

-----------------------------------------------------------------------------
(* Properties. *)

\* Bit j, counted from 0, of a sequence of numbers of the given width.
Bit(numbers, width, j) ==
  (numbers[(j \div width) + 1] \div 2 ^ (width - 1 - (j % width))) % 2

\* The text without its padding, up to two characters at the end.
Padding(t) ==
  IF Len(t) = 0 \/ t[Len(t)] # Pad THEN 0 ELSE IF t[Len(t) - 1] # Pad THEN 1 ELSE 2

Unpadded(t) == SubSeq(t, 1, Len(t) - Padding(t))

\* RFC 4648: the characters are the bits of the octets, filled up with zeros.
Represents(t, octets) ==
  LET digits == Unpadded(t)
      fill == 6 * Len(digits) - 8 * Len(octets) IN
  /\ Len(t) % 4 = 0
  /\ \A i \in DOMAIN digits : digits[i] < Pad
  /\ fill \in {0, 2, 4}
  /\ \A j \in 0..6 * Len(digits) - 1 :
       Bit(digits, 6, j) = IF j < 8 * Len(octets) THEN Bit(octets, 8, j) ELSE 0

\* No octets are spelled like this: the length, a character, or a bit behind
\* the last octet is wrong.
Malformed(t) ==
  LET digits == Unpadded(t)
      fill == (6 * Len(digits)) % 8 IN
  \/ Len(t) % 4 # 0
  \/ \E i \in DOMAIN digits : digits[i] >= Pad
  \/ digits # <<>> /\ digits[Len(digits)] % (2 ^ fill) # 0

\* The decoder accepts a text only for the octets it represents, and rejects
\* none that represents some: of the bits after the last octet and of padding
\* inside the text it lets nothing through.
DecodesExactly ==
  LET decoded == Decode(text) IN
  IF decoded.ok THEN Represents(text, decoded.octets) ELSE Malformed(text)
=============================================================================
