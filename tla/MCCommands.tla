------------------------------ MODULE MCCommands ------------------------------
(***************************************************************************)
(* The two commands that change rules, each on a small instance and from   *)
(* its arguments to the rule that changes: RuleUpdate and DuplicateCodec.  *)
(* A behaviour is one of one of them, named by command; the other rests.   *)
(***************************************************************************)
EXTENDS RuleUpdate, DuplicateCodec, TLC

VARIABLE command

allVars == <<command, updateVars, duplicateVars>>

-----------------------------------------------------------------------------
(* Rule update: four entries, one field in both directions, one at two       *)
(* positions, targets of one and two bytes in fields of every length near a  *)
(* boundary, one of them too short for its value, and a mapping.             *)

Rule(octets, bits) ==
  (0 :> [fid |-> "port", fp |-> 1, di |-> "up", bits |-> bits, targets |-> <<octets>>])
  @@ (1 :> [fid |-> "port", fp |-> 1, di |-> "down", bits |-> bits, targets |-> <<octets>>])
  @@ (2 :> [fid |-> "path", fp |-> 1, di |-> "bi", bits |-> 8, targets |-> <<<<1>>>>])
  @@ (3 :> [fid |-> "path", fp |-> 2, di |-> "bi", bits |-> 8, targets |-> <<<<1>>, <<2>>>>])

Octets == {0, 1, 2, 127, 128, 255}

MCCoreRules ==
  {Rule(octets, bits) : octets \in {<<2>>, <<0, 1>>},
                        bits \in {1, 7, 8, 9, 12, 15, 16, Nothing}}

MCDeviceRules == {Rule(<<0, 1>>, 9), Rule(<<1>>, 7)}

MCNumbers == {0, 1, 2, 127, 128, 255, 256, 511, 512, 4095, 4096, 32767, 32768, 65535, 65536}

MCClientPatches ==
  [entry : {0, 9}, index : {1, 2}, bytes : [1..1 -> Octets] \cup [1..2 -> Octets]]
    \cup [entry : {3}, index : {1, 2}, bytes : [1..1 -> Octets]]

MCFields == {"port", "path"}

MCIndexes == {0, 1, 3, 9}

MCPositions == {0, 1, 2}

-----------------------------------------------------------------------------
(* Duplicate-rule: a source of three entries, a two-byte target in a field   *)
(* of 12 bits, a one-byte target in a field of 16 bits, and a mapping, which *)
(* has no single target.                                                     *)

Entry(target, bits) ==
  [target |-> target, bits |-> bits, mo |-> <<"mo", "equal">>, cda |-> <<"cda", "not-sent">>]

\* Instances of other clients; some name another rule, another leaf or an
\* unknown entry, or delete.
Instances ==
  [destination : {TRUE}, entry : {0, 1}, leaf : {"target"},
   value : {<<0, 9>>, <<1, 0, 0, 0, 0, 0, 0, 0, 9>>}]
    \cup [destination : {TRUE}, entry : {0, 1}, leaf : {"mo"}, value : {<<"mo", "ignore">>}]
    \cup {[destination |-> FALSE, entry |-> 0, leaf |-> "mo", value |-> <<"mo", "ignore">>],
          [destination |-> TRUE, entry |-> 0, leaf |-> Unknown, value |-> <<"mo", "ignore">>],
          [destination |-> TRUE, entry |-> 9, leaf |-> "mo", value |-> <<"mo", "ignore">>],
          [destination |-> TRUE, entry |-> 1, leaf |-> "target", value |-> Nothing],
          [destination |-> TRUE, entry |-> 0, leaf |-> "cda", value |-> Nothing]}

Maps == SeqOf(Instances, 2)

MCPayloads == {<<m>> : m \in Maps} \cup {<<m, n>> : m, n \in Maps}

MCSource == (0 :> Entry(<<0, 7>>, 12)) @@ (1 :> Entry(<<7>>, 16)) @@ (2 :> Entry(Nothing, 8))

MCCopyIndexes == {0, 1, 2, 9}

MCCopyNumbers == {9, 300, 5000}

MCMatchingNames == {"ignore"}

MCCdaNames == {"value-sent"}

-----------------------------------------------------------------------------
MCInit ==
  /\ command \in {"update", "duplicate"}
  /\ UpdateInit
  /\ DuplicateInit
  /\ command # "update" => core = Rule(<<2>>, 8) /\ device = core

MCNext ==
  \/ command = "update" /\ UpdateNext /\ UNCHANGED <<command, duplicateVars>>
  \/ command = "duplicate" /\ DuplicateNext /\ UNCHANGED <<command, updateVars>>

MCSpec == MCInit /\ [][MCNext]_allVars
=============================================================================
