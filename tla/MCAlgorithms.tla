----------------------------- MODULE MCAlgorithms -----------------------------
(***************************************************************************)
(* The pure algorithms on small inputs, one of them in each behaviour:     *)
(*   "tree"     RuleIdAllocation on RuleIDs of at most four bits, with     *)
(*              every namespace that fits and static rules of up to three  *)
(*              bits                                                       *)
(*   "text"     Base64 on texts that grow to MaxText characters            *)
(*   "message"  CoapCost on messages that grow to MaxOptions options, with *)
(*              deltas and lengths on both sides of every boundary of the  *)
(*              extended encoding                                          *)
(***************************************************************************)
EXTENDS RuleIdAllocation, Base64, CoapCost

CONSTANTS
  MaxText,      \* bound on the length of a text
  MaxOptions    \* bound on the options of a message

VARIABLE subject

allVars == <<subject, namespace, occupied, text, message>>

MCWidth == 4

MCNamespaces ==
  {ns \in [prefix : RuleIdsUpTo(MCWidth - 1),
           lengths : SUBSET (1..MCWidth) \ {{}}] : IsNamespace(ns)}

MCStaticIds == RuleIdsUpTo(MCWidth - 1)

\* Digits whose last 4 bits are zero, whose last 2 are, and others.
MCCharacters == {0, 33, 60, Pad, Foreign}

MCMessages == [token : {0, 8}, payload : {0, 1}, options : {<<>>}]

MCOptions == [delta : {0, 12, 13, 268, 269, 526}, length : {0, 12, 13, 268, 269}]

MCInit ==
  /\ Init
  /\ text = <<>>
  /\ message \in MCMessages
  /\ subject \in {"tree", "text", "message"}
  /\ subject # "tree" => namespace = CHOOSE ns \in MCNamespaces : TRUE
  /\ subject # "message" => message = CHOOSE m \in MCMessages : TRUE

GrowTree == subject = "tree" /\ Next /\ UNCHANGED <<subject, text, message>>

GrowText ==
  /\ subject = "text"
  /\ Len(text) < MaxText
  /\ \E c \in MCCharacters : text' = Append(text, c)
  /\ UNCHANGED <<subject, namespace, occupied, message>>

GrowMessage ==
  /\ subject = "message"
  /\ Len(message.options) < MaxOptions
  /\ \E o \in MCOptions : message' = [message EXCEPT !.options = Append(@, o)]
  /\ UNCHANGED <<subject, namespace, occupied, text>>

MCNext == GrowTree \/ GrowText \/ GrowMessage

MCSpec == MCInit /\ [][MCNext]_allVars
=============================================================================
