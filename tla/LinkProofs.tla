----------------------------- MODULE LinkProofs -----------------------------
(***************************************************************************)
(* The properties of Link for every codec that reads back what it writes,  *)
(* every rule set and any number of publications on either side.  Two      *)
(* facts carry the proof: the protected rules of both sides never change,  *)
(* and every context is prefix-free.  Hence no ordinary RuleID that either *)
(* side ever used overlaps a protected RuleID of the other.                *)
(***************************************************************************)
EXTENDS Link, SchcContextProofs

\* The empty set has one subset.
LEMMA PowerZero == 2^0 = 1
<1>1. IsFiniteSet({}) /\ Cardinality({}) = 0
  BY FS_EmptySet
<1>2. Cardinality(SUBSET {}) = 2^Cardinality({})
  BY <1>1, FS_SUBSET
<1>3. SUBSET {} = {{}}
  OBVIOUS
<1>4. Cardinality({{}}) = 1
  BY FS_Singleton
<1> QED
  BY <1>1, <1>2, <1>3, <1>4

\* A RuleID is a prefix of itself.
LEMMA OverlapsItself ==
  ASSUME NEW id, IsRuleId(id)
  PROVE  Overlaps(id, id)
<1>1. /\ id.length \in Nat
      /\ id.value \in 0..(2^id.length - 1)
  BY DEF IsRuleId, MaxRuleIdLength
<1>2. id.value \in Int
  BY <1>1
<1>3. id.length - id.length = 0
  BY <1>1
<1>4. id.value \div 2^(id.length - id.length) = id.value
  <2>1. 2^(id.length - id.length) = 1
    BY <1>3, PowerZero, Zenon
  <2>2. id.value \div 1 = id.value
    BY <1>2
  <2> QED
    BY <2>1, <2>2, Zenon
<1> QED
  BY <1>1, <1>4 DEF Overlaps, IsRuleIdPrefix

\* Publications keep a context sound.
LEMMA PublicationsSound ==
  ASSUME NEW c, Sound(c), NEW d \in Publications(c)
  PROVE  Sound(d)
<1>1. d \in Contexts /\ Admissible(c, d)
  BY PublicationsAdmissible DEF Sound
<1>2. Prepared(d) /\ Enforce(c, d)
  BY <1>1 DEF Admissible
<1>3. /\ Protected(d) = Protected(c)
      /\ \A id \in Protected(c) : d[id] = c[id]
  BY <1>1, <1>2, EnforceExact DEF Sound
<1> QED
  BY <1>1, <1>2, <1>3 DEF Sound

\* application_runtime leaves a context, and only ordinary rules in it.
LEMMA RulesForShape ==
  ASSUME NEW c \in Contexts, NEW origin
  PROVE  /\ RulesFor(c, origin) \in Contexts
         /\ DOMAIN RulesFor(c, origin) \subseteq DOMAIN c
         /\ \A id \in DOMAIN RulesFor(c, origin) : RulesFor(c, origin)[id] = c[id]
<1>1. DOMAIN c \subseteq RuleIds /\ c \in [DOMAIN c -> Rules]
  BY ContextShape
<1>2. ApplicationRules(c) \in [DOMAIN c \ Protected(c) -> Rules]
  BY <1>1 DEF ApplicationRules
<1>3. ApplicationRules(c) \in Contexts
  BY <1>1, <1>2, ContextShape
<1> QED
  BY <1>1, <1>2, <1>3 DEF RulesFor, ApplicationRules

\* The RuleID of a frame is one of its context's, and its rule applies.
LEMMA FrameRule ==
  ASSUME NEW f, FrameSound(f)
  PROVE  /\ f.id \in DOMAIN f.context
         /\ f.context[f.id] \in Rules
         /\ Matches(f.context[f.id], f.packet)
         /\ f.origin = "management" <=> f.id \in Protected(f.context)
<1> DEFINE R == RulesFor(f.context, f.origin)
<1>1. f.context \in Contexts
  BY DEF FrameSound, Sound
<1>2. /\ R \in Contexts
      /\ DOMAIN R \subseteq DOMAIN f.context
      /\ \A id \in DOMAIN R : R[id] = f.context[id]
  BY <1>1, RulesForShape
<1> HIDE DEF R
<1>3. f.id \in Matching(R, f.packet)
  BY <1>2, SelectMatches DEF FrameSound, R
<1>4. f.id \in DOMAIN R /\ Matches(R[f.id], f.packet)
  BY <1>3 DEF Matching
<1>5. f.context \in [DOMAIN f.context -> Rules]
  BY <1>1, ContextShape
<1>6. f.origin = "management" <=> f.id \in Protected(f.context)
  BY DEF FrameSound, Class
<1> QED
  BY <1>2, <1>4, <1>5, <1>6

\* Two RuleIDs of one sound context that can start the same frame are one.
LEMMA SoleStart ==
  ASSUME NEW c, Sound(c), NEW a \in DOMAIN c, NEW b \in DOMAIN c, Overlaps(a, b)
  PROVE  a = b
  BY DEF Sound, Prepared, PrefixFree

\* The route of a frame is its origin, whichever sound context decodes it; and
\* a protected or unchanged RuleID is matched by itself.
LEMMA RouteOfFrame ==
  ASSUME NEW c, Sound(c), NEW f, FrameSound(f), NEW id \in Starting(c, f)
  PROVE  /\ Class(c, id) = f.origin
         /\ f.id \in DOMAIN c => id = f.id
<1>1. id \in DOMAIN c /\ Overlaps(id, f.id)
  BY DEF Starting
<1>2. f.id \in DOMAIN c => id = f.id
  BY <1>1, SoleStart
<1>3. Protected(c) = Protected(f.context)
  BY DEF FrameSound, Sound
<1>4. f.id \in DOMAIN f.context
  BY FrameRule
<1>5. f.origin \in Origins
  BY DEF FrameSound
<1>6. CASE f.origin = "management"
  <2>1. f.id \in Protected(c)
    BY <1>3, <1>6, FrameRule
  <2>2. f.id \in DOMAIN c
    BY <2>1 DEF Protected
  <2> QED
    BY <1>2, <1>6, <2>1, <2>2 DEF Class
<1>7. CASE f.origin = "application"
  <2>1. f.id \notin Protected(f.context)
    BY <1>7, FrameRule
  <2>2. ASSUME id \in Protected(c) PROVE FALSE
    <3>1. id \in DOMAIN f.context
      BY <1>3, <2>2 DEF Protected
    <3>2. id = f.id
      BY <1>1, <1>4, <3>1, SoleStart DEF FrameSound
    <3> QED
      BY <1>3, <2>1, <2>2, <3>2
  <2> QED
    BY <1>2, <1>7, <2>2 DEF Class
<1> QED
  BY <1>5, <1>6, <1>7 DEF Origins

\* A receiver that has the rule of the frame reads the packet that was sent.
LEMMA ReadsBack ==
  ASSUME NEW c, Sound(c), NEW f, FrameSound(f), NEW d \in Decodings(c, f),
         f.id \in DOMAIN c, c[f.id] = f.context[f.id]
  PROVE  d.id = f.id /\ d.packet = f.packet
<1>1. d.id \in Starting(c, f) /\ d.packet \in Packets
  BY DEF Decodings
<1>2. d.id = f.id
  BY <1>1, RouteOfFrame
<1>3. d.packet \in Expand(c[f.id], f.residue)
  BY <1>2 DEF Decodings
<1>4. Expand(f.context[f.id], Residue(f.context[f.id], f.packet)) = {f.packet}
  BY FrameRule, Lossless DEF FrameSound
<1>5. f.residue = Residue(f.context[f.id], f.packet)
  BY DEF FrameSound
<1> QED
  BY <1>2, <1>3, <1>4, <1>5

\* The protected rules of the encoding context are those of the receiver.
LEMMA ProtectedRuleKept ==
  ASSUME NEW c, Sound(c), NEW f, FrameSound(f), f.origin = "management"
  PROVE  f.id \in DOMAIN c /\ c[f.id] = f.context[f.id]
<1>1. f.id \in Protected(f.context)
  BY FrameRule
<1>2. f.id \in Protected(Initial) /\ f.id \in Protected(c)
  BY <1>1 DEF FrameSound, Sound
<1> QED
  BY <1>2 DEF FrameSound, Sound, Protected

\* A frame in flight always decodes exactly when the contexts agree.
LEMMA AgreedDecodes ==
  ASSUME NEW f, FrameSound(f)
  PROVE  Decodings(f.context, f) = {[id |-> f.id, packet |-> f.packet]}
<1> DEFINE c == f.context
           e == [id |-> f.id, packet |-> f.packet]
<1>1. Sound(c) /\ f.packet \in Packets /\ f.id \in DOMAIN c
  BY FrameRule DEF FrameSound
<1>2. e \in Decodings(c, f)
  <2>1. f.id \in Starting(c, f)
    <3>1. f.id \in RuleIds
      BY <1>1, ContextShape DEF Sound
    <3>2. Overlaps(f.id, f.id)
      BY <3>1, RuleIdsExplicit, OverlapsItself
    <3> QED
      BY <1>1, <3>2 DEF Starting
  <2>2. f.packet \in Expand(c[f.id], f.residue)
    <3>1. Expand(c[f.id], Residue(c[f.id], f.packet)) = {f.packet}
      BY <1>1, FrameRule, Lossless
    <3> QED
      BY <3>1 DEF FrameSound
  <2>3. CanonicalRules(c, f.id) = RulesFor(c, f.origin)
    BY FrameRule DEF CanonicalRules, RulesFor, FrameSound, Origins
  <2>4. /\ Matching(RulesFor(c, f.origin), f.packet) # {}
        /\ Select(RulesFor(c, f.origin), f.packet) = f.id
    BY DEF FrameSound
  <2> HIDE DEF c
  <2>5. e \in [id : Starting(c, f), packet : Packets]
    BY <1>1, <2>1
  <2> QED
    BY <2>2, <2>3, <2>4, <2>5 DEF Decodings
<1>3. ASSUME NEW d \in Decodings(c, f)
      PROVE  d = e
  <2>1. d.id = f.id /\ d.packet = f.packet
    BY <1>1, ReadsBack
  <2>2. d \in [id : Starting(c, f), packet : Packets]
    BY DEF Decodings
  <2> QED
    BY <2>1, <2>2
<1> QED
  BY <1>2, <1>3

-----------------------------------------------------------------------------
(* The invariant. *)

\* At start-up both sides hold the loaded context and nothing is in flight.
LEMMA InitInv == Init => Inv
  BY InitialPrepared
     DEF Init, Inv, Sound, Sides, RouteFollowsOrigin, ManagementExact,
         AlteredOnlyByRuleChange

\* encode_validated sends sound frames only.
LEMMA SendStep ==
  ASSUME Inv, NEW side \in Sides, NEW origin \in Origins, NEW p \in Packets,
         Send(side, origin, p)
  PROVE  Inv'
<1> DEFINE ctx == contexts[side]
           f == Frame(side, origin, p, Select(RulesFor(ctx, origin), p))
<1>1. /\ contexts' = contexts
      /\ delivered' = NoDelivery
      /\ network' = network \cup {f}
  BY DEF Send
<1>2. FrameSound(f)
  <2>1. Sound(ctx)
    BY DEF Inv
  <2>2. Peer(side) \in Sides
    BY DEF Peer, Sides
  <2>3. /\ Matching(RulesFor(ctx, origin), p) # {}
        /\ Class(ctx, Select(RulesFor(ctx, origin), p)) = origin
    BY DEF Send, Encodes, EnforceOrigin
  <2> QED
    BY <2>1, <2>2, <2>3 DEF FrameSound, Frame
<1>3. (\A g \in network : FrameSound(g))'
  <2>1. \A g \in network' : FrameSound(g)
    BY <1>1, <1>2 DEF Inv
  <2> QED
    BY <2>1 DEF FrameSound
<1>4. (\A s \in Sides : Sound(contexts[s]))' /\ (contexts \in [Sides -> Contexts])'
  BY <1>1 DEF Inv
<1> QED
  BY <1>1, <1>3, <1>4
     DEF Inv, RouteFollowsOrigin, ManagementExact, AlteredOnlyByRuleChange

\* decode_packet delivers a sound frame on the route of its origin, and
\* unaltered if the receiver has its rule.
LEMMA ReceiveStep ==
  ASSUME Inv, NEW f \in network, Receive(f)
  PROVE  Inv'
<1> DEFINE c == contexts[f.to]
<1>1. Sound(c) /\ FrameSound(f)
  BY DEF Inv, FrameSound
<1>2. PICK d \in Decodings(c, f) :
        delivered' = [frame |-> f, id |-> d.id, packet |-> d.packet,
                      route |-> Class(c, d.id),
                      agreed |-> /\ f.id \in DOMAIN c
                                 /\ c[f.id] = f.context[f.id]]
  BY DEF Receive
<1>3. contexts' = contexts /\ network' \subseteq network
  BY DEF Receive
<1>4. d.id \in Starting(c, f)
  BY DEF Decodings
<1>5. Class(c, d.id) = f.origin
  BY <1>1, <1>4, RouteOfFrame
<1>6. f.id \in DOMAIN c /\ c[f.id] = f.context[f.id] => d.packet = f.packet
  BY <1>1, ReadsBack
<1>7. f.origin = "management" => d.packet = f.packet
  BY <1>1, <1>6, ProtectedRuleKept
<1>8. delivered'.route = f.origin /\ delivered'.frame = f /\ delivered'.packet = d.packet
  BY <1>2, <1>5
<1>9. delivered'.agreed => d.packet = f.packet
  BY <1>2, <1>6
<1>10. (RouteFollowsOrigin /\ ManagementExact /\ AlteredOnlyByRuleChange)'
  BY <1>7, <1>8, <1>9
     DEF RouteFollowsOrigin, ManagementExact, AlteredOnlyByRuleChange
<1> QED
  BY <1>3, <1>10 DEF Inv

\* The other steps: a frame disappears, or one side publishes.
LEMMA OtherSteps ==
  ASSUME Inv,
         \/ \E f \in network : Lose(f)
         \/ \E side \in Sides : Change(side)
         \/ UNCHANGED vars
  PROVE  Inv'
<1>1. CASE \E f \in network : Lose(f)
  BY <1>1 DEF Lose, Inv, RouteFollowsOrigin, ManagementExact,
              AlteredOnlyByRuleChange
<1>2. ASSUME NEW side \in Sides, Change(side)
      PROVE  Inv'
  <2>1. PICK c \in Publications(contexts[side]) :
          contexts' = [contexts EXCEPT ![side] = c]
    BY <1>2 DEF Change
  <2>2. network' = network /\ delivered' = delivered
    BY <1>2 DEF Change
  <2>3. Sound(c)
    BY PublicationsSound DEF Inv
  <2>4. \A s \in Sides : contexts'[s] = IF s = side THEN c ELSE contexts[s]
    BY <2>1 DEF Inv
  <2>5. \A s \in Sides : Sound(contexts'[s])
    BY <2>3, <2>4 DEF Inv
  <2>6. contexts' \in [Sides -> Contexts]
    BY <2>1, <2>3 DEF Inv, Sound
  <2> QED
    BY <2>2, <2>5, <2>6
       DEF Inv, RouteFollowsOrigin, ManagementExact, AlteredOnlyByRuleChange
<1>3. CASE UNCHANGED vars
  BY <1>3 DEF vars, Inv, RouteFollowsOrigin, ManagementExact,
              AlteredOnlyByRuleChange
<1> QED
  BY <1>1, <1>2, <1>3

\* Inv is an invariant of Link.
LEMMA Invariance == Spec => []Inv
<1>1. Inv /\ [Next]_vars => Inv'
  BY SendStep, ReceiveStep, OtherSteps DEF Next
<1> QED
  BY <1>1, InitInv, PTL DEF Spec

\* Route and origin of every delivery agree under any sequence of changes of
\* the two contexts: link.rs never hands application traffic to the
\* management handler, nor management traffic to the application.
THEOREM RouteTheorem == Spec => []RouteFollowsOrigin
<1>1. Inv => RouteFollowsOrigin
  BY DEF Inv
<1> QED
  BY <1>1, Invariance, PTL

\* Management packets are delivered exactly, whatever happens to the
\* ordinary rules.
THEOREM ManagementTheorem == Spec => []ManagementExact
<1>1. Inv => ManagementExact
  BY DEF Inv
<1> QED
  BY <1>1, Invariance, PTL

\* Only a change of the rule that encoded a packet can alter it.
THEOREM AlterationTheorem == Spec => []AlteredOnlyByRuleChange
<1>1. Inv => AlteredOnlyByRuleChange
  BY DEF Inv
<1> QED
  BY <1>1, Invariance, PTL

\* A frame that meets the context that encoded it is read back exactly.
THEOREM AgreementTheorem == Spec => []AgreedContextDecodes
<1>1. Inv => AgreedContextDecodes
  BY AgreedDecodes DEF Inv, AgreedContextDecodes
<1> QED
  BY <1>1, Invariance, PTL
=============================================================================
