-------------------------------- MODULE Link --------------------------------
(***************************************************************************)
(* The SCHC link (link.rs) between core and device.  Each side compresses  *)
(* a packet with a rule of its own active context; the frame starts with   *)
(* the bits of the RuleID and carries neither its length nor a route, so   *)
(* the receiver derives everything from its own context, which may be      *)
(* another one: either side publishes new contexts at any time, also       *)
(* while frames are in flight.                                             *)
(*                                                                         *)
(* A RuleID of the receiver that overlaps the sender's may start the same  *)
(* frame; what such a frame decompresses to is left open.                  *)
(***************************************************************************)
EXTENDS Compression

CONSTANTS
  NoDelivery,
  MaxFrames,      \* bound on the frames in flight
  MaxChanges      \* bound on the publications of a run

Sides == {"core", "device"}

Peer(side) == IF side = "core" THEN "device" ELSE "core"

ASSUME LinkBounds == MaxFrames \in Nat /\ MaxChanges \in Nat

VARIABLES
  contexts,     \* the active context of each side
  network,      \* frames in flight
  delivered,    \* what the last frame received was delivered as
  changes       \* publications so far

vars == <<contexts, network, delivered, changes>>

\* A frame and, as history, how it came about.
Frame(side, origin, p, id) ==
  LET ctx == contexts[side] IN
  [to |-> Peer(side), id |-> id, residue |-> Residue(ctx[id], p),
   origin |-> origin, packet |-> p, context |-> ctx]

Init ==
  /\ contexts = [side \in Sides |-> Initial]
  /\ network = {}
  /\ delivered = NoDelivery
  /\ changes = 0

-----------------------------------------------------------------------------
(* Encoding. *)

\* Encode a packet and send it; when no rule matches, or the rule is of the
\* wrong class, nothing is sent.
Send(side, origin, p) ==
  LET ctx == contexts[side] IN
  /\ Cardinality(network) < MaxFrames
  /\ Encodes(ctx, origin, p)
  /\ network' = network
                  \cup {Frame(side, origin, p, Select(RulesFor(ctx, origin), p))}
  /\ delivered' = NoDelivery
  /\ UNCHANGED <<contexts, changes>>

-----------------------------------------------------------------------------
(* Decoding. *)

\* RuleIDs of the context that may be the first bits of the frame.
Starting(ctx, f) == {id \in DOMAIN ctx : Overlaps(id, f.id)}

\* Fault variant of CanonicalRules: always the complete context.
CanonicalRulesFull(ctx, id) == ctx

\* The rules with which decode_packet encodes the packet again.
CanonicalRules(ctx, id) ==
  IF id \in Protected(ctx) THEN ctx ELSE ApplicationRules(ctx)

\* decode_packet: the matched RuleIDs and packets that survive canonical
\* encoding, which must select the same RuleID and yield the same bytes.
Decodings(ctx, f) ==
  {d \in [id : Starting(ctx, f), packet : Packets] :
     /\ d.id = f.id => d.packet \in Expand(ctx[d.id], f.residue)
     /\ LET canonical == CanonicalRules(ctx, d.id) IN
        /\ Matching(canonical, d.packet) # {}
        /\ Select(canonical, d.packet) = d.id}

\* A packet with the ports of the other kind of traffic is of an unsupported
\* orientation on the route that its RuleID gives it.
Oriented(ctx, d) == d.packet.port = Class(ctx, d.id)

\* The frame is delivered on the route of its RuleID.  History: whether the
\* receiver has the rule that encoded the frame.
Receive(f) ==
  LET ctx == contexts[f.to] IN
  \E d \in Decodings(ctx, f) :
    /\ Oriented(ctx, d)
    /\ delivered' = [frame |-> f, id |-> d.id, packet |-> d.packet,
                     route |-> Class(ctx, d.id),
                     agreed |-> /\ f.id \in DOMAIN ctx
                                /\ ctx[f.id] = f.context[f.id]]
    /\ network' \in {network, network \ {f}}
    /\ UNCHANGED <<contexts, changes>>

\* Lost on the way, or dropped by the receiver as malformed, non-canonical
\* or of an unsupported orientation.
Lose(f) ==
  /\ network' = network \ {f}
  /\ UNCHANGED <<contexts, delivered, changes>>

-----------------------------------------------------------------------------
(* Publications on either side, in no agreed order. *)

Change(side) ==
  /\ changes < MaxChanges
  /\ changes' = changes + 1
  /\ \E c \in Publications(contexts[side]) :
       contexts' = [contexts EXCEPT ![side] = c]
  /\ UNCHANGED <<network, delivered>>

Next ==
  \/ \E side \in Sides, origin \in Origins, p \in Packets : Send(side, origin, p)
  \/ \E f \in network : Receive(f) \/ Lose(f)
  \/ \E side \in Sides : Change(side)

Spec == Init /\ [][Next]_vars

-----------------------------------------------------------------------------
(* Properties. *)

\* "The matched RuleID determines the traffic class and route": whatever the
\* two contexts have become, a frame reaches the management handler exactly
\* if its sender declared it as management traffic.
RouteFollowsOrigin ==
  delivered # NoDelivery => delivered.route = delivered.frame.origin

\* A management packet is delivered as it was sent, however far the ordinary
\* rules of the two sides have drifted apart since it was encoded.
ManagementExact ==
  delivered # NoDelivery /\ delivered.route = "management"
    => delivered.packet = delivered.frame.packet

\* A packet is delivered as it was sent whenever the receiver has the rule
\* that encoded it: publications of either side that leave this one rule
\* alone cannot alter it.
AlteredOnlyByRuleChange ==
  delivered # NoDelivery /\ delivered.agreed
    => delivered.packet = delivered.frame.packet

\* A receiver whose context is the one that encoded the frame reads exactly
\* the packet that was sent: the canonical re-encoding never refuses it.
AgreedContextDecodes ==
  \A f \in network :
    contexts[f.to] = f.context
      => Decodings(contexts[f.to], f) = {[id |-> f.id, packet |-> f.packet]}

-----------------------------------------------------------------------------
(* The inductive invariant behind the properties. *)

\* What no publication changes: the context is unambiguous, and its protected
\* rules are those of the context both sides were started with.
Sound(ctx) ==
  /\ ctx \in Contexts
  /\ Prepared(ctx)
  /\ Protected(ctx) = Protected(Initial)
  /\ \A id \in Protected(Initial) : ctx[id] = Initial[id]

\* A frame was encoded from a sound context by the rule that this context
\* selects for traffic of its origin.
FrameSound(f) ==
  /\ f.to \in Sides
  /\ Sound(f.context)
  /\ f.packet \in Packets
  /\ f.origin \in Origins
  /\ Matching(RulesFor(f.context, f.origin), f.packet) # {}
  /\ f.id = Select(RulesFor(f.context, f.origin), f.packet)
  /\ Class(f.context, f.id) = f.origin
  /\ f.residue = Residue(f.context[f.id], f.packet)

Inv ==
  /\ \A side \in Sides : Sound(contexts[side])
  /\ contexts \in [Sides -> Contexts]
  /\ \A f \in network : FrameSound(f)
  /\ RouteFollowsOrigin
  /\ ManagementExact
  /\ AlteredOnlyByRuleChange
=============================================================================
