----------------------------- MODULE ContextSync -----------------------------
(***************************************************************************)
(* Keeping two contexts equal: the core console (schc-coreconf-core) sends *)
(* management requests to the device (schc-coreconf-device) over the raw   *)
(* SCHC link, a UDP socket, and mirrors in its own context what it has     *)
(* asked the device to do.                                                 *)
(*   rule update      CON iPATCH; the core applies it locally only after   *)
(*                    the device has answered 2.04 Changed                 *)
(*   rule duplicate   NON POST; sent, never answered, applied locally      *)
(*   context check    CON FETCH that compares the two context tags         *)
(*   rule list / get  CON FETCH that reads the device's rules              *)
(* The core runs one command at a time and waits for at most one response. *)
(* Requests carry empty tokens, so a response (a piggybacked ACK) is       *)
(* recognised by its message ID alone, and the core numbers its requests   *)
(* modulo Modulus.  The device keeps no record of the MIDs it has seen.    *)
(*                                                                         *)
(* Each side's context is used atomically, which is what ActiveContext     *)
(* implements.  The network loses, delays and reorders frames and, if      *)
(* redelivers, delivers them again; a frame is gone once Lifetime further  *)
(* MIDs have been allocated.                                               *)
(***************************************************************************)
EXTENDS SchcContext

CONSTANTS
  Modulus,        \* MANAGEMENT_MID_MODULUS, 128 in the code
  Lifetime,       \* how many later MIDs a frame in flight may see allocated
  MaxExchanges,   \* bound on the MIDs allocated in a run
  NoCommand,
  NoReport,
  NoFrame

ASSUME ModulusAssumption == Modulus \in Nat /\ Modulus > 1

ASSUME LifetimeAssumption == Lifetime \in Nat

ASSUME MaxExchangesAssumption == MaxExchanges \in Nat

VARIABLES
  redelivers,   \* whether this network may deliver a frame more than once
  core,         \* the core's published context and its generation
  device,       \* the device's context; its generation is only displayed
  nextMid,      \* next_message_id of the core's main loop
  exchanges,    \* history: MIDs allocated so far, which numbers the requests
  command,      \* the command that waits for a response, or NoCommand
  network,      \* frames in flight in either direction
  report,       \* what the last command told the operator
  applied,      \* history: requests that made the device publish
  uncertain     \* history: changes sent whose effect the core cannot know

coreVariables == <<core, nextMid, exchanges, command, report>>
vars == <<redelivers, core, device, nextMid, exchanges, command, network, report,
          applied, uncertain>>

CheckRequests == [kind : {"check"}, tag : Digests]

ListRequest == [kind |-> "list"]

\* Requests that the device answers.
Confirmable == PatchRequests \cup CheckRequests \cup {ListRequest}

Requests == Confirmable \cup DuplicateRequests

Mids == 0..(Modulus - 1)

RequestFrames == [to : {"device"}, xid : Nat, mid : Mids, request : Requests]

\* A response: its code, its payload, and (history) the device's rules when
\* it was sent.
ResponseFrames == [to : {"core"}, xid : Nat, mid : Mids,
                   code : {"2.04", "2.05", "4.09", "4.12"},
                   payload : {"empty", "equal", "mismatch", "rules"},
                   seen : Contexts]

Commands == [request : Confirmable, xid : Nat, mid : Mids, base : Nat]

Reports == [request : Requests, xid : Nat,
            outcome : {"ok", "rejected", "possible divergence", "no answer",
                       "equal", "mismatch", "listed", "unreadable",
                       "installed", "idempotent"},
            answer : ResponseFrames \cup {NoFrame}]

\* "Nothing" is no command, no report and no frame.
ASSUME SyncSentinels ==
  /\ NoCommand \notin Commands
  /\ NoReport \notin Reports
  /\ NoFrame \notin ResponseFrames

Publish(rules) == [rules |-> rules, generation |-> core.generation + 1]

Report(r, xid, outcome, answer) ==
  [request |-> r, xid |-> xid, outcome |-> outcome, answer |-> answer]

Init ==
  /\ redelivers \in BOOLEAN
  /\ core = [rules |-> Initial, generation |-> 1]
  /\ device = Initial
  /\ nextMid = 1
  /\ exchanges = 0
  /\ command = NoCommand
  /\ network = {}
  /\ report = NoReport
  /\ applied = {}
  /\ uncertain = {}

-----------------------------------------------------------------------------
(* Numbering and sending requests. *)

\* next_management_message_id, its value and its effect.
Mid == IF nextMid >= Modulus THEN 0 ELSE nextMid

\* Fault variants of AllocateMid: the counter does not wrap, or stands still.
AllocateMidUnwrapped ==
  /\ exchanges < MaxExchanges
  /\ exchanges' = exchanges + 1
  /\ nextMid' = Mid + 1

AllocateMidTwice ==
  /\ exchanges < MaxExchanges
  /\ exchanges' = exchanges + 1
  /\ nextMid' = Mid

AllocateMid ==
  /\ exchanges < MaxExchanges
  /\ exchanges' = exchanges + 1
  /\ nextMid' = (Mid + 1) % Modulus

\* What is still in flight once the next MID is allocated.
Surviving == {f \in network : f.xid + Lifetime > exchanges}

RequestFrame(r) ==
  [to |-> "device", xid |-> exchanges + 1, mid |-> Mid, request |-> r]

\* Send a confirmable request and wait for its response.
Exchange(r) ==
  /\ command = NoCommand
  /\ AllocateMid
  /\ command' = [request |-> r, xid |-> exchanges + 1, mid |-> Mid,
                 base |-> core.generation]
  /\ network' = Surviving \cup {RequestFrame(r)}
  /\ report' = NoReport
  /\ UNCHANGED <<core, device, applied, uncertain>>

\* A rule update names an ordinary rule of the core's context, an entry of
\* it that has a target value, and the new value fits the field.
Resolves(ctx, r) ==
  /\ r.id \in DOMAIN ctx
  /\ r.id \notin Protected(ctx)
  /\ ctx[r.id].tv[r.entry] \in TargetValues
  /\ r.tv \in TargetValues

\* Fault variant of UpdateCommands: the tag is the one of start-up.
UpdateCommandsStale == PatchesSeeing(Initial)

\* The operator's update commands; --if-match sends the core's current tag.
UpdateCommands == PatchesSeeing(core.rules)

StartUpdate ==
  \E r \in UpdateCommands : Resolves(core.rules, r) /\ Exchange(r)

\* An update that does not resolve is refused before a MID is allocated:
\* "device=not-sent; local=unchanged".
RefuseUpdate ==
  /\ command = NoCommand
  /\ \E r \in UpdateCommands : ~Resolves(core.rules, r)
  /\ report' = NoReport
  /\ UNCHANGED <<core, device, nextMid, exchanges, command, network,
                 applied, uncertain>>

\* Fault variant of StartCheck: the tag is the one of start-up.
StartCheckStale == Exchange([kind |-> "check", tag |-> Digest(Initial)])

StartCheck == Exchange([kind |-> "check", tag |-> Digest(core.rules)])

StartList == Exchange(ListRequest)

-----------------------------------------------------------------------------
(* rule duplicate: one way, with no response to wait for. *)

\* The datagram is sent, then applied to the core's own context.
SendDuplicate(r) ==
  LET result == DuplicateResult(core.rules, r) IN
  /\ command = NoCommand
  /\ Builds(core.rules, r)
  /\ AllocateMid
  /\ network' = Surviving \cup {RequestFrame(r)}
  /\ core' = IF result = "applied"
               THEN Publish(Duplicated(core.rules, r))
               ELSE core
  /\ report' = Report(r, exchanges + 1,
                      CASE result = "applied"    -> "installed"
                        [] result = "idempotent" -> "idempotent"
                        [] result = "failed"     -> "possible divergence",
                      NoFrame)
  /\ uncertain' = uncertain \cup {exchanges + 1}
  /\ UNCHANGED <<device, command, applied>>

\* The datagram cannot be built, or sending it fails; its MID is used up.
FailDuplicate ==
  /\ command = NoCommand
  /\ AllocateMid
  /\ network' = Surviving
  /\ report' = NoReport
  /\ UNCHANGED <<core, device, command, applied, uncertain>>

DuplicateCommand ==
  FailDuplicate \/ \E r \in DuplicateRequests : SendDuplicate(r)

-----------------------------------------------------------------------------
(* The device. *)

\* The network forgets a frame it delivers, unless it may deliver it again.
AfterDelivery(f) == IF redelivers THEN network ELSE network \ {f}

Response(f, code, payload, seen) ==
  [to |-> "core", xid |-> f.xid, mid |-> f.mid, code |-> code,
   payload |-> payload, seen |-> seen]

\* Fault variant of DevicePatch: If-Match only decides what is answered.
DevicePatchEager(f) ==
  LET changed == PatchApplies(device, f.request)
      code == PatchCode(device, f.request) IN
  /\ f.request.kind = "ipatch"
  /\ device' = IF changed THEN Patched(device, f.request) ELSE device
  /\ applied' = IF changed THEN applied \cup {f.xid} ELSE applied
  /\ network' = AfterDelivery(f) \cup {Response(f, code, "empty", device')}
  /\ UNCHANGED <<coreVariables, uncertain>>

\* handle_target_ipatch: publish, then answer; any failure answers only.
DevicePatch(f) ==
  LET code == PatchCode(device, f.request)
      changed == code = "2.04" IN
  /\ f.request.kind = "ipatch"
  /\ device' = IF changed THEN Patched(device, f.request) ELSE device
  /\ applied' = IF changed THEN applied \cup {f.xid} ELSE applied
  /\ network' = AfterDelivery(f) \cup {Response(f, code, "empty", device')}
  /\ UNCHANGED <<coreVariables, uncertain>>

\* handle_context_check, and the FETCHes that rustconf answers.
DeviceRead(f) ==
  LET payload == CASE f.request.kind = "list" -> "rules"
                   [] f.request.kind = "check" ->
                        IF f.request.tag = Digest(device)
                          THEN "equal" ELSE "mismatch" IN
  /\ f.request.kind \in {"check", "list"}
  /\ network' = AfterDelivery(f)
                  \cup {Response(f, "2.05", payload, device)}
  /\ UNCHANGED <<coreVariables, device, applied, uncertain>>

\* handle_datagram_no_response.  A duplicate that arrives while it is still
\* the last thing the core did leaves no doubt behind.
DeviceDuplicate(f) ==
  LET r == f.request
      installs == DuplicateResult(device, r) = "applied" IN
  /\ r.kind = "duplicate"
  /\ device' = IF installs THEN Duplicated(device, r) ELSE device
  /\ applied' = IF installs THEN applied \cup {f.xid} ELSE applied
  /\ network' = AfterDelivery(f)
  /\ uncertain' = IF f.xid = exchanges THEN uncertain \ {f.xid} ELSE uncertain
  /\ UNCHANGED coreVariables

DeviceReceives ==
  \E f \in network :
    /\ f.to = "device"
    /\ DevicePatch(f) \/ DeviceRead(f) \/ DeviceDuplicate(f)

-----------------------------------------------------------------------------
(* The core's wait for a response. *)

\* Fault variant of Correlates: only the empty token is compared.
CorrelatesByToken(f) == command # NoCommand

\* ExchangeId::matches_response.  Tokens are empty, so they always match; the
\* message ID is compared for acknowledgements only, and the device answers
\* with piggybacked acknowledgements only.  (A separate CON or NON response,
\* which no program of this repository sends, would pass with any ID.)
Correlates(f) == command # NoCommand /\ f.mid = command.mid

Finish(outcome, f) ==
  /\ command' = NoCommand
  /\ report' = Report(command.request, command.xid, outcome, f)

\* Fault variant of UpdateAnswered: 2.04 is reported but not mirrored.
UpdateAnsweredUnmirrored(f) ==
  /\ command.request.kind = "ipatch"
  /\ Finish(IF f.code = "2.04" THEN "ok" ELSE "rejected", f)
  /\ UNCHANGED core

\* execute_rule_update with the device's answer in hand: only 2.04 is
\* applied locally, and must then publish exactly once.
UpdateAnswered(f) ==
  LET r == command.request
      locally == PatchCode(core.rules, r) IN
  /\ r.kind = "ipatch"
  /\ \/ /\ f.code # "2.04"
        /\ Finish("rejected", f)
        /\ UNCHANGED core
     \/ /\ f.code = "2.04"
        /\ locally = "2.04"
        /\ core' = Publish(Patched(core.rules, r))
        /\ Finish(IF core'.generation = command.base + 1
                    THEN "ok" ELSE "possible divergence", f)
     \/ /\ f.code = "2.04"
        /\ locally # "2.04"
        /\ Finish("possible divergence", f)
        /\ UNCHANGED core

\* The payload is decoded whatever the code; a payload of another shape is
\* an error.
ReadAnswered(f) ==
  LET kind == command.request.kind IN
  /\ kind \in {"check", "list"}
  /\ Finish(CASE kind = "check" /\ f.payload \in {"equal", "mismatch"} -> f.payload
              [] kind = "list" /\ f.payload = "rules" -> "listed"
              [] OTHER -> "unreadable", f)
  /\ UNCHANGED core

CoreReceives ==
  \E f \in network :
    /\ f.to = "core"
    /\ Correlates(f)
    /\ UpdateAnswered(f) \/ ReadAnswered(f)
    /\ network' = AfterDelivery(f)
    /\ UNCHANGED <<device, nextMid, exchanges, applied, uncertain>>

\* A response that matches no waiting command is dropped.
CoreIgnores ==
  \E f \in network :
    /\ f.to = "core"
    /\ ~Correlates(f)
    /\ network' = AfterDelivery(f)
    /\ UNCHANGED <<coreVariables, device, applied, uncertain>>

\* wait_management_response fails: the deadline passes, or the socket does.
\* Nothing is sent again and the local context stays as it is.
GiveUp ==
  /\ command # NoCommand
  /\ Finish("no answer", NoFrame)
  /\ uncertain' = IF command.request.kind = "ipatch"
                    THEN uncertain \cup {command.xid} ELSE uncertain
  /\ UNCHANGED <<core, device, nextMid, exchanges, network, applied>>

Lose ==
  \E f \in network :
    /\ network' = network \ {f}
    /\ UNCHANGED <<coreVariables, device, applied, uncertain>>

Step ==
  \/ StartUpdate
  \/ RefuseUpdate
  \/ StartCheck
  \/ StartList
  \/ DuplicateCommand
  \/ DeviceReceives
  \/ CoreReceives
  \/ CoreIgnores
  \/ GiveUp
  \/ Lose

Next == Step /\ UNCHANGED redelivers

Spec == Init /\ [][Next]_vars

-----------------------------------------------------------------------------
(* Properties. *)

TypeOK ==
  /\ redelivers \in BOOLEAN
  /\ core \in [rules : Contexts, generation : Nat]
  /\ device \in Contexts
  /\ nextMid \in Mids
  /\ exchanges \in Nat
  /\ command \in Commands \cup {NoCommand}
  /\ network \subseteq RequestFrames \cup ResponseFrames
  /\ report \in Reports \cup {NoReport}
  /\ applied \subseteq Nat
  /\ uncertain \subseteq Nat

\* validate_management_response: "Returns an error when the decoded traffic
\* is not a protected management response for this request".  An answer the
\* core accepts was sent for the request the core waits on, not for an older
\* one that used the same MID.
CorrelationSound ==
  report # NoReport /\ report.answer # NoFrame
    => report.answer.xid = report.xid

\* Behind CorrelationSound: MIDs count exchanges modulo Modulus, a frame in
\* flight carries the MID of its exchange and is at most Lifetime exchanges
\* old, and only the newest exchange is waited for.
MidsCountExchanges ==
  /\ exchanges \in Nat
  /\ nextMid = (exchanges + 1) % Modulus
  /\ \A f \in network :
       /\ f.xid \in Nat /\ f.xid <= exchanges /\ exchanges <= f.xid + Lifetime
       /\ f.mid = f.xid % Modulus
  /\ command # NoCommand =>
       command.xid = exchanges /\ command.mid = exchanges % Modulus

\* "device=changed local=changed": when an update is reported successful, the
\* device held the core's value when it answered and, with --if-match, the
\* core's entire context.
OkUpdateAgrees ==
  report # NoReport /\ report.outcome = "ok" =>
    LET r == report.request IN
    /\ report.answer.seen[r.id].tv[r.entry] = core.rules[r.id].tv[r.entry]
    /\ r.tag # NoTag => report.answer.seen = core.rules

\* "OK context check equal" is never printed for contexts that differed when
\* the device answered.
CheckEqualSound ==
  report # NoReport /\ report.outcome = "equal"
    => report.answer.seen = core.rules

\* Once the device has accepted an update, the core's own application of it
\* cannot fail: the warning "possible divergence" of execute_rule_update is
\* never printed.
UpdateNeverDiverges ==
  report # NoReport /\ report.outcome = "possible divergence"
    => report.request.kind = "duplicate"

\* Without redelivery, the contexts are equal whenever the core is idle and
\* no change it sent is uncertain: every update was answered, and every
\* duplicate reached the device before the next command.
InSync ==
  ~redelivers /\ command = NoCommand /\ uncertain = {}
    => core.rules = device

\* Without redelivery, "rejected" means that the device did not publish.
RejectedNotApplied ==
  ~redelivers /\ report # NoReport /\ report.outcome = "rejected"
    => report.xid \notin applied

\* A duplicate-rule the device has installed is never installed again, not
\* even when later updates have changed its source or its destination.
ReplayNeverReinstalls ==
  [][\A f \in network :
       f.to = "device" /\ DeviceDuplicate(f) /\ f.xid \in applied
         => UNCHANGED device]_vars

\* docs/COMPOSITION.md: "identical replays are no-op success".  The device
\* reports a duplicate-rule that it has installed before as idempotent, should
\* the frame arrive again.
ReplayIsNoopSuccess ==
  \A f \in network :
    f.to = "device" /\ f.request.kind = "duplicate" /\ f.xid \in applied
      => DuplicateResult(device, f.request) = "idempotent"
=============================================================================
