----------------------------- MODULE EventLoop -----------------------------
(***************************************************************************)
(* The loops of the two processes (schc-coreconf-core, schc-coreconf-      *)
(* device; packet_loop.rs).  Each process has one thread that takes turns  *)
(* at its inputs: the core's console, the TUN device that brings           *)
(* application packets, and the UDP socket that brings SCHC frames.  A     *)
(* console command that needs an answer from the device runs a loop of its *)
(* own, which goes on serving TUN and socket until a response is accepted, *)
(* the operation times out or an I/O operation fails.                      *)
(*                                                                         *)
(* What is in a packet or a frame is abstracted to how it is treated.      *)
(* ContextSync says which responses are accepted and what a command does   *)
(* to the contexts, Link which packets can be encoded and decoded.         *)
(***************************************************************************)
EXTENDS Naturals, Sequences, FiniteSets

CONSTANTS
  MaxFaults,      \* bound on the failed I/O operations
  MaxWaiting      \* bound on the length of each input

ASSUME BoundsAssumption == MaxFaults \in Nat /\ MaxWaiting \in Nat

Sides == {"core", "device"}
Peer(side) == IF side = "core" THEN "device" ELSE "core"
Sources == {"console", "tun", "raw"}

\* Packets that can be forwarded, and those that are not UDP, malformed, of
\* another orientation, or match no rule.
TunItems == {"application", "unsupported"}

\* A duplicate-rule request is not answered, any other request is.
Frames == {"application", "request", "duplicate", "response"}

\* Where an I/O operation fails: when a main loop reads, sends or writes a
\* packet or receives a frame, or inside wait_management_response.
Places == {"packet", "receive", "wait"}

\* Commands: those that wait for the device, duplicate-rule, those that only
\* look at the core, those that never count as an operation (empty, help,
\* unknown, context set), and quit.
CommandKinds == {"exchange", "duplicate", "local", "other", "quit"}

VARIABLES
  once,         \* args.once of both processes
  debug,        \* args.debug of both processes
  at,           \* the input each process turns to next, or "ended"
  waiting,      \* the core is inside wait_management_response
  expired,      \* the deadline of that wait has passed
  input,        \* input[side][source]: what waits there
  faults,       \* history: the failed I/O operations, by side and place
  undescribed,  \* history: the device met a packet it could not report
  quit,         \* history: the operator has quit
  completed,    \* history: sides that under --once completed an operation that counts
  overtaken,    \* history: items served while this source had to wait
  unaccounted   \* history: application packets that entered at this side,
                \* less those delivered, lost, or reported as dropped

vars == <<once, debug, at, waiting, expired, input, faults, undescribed, quit,
          completed, overtaken, unaccounted>>

Running(side) == at[side] # "ended"

Waiting(side, source) == input[side][source] # <<>>

\* The core is in the main loop, or in the loop of a command.
InMainLoop(side) == side = "device" \/ ~waiting

\* The start of a loop, which follows the socket.
Start(side) == IF side = "core" THEN "console" ELSE "tun"

Init ==
  /\ once \in BOOLEAN
  /\ debug \in BOOLEAN
  /\ at = [side \in Sides |-> Start(side)]
  /\ waiting = FALSE
  /\ expired = FALSE
  /\ input = [side \in Sides |-> [source \in Sources |-> <<>>]]
  /\ faults = {}
  /\ undescribed = FALSE
  /\ quit = FALSE
  /\ completed = {}
  /\ overtaken = [side \in Sides |-> [s \in {"tun", "raw"} |-> 0]]
  /\ unaccounted = [side \in Sides |-> 0]

-----------------------------------------------------------------------------
(* Moving through the loops. *)

Continue(side, source) == at' = [at EXCEPT ![side] = source]

\* The step completes an operation.  It counts in a main loop, where the first
\* one ends the process if args.once.
Complete(side, source) ==
  /\ completed' = IF once /\ InMainLoop(side) THEN completed \cup {side} ELSE completed
  /\ Continue(side, IF once /\ InMainLoop(side) THEN "ended" ELSE source)

\* The step completes none.
Proceed(side, source) ==
  /\ UNCHANGED completed
  /\ Continue(side, source)

\* What all steps leave alone but those that start or end a wait, fail or quit.
Steady == UNCHANGED <<waiting, expired, faults, undescribed, quit>>

\* Fault variant of EndWait: the deadline outlives the command.
EndWaitKeepingDeadline ==
  /\ waiting' = FALSE
  /\ UNCHANGED expired

\* The command that waits is over; the main loop polls the TUN device next.
EndWait ==
  /\ waiting' = FALSE
  /\ expired' = FALSE

\* Fault variant of Stop: a Fatal error ends the process wherever it occurs.
StopAnywhere(side) ==
  /\ Proceed(side, "ended")
  /\ UNCHANGED <<waiting, expired>>

\* A Fatal error: inside wait_management_response it fails the command and
\* the main loop goes on, elsewhere it ends the process.
Stop(side) ==
  \/ /\ InMainLoop(side)
     /\ Proceed(side, "ended")
     /\ UNCHANGED <<waiting, expired>>
  \/ /\ ~InMainLoop(side)
     /\ Proceed(side, "tun")
     /\ EndWait

\* An I/O operation fails.  History: where.
Fault(side, operation) ==
  LET fault == <<side, IF InMainLoop(side) THEN operation ELSE "wait">> IN
  /\ fault \notin faults
  /\ Cardinality(faults) < MaxFaults
  /\ faults' = faults \cup {fault}
  /\ UNCHANGED <<undescribed, quit>>

Fatal(side) == Fault(side, "packet") /\ Stop(side)

\* Take the first item of a source.  History: the sources that had to wait.
Take(side, source, item) ==
  /\ at[side] = source
  /\ Waiting(side, source)
  /\ Head(input[side][source]) = item
  /\ overtaken' = [overtaken EXCEPT ![side] =
       [s \in {"tun", "raw"} |-> IF s # source /\ Waiting(side, s) THEN @[s] + 1 ELSE 0]]
  /\ UNCHANGED <<once, debug>>

Rest(side, source) == [input EXCEPT ![side][source] = Tail(@)]

\* The item leads to no frame, or to one that is lost.
Consume(side, source) == input' = Rest(side, source)

\* The item leads to a frame that reaches the socket of the peer.
Transmit(side, source, f) ==
  /\ Running(Peer(side))
  /\ Len(input[Peer(side)].raw) < MaxWaiting
  /\ input' = [Rest(side, source) EXCEPT ![Peer(side)].raw = Append(@, f)]

\* One application packet that entered at this side is settled.
Settle(side) == unaccounted' = [unaccounted EXCEPT ![side] = @ - 1]

Unmoved == UNCHANGED <<once, debug, input, overtaken, unaccounted>>

-----------------------------------------------------------------------------
(* The console. *)

TakeCommand(kind) == ~waiting /\ Take("core", "console", kind) /\ UNCHANGED unaccounted

ConsoleIdle ==
  /\ at["core"] = "console" /\ ~waiting
  /\ ~Waiting("core", "console")
  /\ Proceed("core", "tun")
  /\ Steady /\ Unmoved

Quit ==
  /\ TakeCommand("quit")
  /\ Consume("core", "console")
  /\ Proceed("core", "ended")
  /\ quit' = TRUE
  /\ UNCHANGED <<waiting, expired, faults, undescribed>>

\* A command that is refused, fails before it sends, or is no operation.
FailCommand ==
  /\ \E kind \in CommandKinds \ {"quit"} : TakeCommand(kind)
  /\ Consume("core", "console")
  /\ Proceed("core", "tun")
  /\ Steady

LocalCommand ==
  /\ TakeCommand("local")
  /\ Consume("core", "console")
  /\ Complete("core", "tun")
  /\ Steady

\* execute_rule_duplicate: sent, and then applied locally or not.
DuplicateCommand ==
  /\ TakeCommand("duplicate")
  /\ Transmit("core", "console", "duplicate") \/ Consume("core", "console")
  /\ Complete("core", "tun") \/ Proceed("core", "tun")
  /\ Steady

\* exchange_management_routed: send the request and start to wait.
ExchangeCommand ==
  /\ TakeCommand("exchange")
  /\ Transmit("core", "console", "request") \/ Consume("core", "console")
  /\ Proceed("core", "console")
  /\ waiting' = TRUE
  /\ UNCHANGED <<expired, faults, undescribed, quit>>

\* Fault variant of CheckDeadline: looked at only when nothing has arrived.
CheckDeadlineWhenQuiet ==
  /\ at["core"] = "console" /\ waiting
  /\ IF expired /\ ~Waiting("core", "raw") THEN EndWait ELSE UNCHANGED <<waiting, expired>>
  /\ Proceed("core", "tun")
  /\ Unmoved /\ UNCHANGED <<faults, undescribed, quit>>

\* wait_management_response checks its deadline at the end and at the start
\* of each turn.
CheckDeadline ==
  /\ at["core"] = "console" /\ waiting
  /\ IF expired THEN EndWait ELSE UNCHANGED <<waiting, expired>>
  /\ Proceed("core", "tun")
  /\ Unmoved /\ UNCHANGED <<faults, undescribed, quit>>

-----------------------------------------------------------------------------
(* The TUN device: PacketEventLoop::poll, and process_core_tun_packet or     *)
(* send_device_tun_response.                                                 *)

\* Fault variant of TunIdle: a waiting command never polls the TUN device.
TunIdleWhileWaiting(side) ==
  /\ at[side] = "tun"
  /\ ~Waiting(side, "tun") \/ ~InMainLoop(side)
  /\ Proceed(side, "raw")
  /\ Steady /\ Unmoved

TunIdle(side) ==
  /\ at[side] = "tun"
  /\ ~Waiting(side, "tun")
  /\ Proceed(side, "raw")
  /\ Steady /\ Unmoved

TunPollFails(side) ==
  /\ at[side] = "tun"
  /\ Fatal(side)
  /\ Unmoved

\* Not UDP, malformed, of another orientation, or no rule encodes it.
TunDrop(side) ==
  /\ Take(side, "tun", "unsupported")
  /\ Consume(side, "tun")
  /\ Proceed(side, "raw")
  /\ Steady /\ UNCHANGED unaccounted

TunForward(side) ==
  /\ Take(side, "tun", "application")
  /\ \/ Transmit(side, "tun", "application") /\ UNCHANGED unaccounted
     \/ Consume(side, "tun") /\ Settle(side)
  /\ Complete(side, "raw")
  /\ Steady

TunSendFails(side) ==
  /\ Take(side, "tun", "application")
  /\ Consume(side, "tun") /\ Settle(side)
  /\ Fatal(side)

-----------------------------------------------------------------------------
(* The socket: process_core_raw_frame and receive_device_frame. *)

\* The receive timeout.
RawIdle(side) ==
  /\ at[side] = "raw"
  /\ ~Waiting(side, "raw")
  /\ Proceed(side, Start(side))
  /\ Steady /\ Unmoved

\* A failed receive is printed by a main loop, and fails a command.
RecvFails(side) ==
  /\ at[side] = "raw"
  /\ Fault(side, "receive")
  /\ \/ InMainLoop(side) /\ Proceed(side, Start(side)) /\ UNCHANGED <<waiting, expired>>
     \/ ~InMainLoop(side) /\ Proceed(side, "tun") /\ EndWait
  /\ overtaken' = [overtaken EXCEPT ![side].raw = 0]
  /\ UNCHANGED <<once, debug, input, unaccounted>>

\* Fault variant of DropFrame: a frame that cannot be read is fatal.
DropFrameFatal(side, f) ==
  /\ Take(side, "raw", f)
  /\ Consume(side, "raw")
  /\ IF f = "application" THEN Settle(Peer(side)) ELSE UNCHANGED unaccounted
  /\ Proceed(side, "ended")
  /\ Steady

\* Not decodable, an unsupported orientation, a request that cannot be
\* handled, or a management frame that nothing waits for.
DropFrame(side, f) ==
  /\ Take(side, "raw", f)
  /\ Consume(side, "raw")
  /\ IF f = "application" THEN Settle(Peer(side)) ELSE UNCHANGED unaccounted
  /\ Proceed(side, Start(side))
  /\ Steady

\* Fault variant of DeliverFrame: a waiting command discards what is not for
\* it.
DeliverFrameUnlessWaiting(side) ==
  /\ Take(side, "raw", "application")
  /\ Consume(side, "raw")
  /\ IF InMainLoop(side) THEN Settle(Peer(side)) ELSE UNCHANGED unaccounted
  /\ Complete(side, Start(side))
  /\ Steady

\* An application packet is written to the TUN device.
DeliverFrame(side) ==
  /\ Take(side, "raw", "application")
  /\ Consume(side, "raw") /\ Settle(Peer(side))
  /\ Complete(side, Start(side))
  /\ Steady

TunWriteFails(side) ==
  /\ Take(side, "raw", "application")
  /\ Consume(side, "raw") /\ Settle(Peer(side))
  /\ Fatal(side)

\* The device handles a request and sends the response.
AnswerRequest ==
  /\ Take("device", "raw", "request")
  /\ Transmit("device", "raw", "response") \/ Consume("device", "raw")
  /\ Complete("device", "tun")
  /\ Steady /\ UNCHANGED unaccounted

AnswerFails ==
  /\ Take("device", "raw", "request")
  /\ Consume("device", "raw")
  /\ Fatal("device")
  /\ UNCHANGED unaccounted

\* duplicate-rule is not answered; receive_device_frame returns Ok also if
\* it has failed.
HandleDuplicate ==
  /\ Take("device", "raw", "duplicate")
  /\ Consume("device", "raw")
  /\ Complete("device", "tun")
  /\ Steady /\ UNCHANGED unaccounted

\* With --debug the packet report of a duplicate-rule request describes its
\* overrides, and print_report fails if the payload is one of another model.
ReportFails ==
  /\ debug
  /\ Take("device", "raw", "duplicate")
  /\ Consume("device", "raw")
  /\ Stop("device")
  /\ undescribed' = TRUE
  /\ UNCHANGED <<faults, quit, unaccounted>>

\* validate_management_response accepts the frame and the command ends, with
\* success or, say because the device has refused, with an error.
AcceptResponse ==
  /\ waiting
  /\ Take("core", "raw", "response")
  /\ Consume("core", "raw")
  /\ EndWait
  /\ \/ /\ completed' = IF once THEN completed \cup {"core"} ELSE completed
        /\ Continue("core", IF once THEN "ended" ELSE "tun")
     \/ Proceed("core", "tun")
  /\ UNCHANGED <<faults, undescribed, quit, unaccounted>>

-----------------------------------------------------------------------------
(* The environment. *)

Expire ==
  /\ waiting /\ ~expired
  /\ expired' = TRUE
  /\ UNCHANGED <<once, debug, at, waiting, input, faults, undescribed, quit,
                 completed, overtaken, unaccounted>>

\* stdin_commands: a thread of its own reads lines into a channel.
Type(kind) ==
  /\ Running("core")
  /\ Len(input["core"].console) < MaxWaiting
  /\ input' = [input EXCEPT !["core"].console = Append(@, kind)]
  /\ UNCHANGED <<once, debug, at, waiting, expired, faults, undescribed, quit,
                 completed, overtaken, unaccounted>>

Enter(side, item) ==
  /\ Running(side)
  /\ Len(input[side].tun) < MaxWaiting
  /\ input' = [input EXCEPT ![side].tun = Append(@, item)]
  /\ unaccounted' = [unaccounted EXCEPT ![side] =
                       IF item = "application" THEN @ + 1 ELSE @]
  /\ UNCHANGED <<once, debug, at, waiting, expired, faults, undescribed, quit,
                 completed, overtaken>>

Step(side) ==
  \/ TunIdle(side) \/ TunPollFails(side) \/ TunDrop(side)
  \/ TunForward(side) \/ TunSendFails(side)
  \/ RawIdle(side) \/ RecvFails(side) \/ DeliverFrame(side) \/ TunWriteFails(side)
  \/ \E f \in Frames : DropFrame(side, f)

CoreStep ==
  \/ ConsoleIdle \/ Quit \/ FailCommand \/ LocalCommand
  \/ DuplicateCommand \/ ExchangeCommand \/ CheckDeadline
  \/ AcceptResponse
  \/ Step("core")

DeviceStep == AnswerRequest \/ AnswerFails \/ HandleDuplicate \/ ReportFails
              \/ Step("device")

Next ==
  \/ CoreStep
  \/ DeviceStep
  \/ Expire
  \/ \E kind \in CommandKinds : Type(kind)
  \/ \E side \in Sides, item \in TunItems : Enter(side, item)

\* Both threads keep running and time passes.
Fairness == WF_vars(CoreStep) /\ WF_vars(DeviceStep) /\ WF_vars(Expire)

Spec == Init /\ [][Next]_vars /\ Fairness

-----------------------------------------------------------------------------
(* Properties. *)

TypeOK ==
  /\ once \in BOOLEAN /\ debug \in BOOLEAN
  /\ waiting \in BOOLEAN /\ expired \in BOOLEAN
  /\ at \in [Sides -> Sources \cup {"ended"}]
  /\ input \in [Sides -> [Sources -> Seq(CommandKinds \cup TunItems \cup Frames)]]
  /\ \A side \in Sides :
       /\ input[side].console \in Seq(CommandKinds)
       /\ input[side].tun \in Seq(TunItems)
       /\ input[side].raw \in Seq(Frames)
  /\ overtaken \in [Sides -> [{"tun", "raw"} -> Nat]]
  /\ unaccounted \in [Sides -> Nat]
  /\ faults \subseteq Sides \X Places /\ completed \subseteq Sides
  /\ undescribed \in BOOLEAN /\ quit \in BOOLEAN
  /\ expired => waiting

\* No input starves the others, also while a command waits for the device:
\* a TUN packet sees at most one frame and one command served before it, and
\* a frame at most one command and one TUN packet, or one more packet when a
\* failed send has ended the wait in between.
BoundedOvertaking ==
  \A side \in Sides : overtaken[side].tun <= 2 /\ overtaken[side].raw <= 3

Count(queue, item) == Cardinality({i \in DOMAIN queue : queue[i] = item})

\* No application packet disappears inside a process: each one that came in
\* is still queued, or was delivered, lost on the link, or dropped with an
\* error message, whether or not the console was waiting for the device.
PacketsAccounted ==
  \A side \in Sides :
    unaccounted[side] = Count(input[side].tun, "application")
                          + Count(input[Peer(side)].raw, "application")

\* A frame that is malformed, refused or meant for nobody ends no process, nor
\* does a failure inside a wait or a failed receive: a process ends by quit,
\* by --once after an operation that counts, when its main loop cannot read,
\* send or write a packet, or, under --debug only, when the device cannot
\* report one.
EndsForCause ==
  \A side \in Sides :
    ~Running(side) => \/ <<side, "packet">> \in faults
                      \/ once /\ side \in completed
                      \/ side = "core" /\ quit
                      \/ side = "device" /\ debug /\ undescribed

\* The console returns to its prompt whatever arrives and whatever fails:
\* wait_management_response comes to its deadline again after every packet and
\* frame it serves, however many there are.
CommandsReturn == []<>~waiting

\* Every input is served again and again while something waits there and the
\* process runs: traffic cannot keep the console waiting beyond its timeout,
\* and the console cannot keep traffic waiting.
Served(side, source) == \E item \in CommandKinds \cup TunItems \cup Frames :
  Take(side, source, item) /\ (source = "console" => ~waiting)

InputsServed ==
  \A side \in Sides, source \in Sources :
    []<>(~Running(side) \/ ~Waiting(side, source)) \/ []<><<Served(side, source)>>_vars
=============================================================================
