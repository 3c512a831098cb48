-------------------------- MODULE ContextSyncProofs --------------------------
(***************************************************************************)
(* What the core console may tell its operator, whatever is lost, delayed, *)
(* reordered or delivered again.                                           *)
(*                                                                         *)
(* Message IDs identify exchanges.  The core wraps its MIDs after Modulus  *)
(* requests and compares nothing else, so an answer it accepts belongs to  *)
(* the request it waits for exactly as long as no frame survives Modulus   *)
(* allocations: Lifetime < Modulus is the assumption of the theorems about *)
(* answers.  That the core can mirror every update the device accepts, and *)
(* that a replay installs nothing, holds without it.                       *)
(*                                                                         *)
(* The inductive invariants say which exchange a frame belongs to          *)
(* (RequestsUnique, FramesOfCommand, FramesOnce), what the device had done *)
(* when it answered (AppliedAnswered, RejectedGone, AppliedIsUpdate), that *)
(* a rule once installed stays while its request is in flight              *)
(* (InstalledStays), and that the device has the core's context, with the  *)
(* waiting update if that has arrived, unless a change is in doubt         *)
(* (ChangesDoubted, DeviceFollows).                                        *)
(***************************************************************************)
EXTENDS ContextSync, SchcContextProofs, TLAPS

\* Division with remainder.
LEMMA DivMod ==
  ASSUME NEW x \in Nat, NEW m \in Nat, m > 0
  PROVE  /\ x = m * (x \div m) + (x % m)
         /\ x % m \in 0..(m - 1)
         /\ x \div m \in Nat
  BY SMTT(30)

-----------------------------------------------------------------------------
(* Types. *)

\* The kind of a request tells its other fields.
LEMMA RequestShape ==
  ASSUME NEW r \in Requests
  PROVE  /\ r.kind = "ipatch" => r \in PatchRequests
         /\ r.kind = "duplicate" <=> r \in DuplicateRequests
         /\ r.kind = "check" => r \in CheckRequests
         /\ r.kind # "duplicate" => r \in Confirmable
         /\ r.kind \in {"ipatch", "check", "list", "duplicate"}
  BY DEF Requests, Confirmable, PatchRequests, CheckRequests, ListRequest,
         DuplicateRequests

\* The direction of a frame tells its other fields.
LEMMA FrameShape ==
  ASSUME TypeOK, NEW f \in network
  PROVE  /\ f.to \in {"device", "core"}
         /\ f.xid \in Nat /\ f.mid \in Mids
         /\ f.to = "device" => f \in RequestFrames /\ f.request \in Requests
         /\ f.to = "core" => /\ f \in ResponseFrames /\ f.seen \in Contexts
                             /\ f.code \in {"2.04", "2.05", "4.09", "4.12"}
                             /\ f.payload \in {"empty", "equal", "mismatch", "rules"}
<1>1. f \in RequestFrames \cup ResponseFrames
  BY DEF TypeOK
<1>2. CASE f \in RequestFrames
  BY <1>2 DEF RequestFrames
<1>3. CASE f \in ResponseFrames
  BY <1>3 DEF ResponseFrames
<1> QED
  BY <1>1, <1>2, <1>3

\* What the operator can ask the device, and wait for.
LEMMA StartShape ==
  ASSUME TypeOK, StartUpdate \/ StartCheck \/ StartList
  PROVE  \E r \in Confirmable :
           /\ Exchange(r)
           /\ \/ r \in UpdateCommands /\ Resolves(core.rules, r)
              \/ r = [kind |-> "check", tag |-> Digest(core.rules)]
              \/ r = ListRequest
<1>1. Digest(core.rules) \in Digests
  BY DEF TypeOK, Digests
<1>2. UpdateCommands \subseteq Confirmable
  BY <1>1 DEF UpdateCommands, PatchesSeeing, Confirmable, PatchRequests
<1>3. [kind |-> "check", tag |-> Digest(core.rules)] \in Confirmable
  BY <1>1 DEF Confirmable, CheckRequests
<1>4. ListRequest \in Confirmable
  BY DEF Confirmable
<1> QED
  BY <1>2, <1>3, <1>4 DEF StartUpdate, StartCheck, StartList

\* A request sent is a frame of the right shape.
LEMMA RequestFrameType ==
  ASSUME TypeOK, AllocateMid, NEW r \in Requests
  PROVE  /\ Mid \in Mids /\ nextMid' \in Mids
         /\ exchanges' = exchanges + 1 /\ exchanges' \in Nat
         /\ RequestFrame(r) \in RequestFrames
         /\ Surviving \subseteq network
<1>1. nextMid \in Mids /\ exchanges \in Nat
  BY DEF TypeOK
<1>2. Mid \in Mids
  BY <1>1, ModulusAssumption DEF Mid, Mids
<1>3. (Mid + 1) % Modulus \in 0..(Modulus - 1)
  <2>1. Mid + 1 \in Nat
    BY <1>2, ModulusAssumption DEF Mids
  <2> QED
    BY <2>1, DivMod, ModulusAssumption
<1>4. exchanges' = exchanges + 1 /\ nextMid' \in Mids
  BY <1>3 DEF AllocateMid, Mids
<1>5. RequestFrame(r) \in RequestFrames
  BY <1>1, <1>2 DEF RequestFrame, RequestFrames
<1> QED
  BY <1>1, <1>2, <1>4, <1>5 DEF Surviving

\* What a command reports about a request.
LEMMA ReportType ==
  ASSUME NEW r \in Requests, NEW xid \in Nat,
         NEW outcome \in {"ok", "rejected", "possible divergence", "no answer",
                          "equal", "mismatch", "listed", "unreadable",
                          "installed", "idempotent"},
         NEW answer \in ResponseFrames \cup {NoFrame}
  PROVE  Report(r, xid, outcome, answer) \in Reports
  BY DEF Report, Reports

\* Each step of either process or of the network preserves the types.
LEMMA TypeStep ==
  ASSUME TypeOK, [Next]_vars
  PROVE  TypeOK'
<1>1. CASE UNCHANGED vars
  BY <1>1 DEF vars, TypeOK
<1>2. ASSUME NEW r \in Confirmable, Exchange(r), UNCHANGED redelivers
      PROVE  TypeOK'
  <2>1. AllocateMid /\ r \in Requests
    BY <1>2 DEF Exchange, Requests
  <2>2. command' \in Commands
    BY <1>2, <2>1, RequestFrameType DEF Exchange, Commands, TypeOK
  <2>3. network' \subseteq RequestFrames \cup ResponseFrames
    BY <1>2, <2>1, RequestFrameType DEF Exchange, TypeOK
  <2>4. nextMid' \in Mids /\ exchanges' \in Nat
    BY <2>1, RequestFrameType
  <2> QED
    BY <1>2, <2>2, <2>3, <2>4 DEF Exchange, TypeOK
<1>3. ASSUME NEW r \in DuplicateRequests, SendDuplicate(r), UNCHANGED redelivers
      PROVE  TypeOK'
  <2> DEFINE result == DuplicateResult(core.rules, r)
  <2>1. AllocateMid /\ r \in Requests
    BY <1>3 DEF SendDuplicate, Requests
  <2>2. network' \subseteq RequestFrames \cup ResponseFrames
    BY <1>3, <2>1, RequestFrameType DEF SendDuplicate, TypeOK
  <2>3. nextMid' \in Mids /\ exchanges' \in Nat /\ exchanges' = exchanges + 1
    BY <2>1, RequestFrameType
  <2>4. core' \in [rules : Contexts, generation : Nat]
    <3>1. core.rules \in Contexts /\ core.generation \in Nat
      BY DEF TypeOK
    <3>2. DuplicateSourceOk(core.rules, r)
      BY <1>3 DEF SendDuplicate, Builds
    <3>3. Duplicated(core.rules, r) \in Contexts
      BY <3>1, <3>2, DuplicatedType
    <3>4. Publish(Duplicated(core.rules, r)) \in [rules : Contexts, generation : Nat]
      BY <3>1, <3>3 DEF Publish
    <3>5. core \in [rules : Contexts, generation : Nat]
      BY DEF TypeOK
    <3> QED
      BY <1>3, <3>4, <3>5 DEF SendDuplicate
  <2>5. report' \in Reports
    <3>1. result \in {"applied", "idempotent", "failed"}
      BY DEF DuplicateResult
    <3>2. \E outcome \in {"installed", "idempotent", "possible divergence"} :
            report' = Report(r, exchanges + 1, outcome, NoFrame)
      BY <1>3, <3>1, Zenon DEF SendDuplicate
    <3> QED
      BY <2>1, <2>3, <3>2, ReportType
  <2>6. uncertain' \subseteq Nat
    BY <1>3, <2>3 DEF SendDuplicate, TypeOK
  <2> QED
    BY <1>3, <2>2, <2>3, <2>4, <2>5, <2>6 DEF SendDuplicate, TypeOK
<1>4. CASE FailDuplicate /\ UNCHANGED redelivers
  <2>1. AllocateMid /\ ListRequest \in Requests
    BY <1>4 DEF FailDuplicate, Requests, Confirmable
  <2>2. nextMid' \in Mids /\ exchanges' \in Nat /\ Surviving \subseteq network
    BY <2>1, RequestFrameType
  <2> QED
    BY <1>4, <2>2 DEF FailDuplicate, TypeOK
<1>5. CASE DeviceReceives /\ UNCHANGED redelivers
  <2>1. PICK f \in network :
          f.to = "device" /\ (DevicePatch(f) \/ DeviceRead(f) \/ DeviceDuplicate(f))
    BY <1>5 DEF DeviceReceives
  <2>2. f.request \in Requests /\ f.xid \in Nat /\ f.mid \in Mids
    BY <2>1, FrameShape
  <2>3. AfterDelivery(f) \subseteq RequestFrames \cup ResponseFrames
    BY DEF AfterDelivery, TypeOK
  <2>4. ASSUME NEW code \in {"2.04", "2.05", "4.09", "4.12"},
               NEW payload \in {"empty", "equal", "mismatch", "rules"},
               NEW seen \in Contexts
        PROVE  Response(f, code, payload, seen) \in ResponseFrames
    BY <2>2 DEF Response, ResponseFrames
  <2>5. CASE DevicePatch(f)
    <3> DEFINE code == PatchCode(device, f.request)
    <3>1. code \in {"2.04", "4.09", "4.12"}
      BY DEF PatchCode
    <3>2. f.request \in PatchRequests /\ device \in Contexts
      BY <2>2, <2>5, RequestShape DEF DevicePatch, TypeOK
    <3>3. device' \in Contexts
      BY <2>5, <3>2, PatchedType, AcceptedAdmissible DEF DevicePatch
    <3>4. network' \subseteq RequestFrames \cup ResponseFrames
      BY <2>3, <2>4, <2>5, <3>1, <3>3 DEF DevicePatch
    <3>5. applied' \subseteq Nat
      BY <2>2, <2>5 DEF DevicePatch, TypeOK
    <3> QED
      BY <1>5, <2>5, <3>3, <3>4, <3>5 DEF DevicePatch, TypeOK, coreVariables
  <2>6. CASE DeviceRead(f)
    <3>1. \E payload \in {"equal", "mismatch", "rules"} :
            network' = AfterDelivery(f) \cup {Response(f, "2.05", payload, device)}
      BY <2>6, Zenon DEF DeviceRead
    <3>2. network' \subseteq RequestFrames \cup ResponseFrames
      BY <2>3, <2>4, <3>1 DEF TypeOK
    <3> QED
      BY <1>5, <2>6, <3>2 DEF DeviceRead, TypeOK, coreVariables
  <2>7. CASE DeviceDuplicate(f)
    <3>1. f.request \in DuplicateRequests /\ device \in Contexts
      BY <2>2, <2>7, RequestShape DEF DeviceDuplicate, TypeOK
    <3>2. device' \in Contexts
      BY <2>7, <3>1, DuplicatedType, AcceptedAdmissible
         DEF DeviceDuplicate, DuplicateApplies
    <3>3. applied' \subseteq Nat /\ uncertain' \subseteq Nat
      BY <2>2, <2>7 DEF DeviceDuplicate, TypeOK
    <3>4. network' \subseteq RequestFrames \cup ResponseFrames
      BY <2>3, <2>7 DEF DeviceDuplicate
    <3> QED
      BY <1>5, <2>7, <3>2, <3>3, <3>4 DEF DeviceDuplicate, TypeOK, coreVariables
  <2> QED
    BY <2>1, <2>5, <2>6, <2>7
<1>6. CASE CoreReceives /\ UNCHANGED redelivers
  <2>1. PICK f \in network :
          /\ f.to = "core"
          /\ Correlates(f)
          /\ UpdateAnswered(f) \/ ReadAnswered(f)
          /\ network' = AfterDelivery(f)
          /\ UNCHANGED <<device, nextMid, exchanges, applied, uncertain>>
    BY <1>6 DEF CoreReceives
  <2>2. network' \subseteq RequestFrames \cup ResponseFrames
    BY <2>1 DEF AfterDelivery, TypeOK
  <2>3. f \in ResponseFrames /\ f.payload \in {"empty", "equal", "mismatch", "rules"}
    BY <2>1, FrameShape
  <2>4. command \in Commands
    BY <2>1 DEF Correlates, TypeOK
  <2>5. command.request \in Confirmable /\ command.request \in Requests /\ command.xid \in Nat
    BY <2>4 DEF Commands, Requests
  <2>6. /\ core' \in [rules : Contexts, generation : Nat]
        /\ \E outcome \in {"ok", "rejected", "possible divergence", "equal", "mismatch",
                           "listed", "unreadable"} : Finish(outcome, f)
    <3>1. CASE UpdateAnswered(f)
      <4>1. command.request \in PatchRequests
        BY <2>5, <3>1, RequestShape DEF UpdateAnswered
      <4>2. core.rules \in Contexts /\ core.generation \in Nat
            /\ core \in [rules : Contexts, generation : Nat]
        BY DEF TypeOK
      <4>3. PatchCode(core.rules, command.request) = "2.04"
              => Patched(core.rules, command.request) \in Contexts
        BY <4>1, <4>2, PatchedType, AcceptedAdmissible
      <4>4. PatchCode(core.rules, command.request) = "2.04"
              => Publish(Patched(core.rules, command.request))
                   \in [rules : Contexts, generation : Nat]
        BY <4>2, <4>3 DEF Publish
      <4> QED
        BY <3>1, <4>2, <4>4 DEF UpdateAnswered
    <3>2. CASE ReadAnswered(f)
      <4>1. core' \in [rules : Contexts, generation : Nat]
        BY <3>2 DEF ReadAnswered, TypeOK
      <4>2. \E outcome \in {"equal", "mismatch", "listed", "unreadable"} :
              Finish(outcome, f)
        BY <3>2, <2>3, Zenon DEF ReadAnswered
      <4> QED
        BY <4>1, <4>2
    <3> QED
      BY <2>1, <3>1, <3>2
  <2>7. command' = NoCommand /\ report' \in Reports
    BY <2>3, <2>5, <2>6, ReportType DEF Finish
  <2> QED
    BY <1>6, <2>1, <2>2, <2>6, <2>7 DEF TypeOK
<1>7. CASE RefuseUpdate /\ UNCHANGED redelivers
  BY <1>7 DEF RefuseUpdate, TypeOK
<1>8. CASE CoreIgnores /\ UNCHANGED redelivers
  BY <1>8 DEF CoreIgnores, AfterDelivery, coreVariables, TypeOK
<1>9. CASE GiveUp /\ UNCHANGED redelivers
  <2>1. command \in Commands
    BY <1>9 DEF GiveUp, TypeOK
  <2>2. command.request \in Requests /\ command.xid \in Nat
    BY <2>1 DEF Commands, Requests
  <2>3. report' \in Reports /\ command' = NoCommand
    BY <1>9, <2>2, ReportType DEF GiveUp, Finish
  <2> QED
    BY <1>9, <2>2, <2>3 DEF GiveUp, TypeOK
<1>10. CASE Lose /\ UNCHANGED redelivers
  BY <1>10 DEF Lose, coreVariables, TypeOK
<1> QED
  BY <1>1, <1>2, <1>3, <1>4, <1>5, <1>6, <1>7, <1>8, <1>9, <1>10, StartShape
     DEF Next, Step, DuplicateCommand

\* The core starts with the context it has loaded and the MID 1.
LEMMA TypeInit ==
  ASSUME Init
  PROVE  TypeOK
  BY InitialPrepared, ModulusAssumption DEF Init, TypeOK, Mids

\* Every variable keeps its type.
THEOREM TypeSafety == Spec => []TypeOK
<1>1. Init => TypeOK
  BY TypeInit
<1>2. TypeOK /\ [Next]_vars => TypeOK'
  BY TypeStep
<1> QED
  BY <1>1, <1>2, PTL DEF Spec

-----------------------------------------------------------------------------
(* Message IDs. *)

\* The remainder is determined by any decomposition.
LEMMA ModUnique ==
  ASSUME NEW m \in Nat, m > 0, NEW q \in Nat, NEW r \in 0..(m - 1)
  PROVE  (m * q + r) % m = r
  BY SMTT(30)

\* Multiples of m closer than m are equal.
LEMMA MultiplesApart ==
  ASSUME NEW m \in Nat, m > 0, NEW a \in Nat, NEW b \in Nat,
         0 <= m * a - m * b, m * a - m * b < m
  PROVE  a = b
  BY SMTT(30)

\* next_management_message_id steps from one exchange's MID to the next's.
LEMMA ModSuccessor ==
  ASSUME NEW x \in Nat, NEW m \in Nat, m > 1
  PROVE  ((x % m) + 1) % m = (x + 1) % m
<1> DEFINE q == x \div m
           r == x % m
<1>1. /\ x = m * q + r
      /\ r \in 0..(m - 1)
      /\ q \in Nat
  BY DivMod
<1> HIDE DEF q, r
<1>2. CASE r + 1 < m
  <2>1. x + 1 = m * q + (r + 1)
    BY <1>1
  <2>2. r + 1 \in 0..(m - 1)
    BY <1>1, <1>2
  <2>3. (x + 1) % m = r + 1
    BY <1>1, <2>1, <2>2, ModUnique
  <2>4. (m * 0 + (r + 1)) % m = r + 1
    BY <2>2, ModUnique
  <2>5. m * 0 + (r + 1) = r + 1
    BY <1>1
  <2> QED
    BY <2>3, <2>4, <2>5 DEF r
<1>3. CASE r + 1 = m
  <2>1. x + 1 = m * (q + 1) + 0
    BY <1>1, <1>3
  <2>2. (x + 1) % m = 0
    BY <1>1, <2>1, ModUnique
  <2>3. (m * 1 + 0) % m = 0
    BY ModUnique
  <2>4. m * 1 + 0 = r + 1
    BY <1>1, <1>3
  <2> QED
    BY <2>2, <2>3, <2>4 DEF r
<1> QED
  BY <1>1, <1>2, <1>3

\* Within a window of m consecutive numbers, the remainder identifies one.
LEMMA ModWindow ==
  ASSUME NEW x \in Nat, NEW y \in Nat, NEW m \in Nat, m > 0,
         x <= y, y < x + m, x % m = y % m
  PROVE  x = y
<1>1. /\ x = m * (x \div m) + (x % m)
      /\ x \div m \in Nat
      /\ x % m \in 0..(m - 1)
  BY DivMod
<1>2. /\ y = m * (y \div m) + (y % m)
      /\ y \div m \in Nat
  BY DivMod
<1> DEFINE a == y \div m
           b == x \div m
           r == x % m
<1>3. /\ x = m * b + r /\ y = m * a + r
      /\ a \in Nat /\ b \in Nat /\ r \in Nat
  BY <1>1, <1>2
<1> HIDE DEF a, b, r
<1>4. 0 <= m * a - m * b /\ m * a - m * b < m
  BY <1>3
<1>5. a = b
  BY <1>3, <1>4, MultiplesApart
<1> QED
  BY <1>3, <1>5

\* The arithmetic of one allocation.
LEMMA AllocationCounts ==
  ASSUME MidsCountExchanges, AllocateMid
  PROVE  /\ Mid = (exchanges + 1) % Modulus
         /\ exchanges' = exchanges + 1 /\ exchanges \in Nat
         /\ nextMid' = (exchanges' + 1) % Modulus
         /\ \A f \in Surviving :
              /\ f.xid \in Nat /\ f.xid <= exchanges' /\ exchanges' <= f.xid + Lifetime
              /\ f.mid = f.xid % Modulus
<1>1. exchanges \in Nat /\ nextMid = (exchanges + 1) % Modulus
  BY DEF MidsCountExchanges
<1>2. nextMid \in 0..(Modulus - 1)
  BY <1>1, DivMod, ModulusAssumption
<1>3. Mid = (exchanges + 1) % Modulus
  BY <1>1, <1>2, ModulusAssumption DEF Mid
<1>4. exchanges' = exchanges + 1 /\ nextMid' = (Mid + 1) % Modulus
  BY DEF AllocateMid
<1>5. nextMid' = (exchanges' + 1) % Modulus
  <2>1. exchanges + 1 \in Nat
    BY <1>1
  <2>2. (((exchanges + 1) % Modulus) + 1) % Modulus = ((exchanges + 1) + 1) % Modulus
    BY <2>1, ModSuccessor, ModulusAssumption
  <2> QED
    BY <1>3, <1>4, <2>2
<1>6. ASSUME NEW f \in Surviving
      PROVE  /\ f.xid \in Nat /\ f.xid <= exchanges' /\ exchanges' <= f.xid + Lifetime
             /\ f.mid = f.xid % Modulus
  BY <1>1, <1>4, LifetimeAssumption DEF Surviving, MidsCountExchanges
<1> QED
  BY <1>1, <1>3, <1>4, <1>5, <1>6

\* Frames keep their numbers, and the core waits for the newest exchange.
LEMMA MidsStep ==
  ASSUME MidsCountExchanges, [Next]_vars
  PROVE  MidsCountExchanges'
<1> DEFINE FrameOk(f) ==
             /\ f.xid \in Nat /\ f.xid <= exchanges /\ exchanges <= f.xid + Lifetime
             /\ f.mid = f.xid % Modulus
<1>1. CASE UNCHANGED vars
  BY <1>1 DEF vars, MidsCountExchanges
<1>2. ASSUME NEW r, Exchange(r)
      PROVE  MidsCountExchanges'
  <2>1. AllocateMid
    BY <1>2 DEF Exchange
  <2>2. command'.xid = exchanges + 1 /\ command'.mid = Mid
    BY <1>2 DEF Exchange
  <2>3. RequestFrame(r).xid = exchanges + 1 /\ RequestFrame(r).mid = Mid
    BY DEF RequestFrame
  <2>4. network' = Surviving \cup {RequestFrame(r)}
    BY <1>2 DEF Exchange
  <2>5. \A f \in network' : FrameOk(f)'
    BY <2>1, <2>3, <2>4, AllocationCounts, LifetimeAssumption
  <2> QED
    BY <2>1, <2>2, <2>5, AllocationCounts DEF MidsCountExchanges
<1>3. ASSUME NEW r, SendDuplicate(r)
      PROVE  MidsCountExchanges'
  <2>1. AllocateMid /\ command' = command /\ command = NoCommand
    BY <1>3 DEF SendDuplicate
  <2>2. RequestFrame(r).xid = exchanges + 1 /\ RequestFrame(r).mid = Mid
    BY DEF RequestFrame
  <2>3. network' = Surviving \cup {RequestFrame(r)}
    BY <1>3 DEF SendDuplicate
  <2>4. \A f \in network' : FrameOk(f)'
    BY <2>1, <2>2, <2>3, AllocationCounts, LifetimeAssumption
  <2> QED
    BY <2>1, <2>4, AllocationCounts DEF MidsCountExchanges
<1>4. CASE FailDuplicate
  <2>1. AllocateMid /\ command' = command /\ command = NoCommand
    BY <1>4 DEF FailDuplicate
  <2>2. \A f \in network' : FrameOk(f)'
    BY <1>4, <2>1, AllocationCounts DEF FailDuplicate
  <2> QED
    BY <2>1, <2>2, AllocationCounts DEF MidsCountExchanges
<1>5. ASSUME NEW f \in network, network' \subseteq network
                 \/ \E g : g.xid = f.xid /\ g.mid = f.mid /\ network' \subseteq network \cup {g},
             exchanges' = exchanges, nextMid' = nextMid,
             command' \in {command, NoCommand}
      PROVE  MidsCountExchanges'
  BY <1>5 DEF MidsCountExchanges
<1>6. CASE DeviceReceives
  <2>1. PICK f \in network : DevicePatch(f) \/ DeviceRead(f) \/ DeviceDuplicate(f)
    BY <1>6 DEF DeviceReceives
  <2>2. exchanges' = exchanges /\ nextMid' = nextMid /\ command' = command
    BY <2>1 DEF DevicePatch, DeviceRead, DeviceDuplicate, coreVariables
  <2>3. AfterDelivery(f) \subseteq network
    BY DEF AfterDelivery
  <2>4. \A code, payload, seen :
          /\ Response(f, code, payload, seen).xid = f.xid
          /\ Response(f, code, payload, seen).mid = f.mid
    BY DEF Response
  <2>5. \E g : g.xid = f.xid /\ g.mid = f.mid /\ network' \subseteq network \cup {g}
    <3>1. CASE DevicePatch(f)
      BY <2>3, <2>4, <3>1 DEF DevicePatch
    <3>2. CASE DeviceRead(f)
      BY <2>3, <2>4, <3>2 DEF DeviceRead
    <3>3. CASE DeviceDuplicate(f)
      BY <2>3, <3>3 DEF DeviceDuplicate
    <3> QED
      BY <2>1, <3>1, <3>2, <3>3
  <2> QED
    BY <1>5, <2>2, <2>5
<1>7. CASE CoreReceives \/ CoreIgnores
  <2>1. PICK f \in network :
          /\ network' = AfterDelivery(f)
          /\ exchanges' = exchanges /\ nextMid' = nextMid
          /\ command' \in {command, NoCommand}
    BY <1>7 DEF CoreReceives, CoreIgnores, UpdateAnswered, ReadAnswered, Finish,
                coreVariables
  <2>2. network' \subseteq network
    BY <2>1 DEF AfterDelivery
  <2> QED
    BY <1>5, <2>1, <2>2
<1>8. CASE RefuseUpdate
  BY <1>8 DEF RefuseUpdate, MidsCountExchanges
<1>9. CASE GiveUp
  BY <1>9 DEF GiveUp, Finish, MidsCountExchanges
<1>10. CASE Lose
  BY <1>10 DEF Lose, coreVariables, MidsCountExchanges
<1> QED
  BY <1>1, <1>2, <1>3, <1>4, <1>6, <1>7, <1>8, <1>9, <1>10
     DEF Next, Step, StartUpdate, StartCheck, StartList, DuplicateCommand

\* An answer the core accepts is of the exchange it waits for.
LEMMA CorrelatedXid ==
  ASSUME Lifetime < Modulus, MidsCountExchanges, NEW f \in network, Correlates(f)
  PROVE  f.xid = command.xid /\ command.xid = exchanges
<1>1. /\ f.mid = command.mid /\ command # NoCommand
      /\ f.mid = f.xid % Modulus
      /\ f.xid \in Nat /\ f.xid <= exchanges /\ exchanges <= f.xid + Lifetime
      /\ exchanges \in Nat
      /\ command.xid = exchanges /\ command.mid = exchanges % Modulus
  BY DEF Correlates, MidsCountExchanges
<1>2. exchanges < f.xid + Modulus
  BY <1>1, ModulusAssumption, LifetimeAssumption
<1> DEFINE x == f.xid
<1>3. x % Modulus = exchanges % Modulus
  BY <1>1, Zenon
<1>4. x \in Nat /\ exchanges \in Nat /\ x <= exchanges /\ exchanges < x + Modulus
  BY <1>1, <1>2, Zenon
<1>5. Modulus \in Nat /\ Modulus > 0
  BY ModulusAssumption
<1> HIDE DEF x
<1>6. x = exchanges
  BY <1>3, <1>4, <1>5, ModWindow
<1> QED
  BY <1>1, <1>6 DEF x

\* A command that is answered reports the answer.
LEMMA AnswerReported ==
  ASSUME NEW f, UpdateAnswered(f) \/ ReadAnswered(f)
  PROVE  \E outcome : Finish(outcome, f)
<1>1. CASE UpdateAnswered(f)
  BY <1>1 DEF UpdateAnswered
<1>2. CASE ReadAnswered(f)
  BY <1>2, Zenon DEF ReadAnswered
<1> QED
  BY <1>1, <1>2

\* The answer accepted is the answer to the exchange waited for.
LEMMA CorrelationStep ==
  ASSUME Lifetime < Modulus, MidsCountExchanges, CorrelationSound, [Next]_vars
  PROVE  CorrelationSound'
<1>1. CASE CoreReceives
  <2>1. PICK f \in network :
          Correlates(f) /\ (UpdateAnswered(f) \/ ReadAnswered(f))
    BY <1>1 DEF CoreReceives
  <2>2. PICK outcome : Finish(outcome, f)
    BY <2>1, AnswerReported
  <2>3. report'.answer = f /\ report'.xid = command.xid
    BY <2>2 DEF Finish, Report
  <2> QED
    BY <2>1, <2>3, CorrelatedXid DEF CorrelationSound
<1>2. CASE \/ report' = report
           \/ report' = NoReport
           \/ \E r, xid, outcome : report' = Report(r, xid, outcome, NoFrame)
  BY <1>2 DEF CorrelationSound, Report
<1>3. CASE ~CoreReceives
  BY <1>2, <1>3 DEF Next, Step, vars, coreVariables, StartUpdate, StartCheck, StartList,
       Exchange, RefuseUpdate, DuplicateCommand, SendDuplicate, FailDuplicate,
       DeviceReceives, DevicePatch, DeviceRead, DeviceDuplicate, CoreIgnores,
       GiveUp, Finish, Lose
<1> QED
  BY <1>1, <1>3

\* The first exchange takes the MID 1.
LEMMA MidsInit ==
  ASSUME Init
  PROVE  MidsCountExchanges
<1>1. (Modulus * 0 + 1) % Modulus = 1
  BY ModUnique, ModulusAssumption
<1>2. Modulus * 0 + 1 = 1 /\ 0 + 1 = 1
  BY ModulusAssumption
<1> QED
  BY <1>1, <1>2 DEF Init, MidsCountExchanges

\* If fewer than Modulus MIDs are allocated while a frame is in flight, the
\* core never takes an old answer for the answer to its request.
THEOREM Correlation ==
  ASSUME Lifetime < Modulus
  PROVE  Spec => []CorrelationSound
<1>1. Init => MidsCountExchanges /\ CorrelationSound
  BY MidsInit DEF Init, CorrelationSound
<1>2. MidsCountExchanges /\ CorrelationSound /\ [Next]_vars
        => (MidsCountExchanges /\ CorrelationSound)'
  BY MidsStep, CorrelationStep
<1> QED
  BY <1>1, <1>2, PTL DEF Spec

-----------------------------------------------------------------------------
(* The command that waits. *)

\* The steps, with the frame or the request each one is about.
LEMMA StepCases ==
  ASSUME TypeOK, [Next]_vars
  PROVE  /\ UNCHANGED redelivers
         /\ \/ UNCHANGED vars
            \/ \E r \in Confirmable :
                 /\ Exchange(r)
                 /\ \/ r \in UpdateCommands /\ Resolves(core.rules, r)
                    \/ r = [kind |-> "check", tag |-> Digest(core.rules)]
                    \/ r = ListRequest
            \/ \E r \in DuplicateRequests : SendDuplicate(r)
            \/ FailDuplicate
            \/ RefuseUpdate
            \/ \E f \in network : f.to = "device" /\ DevicePatch(f)
            \/ \E f \in network : f.to = "device" /\ DeviceRead(f)
            \/ \E f \in network : f.to = "device" /\ DeviceDuplicate(f)
            \/ CoreReceives
            \/ CoreIgnores
            \/ GiveUp
            \/ Lose
  BY StartShape DEF Next, Step, DuplicateCommand, DeviceReceives, vars

\* Patching an ordinary rule changes neither the RuleIDs nor the protected
\* rules, so a value that resolves in a prepared context is accepted there.
LEMMA ResolvedApplies ==
  ASSUME NEW c \in Contexts, Prepared(c), NEW r \in PatchRequests, Resolves(c, r)
  PROVE  PatchApplies(c, r)
<1> DEFINE d == Patched(c, r)
<1>1. c \in [DOMAIN c -> Rules] /\ r.id \in DOMAIN c /\ r.id \notin Protected(c)
  BY ContextShape DEF Resolves
<1>2. DOMAIN d = DOMAIN c
  BY DEF Patched
<1>3. \A id \in DOMAIN c : id # r.id => d[id] = c[id]
  BY DEF Patched
<1>4. d[r.id].nature = c[r.id].nature
  BY <1>1, RuleShape DEF Patched
<1> HIDE DEF d
<1>5. Protected(d) = Protected(c)
  BY <1>1, <1>2, <1>3, <1>4 DEF Protected
<1>6. Enforce(c, d)
  BY <1>1, <1>3, <1>5 DEF Enforce, Protected
<1>7. Prepared(d)
  BY <1>2 DEF Prepared
<1> QED
  BY <1>6, <1>7 DEF PatchApplies, Resolves, Admissible, d

\* While a command waits, the core's context is the one that the command was
\* made for: an update would be accepted by it and would be its next
\* publication, and a check carries its tag.
CommandCurrent ==
  /\ Prepared(core.rules)
  /\ command # NoCommand =>
       /\ command.base = core.generation
       /\ command.request.kind = "ipatch"
            => PatchCode(core.rules, command.request) = "2.04"
       /\ command.request.kind = "check"
            => command.request.tag = Digest(core.rules)

\* The core's context changes only when no command waits, or together with
\* the end of the command.
LEMMA CommandCurrentStep ==
  ASSUME TypeOK, CommandCurrent, [Next]_vars
  PROVE  CommandCurrent'
<1>1. ASSUME NEW r \in Confirmable, Exchange(r),
             \/ r \in UpdateCommands /\ Resolves(core.rules, r)
             \/ r = [kind |-> "check", tag |-> Digest(core.rules)]
             \/ r = ListRequest
      PROVE  CommandCurrent'
  <2>1. core' = core /\ command'.request = r /\ command'.base = core.generation
    BY <1>1 DEF Exchange
  <2>2. CASE r \in UpdateCommands /\ Resolves(core.rules, r)
    <3>1. r \in PatchRequests /\ r.kind = "ipatch"
      BY <2>2, RequestShape DEF UpdateCommands, PatchesSeeing, Requests
    <3>2. IfMatchHolds(core.rules, r)
      BY <2>2 DEF UpdateCommands, PatchesSeeing, IfMatchHolds
    <3>3. PatchApplies(core.rules, r)
      BY <2>2, <3>1, ResolvedApplies DEF CommandCurrent, TypeOK
    <3>4. PatchCode(core.rules, r) = "2.04"
      BY <3>2, <3>3 DEF PatchCode
    <3> QED
      BY <2>1, <3>1, <3>4 DEF CommandCurrent
  <2>3. CASE r = [kind |-> "check", tag |-> Digest(core.rules)]
    BY <2>1, <2>3 DEF CommandCurrent
  <2>4. CASE r = ListRequest
    BY <2>1, <2>4 DEF CommandCurrent, ListRequest
  <2> QED
    BY <1>1, <2>2, <2>3, <2>4
<1>2. ASSUME NEW r \in DuplicateRequests, SendDuplicate(r)
      PROVE  CommandCurrent'
  <2>1. command' = NoCommand
    BY <1>2 DEF SendDuplicate
  <2>2. core' = core \/ /\ DuplicateResult(core.rules, r) = "applied"
                        /\ core' = Publish(Duplicated(core.rules, r))
    BY <1>2 DEF SendDuplicate
  <2>3. Prepared(core'.rules)
    BY <2>2, AcceptedAdmissible DEF Publish, Admissible, CommandCurrent
  <2> QED
    BY <2>1, <2>3 DEF CommandCurrent
<1>3. CASE CoreReceives
  <2>1. PICK f \in network : UpdateAnswered(f) \/ ReadAnswered(f)
    BY <1>3 DEF CoreReceives
  <2>2. command' = NoCommand
    BY <2>1, AnswerReported DEF Finish
  <2>3. core' = core \/ /\ PatchCode(core.rules, command.request) = "2.04"
                        /\ core' = Publish(Patched(core.rules, command.request))
    BY <2>1 DEF UpdateAnswered, ReadAnswered
  <2>4. Prepared(core'.rules)
    BY <2>3, AcceptedAdmissible DEF Publish, Admissible, CommandCurrent
  <2> QED
    BY <2>2, <2>4 DEF CommandCurrent
<1>4. CASE core' = core /\ command' \in {command, NoCommand}
  BY <1>4 DEF CommandCurrent
<1> QED
  BY <1>1, <1>2, <1>3, <1>4, StepCases
     DEF vars, coreVariables, FailDuplicate, RefuseUpdate, DevicePatch, DeviceRead,
         DeviceDuplicate, CoreIgnores, GiveUp, Finish, Lose

\* What the core makes of an answer while the command is current.
LEMMA AnswerApplied ==
  ASSUME TypeOK, CommandCurrent, command # NoCommand, NEW f,
         UpdateAnswered(f) \/ ReadAnswered(f)
  PROVE  \/ /\ command.request.kind = "ipatch" /\ f.code = "2.04"
            /\ core'.rules = Patched(core.rules, command.request)
            /\ Finish("ok", f)
         \/ /\ command.request.kind = "ipatch" /\ f.code # "2.04"
            /\ core' = core
            /\ Finish("rejected", f)
         \/ /\ command.request.kind = "check" /\ f.payload = "equal"
            /\ core' = core
            /\ Finish("equal", f)
         \/ /\ command.request.kind \in {"check", "list"}
            /\ core' = core
            /\ \E outcome \in {"mismatch", "listed", "unreadable"} : Finish(outcome, f)
<1>1. CASE UpdateAnswered(f)
  <2>1. /\ command.request.kind = "ipatch"
        /\ PatchCode(core.rules, command.request) = "2.04"
        /\ command.base = core.generation
    BY <1>1 DEF UpdateAnswered, CommandCurrent
  <2>2. CASE f.code # "2.04"
    BY <1>1, <2>1, <2>2 DEF UpdateAnswered
  <2>3. CASE f.code = "2.04"
    <3>1. core' = Publish(Patched(core.rules, command.request))
      BY <1>1, <2>1, <2>3 DEF UpdateAnswered
    <3>2. core'.generation = command.base + 1
      BY <2>1, <3>1 DEF Publish
    <3>3. Finish("ok", f)
      BY <1>1, <2>1, <2>3, <3>2 DEF UpdateAnswered
    <3> QED
      BY <2>1, <2>3, <3>1, <3>3 DEF Publish
  <2> QED
    BY <2>2, <2>3
<1>2. CASE ReadAnswered(f)
  BY <1>2, Zenon DEF ReadAnswered
<1> QED
  BY <1>1, <1>2

\* The other steps report nothing, what they reported before, that there was
\* no answer, or what became of a duplicate-rule.
LEMMA OtherReports ==
  ASSUME TypeOK, [Next]_vars, ~CoreReceives
  PROVE  \/ report' = NoReport
         \/ report' = report /\ core' = core
         \/ \E r \in DuplicateRequests, outcome \in {"installed", "idempotent",
                                                     "possible divergence"} :
              report' = Report(r, exchanges + 1, outcome, NoFrame)
         \/ report' = Report(command.request, command.xid, "no answer", NoFrame)
<1>1. ASSUME NEW r \in DuplicateRequests, SendDuplicate(r)
      PROVE  \E outcome \in {"installed", "idempotent", "possible divergence"} :
               report' = Report(r, exchanges + 1, outcome, NoFrame)
  <2>1. DuplicateResult(core.rules, r) \in {"applied", "idempotent", "failed"}
    BY DEF DuplicateResult
  <2> QED
    BY <1>1, <2>1, Zenon DEF SendDuplicate
<1> QED
  BY <1>1, StepCases
     DEF vars, coreVariables, Exchange, FailDuplicate, RefuseUpdate, DevicePatch,
         DeviceRead, DeviceDuplicate, CoreIgnores, GiveUp, Finish, Lose

\* "possible divergence" is printed of a duplicate-rule only.
LEMMA NeverDivergesStep ==
  ASSUME TypeOK, CommandCurrent, UpdateNeverDiverges, [Next]_vars
  PROVE  UpdateNeverDiverges'
<1>1. CASE CoreReceives
  <2>1. PICK f \in network : Correlates(f) /\ (UpdateAnswered(f) \/ ReadAnswered(f))
    BY <1>1 DEF CoreReceives
  <2>2. command # NoCommand
    BY <2>1 DEF Correlates
  <2>3. PICK outcome \in {"ok", "rejected", "equal", "mismatch", "listed", "unreadable"} :
          Finish(outcome, f)
    BY <2>1, <2>2, AnswerApplied
  <2>4. report'.outcome = outcome
    BY <2>3 DEF Finish, Report
  <2> QED
    BY <2>4 DEF UpdateNeverDiverges
<1>2. CASE ~CoreReceives
  <2>1. ASSUME NEW r \in DuplicateRequests, NEW outcome,
               report' = Report(r, exchanges + 1, outcome, NoFrame)
        PROVE  UpdateNeverDiverges'
    BY <2>1 DEF DuplicateRequests, Report, UpdateNeverDiverges
  <2>2. CASE report' = Report(command.request, command.xid, "no answer", NoFrame)
    BY <2>2 DEF Report, UpdateNeverDiverges
  <2>3. CASE report' = NoReport \/ report' = report
    BY <2>3 DEF UpdateNeverDiverges
  <2> QED
    BY <1>2, <2>1, <2>2, <2>3, OtherReports
<1> QED
  BY <1>1, <1>2

\* Whatever the network does, also with MIDs that repeat: once the device has
\* accepted an update, the core's own application of it succeeds.
THEOREM UpdatesMirrored == Spec => []UpdateNeverDiverges
<1> DEFINE IInv == TypeOK /\ CommandCurrent /\ UpdateNeverDiverges
<1>1. Init => IInv
  BY TypeInit, InitialPrepared DEF Init, CommandCurrent, UpdateNeverDiverges
<1>2. IInv /\ [Next]_vars => IInv'
  BY TypeStep, CommandCurrentStep, NeverDivergesStep
<1> QED
  BY <1>1, <1>2, PTL DEF Spec

-----------------------------------------------------------------------------
(* Frames and histories. *)

\* The histories name exchanges that have happened.
HistoryBounded == applied \subseteq 0..exchanges /\ uncertain \subseteq 0..exchanges

\* What happens to the frames in flight: some are gone, a request is sent, or
\* the device answers one.
LEMMA NetworkStep ==
  ASSUME TypeOK, [Next]_vars
  PROVE  \/ network' \subseteq network /\ exchanges' \in {exchanges, exchanges + 1}
         \/ \E r \in Requests : /\ Exchange(r) \/ SendDuplicate(r)
                                /\ exchanges' = exchanges + 1
                                /\ network' = Surviving \cup {RequestFrame(r)}
         \/ \E f \in network : \E code, payload, seen :
              /\ f.to = "device" /\ (DevicePatch(f) \/ DeviceRead(f))
              /\ exchanges' = exchanges
              /\ network' = AfterDelivery(f) \cup {Response(f, code, payload, seen)}
<1>1. ASSUME NEW r \in Confirmable, Exchange(r)
      PROVE  /\ r \in Requests /\ exchanges' = exchanges + 1
             /\ network' = Surviving \cup {RequestFrame(r)}
  BY <1>1 DEF Exchange, AllocateMid, Requests
<1>2. ASSUME NEW r \in DuplicateRequests, SendDuplicate(r)
      PROVE  /\ r \in Requests /\ exchanges' = exchanges + 1
             /\ network' = Surviving \cup {RequestFrame(r)}
  BY <1>2 DEF SendDuplicate, AllocateMid, Requests
<1>3. ASSUME NEW f \in network, DevicePatch(f) \/ DeviceRead(f)
      PROVE  /\ exchanges' = exchanges
             /\ \E code, payload, seen :
                  network' = AfterDelivery(f) \cup {Response(f, code, payload, seen)}
  <2>1. CASE DevicePatch(f)
    BY <2>1 DEF DevicePatch, coreVariables
  <2>2. CASE DeviceRead(f)
    BY <2>2, Zenon DEF DeviceRead, coreVariables
  <2> QED
    BY <1>3, <2>1, <2>2
<1>4. CASE FailDuplicate
  BY <1>4 DEF FailDuplicate, AllocateMid, Surviving
<1>5. CASE \E f \in network : DeviceDuplicate(f)
  BY <1>5 DEF DeviceDuplicate, AfterDelivery, coreVariables
<1>6. CASE CoreReceives \/ CoreIgnores \/ Lose
  BY <1>6 DEF CoreReceives, CoreIgnores, Lose, AfterDelivery, coreVariables
<1>7. CASE RefuseUpdate \/ GiveUp \/ UNCHANGED vars
  BY <1>7 DEF RefuseUpdate, GiveUp, vars
<1> QED
  BY <1>1, <1>2, <1>3, <1>4, <1>5, <1>6, <1>7, StepCases

\* A change is recorded under the number of a frame that is in flight, a
\* doubt under that of the newest exchange.
LEMMA HistoryStep ==
  ASSUME TypeOK, MidsCountExchanges, HistoryBounded, [Next]_vars
  PROVE  HistoryBounded'
<1>1. exchanges \in Nat /\ (\A f \in network : f.xid \in 0..exchanges)
  BY DEF MidsCountExchanges
<1>2. exchanges' \in {exchanges, exchanges + 1}
  BY NetworkStep
<1>3. CASE exchanges' = exchanges + 1
           /\ applied' = applied /\ uncertain' \subseteq uncertain \cup {exchanges + 1}
  BY <1>1, <1>3 DEF HistoryBounded
<1>4. CASE GiveUp
  <2>1. command.xid = exchanges
    BY <1>4 DEF GiveUp, MidsCountExchanges
  <2>2. /\ exchanges' = exchanges /\ applied' = applied
        /\ uncertain' \subseteq uncertain \cup {command.xid}
    BY <1>4 DEF GiveUp
  <2>3. exchanges \in 0..exchanges
    BY <1>1
  <2> QED
    BY <2>1, <2>2, <2>3 DEF HistoryBounded
<1>5. ASSUME NEW f \in network, applied' \subseteq applied \cup {f.xid},
             uncertain' \subseteq uncertain, exchanges' = exchanges
      PROVE  HistoryBounded'
  BY <1>1, <1>5 DEF HistoryBounded
<1>6. CASE UNCHANGED <<applied, uncertain, exchanges>>
  BY <1>6 DEF HistoryBounded
<1> QED
  BY <1>2, <1>3, <1>4, <1>5, <1>6, StepCases
     DEF vars, coreVariables, Exchange, AllocateMid, SendDuplicate, FailDuplicate,
         RefuseUpdate, DevicePatch, DeviceRead, DeviceDuplicate, CoreReceives,
         CoreIgnores, Lose

\* A request keeps its number, and no other has it.
RequestsUnique ==
  \A f, g \in network :
    f.to = "device" /\ g.to = "device" /\ f.xid = g.xid => f = g

LEMMA RequestsUniqueStep ==
  ASSUME TypeOK, MidsCountExchanges, RequestsUnique, [Next]_vars
  PROVE  RequestsUnique'
<1>1. CASE network' \subseteq network
  BY <1>1 DEF RequestsUnique
<1>2. ASSUME NEW r \in Requests, network' = Surviving \cup {RequestFrame(r)}
      PROVE  RequestsUnique'
  <2>1. RequestFrame(r).xid = exchanges + 1
    BY DEF RequestFrame
  <2>2. \A f \in Surviving : f \in network /\ f.xid # exchanges + 1
    BY DEF Surviving, MidsCountExchanges
  <2> QED
    BY <1>2, <2>1, <2>2 DEF RequestsUnique
<1>3. ASSUME NEW f \in network, NEW code, NEW payload, NEW seen,
             network' = AfterDelivery(f) \cup {Response(f, code, payload, seen)}
      PROVE  RequestsUnique'
  BY <1>3 DEF AfterDelivery, Response, RequestsUnique
<1> QED
  BY <1>1, <1>2, <1>3, NetworkStep

\* A rule that a duplicate-rule has installed is still there while the
\* request is in flight: the device never removes a RuleID.
InstalledStays ==
  \A f \in network :
    f.to = "device" /\ f.request.kind = "duplicate" /\ f.xid \in applied
      => f.request.destination \in DOMAIN device

LEMMA InstalledStaysStep ==
  ASSUME TypeOK, MidsCountExchanges, HistoryBounded, RequestsUnique, InstalledStays,
         [Next]_vars
  PROVE  InstalledStays'
<1> SUFFICES ASSUME NEW f \in network', f.to = "device",
                    f.request.kind = "duplicate", f.xid \in applied'
             PROVE  f.request.destination \in DOMAIN device'
  BY DEF InstalledStays
<1>1. f \in network \/ (f.xid = exchanges + 1 /\ applied' = applied)
  <2>1. CASE network' \subseteq network
    BY <2>1
  <2>2. ASSUME NEW r, Exchange(r) \/ SendDuplicate(r),
               network' = Surviving \cup {RequestFrame(r)}
        PROVE  f \in network \/ (f.xid = exchanges + 1 /\ applied' = applied)
    <3>1. applied' = applied
      BY <2>2 DEF Exchange, SendDuplicate
    <3> QED
      BY <2>2, <3>1 DEF RequestFrame, Surviving
  <2>3. ASSUME NEW g \in network, NEW code, NEW payload, NEW seen,
               network' = AfterDelivery(g) \cup {Response(g, code, payload, seen)}
        PROVE  f \in network
    BY <2>3 DEF AfterDelivery, Response
  <2> QED
    BY <2>1, <2>2, <2>3, NetworkStep
<1>2. f \in network
  <2>1. exchanges + 1 \notin applied
    BY DEF HistoryBounded, TypeOK
  <2> QED
    BY <1>1, <2>1
<1>3. DOMAIN device \subseteq DOMAIN device'
  <2>1. ASSUME NEW r PROVE DOMAIN Patched(device, r) = DOMAIN device
    BY DEF Patched
  <2>2. ASSUME NEW r PROVE DOMAIN device \subseteq DOMAIN Duplicated(device, r)
    BY DEF Duplicated
  <2>3. \/ device' = device
        \/ \E r : device' = Patched(device, r) \/ device' = Duplicated(device, r)
    BY StepCases
       DEF vars, Exchange, SendDuplicate, FailDuplicate, RefuseUpdate, DevicePatch,
           DeviceRead, DeviceDuplicate, CoreReceives, CoreIgnores, GiveUp, Lose
  <2> QED
    BY <2>1, <2>2, <2>3
<1>4. CASE f.xid \in applied
  BY <1>2, <1>3, <1>4 DEF InstalledStays
<1>5. CASE f.xid \notin applied
  <2>1. PICK g \in network : /\ g.to = "device" /\ g.xid = f.xid
                             /\ DevicePatch(g) \/ DeviceDuplicate(g)
    BY <1>5, StepCases
       DEF vars, Exchange, SendDuplicate, FailDuplicate, RefuseUpdate, DevicePatch,
           DeviceRead, DeviceDuplicate, CoreReceives, CoreIgnores, GiveUp, Lose
  <2>2. g = f
    BY <1>2, <2>1 DEF RequestsUnique
  <2>3. device' = Duplicated(device, f.request)
    BY <1>5, <2>1, <2>2 DEF DevicePatch, DeviceDuplicate
  <2> QED
    BY <2>3 DEF Duplicated
<1> QED
  BY <1>4, <1>5

\* handle_datagram_no_response keeps no record of the MIDs it has seen, and
\* needs none: a duplicate-rule that was installed once never changes the
\* device's context again, however often and however late it is delivered.
THEOREM ReplaysInstallNothing == Spec => ReplayNeverReinstalls
<1> DEFINE IInv == /\ TypeOK /\ MidsCountExchanges /\ HistoryBounded
                   /\ RequestsUnique /\ InstalledStays
           Replay == \A f \in network :
                       f.to = "device" /\ DeviceDuplicate(f) /\ f.xid \in applied
                         => UNCHANGED device
<1>1. Init => IInv
  BY TypeInit, MidsInit DEF Init, HistoryBounded, RequestsUnique, InstalledStays
<1>2. IInv /\ [Next]_vars => IInv'
  BY TypeStep, MidsStep, HistoryStep, RequestsUniqueStep, InstalledStaysStep
<1>3. IInv /\ [Next]_vars => [Replay]_vars
  <2> SUFFICES ASSUME IInv, NEW f \in network, f.to = "device", DeviceDuplicate(f),
                      f.xid \in applied
               PROVE  UNCHANGED device
    OBVIOUS
  <2>1. f.request.destination \in DOMAIN device
    BY DEF InstalledStays, DeviceDuplicate
  <2>2. DuplicateResult(device, f.request) # "applied"
    BY <2>1 DEF DuplicateResult
  <2> QED
    BY <2>2 DEF DeviceDuplicate
<1> QED
  BY <1>1, <1>2, <1>3, PTL DEF Spec, ReplayNeverReinstalls

-----------------------------------------------------------------------------
(* What the answers tell. *)

\* What an answer to r tells of the device's rules at the time: an update that
\* was accepted has its value there and, with If-Match, the device held the
\* context of the tag before; a check that is equal was of the tag's context.
Answers(f, r) ==
  /\ r.kind = "ipatch" /\ f.code = "2.04" =>
       /\ f.seen[r.id].tv[r.entry] = r.tv
       /\ r.tag # NoTag => f.seen = Patched(Undigest(r.tag), r)
  /\ r.kind = "check" /\ f.payload = "equal" => f.seen = Undigest(r.tag)

\* What is in flight with the number of the waiting command is its request or
\* an answer to it.
FramesOfCommand ==
  command # NoCommand =>
    \A f \in network : f.xid = command.xid =>
      /\ f.to = "device" => f.request = command.request
      /\ f.to = "core" => Answers(f, command.request)

\* A patched rule has the new value.
LEMMA PatchedValue ==
  ASSUME NEW c \in Contexts, NEW r \in PatchRequests, PatchApplies(c, r)
  PROVE  Patched(c, r)[r.id].tv[r.entry] = r.tv
<1>1. c \in [DOMAIN c -> Rules] /\ r.id \in DOMAIN c /\ r.entry \in Entries
  BY ContextShape DEF PatchApplies, PatchRequests
<1>2. c[r.id].tv \in [Entries -> TargetValues \cup {NoTarget}]
  BY <1>1, RuleShape
<1>3. Patched(c, r)[r.id].tv = [c[r.id].tv EXCEPT ![r.entry] = r.tv]
  BY <1>1 DEF Patched, Rules
<1> QED
  BY <1>1, <1>2, <1>3

\* With If-Match, an update is accepted by the context of its tag only.
LEMMA TagOfContext ==
  ASSUME NEW c \in Contexts, NEW r, PatchCode(c, r) = "2.04", r.tag # NoTag
  PROVE  Undigest(r.tag) = c
<1>1. r.tag = Digest(c)
  BY DEF PatchCode, IfMatchHolds
<1> QED
  BY <1>1, DigestInjective

\* The device answers what it has done.
LEMMA DeviceAnswers ==
  ASSUME TypeOK, NEW f \in network, f.to = "device", DevicePatch(f) \/ DeviceRead(f)
  PROVE  \E g : /\ network' = AfterDelivery(f) \cup {g}
                /\ g.to = "core" /\ g.xid = f.xid
                /\ g.code = "2.04" <=>
                     DevicePatch(f) /\ PatchCode(device, f.request) = "2.04"
                /\ Answers(g, f.request)
<1>1. f.request \in Requests /\ device \in Contexts
  BY FrameShape DEF TypeOK
<1>2. CASE DevicePatch(f)
  <2> DEFINE code == PatchCode(device, f.request)
             g == Response(f, code, "empty", device')
  <2>1. f.request \in PatchRequests /\ f.request.kind = "ipatch"
    BY <1>1, <1>2, RequestShape DEF DevicePatch
  <2>2. network' = AfterDelivery(f) \cup {g}
    BY <1>2 DEF DevicePatch
  <2>3. /\ g.to = "core" /\ g.xid = f.xid /\ g.code = code
        /\ g.seen = device'
    BY DEF Response
  <2>4. ASSUME code = "2.04"
        PROVE  /\ device'[f.request.id].tv[f.request.entry] = f.request.tv
               /\ f.request.tag # NoTag
                    => device' = Patched(Undigest(f.request.tag), f.request)
    <3>1. device' = Patched(device, f.request)
      BY <1>2, <2>4 DEF DevicePatch
    <3>2. PatchApplies(device, f.request)
      BY <2>4, AcceptedAdmissible
    <3> QED
      BY <1>1, <2>1, <2>4, <3>1, <3>2, PatchedValue, TagOfContext
  <2> HIDE DEF code, g
  <2>5. Answers(g, f.request)
    BY <2>1, <2>3, <2>4 DEF Answers
  <2> QED
    BY <1>2, <2>2, <2>3, <2>5 DEF code
<1>3. CASE DeviceRead(f)
  <2>1. PICK payload :
          /\ network' = AfterDelivery(f) \cup {Response(f, "2.05", payload, device)}
          /\ f.request.kind = "check" /\ payload = "equal" => f.request.tag = Digest(device)
          /\ f.request.kind \in {"check", "list"}
    BY <1>3, Zenon DEF DeviceRead
  <2> DEFINE g == Response(f, "2.05", payload, device)
  <2>2. /\ g.to = "core" /\ g.xid = f.xid /\ g.code = "2.05" /\ g.payload = payload
        /\ g.seen = device
    BY DEF Response
  <2> HIDE DEF g
  <2>3. Answers(g, f.request)
    BY <1>1, <2>1, <2>2, DigestInjective DEF Answers
  <2>4. ~DevicePatch(f)
    BY <2>1 DEF DevicePatch
  <2> QED
    BY <2>1, <2>2, <2>3, <2>4 DEF g
<1> QED
  BY <1>2, <1>3

\* The device answers a request under its number, and a new command takes a
\* number that no frame has.
LEMMA FramesOfCommandStep ==
  ASSUME TypeOK, MidsCountExchanges, FramesOfCommand, [Next]_vars
  PROVE  FramesOfCommand'
<1>1. ASSUME NEW r \in Confirmable, Exchange(r)
      PROVE  FramesOfCommand'
  <2>1. /\ command'.xid = exchanges + 1 /\ command'.request = r
        /\ network' = Surviving \cup {RequestFrame(r)}
    BY <1>1 DEF Exchange
  <2>2. \A f \in Surviving : f.xid # exchanges + 1
    BY DEF Surviving, MidsCountExchanges
  <2>3. RequestFrame(r).request = r /\ RequestFrame(r).to = "device"
    BY DEF RequestFrame
  <2> QED
    BY <2>1, <2>2, <2>3 DEF FramesOfCommand
<1>2. ASSUME NEW f \in network, f.to = "device", DevicePatch(f) \/ DeviceRead(f)
      PROVE  FramesOfCommand'
  <2>1. command' = command
    BY <1>2 DEF DevicePatch, DeviceRead, coreVariables
  <2>2. PICK g : /\ network' = AfterDelivery(f) \cup {g}
                 /\ g.to = "core" /\ g.xid = f.xid
                 /\ Answers(g, f.request)
    BY <1>2, DeviceAnswers
  <2>3. AfterDelivery(f) \subseteq network
    BY DEF AfterDelivery
  <2> QED
    BY <1>2, <2>1, <2>2, <2>3 DEF FramesOfCommand
<1>3. CASE command' = NoCommand
  BY <1>3 DEF FramesOfCommand
<1>4. CASE network' \subseteq network /\ command' = command
  BY <1>4 DEF FramesOfCommand
<1>5. CASE CoreReceives
  BY <1>3, <1>5, AnswerReported DEF CoreReceives, Finish
<1> QED
  BY <1>1, <1>2, <1>3, <1>4, <1>5, StepCases
     DEF vars, coreVariables, SendDuplicate, FailDuplicate, RefuseUpdate,
         DeviceDuplicate, AfterDelivery, CoreIgnores, GiveUp, Finish, Lose

\* What the core reports of an answer is what the answer tells.
LEMMA ReportsTrueStep ==
  ASSUME Lifetime < Modulus, TypeOK, MidsCountExchanges, CommandCurrent,
         FramesOfCommand, OkUpdateAgrees, CheckEqualSound, [Next]_vars
  PROVE  (OkUpdateAgrees /\ CheckEqualSound)'
<1>1. CASE CoreReceives
  <2> DEFINE r == command.request
  <2>1. PICK f \in network :
          f.to = "core" /\ Correlates(f) /\ (UpdateAnswered(f) \/ ReadAnswered(f))
    BY <1>1 DEF CoreReceives
  <2>2. command # NoCommand /\ f.xid = command.xid
    BY <2>1, CorrelatedXid DEF Correlates
  <2>3. Answers(f, r)
    BY <2>1, <2>2 DEF FramesOfCommand
  <2>4. core.rules \in Contexts /\ r \in Requests
    BY <2>2 DEF TypeOK, Commands, Requests
  <2>5. CASE /\ r.kind = "ipatch" /\ f.code = "2.04"
             /\ core'.rules = Patched(core.rules, r)
             /\ Finish("ok", f)
    <3>1. PatchCode(core.rules, r) = "2.04" /\ r \in PatchRequests
      BY <2>2, <2>4, <2>5, RequestShape DEF CommandCurrent
    <3>2. PatchApplies(core.rules, r)
      BY <3>1, AcceptedAdmissible
    <3>3. core'.rules[r.id].tv[r.entry] = r.tv
      BY <2>4, <2>5, <3>1, <3>2, PatchedValue
    <3>4. f.seen[r.id].tv[r.entry] = r.tv
      BY <2>3, <2>5 DEF Answers
    <3>5. r.tag # NoTag => f.seen = core'.rules
      BY <2>3, <2>4, <2>5, <3>1, TagOfContext DEF Answers
    <3>6. report'.request = r /\ report'.outcome = "ok" /\ report'.answer = f
      BY <2>5 DEF Finish, Report
    <3> QED
      BY <3>3, <3>4, <3>5, <3>6 DEF OkUpdateAgrees, CheckEqualSound
  <2>6. CASE /\ r.kind = "check" /\ f.payload = "equal"
             /\ core' = core
             /\ Finish("equal", f)
    <3>1. f.seen = core.rules
      BY <2>2, <2>3, <2>4, <2>6, DigestInjective DEF Answers, CommandCurrent
    <3>2. report'.outcome = "equal" /\ report'.answer = f
      BY <2>6 DEF Finish, Report
    <3> QED
      BY <2>6, <3>1, <3>2 DEF OkUpdateAgrees, CheckEqualSound
  <2>7. ASSUME NEW outcome \in {"rejected", "mismatch", "listed", "unreadable"},
               Finish(outcome, f)
        PROVE  (OkUpdateAgrees /\ CheckEqualSound)'
    <3>1. report'.outcome = outcome
      BY <2>7 DEF Finish, Report
    <3> QED
      BY <3>1 DEF OkUpdateAgrees, CheckEqualSound
  <2> QED
    BY <2>1, <2>2, <2>5, <2>6, <2>7, AnswerApplied
<1>2. CASE ~CoreReceives
  <2>1. ASSUME NEW q, NEW xid, NEW answer,
               NEW outcome \in {"installed", "idempotent", "possible divergence",
                                "no answer"},
               report' = Report(q, xid, outcome, answer)
        PROVE  (OkUpdateAgrees /\ CheckEqualSound)'
    <3>1. report'.outcome = outcome
      BY <2>1 DEF Report
    <3> QED
      BY <3>1 DEF OkUpdateAgrees, CheckEqualSound
  <2>2. CASE report' = NoReport
    BY <2>2 DEF OkUpdateAgrees, CheckEqualSound
  <2>3. CASE report' = report /\ core' = core
    BY <2>3 DEF OkUpdateAgrees, CheckEqualSound
  <2> QED
    BY <1>2, <2>1, <2>2, <2>3, OtherReports
<1> QED
  BY <1>1, <1>2

\* The invariant behind what the core reports.
ReportInv ==
  /\ TypeOK /\ MidsCountExchanges /\ CommandCurrent /\ FramesOfCommand
  /\ OkUpdateAgrees /\ CheckEqualSound

LEMMA ReportInvariance ==
  ASSUME Lifetime < Modulus
  PROVE  Spec => []ReportInv
<1>1. Init => ReportInv
  BY TypeInit, MidsInit, InitialPrepared
     DEF Init, ReportInv, CommandCurrent, FramesOfCommand, OkUpdateAgrees, CheckEqualSound
<1>2. ReportInv /\ [Next]_vars => ReportInv'
  BY TypeStep, MidsStep, CommandCurrentStep, FramesOfCommandStep, ReportsTrueStep
     DEF ReportInv
<1> QED
  BY <1>1, <1>2, PTL DEF Spec

\* "device=changed local=changed" is true: the device held the core's value
\* when it answered and, with --if-match, the core's whole context.
THEOREM OkUpdatesAgree ==
  ASSUME Lifetime < Modulus
  PROVE  Spec => []OkUpdateAgrees
<1>1. ReportInv => OkUpdateAgrees
  BY DEF ReportInv
<1> QED
  BY <1>1, ReportInvariance, PTL

\* "OK context check equal" is true: the contexts were equal when the device
\* answered.
THEOREM EqualChecksSound ==
  ASSUME Lifetime < Modulus
  PROVE  Spec => []CheckEqualSound
<1>1. ReportInv => CheckEqualSound
  BY DEF ReportInv
<1> QED
  BY <1>1, ReportInvariance, PTL

-----------------------------------------------------------------------------
(* A network that delivers each frame at most once. *)

\* Each exchange has at most one frame in flight.
FramesOnce ==
  ~redelivers => \A f, g \in network : f.xid = g.xid => f = g

\* A frame in flight belongs to an exchange that made the device publish if
\* and only if it is the answer that says so.
AppliedAnswered ==
  ~redelivers =>
    \A f \in network : f.xid \in applied <=> f.to = "core" /\ f.code = "2.04"

\* An update reported as rejected is over.
RejectedGone ==
  ~redelivers /\ report # NoReport /\ report.outcome = "rejected" =>
    report.xid \notin applied /\ \A f \in network : f.xid # report.xid

\* A change in flight is awaited, or known to be uncertain.
ChangesDoubted ==
  ~redelivers =>
    \A f \in network :
      f.to = "device" /\ f.request.kind \in {"ipatch", "duplicate"} =>
        \/ f.xid \in uncertain
        \/ command # NoCommand /\ f.xid = command.xid

\* The command that waits has made the device publish only if it is an update.
AppliedIsUpdate ==
  command # NoCommand /\ command.xid \in applied => command.request.kind = "ipatch"

\* What the device makes of a duplicate-rule.
DuplicateOutcome(ctx, r) ==
  IF DuplicateResult(ctx, r) = "applied" THEN Duplicated(ctx, r) ELSE ctx

\* Unless a change is uncertain, the device has the core's context, with the
\* waiting update if that has arrived; and if only the newest change is, a
\* duplicate-rule in flight, then the device will have the core's context when
\* it arrives.
DeviceFollows ==
  ~redelivers =>
    /\ uncertain = {} =>
         device = IF command # NoCommand /\ command.xid \in applied
                    THEN Patched(core.rules, command.request) ELSE core.rules
    /\ \A f \in network :
         /\ f.to = "device" /\ f.request.kind = "duplicate"
         /\ f.xid = exchanges /\ uncertain \subseteq {exchanges}
         => core.rules = DuplicateOutcome(device, f.request)

\* A command that waits is a command.
LEMMA ExchangeStarts ==
  ASSUME TypeOK, NEW r \in Confirmable, Exchange(r)
  PROVE  /\ command' # NoCommand /\ command'.xid = exchanges + 1 /\ command'.request = r
         /\ exchanges' = exchanges + 1
<1>1. command' \in Commands
  BY RequestFrameType DEF Exchange, Commands, TypeOK, Requests
<1>2. exchanges' = exchanges + 1
  BY DEF Exchange, AllocateMid
<1> QED
  BY <1>1, <1>2, SyncSentinels DEF Exchange

\* Nobody waits for the answer to a duplicate-rule.
LEMMA DuplicateNotAwaited ==
  ASSUME TypeOK, FramesOfCommand, command # NoCommand, NEW f \in network,
         f.to = "device", f.xid = command.xid
  PROVE  f.request = command.request /\ f.request.kind # "duplicate"
<1>1. f.request = command.request
  BY DEF FramesOfCommand
<1>2. command.request \in Confirmable
  BY DEF TypeOK, Commands
<1>3. command.request.kind # "duplicate"
  BY <1>2 DEF Confirmable, PatchRequests, CheckRequests, ListRequest
<1> QED
  BY <1>1, <1>3

\* A frame that is delivered is gone.
LEMMA FramesOnceStep ==
  ASSUME TypeOK, MidsCountExchanges, FramesOnce, [Next]_vars
  PROVE  FramesOnce'
<1> SUFFICES ASSUME ~redelivers, \A f, g \in network : f.xid = g.xid => f = g
             PROVE  \A f, g \in network' : f.xid = g.xid => f = g
  BY StepCases DEF FramesOnce
<1>1. CASE network' \subseteq network
  BY <1>1
<1>2. ASSUME NEW r \in Requests, network' = Surviving \cup {RequestFrame(r)}
      PROVE  \A f, g \in network' : f.xid = g.xid => f = g
  <2>1. RequestFrame(r).xid = exchanges + 1
    BY DEF RequestFrame
  <2>2. \A f \in Surviving : f \in network /\ f.xid # exchanges + 1
    BY DEF Surviving, MidsCountExchanges
  <2> QED
    BY <1>2, <2>1, <2>2
<1>3. ASSUME NEW f \in network, NEW code, NEW payload, NEW seen,
             network' = AfterDelivery(f) \cup {Response(f, code, payload, seen)}
      PROVE  \A h, g \in network' : h.xid = g.xid => h = g
  BY <1>3 DEF AfterDelivery, Response
<1> QED
  BY <1>1, <1>2, <1>3, NetworkStep

\* A change is recorded in the step that answers or ends its request.
LEMMA AppliedAnsweredStep ==
  ASSUME TypeOK, MidsCountExchanges, HistoryBounded, FramesOnce, AppliedAnswered,
         [Next]_vars
  PROVE  AppliedAnswered'
<1> DEFINE Told(f) == f.xid \in applied <=> f.to = "core" /\ f.code = "2.04"
<1> SUFFICES ASSUME ~redelivers, \A f \in network : Told(f),
                    \A f, g \in network : f.xid = g.xid => f = g
             PROVE  \A f \in network' : Told(f)'
  BY StepCases DEF AppliedAnswered, FramesOnce
<1>1. CASE network' \subseteq network /\ applied' = applied
  BY <1>1
<1>2. ASSUME NEW r \in Requests, network' = Surviving \cup {RequestFrame(r)},
             applied' = applied
      PROVE  \A f \in network' : Told(f)'
  <2>1. RequestFrame(r).xid = exchanges + 1 /\ RequestFrame(r).to = "device"
    BY DEF RequestFrame
  <2>2. exchanges + 1 \notin applied
    BY DEF HistoryBounded, TypeOK
  <2> QED
    BY <1>2, <2>1, <2>2 DEF Surviving
<1>3. ASSUME NEW f \in network, f.to = "device", DevicePatch(f) \/ DeviceRead(f)
      PROVE  \A h \in network' : Told(h)'
  <2>1. PICK g : /\ network' = AfterDelivery(f) \cup {g}
                 /\ g.to = "core" /\ g.xid = f.xid
                 /\ g.code = "2.04" <=>
                      DevicePatch(f) /\ PatchCode(device, f.request) = "2.04"
    BY <1>3, DeviceAnswers
  <2>2. f.xid \notin applied
    BY <1>3
  <2>3. IF g.code = "2.04" THEN applied' = applied \cup {f.xid} ELSE applied' = applied
    BY <1>3, <2>1 DEF DevicePatch, DeviceRead
  <2>4. AfterDelivery(f) = network \ {f}
    BY DEF AfterDelivery
  <2>5. Told(g)'
    BY <2>1, <2>2, <2>3
  <2>6. ASSUME NEW h \in network \ {f} PROVE Told(h)'
    <3>1. h.xid # f.xid
      OBVIOUS
    <3>2. h.xid \in applied' <=> h.xid \in applied
      BY <2>3, <3>1
    <3> QED
      BY <3>2
  <2> QED
    BY <2>1, <2>4, <2>5, <2>6
<1>4. ASSUME NEW f \in network, DeviceDuplicate(f)
      PROVE  \A h \in network' : Told(h)'
  <2>1. network' = network \ {f} /\ applied' \in {applied, applied \cup {f.xid}}
    BY <1>4 DEF DeviceDuplicate, AfterDelivery
  <2> QED
    BY <2>1
<1> QED
  BY <1>1, <1>2, <1>3, <1>4, StepCases, NetworkStep
     DEF vars, Exchange, SendDuplicate, FailDuplicate, RefuseUpdate, CoreReceives,
         CoreIgnores, GiveUp, Lose

\* Nothing is left in flight of an exchange that was rejected.
LEMMA RejectedGoneStep ==
  ASSUME Lifetime < Modulus, TypeOK, MidsCountExchanges, CommandCurrent,
         FramesOnce, AppliedAnswered, RejectedGone, [Next]_vars
  PROVE  RejectedGone'
<1> SUFFICES ASSUME ~redelivers, report' # NoReport, report'.outcome = "rejected"
             PROVE  report'.xid \notin applied' /\ \A f \in network' : f.xid # report'.xid
  BY StepCases DEF RejectedGone
<1>1. CASE CoreReceives
  <2>1. PICK f \in network :
          /\ f.to = "core" /\ Correlates(f) /\ (UpdateAnswered(f) \/ ReadAnswered(f))
          /\ network' = AfterDelivery(f) /\ applied' = applied
    BY <1>1 DEF CoreReceives
  <2>2. command # NoCommand /\ f.xid = command.xid
    BY <2>1, CorrelatedXid DEF Correlates
  <2>3. report'.xid = f.xid
    BY <2>1, <2>2, AnswerReported DEF Finish, Report
  <2>4. f.code # "2.04"
    <3>1. ASSUME NEW outcome, Finish(outcome, f) PROVE outcome = "rejected"
      BY <3>1 DEF Finish, Report
    <3> QED
      BY <2>1, <2>2, <3>1, AnswerApplied
  <2>5. f.xid \notin applied
    BY <2>4 DEF AppliedAnswered
  <2>6. \A g \in network' : g.xid # f.xid
    BY <2>1 DEF AfterDelivery, FramesOnce
  <2> QED
    BY <2>1, <2>3, <2>5, <2>6
<1>2. CASE ~CoreReceives
  <2>1. report' = report /\ report.outcome = "rejected"
    <3>1. ASSUME NEW r, NEW xid, NEW outcome \in {"installed", "idempotent",
                                                  "possible divergence", "no answer"},
                 report' = Report(r, xid, outcome, NoFrame)
          PROVE  FALSE
      BY <3>1 DEF Report
    <3> QED
      BY <1>2, <3>1, OtherReports
  <2>2. report.xid \notin applied /\ \A f \in network : f.xid # report.xid
    BY <2>1 DEF RejectedGone
  <2>3. ASSUME NEW f \in network, f.to = "device", DevicePatch(f) \/ DeviceRead(f)
        PROVE  report.xid \notin applied' /\ \A g \in network' : g.xid # report.xid
    <3>1. applied' \in {applied, applied \cup {f.xid}}
      BY <2>3 DEF DevicePatch, DeviceRead
    <3>2. PICK g : network' = AfterDelivery(f) \cup {g} /\ g.xid = f.xid
      BY <2>3, DeviceAnswers
    <3> QED
      BY <2>2, <3>1, <3>2 DEF AfterDelivery
  <2>4. ASSUME NEW f \in network, DeviceDuplicate(f)
        PROVE  report.xid \notin applied' /\ \A g \in network' : g.xid # report.xid
    BY <2>2, <2>4 DEF DeviceDuplicate, AfterDelivery
  <2>5. CASE applied' = applied /\ network' \subseteq network
    BY <2>1, <2>2, <2>5
  <2>6. ASSUME NEW r, Exchange(r) PROVE FALSE
    BY <2>1, <2>6 DEF Exchange
  <2>7. ASSUME NEW r \in DuplicateRequests, SendDuplicate(r)
        PROVE  FALSE
    <3>1. DuplicateResult(core.rules, r) \in {"applied", "idempotent", "failed"}
      BY DEF DuplicateResult
    <3>2. \E outcome \in {"installed", "idempotent", "possible divergence"} :
            report' = Report(r, exchanges + 1, outcome, NoFrame)
      BY <2>7, <3>1, Zenon DEF SendDuplicate
    <3> QED
      BY <3>2 DEF Report
  <2> QED
    BY <1>2, <2>1, <2>3, <2>4, <2>5, <2>6, <2>7, StepCases
       DEF vars, FailDuplicate, RefuseUpdate, CoreIgnores, AfterDelivery, GiveUp, Lose
<1> QED
  BY <1>1, <1>2

\* A change is sent by the command that waits or put in doubt at once, and it
\* stays in doubt when the command gives up.
LEMMA ChangesDoubtedStep ==
  ASSUME Lifetime < Modulus, TypeOK, MidsCountExchanges, FramesOfCommand,
         FramesOnce, ChangesDoubted, [Next]_vars
  PROVE  ChangesDoubted'
<1> DEFINE Change(f) == f.to = "device" /\ f.request.kind \in {"ipatch", "duplicate"}
           Known(f) == \/ f.xid \in uncertain
                       \/ command # NoCommand /\ f.xid = command.xid
<1> SUFFICES ASSUME ~redelivers, \A f \in network : Change(f) => Known(f),
                    NEW f \in network', Change(f)
             PROVE  Known(f)'
  BY StepCases DEF ChangesDoubted
<1>1. ASSUME NEW r \in Confirmable, Exchange(r) PROVE Known(f)'
  <2>1. command = NoCommand /\ network' = Surviving \cup {RequestFrame(r)}
        /\ uncertain' = uncertain
    BY <1>1 DEF Exchange
  <2>2. RequestFrame(r).xid = exchanges + 1
    BY DEF RequestFrame
  <2>3. command' # NoCommand /\ command'.xid = exchanges + 1
    BY <1>1, ExchangeStarts
  <2> QED
    BY <2>1, <2>2, <2>3 DEF Surviving
<1>2. ASSUME NEW r \in DuplicateRequests, SendDuplicate(r) PROVE Known(f)'
  <2>1. /\ command = NoCommand /\ network' = Surviving \cup {RequestFrame(r)}
        /\ uncertain' = uncertain \cup {exchanges + 1}
    BY <1>2 DEF SendDuplicate
  <2>2. RequestFrame(r).xid = exchanges + 1
    BY DEF RequestFrame
  <2> QED
    BY <2>1, <2>2 DEF Surviving
<1>3. ASSUME NEW g \in network, g.to = "device", DevicePatch(g) \/ DeviceRead(g)
      PROVE  Known(f)'
  <2>1. f \in network
    BY <1>3, DeviceAnswers DEF AfterDelivery
  <2>2. UNCHANGED <<command, uncertain>>
    BY <1>3 DEF DevicePatch, DeviceRead, coreVariables
  <2> QED
    BY <2>1, <2>2
<1>4. ASSUME NEW g \in network, DeviceDuplicate(g)
      PROVE  Known(f)'
  <2>1. f \in network /\ f # g
    BY <1>4 DEF DeviceDuplicate, AfterDelivery
  <2>2. f.xid # g.xid
    BY <2>1 DEF FramesOnce
  <2>3. command' = command /\ uncertain' \in {uncertain, uncertain \ {g.xid}}
    BY <1>4 DEF DeviceDuplicate, coreVariables
  <2> QED
    BY <2>1, <2>2, <2>3
<1>5. CASE CoreReceives
  <2>1. PICK g \in network : /\ Correlates(g) /\ network' = AfterDelivery(g)
                             /\ uncertain' = uncertain
    BY <1>5 DEF CoreReceives
  <2>2. g.xid = command.xid
    BY <2>1, CorrelatedXid
  <2>3. f \in network /\ f.xid # g.xid
    BY <2>1 DEF AfterDelivery, FramesOnce
  <2> QED
    BY <2>1, <2>2, <2>3
<1>6. CASE GiveUp
  <2>1. /\ command # NoCommand /\ network' = network
        /\ uncertain' = IF command.request.kind = "ipatch"
                          THEN uncertain \cup {command.xid} ELSE uncertain
    BY <1>6 DEF GiveUp
  <2>2. CASE f.xid = command.xid
    <3>1. f.request = command.request /\ f.request.kind # "duplicate"
      BY <2>1, <2>2, DuplicateNotAwaited
    <3> QED
      BY <2>1, <2>2, <3>1
  <2>3. CASE f.xid # command.xid
    BY <2>1, <2>3
  <2> QED
    BY <2>2, <2>3
<1>7. CASE network' \subseteq network /\ UNCHANGED <<command, uncertain>>
  BY <1>7
<1> QED
  BY <1>1, <1>2, <1>3, <1>4, <1>5, <1>6, <1>7, StepCases
     DEF vars, coreVariables, FailDuplicate, Surviving, RefuseUpdate, CoreIgnores,
         AfterDelivery, Lose

\* The device publishes for an exchange what its request says.
LEMMA AppliedIsUpdateStep ==
  ASSUME TypeOK, HistoryBounded, FramesOfCommand, AppliedIsUpdate, [Next]_vars
  PROVE  AppliedIsUpdate'
<1>1. ASSUME NEW r \in Confirmable, Exchange(r)
      PROVE  AppliedIsUpdate'
  <2>1. command'.xid = exchanges + 1 /\ applied' = applied
    BY <1>1 DEF Exchange
  <2>2. exchanges + 1 \notin applied
    BY DEF HistoryBounded, TypeOK
  <2> QED
    BY <2>1, <2>2 DEF AppliedIsUpdate
<1>2. ASSUME NEW f \in network, f.to = "device", DevicePatch(f)
      PROVE  AppliedIsUpdate'
  <2>1. /\ command' = command /\ f.request.kind = "ipatch"
        /\ applied' \in {applied, applied \cup {f.xid}}
    BY <1>2 DEF DevicePatch, coreVariables
  <2> QED
    BY <1>2, <2>1 DEF AppliedIsUpdate, FramesOfCommand
<1>3. ASSUME NEW f \in network, f.to = "device", DeviceDuplicate(f)
      PROVE  AppliedIsUpdate'
  <2>1. /\ command' = command /\ f.request.kind = "duplicate"
        /\ applied' \in {applied, applied \cup {f.xid}}
    BY <1>3 DEF DeviceDuplicate, coreVariables
  <2>2. command # NoCommand => f.xid # command.xid
    BY <1>3, <2>1, DuplicateNotAwaited
  <2> QED
    BY <2>1, <2>2 DEF AppliedIsUpdate
<1>4. CASE command' = NoCommand
  BY <1>4 DEF AppliedIsUpdate
<1>5. CASE UNCHANGED <<command, applied>>
  BY <1>5 DEF AppliedIsUpdate
<1>6. CASE CoreReceives
  BY <1>4, <1>6, AnswerReported DEF CoreReceives, Finish
<1> QED
  BY <1>1, <1>2, <1>3, <1>4, <1>5, <1>6, StepCases
     DEF vars, coreVariables, SendDuplicate, FailDuplicate, RefuseUpdate, DeviceRead,
         CoreIgnores, GiveUp, Finish, Lose

\* Core and device take the same steps.
LEMMA DeviceFollowsStep ==
  ASSUME Lifetime < Modulus, TypeOK, MidsCountExchanges, HistoryBounded,
         CommandCurrent, FramesOfCommand, FramesOnce, AppliedAnswered,
         ChangesDoubted, AppliedIsUpdate, DeviceFollows, [Next]_vars
  PROVE  DeviceFollows'
<1> DEFINE Follows ==
             uncertain = {} =>
               device = IF command # NoCommand /\ command.xid \in applied
                          THEN Patched(core.rules, command.request) ELSE core.rules
           Newest(f) == /\ f.to = "device" /\ f.request.kind = "duplicate"
                        /\ f.xid = exchanges /\ uncertain \subseteq {exchanges}
           WillFollow == \A f \in network :
                           Newest(f) => core.rules = DuplicateOutcome(device, f.request)
<1> SUFFICES ASSUME ~redelivers, Follows, WillFollow
             PROVE  Follows' /\ WillFollow'
  BY StepCases DEF DeviceFollows
<1> HIDE DEF Follows, WillFollow
<1>1. ASSUME NEW r \in Confirmable, Exchange(r)
      PROVE  Follows' /\ WillFollow'
  <2>1. /\ command = NoCommand /\ UNCHANGED <<core, device, applied, uncertain>>
        /\ network' = Surviving \cup {RequestFrame(r)}
    BY <1>1 DEF Exchange
  <2>2. /\ command'.xid = exchanges + 1 /\ exchanges' = exchanges + 1
    BY <1>1, ExchangeStarts
  <2>3. exchanges + 1 \notin applied
    BY DEF HistoryBounded, TypeOK
  <2>4. Follows'
    BY <2>1, <2>2, <2>3 DEF Follows
  <2>5. \A f \in Surviving : f.xid # exchanges + 1
    BY DEF Surviving, MidsCountExchanges
  <2>6. r.kind # "duplicate"
    BY <1>1 DEF Confirmable, PatchRequests, CheckRequests, ListRequest
  <2>7. WillFollow'
    BY <2>1, <2>2, <2>5, <2>6 DEF WillFollow, RequestFrame
  <2> QED
    BY <2>4, <2>7
<1>2. ASSUME NEW r \in DuplicateRequests, SendDuplicate(r)
      PROVE  Follows' /\ WillFollow'
  <2>1. /\ command = NoCommand /\ device' = device
        /\ network' = Surviving \cup {RequestFrame(r)}
        /\ uncertain' = uncertain \cup {exchanges + 1}
        /\ exchanges' = exchanges + 1
        /\ core' = IF DuplicateResult(core.rules, r) = "applied"
                     THEN Publish(Duplicated(core.rules, r)) ELSE core
    BY <1>2 DEF SendDuplicate, AllocateMid
  <2>2. \A f \in Surviving : f.xid # exchanges + 1
    BY DEF Surviving, MidsCountExchanges
  <2>3. core'.rules = DuplicateOutcome(core.rules, r)
    BY <2>1 DEF Publish, DuplicateOutcome
  <2>4. uncertain' \subseteq {exchanges + 1} => uncertain = {}
    BY <2>1 DEF HistoryBounded, TypeOK
  <2>5. uncertain = {} => device = core.rules
    BY <2>1 DEF Follows
  <2>6. RequestFrame(r).request = r
    BY DEF RequestFrame
  <2>7. WillFollow'
    BY <2>1, <2>2, <2>3, <2>4, <2>5, <2>6 DEF WillFollow
  <2> QED
    BY <2>1, <2>7 DEF Follows
<1>3. CASE FailDuplicate
  <2>1. /\ UNCHANGED <<core, device, command, applied, uncertain>>
        /\ network' = Surviving /\ exchanges' = exchanges + 1
    BY <1>3 DEF FailDuplicate, AllocateMid
  <2>2. \A f \in Surviving : f.xid # exchanges + 1
    BY DEF Surviving, MidsCountExchanges
  <2> QED
    BY <2>1, <2>2 DEF Follows, WillFollow
<1>4. ASSUME NEW f \in network, f.to = "device", DevicePatch(f)
      PROVE  Follows' /\ WillFollow'
  <2>1. /\ f.request.kind = "ipatch"
        /\ UNCHANGED <<core, command, uncertain, exchanges>>
        /\ device' = IF PatchCode(device, f.request) = "2.04"
                       THEN Patched(device, f.request) ELSE device
        /\ applied' = IF PatchCode(device, f.request) = "2.04"
                        THEN applied \cup {f.xid} ELSE applied
    BY <1>4 DEF DevicePatch, coreVariables
  <2>2. f.xid \in uncertain \/ (command # NoCommand /\ f.xid = command.xid)
    BY <1>4, <2>1 DEF ChangesDoubted
  <2>3. ASSUME uncertain = {}
        PROVE  /\ command # NoCommand /\ command.xid \in applied'
               /\ device' = Patched(core.rules, command.request)
    <3>1. command # NoCommand /\ f.xid = command.xid
      BY <2>2, <2>3
    <3>2. f.request = command.request
      BY <1>4, <3>1 DEF FramesOfCommand
    <3>3. f.xid \notin applied
      BY <1>4 DEF AppliedAnswered
    <3>4. device = core.rules
      BY <2>3, <3>1, <3>3 DEF Follows
    <3>5. PatchCode(device, f.request) = "2.04"
      BY <2>1, <3>1, <3>2, <3>4 DEF CommandCurrent
    <3> QED
      BY <2>1, <3>1, <3>2, <3>4, <3>5
  <2>4. Follows'
    BY <2>1, <2>3 DEF Follows
  <2>5. ASSUME NEW h \in network', Newest(h)'
        PROVE  FALSE
    <3>1. h \in network /\ h # f
      BY <1>4, <2>1, <2>5, DeviceAnswers DEF AfterDelivery
    <3>2. f.xid = exchanges
      BY <2>1, <2>2, <2>5 DEF MidsCountExchanges
    <3> QED
      BY <2>1, <2>5, <3>1, <3>2 DEF FramesOnce
  <2> QED
    BY <2>4, <2>5 DEF WillFollow
<1>5. ASSUME NEW f \in network, f.to = "device", DeviceRead(f)
      PROVE  Follows' /\ WillFollow'
  <2>1. UNCHANGED <<core, device, command, applied, uncertain, exchanges>>
    BY <1>5 DEF DeviceRead, coreVariables
  <2>2. \A h \in network' : h.to = "device" => h \in network
    BY <1>5, DeviceAnswers DEF AfterDelivery
  <2> QED
    BY <2>1, <2>2 DEF Follows, WillFollow
<1>6. ASSUME NEW f \in network, f.to = "device", DeviceDuplicate(f)
      PROVE  Follows' /\ WillFollow'
  <2>1. /\ f.request.kind = "duplicate"
        /\ UNCHANGED <<core, command, exchanges>>
        /\ device' = DuplicateOutcome(device, f.request)
        /\ uncertain' = IF f.xid = exchanges THEN uncertain \ {f.xid} ELSE uncertain
        /\ network' = network \ {f}
    BY <1>6 DEF DeviceDuplicate, AfterDelivery, DuplicateOutcome, coreVariables
  <2>2. f.xid \in uncertain
    BY <1>6, <2>1, DuplicateNotAwaited DEF ChangesDoubted
  <2>3. ASSUME uncertain' = {}
        PROVE  command = NoCommand /\ device' = core.rules
    <3>1. f.xid = exchanges /\ uncertain \subseteq {exchanges}
      BY <2>1, <2>2, <2>3
    <3>2. command = NoCommand
      BY <1>6, <2>1, <3>1, DuplicateNotAwaited DEF MidsCountExchanges
    <3>3. core.rules = DuplicateOutcome(device, f.request)
      BY <1>6, <2>1, <3>1 DEF WillFollow
    <3> QED
      BY <2>1, <3>2, <3>3
  <2>4. Follows'
    BY <2>1, <2>3 DEF Follows
  <2>5. ASSUME NEW h \in network', Newest(h)'
        PROVE  FALSE
    <3>1. h.xid = exchanges /\ h \in network /\ h # f
      BY <2>1, <2>5
    <3>2. f.xid # exchanges
      BY <3>1 DEF FramesOnce
    <3> QED
      BY <2>1, <2>2, <2>5, <3>2
  <2> QED
    BY <2>4, <2>5 DEF WillFollow
<1>7. CASE CoreReceives
  <2> DEFINE r == command.request
  <2>1. PICK f \in network :
          /\ f.to = "core" /\ Correlates(f) /\ (UpdateAnswered(f) \/ ReadAnswered(f))
          /\ network' = AfterDelivery(f)
          /\ UNCHANGED <<device, exchanges, applied, uncertain>>
    BY <1>7 DEF CoreReceives
  <2>2. command # NoCommand /\ f.xid = command.xid /\ command.xid = exchanges
    BY <2>1, CorrelatedXid DEF Correlates
  <2>3. command' = NoCommand
    BY <2>1, AnswerReported DEF Finish
  <2>4. f.xid \in applied <=> f.code = "2.04"
    BY <2>1 DEF AppliedAnswered
  <2>5. uncertain = {} => device = core'.rules
    <3>1. CASE r.kind = "ipatch" /\ f.code = "2.04"
               /\ core'.rules = Patched(core.rules, r)
      BY <2>2, <2>4, <3>1 DEF Follows
    <3>2. CASE r.kind = "ipatch" /\ f.code # "2.04" /\ core' = core
      BY <2>2, <2>4, <3>2 DEF Follows
    <3>3. CASE r.kind \in {"check", "list"} /\ core' = core
      BY <2>2, <3>3 DEF Follows, AppliedIsUpdate
    <3> QED
      BY <2>1, <2>2, <3>1, <3>2, <3>3, AnswerApplied
  <2>6. Follows'
    BY <2>1, <2>3, <2>5 DEF Follows
  <2>7. ASSUME NEW h \in network', Newest(h)'
        PROVE  FALSE
    <3>1. h \in network /\ h.xid = command.xid
      BY <2>1, <2>2, <2>7 DEF AfterDelivery
    <3> QED
      BY <2>2, <2>7, <3>1, DuplicateNotAwaited
  <2> QED
    BY <2>6, <2>7 DEF WillFollow
<1>8. CASE GiveUp
  <2>1. /\ command # NoCommand /\ command' = NoCommand
        /\ uncertain' = IF command.request.kind = "ipatch"
                          THEN uncertain \cup {command.xid} ELSE uncertain
        /\ UNCHANGED <<core, device, exchanges, network, applied>>
    BY <1>8 DEF GiveUp, Finish
  <2>2. Follows'
    BY <2>1 DEF Follows, AppliedIsUpdate
  <2>3. ASSUME NEW h \in network', Newest(h)'
        PROVE  FALSE
    <3>1. h \in network /\ h.xid = command.xid
      BY <2>1, <2>3 DEF MidsCountExchanges
    <3> QED
      BY <2>1, <2>3, <3>1, DuplicateNotAwaited
  <2> QED
    BY <2>2, <2>3 DEF WillFollow
<1>9. CASE /\ network' \subseteq network
           /\ UNCHANGED <<core, device, command, applied, uncertain, exchanges>>
  BY <1>9 DEF Follows, WillFollow
<1> QED
  BY <1>1, <1>2, <1>3, <1>4, <1>5, <1>6, <1>7, <1>8, <1>9, StepCases
     DEF vars, coreVariables, RefuseUpdate, CoreIgnores, AfterDelivery, Lose

\* The invariant behind keeping the two contexts equal.
SyncInv ==
  /\ TypeOK /\ MidsCountExchanges /\ CommandCurrent /\ HistoryBounded
  /\ FramesOfCommand /\ FramesOnce /\ AppliedAnswered /\ RejectedGone
  /\ ChangesDoubted /\ AppliedIsUpdate /\ DeviceFollows

LEMMA SyncInvariance ==
  ASSUME Lifetime < Modulus
  PROVE  Spec => []SyncInv
<1>1. Init => SyncInv
  BY TypeInit, MidsInit, InitialPrepared
     DEF Init, SyncInv, CommandCurrent, HistoryBounded, FramesOfCommand, FramesOnce,
         AppliedAnswered, RejectedGone, ChangesDoubted, AppliedIsUpdate, DeviceFollows
<1>2. SyncInv /\ [Next]_vars => SyncInv'
  BY TypeStep, MidsStep, CommandCurrentStep, HistoryStep, FramesOfCommandStep,
     FramesOnceStep, AppliedAnsweredStep, RejectedGoneStep, ChangesDoubtedStep,
     AppliedIsUpdateStep, DeviceFollowsStep
     DEF SyncInv
<1> QED
  BY <1>1, <1>2, PTL DEF Spec

\* Without redelivery the contexts are equal whenever the core is idle and
\* every change it sent is settled.
THEOREM ContextsInSync ==
  ASSUME Lifetime < Modulus
  PROVE  Spec => []InSync
<1>1. SyncInv => InSync
  BY DEF SyncInv, DeviceFollows, InSync
<1> QED
  BY <1>1, SyncInvariance, PTL

\* Without redelivery, "rejected" means that the device did not publish.
THEOREM RejectedUnapplied ==
  ASSUME Lifetime < Modulus
  PROVE  Spec => []RejectedNotApplied
<1>1. SyncInv => RejectedNotApplied
  BY DEF SyncInv, RejectedGone, RejectedNotApplied
<1> QED
  BY <1>1, SyncInvariance, PTL
=============================================================================
