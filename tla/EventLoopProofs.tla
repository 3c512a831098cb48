---------------------------- MODULE EventLoopProofs ----------------------------
(***************************************************************************)
(* What the loops of the two processes guarantee however long their inputs *)
(* grow and however many sides meet a failed I/O operation.                *)
(*                                                                         *)
(* LoopInv is inductive.  PacketsAccounted rests on what a step does to a  *)
(* queue (QueueCases: it takes an item, takes one and sends a frame, or    *)
(* adds one) and on how that changes the number of application packets in  *)
(* it (CountAppend, CountTail).  BoundedOvertaking is strengthened to      *)
(* TurnsBounded, which says how long each input has waited at every        *)
(* point of a loop; the bounds differ in the main loop and in the loop of  *)
(* a command.                                                              *)
(***************************************************************************)
EXTENDS EventLoop, FiniteSetTheorems, TLAPS

-----------------------------------------------------------------------------
(* Counting in queues. *)

\* A queue holds finitely many items of a kind.
LEMMA CountType ==
  ASSUME NEW S, NEW queue \in Seq(S), NEW item
  PROVE  /\ IsFiniteSet({i \in DOMAIN queue : queue[i] = item})
         /\ Count(queue, item) \in Nat
<1> DEFINE T == {i \in DOMAIN queue : queue[i] = item}
<1>1. DOMAIN queue = 1..Len(queue) /\ Len(queue) \in Nat
  OBVIOUS
<1>2. IsFiniteSet(1..Len(queue))
  BY <1>1, FS_Interval
<1>3. T \in SUBSET (1..Len(queue))
  BY <1>1
<1>4. IsFiniteSet(T)
  BY <1>2, <1>3, FS_Subset
<1> QED
  BY <1>4, FS_CardinalityType DEF Count

\* Appending adds at most the item itself.
LEMMA CountAppend ==
  ASSUME NEW S, NEW queue \in Seq(S), NEW e \in S, NEW item
  PROVE  Count(Append(queue, e), item)
           = Count(queue, item) + (IF e = item THEN 1 ELSE 0)
<1> DEFINE T == {i \in DOMAIN queue : queue[i] = item}
           U == {i \in DOMAIN Append(queue, e) : Append(queue, e)[i] = item}
           n == Len(queue) + 1
<1>1. IsFiniteSet(T) /\ Cardinality(T) \in Nat
  BY CountType, FS_CardinalityType
<1>2. n \notin T
  OBVIOUS
<1>3. U = IF e = item THEN T \cup {n} ELSE T
  OBVIOUS
<1>4. Count(queue, item) = Cardinality(T) /\ Count(Append(queue, e), item) = Cardinality(U)
  BY DEF Count
<1> HIDE DEF T, U
<1>5. Cardinality(T \cup {n}) = Cardinality(T) + 1
  BY <1>1, <1>2, FS_AddElement
<1> QED
  BY <1>1, <1>3, <1>4, <1>5

\* Taking the first item removes at most that one.
LEMMA CountTail ==
  ASSUME NEW S, NEW queue \in Seq(S), queue # <<>>, NEW item
  PROVE  Count(queue, item)
           = Count(Tail(queue), item) + (IF Head(queue) = item THEN 1 ELSE 0)
<1> DEFINE T == {i \in DOMAIN queue : queue[i] = item}
           U == {i \in DOMAIN Tail(queue) : Tail(queue)[i] = item}
           shift == [i \in U |-> i + 1]
<1>1. /\ Tail(queue) \in Seq(S) /\ Len(queue) \in Nat /\ Len(queue) > 0
      /\ DOMAIN Tail(queue) = 1..(Len(queue) - 1)
      /\ \A i \in 1..(Len(queue) - 1) : Tail(queue)[i] = queue[i + 1]
      /\ DOMAIN queue = 1..Len(queue) /\ Head(queue) = queue[1]
  OBVIOUS
<1>2. IsFiniteSet(T) /\ IsFiniteSet(U) /\ Cardinality(U) \in Nat
  <2>1. IsFiniteSet(T)
    BY CountType
  <2>2. IsFiniteSet(U)
    BY <1>1, CountType
  <2> QED
    BY <2>1, <2>2, FS_CardinalityType
<1>3. shift \in Bijection(U, T \ {1})
  <2>1. shift \in [U -> T \ {1}]
    BY <1>1
  <2>2. \A a, b \in U : shift[a] = shift[b] => a = b
    BY <1>1
  <2>3. \A t \in T \ {1} : \E i \in U : shift[i] = t
    <3> SUFFICES ASSUME NEW t \in T \ {1} PROVE \E i \in U : shift[i] = t
      OBVIOUS
    <3>1. t - 1 \in U /\ (t - 1) + 1 = t
      BY <1>1
    <3> QED
      BY <3>1
  <2> QED
    BY <2>1, <2>2, <2>3 DEF Bijection, Injection, Surjection, IsInjective
<1>4. Cardinality(T \ {1}) = Cardinality(U)
  BY <1>2, <1>3, FS_Bijection DEF ExistsBijection
<1>5. 1 \in T <=> Head(queue) = item
  BY <1>1
<1>6. Cardinality(T) \in Nat
  BY <1>2, FS_CardinalityType
<1>7. Cardinality(T \ {1}) = IF 1 \in T THEN Cardinality(T) - 1 ELSE Cardinality(T)
  BY <1>2, FS_RemoveElement
<1> HIDE DEF T, U
<1>8. Cardinality(T) = Cardinality(U) + (IF Head(queue) = item THEN 1 ELSE 0)
  BY <1>2, <1>4, <1>5, <1>6, <1>7
<1> QED
  BY <1>8 DEF Count, T, U

-----------------------------------------------------------------------------
(* The steps. *)

\* A step takes an item, and nothing reaches the peer: an application packet
\* is settled for the side at which it came in.
Consumes(side, source, item) ==
  /\ Take(side, source, item)
  /\ Consume(side, source)
  /\ IF item = "application"
       THEN Settle(IF source = "tun" THEN side ELSE Peer(side))
       ELSE UNCHANGED unaccounted

\* A step takes an item and sends a frame: an application packet makes an
\* application frame.
Transmits(side, source, item, f) ==
  /\ Take(side, source, item)
  /\ Transmit(side, source, f)
  /\ f = "application" <=> item = "application"
  /\ item = "application" => source = "tun"
  /\ UNCHANGED unaccounted

\* What the steps of a process do to the queues.
LEMMA QueueSteps ==
  /\ \A side \in Sides :
       /\ TunIdle(side) \/ TunPollFails(side) \/ RawIdle(side) \/ RecvFails(side)
            => UNCHANGED <<input, unaccounted>>
       /\ TunDrop(side) => Consumes(side, "tun", "unsupported")
       /\ TunSendFails(side) => Consumes(side, "tun", "application")
       /\ TunForward(side) => \/ Consumes(side, "tun", "application")
                              \/ Transmits(side, "tun", "application", "application")
       /\ DeliverFrame(side) \/ TunWriteFails(side)
            => Consumes(side, "raw", "application")
       /\ \A f \in Frames : DropFrame(side, f) => Consumes(side, "raw", f)
  /\ ConsoleIdle \/ CheckDeadline => UNCHANGED <<input, unaccounted>>
  /\ Quit => Consumes("core", "console", "quit")
  /\ FailCommand => \E kind \in CommandKinds : Consumes("core", "console", kind)
  /\ LocalCommand => Consumes("core", "console", "local")
  /\ DuplicateCommand => \/ Consumes("core", "console", "duplicate")
                         \/ Transmits("core", "console", "duplicate", "duplicate")
  /\ ExchangeCommand => \/ Consumes("core", "console", "exchange")
                        \/ Transmits("core", "console", "exchange", "request")
  /\ AcceptResponse => Consumes("core", "raw", "response")
  /\ AnswerRequest => \/ Consumes("device", "raw", "request")
                      \/ Transmits("device", "raw", "request", "response")
  /\ AnswerFails => Consumes("device", "raw", "request")
  /\ HandleDuplicate \/ ReportFails => Consumes("device", "raw", "duplicate")
<1>1. ASSUME NEW side \in Sides
      PROVE  /\ TunIdle(side) \/ TunPollFails(side) \/ RawIdle(side) \/ RecvFails(side)
                  => UNCHANGED <<input, unaccounted>>
             /\ TunDrop(side) => Consumes(side, "tun", "unsupported")
             /\ TunSendFails(side) => Consumes(side, "tun", "application")
             /\ TunForward(side) =>
                  \/ Consumes(side, "tun", "application")
                  \/ Transmits(side, "tun", "application", "application")
             /\ DeliverFrame(side) \/ TunWriteFails(side)
                  => Consumes(side, "raw", "application")
             /\ \A f \in Frames : DropFrame(side, f) => Consumes(side, "raw", f)
  BY Zenon DEF TunIdle, TunPollFails, RawIdle, RecvFails, TunDrop, TunSendFails, TunForward,
         DeliverFrame, TunWriteFails, DropFrame, Unmoved, Consumes, Transmits
<1>2. /\ ConsoleIdle \/ CheckDeadline => UNCHANGED <<input, unaccounted>>
      /\ Quit => Consumes("core", "console", "quit")
      /\ LocalCommand => Consumes("core", "console", "local")
      /\ DuplicateCommand => \/ Consumes("core", "console", "duplicate")
                             \/ Transmits("core", "console", "duplicate", "duplicate")
      /\ ExchangeCommand => \/ Consumes("core", "console", "exchange")
                            \/ Transmits("core", "console", "exchange", "request")
  BY DEF ConsoleIdle, CheckDeadline, Quit, LocalCommand, DuplicateCommand,
         ExchangeCommand, TakeCommand, Unmoved, Consumes, Transmits
<1>3. FailCommand => \E kind \in CommandKinds : Consumes("core", "console", kind)
  BY DEF FailCommand, TakeCommand, CommandKinds, Consumes
<1>4. /\ AcceptResponse => Consumes("core", "raw", "response")
      /\ AnswerRequest => \/ Consumes("device", "raw", "request")
                          \/ Transmits("device", "raw", "request", "response")
      /\ AnswerFails => Consumes("device", "raw", "request")
      /\ HandleDuplicate \/ ReportFails => Consumes("device", "raw", "duplicate")
  BY DEF AcceptResponse, AnswerRequest, AnswerFails, HandleDuplicate, ReportFails,
         Consumes, Transmits
<1> QED
  BY <1>1, <1>2, <1>3, <1>4

\* Every step takes an item, leaves the queues alone, or adds to one.
LEMMA QueueCases ==
  ASSUME [Next]_vars
  PROVE  \/ UNCHANGED <<input, unaccounted>>
         \/ \E side \in Sides, source \in Sources : \E item : Consumes(side, source, item)
         \/ \E side \in Sides, source \in Sources, f \in Frames : \E item :
              Transmits(side, source, item, f)
         \/ \E kind \in CommandKinds : Type(kind)
         \/ \E side \in Sides, item \in TunItems : Enter(side, item)
<1> USE DEF Sides, Sources, Frames
<1>1. ASSUME NEW side \in Sides, Step(side)
      PROVE  \/ UNCHANGED <<input, unaccounted>>
             \/ \E source \in Sources : \E item : Consumes(side, source, item)
             \/ \E source \in Sources, f \in Frames : \E item :
                  Transmits(side, source, item, f)
  BY <1>1, QueueSteps DEF Step
<1>2. CASE CoreStep
  BY <1>1, <1>2, QueueSteps DEF CoreStep
<1>3. CASE DeviceStep
  BY <1>1, <1>3, QueueSteps DEF DeviceStep
<1>4. CASE Expire \/ UNCHANGED vars
  BY <1>4 DEF Expire, vars
<1> QED
  BY <1>2, <1>3, <1>4 DEF Next

-----------------------------------------------------------------------------
(* Types, and the account of application packets. *)

Items == CommandKinds \cup TunItems \cup Frames

\* The part of TypeOK about the queues.
QueuesOK ==
  /\ input \in [Sides -> [Sources -> Seq(Items)]]
  /\ \A side \in Sides :
       /\ input[side].console \in Seq(CommandKinds)
       /\ input[side].tun \in Seq(TunItems)
       /\ input[side].raw \in Seq(Frames)

\* The queues without the item that is taken.
LEMMA RestQueues ==
  ASSUME QueuesOK, NEW side \in Sides, NEW source \in Sources, Waiting(side, source)
  PROVE  /\ Rest(side, source) \in [Sides -> [Sources -> Seq(Items)]]
         /\ \A s \in Sides, t \in Sources :
              Rest(side, source)[s][t] = IF s = side /\ t = source
                                           THEN Tail(input[s][t]) ELSE input[s][t]
<1>1. input[side][source] \in Seq(Items) /\ input[side][source] # <<>>
  BY DEF QueuesOK, Waiting
<1>2. Tail(input[side][source]) \in Seq(Items)
  BY <1>1
<1> QED
  BY <1>2 DEF QueuesOK, Rest

\* The queues when a frame has reached the peer.
LEMMA SentQueues ==
  ASSUME QueuesOK, NEW side \in Sides, NEW source \in Sources, Waiting(side, source),
         NEW f \in Frames, Transmit(side, source, f)
  PROVE  /\ input' \in [Sides -> [Sources -> Seq(Items)]]
         /\ \A s \in Sides, t \in Sources :
              input'[s][t] = IF s = side /\ t = source THEN Tail(input[s][t])
                             ELSE IF s = Peer(side) /\ t = "raw"
                               THEN Append(input[s][t], f) ELSE input[s][t]
<1> DEFINE rest == Rest(side, source)
           peer == Peer(side)
<1>1. /\ rest \in [Sides -> [Sources -> Seq(Items)]]
      /\ \A s \in Sides, t \in Sources :
           rest[s][t] = IF s = side /\ t = source THEN Tail(input[s][t]) ELSE input[s][t]
  BY RestQueues
<1>2. peer \in Sides /\ peer # side /\ "raw" \in Sources /\ f \in Items
  BY DEF Sides, Sources, Peer, Items
<1>3. input' = [rest EXCEPT ![peer]["raw"] = Append(@, f)]
  BY DEF Transmit
<1> HIDE DEF rest, peer
<1>4. Append(rest[peer]["raw"], f) \in Seq(Items)
  BY <1>1, <1>2
<1>5. input' \in [Sides -> [Sources -> Seq(Items)]]
  BY <1>1, <1>2, <1>3, <1>4
<1>6. \A s \in Sides, t \in Sources :
        input'[s][t] = IF s = peer /\ t = "raw" THEN Append(rest[s][t], f) ELSE rest[s][t]
  BY <1>1, <1>2, <1>3
<1> QED
  BY <1>1, <1>2, <1>5, <1>6 DEF peer

\* Each queue holds what belongs there.
LEMMA QueuesStep ==
  ASSUME QueuesOK, [Next]_vars
  PROVE  QueuesOK'
<1>1. "console" \in Sources /\ "tun" \in Sources /\ "raw" \in Sources /\ "core" \in Sides
  BY DEF Sources, Sides
<1>2. ASSUME NEW side \in Sides, NEW source \in Sources, NEW item,
             Consumes(side, source, item)
      PROVE  QueuesOK'
  <2>1. Waiting(side, source) /\ input' = Rest(side, source)
    BY <1>2 DEF Consumes, Take, Consume
  <2>2. ASSUME NEW t \in Sources, NEW S, NEW s \in Sides, input[s][t] \in Seq(S)
        PROVE  input'[s][t] \in Seq(S)
    <3>1. input'[s][t] = IF s = side /\ t = source
                           THEN Tail(input[s][t]) ELSE input[s][t]
      BY <2>1, RestQueues
    <3>2. s = side /\ t = source => input[s][t] # <<>>
      BY <2>1 DEF Waiting
    <3> QED
      BY <2>2, <3>1, <3>2
  <2>3. input' \in [Sides -> [Sources -> Seq(Items)]]
    BY <2>1, RestQueues
  <2> QED
    BY <1>1, <2>2, <2>3 DEF QueuesOK
<1>3. ASSUME NEW side \in Sides, NEW source \in Sources, NEW f \in Frames, NEW item,
             Transmits(side, source, item, f)
      PROVE  QueuesOK'
  <2>1. Waiting(side, source) /\ Transmit(side, source, f)
    BY <1>3 DEF Transmits, Take
  <2>2. ASSUME NEW t \in Sources, NEW S, NEW s \in Sides, input[s][t] \in Seq(S),
               t = "raw" => f \in S
        PROVE  input'[s][t] \in Seq(S)
    <3>1. input'[s][t] = IF s = side /\ t = source THEN Tail(input[s][t])
                         ELSE IF s = Peer(side) /\ t = "raw"
                           THEN Append(input[s][t], f) ELSE input[s][t]
      BY <2>1, SentQueues
    <3>2. s = side /\ t = source => input[s][t] # <<>>
      BY <2>1 DEF Waiting
    <3> QED
      BY <2>2, <3>1, <3>2
  <2>3. input' \in [Sides -> [Sources -> Seq(Items)]]
    BY <2>1, SentQueues
  <2> QED
    BY <1>1, <2>2, <2>3 DEF QueuesOK
<1>4. ASSUME NEW kind \in CommandKinds, Type(kind)
      PROVE  QueuesOK'
  <2>1. input' = [input EXCEPT !["core"]["console"] = Append(@, kind)]
    BY <1>4 DEF Type
  <2>2. /\ Append(input["core"]["console"], kind) \in Seq(CommandKinds)
        /\ Append(input["core"]["console"], kind) \in Seq(Items)
    BY <1>1 DEF QueuesOK, Items
  <2> QED
    BY <1>1, <2>1, <2>2 DEF QueuesOK
<1>5. ASSUME NEW side \in Sides, NEW item \in TunItems, Enter(side, item)
      PROVE  QueuesOK'
  <2>1. input' = [input EXCEPT ![side]["tun"] = Append(@, item)]
    BY <1>5 DEF Enter
  <2>2. /\ Append(input[side]["tun"], item) \in Seq(TunItems)
        /\ Append(input[side]["tun"], item) \in Seq(Items)
    BY <1>1 DEF QueuesOK, Items
  <2> QED
    BY <1>1, <2>1, <2>2 DEF QueuesOK
<1>6. CASE UNCHANGED input
  BY <1>6 DEF QueuesOK
<1> QED
  BY <1>2, <1>3, <1>4, <1>5, <1>6, QueueCases

\* The history unaccounted counts.
AccountOK == unaccounted \in [Sides -> Nat]

\* What a step does to the account of a side, it does to the two queues where
\* packets of that side wait.
LEMMA AccountStep ==
  ASSUME QueuesOK, AccountOK, PacketsAccounted, [Next]_vars
  PROVE  AccountOK' /\ PacketsAccounted'
<1> DEFINE N(s, t) == Count(input[s][t], "application")
           M(s, t) == Count(input'[s][t], "application")
<1>1. /\ "tun" \in Sources /\ "raw" \in Sources
      /\ \A s \in Sides : Peer(s) \in Sides /\ Peer(s) # s /\ Peer(Peer(s)) = s
      /\ \A s, t \in Sides : t # s => t = Peer(s)
  BY DEF Sources, Sides, Peer
<1>2. \A s \in Sides, t \in Sources : input[s][t] \in Seq(Items) /\ N(s, t) \in Nat
  BY CountType DEF QueuesOK
<1>3. \A s \in Sides, t \in Sources : M(s, t) \in Nat
  BY QueuesStep, CountType DEF QueuesOK
<1>4. \A s \in Sides : unaccounted[s] = N(s, "tun") + N(Peer(s), "raw")
  BY DEF PacketsAccounted
<1> DEFINE Settled == \A s \in Sides : unaccounted'[s] = M(s, "tun") + M(Peer(s), "raw")
<1> SUFFICES /\ unaccounted' = [s \in Sides |-> unaccounted'[s]]
             /\ Settled
  <2>1. \A s \in Sides : M(s, "tun") + M(Peer(s), "raw") \in Nat
    BY <1>1, <1>3
  <2> HIDE DEF M
  <2>2. ASSUME /\ unaccounted' = [s \in Sides |-> unaccounted'[s]]
               /\ Settled
        PROVE  AccountOK'
    BY <2>1, <2>2 DEF AccountOK
  <2> QED
    BY <2>2 DEF PacketsAccounted, M
<1>5. unaccounted = [s \in Sides |-> unaccounted[s]]
  BY DEF AccountOK
<1>6. \A s \in Sides : unaccounted[s] \in Nat
  BY DEF AccountOK
<1>7. ASSUME NEW side \in Sides, NEW source \in Sources, NEW item,
             Consumes(side, source, item)
      PROVE  unaccounted' = [s \in Sides |-> unaccounted'[s]] /\ Settled
  <2> DEFINE owner == IF source = "tun" THEN side ELSE Peer(side)
  <2>1. /\ Waiting(side, source) /\ input' = Rest(side, source)
        /\ Head(input[side][source]) = item
        /\ unaccounted' = IF item = "application"
                            THEN [unaccounted EXCEPT ![owner] = @ - 1] ELSE unaccounted
    BY <1>7 DEF Consumes, Take, Consume, Settle
  <2>2. N(side, source) = M(side, source) + (IF item = "application" THEN 1 ELSE 0)
    <3>1. input'[side][source] = Tail(input[side][source])
      BY <2>1, RestQueues
    <3> QED
      BY <1>2, <2>1, <3>1, CountTail DEF Waiting
  <2>3. \A s \in Sides, t \in Sources : s # side \/ t # source => M(s, t) = N(s, t)
    <3> SUFFICES ASSUME NEW s \in Sides, NEW t \in Sources, s # side \/ t # source
                 PROVE  input'[s][t] = input[s][t]
      OBVIOUS
    <3> QED
      BY <2>1, RestQueues
  <2>4. item = "application" => source \in {"tun", "raw"}
    <3>1. source \notin {"tun", "raw"} => source = "console"
      BY DEF Sources
    <3>2. source = "console" => Head(input[side][source]) \in CommandKinds
      BY <2>1 DEF QueuesOK, Waiting
    <3> QED
      BY <2>1, <3>1, <3>2 DEF CommandKinds
  <2> HIDE DEF N, M
  <2>5. CASE item # "application"
    <3>1. N(side, source) = M(side, source)
      BY <1>2, <1>3, <2>2, <2>5
    <3>2. \A s \in Sides, t \in Sources : M(s, t) = N(s, t)
      BY <2>3, <3>1
    <3>3. unaccounted' = unaccounted
      BY <2>1, <2>5
    <3> QED
      BY <1>1, <1>4, <1>5, <3>2, <3>3
  <2>6. CASE item = "application" /\ source = "tun"
    <3>1. unaccounted' = [unaccounted EXCEPT ![side] = @ - 1]
      BY <2>1, <2>6
    <3>2. unaccounted'[side] = M(side, "tun") + M(Peer(side), "raw")
      BY <1>1, <1>2, <1>3, <1>4, <1>5, <2>2, <2>3, <2>6, <3>1
    <3>3. unaccounted'[Peer(side)] = M(Peer(side), "tun") + M(side, "raw")
      <4>1. unaccounted'[Peer(side)] = unaccounted[Peer(side)]
        BY <1>1, <1>5, <3>1
      <4>2. M(Peer(side), "tun") = N(Peer(side), "tun") /\ M(side, "raw") = N(side, "raw")
        BY <1>1, <2>3, <2>6
      <4> QED
        BY <1>1, <1>4, <4>1, <4>2
    <3>4. unaccounted' = [s \in Sides |-> unaccounted'[s]]
      BY <1>5, <3>1
    <3> QED
      BY <1>1, <3>2, <3>3, <3>4
  <2>7. CASE item = "application" /\ source = "raw"
    <3>1. unaccounted' = [unaccounted EXCEPT ![Peer(side)] = @ - 1]
      BY <2>1, <2>7
    <3>2. unaccounted'[Peer(side)] = M(Peer(side), "tun") + M(side, "raw")
      BY <1>1, <1>2, <1>3, <1>4, <1>5, <2>2, <2>3, <2>7, <3>1
    <3>3. unaccounted'[side] = M(side, "tun") + M(Peer(side), "raw")
      BY <1>1, <1>2, <1>3, <1>4, <1>5, <2>2, <2>3, <2>7, <3>1
    <3>4. unaccounted' = [s \in Sides |-> unaccounted'[s]]
      BY <1>5, <3>1
    <3> QED
      BY <1>1, <3>2, <3>3, <3>4
  <2> QED
    BY <2>4, <2>5, <2>6, <2>7
<1>8. ASSUME NEW side \in Sides, NEW source \in Sources, NEW f \in Frames, NEW item,
             Transmits(side, source, item, f)
      PROVE  unaccounted' = [s \in Sides |-> unaccounted'[s]] /\ Settled
  <2> DEFINE one == IF item = "application" THEN 1 ELSE 0
  <2>1. /\ Waiting(side, source) /\ Transmit(side, source, f)
        /\ Head(input[side][source]) = item
        /\ f = "application" <=> item = "application"
        /\ item = "application" => source = "tun"
        /\ unaccounted' = unaccounted
    BY <1>8 DEF Transmits, Take
  <2>2. \A s \in Sides, t \in Sources :
          input'[s][t] = IF s = side /\ t = source THEN Tail(input[s][t])
                         ELSE IF s = Peer(side) /\ t = "raw"
                           THEN Append(input[s][t], f) ELSE input[s][t]
    BY <2>1, SentQueues
  <2>3. N(side, source) = M(side, source) + one
    <3>1. input'[side][source] = Tail(input[side][source])
      BY <2>2
    <3> QED
      BY <1>2, <2>1, <3>1, CountTail DEF Waiting
  <2>4. M(Peer(side), "raw") = N(Peer(side), "raw") + one
    <3>1. input'[Peer(side)]["raw"] = Append(input[Peer(side)]["raw"], f)
      BY <1>1, <2>2
    <3>2. input[Peer(side)]["raw"] \in Seq(Items) /\ f \in Items
      BY <1>1, <1>2 DEF Items
    <3> QED
      BY <2>1, <3>1, <3>2, CountAppend
  <2>5. \A s \in Sides, t \in Sources :
          (s # side \/ t # source) /\ (s # Peer(side) \/ t # "raw") => M(s, t) = N(s, t)
    <3> SUFFICES ASSUME NEW s \in Sides, NEW t \in Sources, s # side \/ t # source,
                        s # Peer(side) \/ t # "raw"
                 PROVE  input'[s][t] = input[s][t]
      OBVIOUS
    <3> QED
      BY <2>2
  <2> HIDE DEF N, M
  <2>6. one \in {0, 1} /\ (one = 1 => source = "tun")
    BY <2>1
  <2> HIDE DEF one
  <2>7. unaccounted[side] = M(side, "tun") + M(Peer(side), "raw")
    <3>1. CASE source = "tun"
      BY <1>1, <1>2, <1>3, <1>4, <2>3, <2>4, <2>6, <3>1
    <3>2. CASE source # "tun"
      BY <1>1, <1>2, <1>3, <1>4, <2>4, <2>5, <2>6, <3>2
    <3> QED
      BY <3>1, <3>2
  <2>8. unaccounted[Peer(side)] = M(Peer(side), "tun") + M(side, "raw")
    <3>1. M(side, "raw") = N(side, "raw")
      <4>1. CASE source = "raw"
        BY <1>1, <1>2, <1>3, <2>3, <2>6, <4>1
      <4>2. CASE source # "raw"
        BY <1>1, <2>5, <4>2
      <4> QED
        BY <4>1, <4>2
    <3>2. M(Peer(side), "tun") = N(Peer(side), "tun")
      BY <1>1, <2>5
    <3> QED
      BY <1>1, <1>4, <3>1, <3>2
  <2> QED
    BY <1>1, <1>5, <2>1, <2>7, <2>8
<1>9. ASSUME NEW kind \in CommandKinds, Type(kind)
      PROVE  unaccounted' = [s \in Sides |-> unaccounted'[s]] /\ Settled
  <2>1. /\ input' = [input EXCEPT !["core"]["console"] = Append(@, kind)]
        /\ unaccounted' = unaccounted
    BY <1>9 DEF Type
  <2>2. \A s \in Sides, t \in {"tun", "raw"} : input'[s][t] = input[s][t]
    BY <2>1 DEF QueuesOK, Sides, Sources
  <2>3. \A s \in Sides, t \in {"tun", "raw"} : M(s, t) = N(s, t)
    BY <2>2
  <2> HIDE DEF N, M
  <2> QED
    BY <1>1, <1>4, <1>5, <2>1, <2>3
<1>10. ASSUME NEW side \in Sides, NEW item \in TunItems, Enter(side, item)
       PROVE  unaccounted' = [s \in Sides |-> unaccounted'[s]] /\ Settled
  <2> DEFINE one == IF item = "application" THEN 1 ELSE 0
  <2>1. /\ input' = [input EXCEPT ![side]["tun"] = Append(@, item)]
        /\ unaccounted' = [unaccounted EXCEPT ![side] =
                             IF item = "application" THEN @ + 1 ELSE @]
    BY <1>10 DEF Enter
  <2>2. \A s \in Sides, t \in {"tun", "raw"} :
          input'[s][t] = IF s = side /\ t = "tun" THEN Append(input[s][t], item)
                         ELSE input[s][t]
    BY <2>1 DEF QueuesOK, Sides, Sources
  <2>3. M(side, "tun") = N(side, "tun") + one
    <3>1. input[side]["tun"] \in Seq(Items) /\ item \in Items
      BY <1>1, <1>2 DEF Items
    <3> QED
      BY <2>2, <3>1, CountAppend
  <2>4. \A s \in Sides, t \in {"tun", "raw"} :
          s # side \/ t # "tun" => M(s, t) = N(s, t)
    BY <2>2
  <2> HIDE DEF N, M
  <2>5. unaccounted'[side] = unaccounted[side] + one
    BY <1>5, <1>6, <2>1
  <2>6. unaccounted'[Peer(side)] = unaccounted[Peer(side)]
    BY <1>1, <1>5, <2>1
  <2>7. unaccounted' = [s \in Sides |-> unaccounted'[s]]
    BY <1>5, <2>1
  <2>8. one \in Nat
    OBVIOUS
  <2> HIDE DEF one
  <2>9. unaccounted'[side] = M(side, "tun") + M(Peer(side), "raw")
    BY <1>1, <1>2, <1>4, <2>3, <2>4, <2>5, <2>8
  <2>10. unaccounted'[Peer(side)] = M(Peer(side), "tun") + M(side, "raw")
    BY <1>1, <1>4, <2>4, <2>6
  <2> QED
    BY <1>1, <2>7, <2>9, <2>10
<1>11. CASE UNCHANGED <<input, unaccounted>>
  BY <1>4, <1>5, <1>11
<1> QED
  BY <1>7, <1>8, <1>9, <1>10, <1>11, QueueCases

-----------------------------------------------------------------------------
(* Types. *)

\* The part of TypeOK about where the processes are.
ControlOK ==
  /\ once \in BOOLEAN /\ debug \in BOOLEAN
  /\ waiting \in BOOLEAN /\ expired \in BOOLEAN
  /\ at \in [Sides -> Sources \cup {"ended"}]
  /\ faults \subseteq Sides \X Places /\ completed \subseteq Sides
  /\ undescribed \in BOOLEAN /\ quit \in BOOLEAN
  /\ expired => waiting

\* A step moves one process, to an input of it or to its end.
LEMMA MoveOK ==
  ASSUME ControlOK, NEW side \in Sides, NEW source \in Sources \cup {"ended"},
         Continue(side, source)
  PROVE  at' \in [Sides -> Sources \cup {"ended"}]
BY DEF ControlOK, Continue

\* The part of TypeOK about the history overtaken.
OvertakenOK == overtaken \in [Sides -> [{"tun", "raw"} -> Nat]]

\* Which sources have to wait longer when an item is taken.
LEMMA TakeCounts ==
  ASSUME OvertakenOK, NEW side \in Sides, NEW source, NEW item, Take(side, source, item)
  PROVE  /\ OvertakenOK'
         /\ \A s \in {"tun", "raw"} :
              overtaken'[side][s] = IF s # source /\ Waiting(side, s)
                                      THEN overtaken[side][s] + 1 ELSE 0
         /\ \A other \in Sides \ {side} : overtaken'[other] = overtaken[other]
<1> DEFINE count == [s \in {"tun", "raw"} |->
                       IF s # source /\ Waiting(side, s) THEN overtaken[side][s] + 1 ELSE 0]
<1>1. overtaken' = [overtaken EXCEPT ![side] = count]
  BY DEF Take, OvertakenOK
<1>2. count \in [{"tun", "raw"} -> Nat]
  BY DEF OvertakenOK
<1>3. /\ OvertakenOK'
      /\ overtaken'[side] = count
      /\ \A other \in Sides \ {side} : overtaken'[other] = overtaken[other]
  BY <1>1, <1>2 DEF OvertakenOK
<1> QED
  BY <1>3

\* The turns are counted.
LEMMA OvertakenStep ==
  ASSUME OvertakenOK, [Next]_vars
  PROVE  OvertakenOK'
<1>1. ASSUME NEW side \in Sides, NEW source, NEW item, Take(side, source, item)
      PROVE  OvertakenOK'
  BY <1>1, TakeCounts
<1>2. CASE UNCHANGED overtaken
  BY <1>2 DEF OvertakenOK
<1>3. ASSUME NEW side \in Sides, RecvFails(side)
      PROVE  OvertakenOK'
  BY <1>3 DEF RecvFails, OvertakenOK
<1>4. ASSUME NEW side \in Sides, Step(side)
      PROVE  OvertakenOK'
  <2>1. CASE TunIdle(side) \/ TunPollFails(side) \/ RawIdle(side)
    BY <1>2, <2>1 DEF TunIdle, TunPollFails, RawIdle, Unmoved
  <2>2. CASE TunDrop(side) \/ TunForward(side) \/ TunSendFails(side)
    BY <1>1, <2>2 DEF TunDrop, TunForward, TunSendFails
  <2>3. CASE DeliverFrame(side) \/ TunWriteFails(side) \/ \E f \in Frames : DropFrame(side, f)
    BY <1>1, <2>3 DEF DeliverFrame, TunWriteFails, DropFrame
  <2> QED
    BY <1>3, <1>4, <2>1, <2>2, <2>3 DEF Step
<1>5. "core" \in Sides /\ "device" \in Sides
  BY DEF Sides
<1>6. CASE CoreStep
  <2>1. CASE ConsoleIdle \/ CheckDeadline
    BY <1>2, <2>1 DEF ConsoleIdle, CheckDeadline, Unmoved
  <2>2. CASE Quit \/ FailCommand \/ LocalCommand \/ DuplicateCommand \/ ExchangeCommand
    BY <1>1, <1>5, <2>2 DEF Quit, FailCommand, LocalCommand, DuplicateCommand,
       ExchangeCommand, TakeCommand
  <2>3. CASE AcceptResponse
    BY <1>1, <1>5, <2>3 DEF AcceptResponse
  <2> QED
    BY <1>4, <1>5, <1>6, <2>1, <2>2, <2>3 DEF CoreStep
<1>7. CASE DeviceStep
  BY <1>1, <1>4, <1>5, <1>7
     DEF DeviceStep, AnswerRequest, AnswerFails, HandleDuplicate, ReportFails
<1>8. CASE \/ Expire \/ UNCHANGED vars
           \/ \E kind \in CommandKinds : Type(kind)
           \/ \E side \in Sides, item \in TunItems : Enter(side, item)
  BY <1>2, <1>8 DEF Expire, vars, Type, Enter
<1> QED
  BY <1>6, <1>7, <1>8 DEF Next

-----------------------------------------------------------------------------
(* What ends a process. *)

\* There is a cause for this process to end.
Cause(side) ==
  \/ <<side, "packet">> \in faults
  \/ once /\ side \in completed
  \/ side = "core" /\ quit
  \/ side = "device" /\ debug /\ undescribed

\* A step moves one process, which ends only for a cause; the flags stay
\* flags, and causes stay causes.
Moves(side) ==
  /\ \E source \in Sources \cup {"ended"} :
       Continue(side, source) /\ (source = "ended" => Cause(side)')
  /\ UNCHANGED <<once, debug>>
  /\ waiting' \in BOOLEAN /\ expired' \in BOOLEAN /\ (expired' => waiting')
  /\ faults \subseteq faults' /\ faults' \subseteq Sides \X Places
  /\ completed \subseteq completed' /\ completed' \subseteq Sides
  /\ quit' \in BOOLEAN /\ (quit => quit')
  /\ undescribed' \in BOOLEAN /\ (undescribed => undescribed')

\* Processes that move so have the type, and ended for a cause.
LEMMA MovesSound ==
  ASSUME ControlOK, EndsForCause, NEW side \in Sides, Moves(side)
  PROVE  ControlOK' /\ EndsForCause'
<1> PICK source \in Sources \cup {"ended"} :
           Continue(side, source) /\ (source = "ended" => Cause(side)')
  BY DEF Moves
<1>1. ControlOK'
  BY MoveOK DEF Moves, ControlOK
<1>2. at' = [at EXCEPT ![side] = source] /\ at \in [Sides -> Sources \cup {"ended"}]
  BY DEF Continue, ControlOK
<1>3. ASSUME NEW s \in Sides, at'[s] = "ended"
      PROVE  Cause(s)'
  <2>1. CASE s = side
    BY <1>2, <1>3, <2>1
  <2>2. CASE s # side
    <3>1. Cause(s)
      BY <1>2, <1>3, <2>2 DEF EndsForCause, Running, Cause
    <3> QED
      BY <3>1 DEF Moves, Cause
  <2> QED
    BY <2>1, <2>2
<1>4. EndsForCause'
  BY <1>3 DEF EndsForCause, Running, Cause
<1> QED
  BY <1>1, <1>4

\* A deadline belongs to a wait.
LEMMA WaitFlags ==
  ASSUME ControlOK, UNCHANGED <<waiting, expired>> \/ EndWait
  PROVE  waiting' \in BOOLEAN /\ expired' \in BOOLEAN /\ (expired' => waiting')
<1>1. CASE UNCHANGED <<waiting, expired>>
  BY <1>1 DEF ControlOK
<1>2. CASE EndWait
  BY <1>2 DEF EndWait
<1> QED
  BY <1>1, <1>2

\* The moves actions are made of.
LEMMA MovesOfParts ==
  ASSUME ControlOK, NEW side \in Sides, UNCHANGED <<once, debug>>
  PROVE  /\ \A source \in Sources :
              /\ Steady /\ Proceed(side, source) => Moves(side)
              /\ Steady /\ Complete(side, source) => Moves(side)
         /\ Fatal(side) => Moves(side)
<1>1. ASSUME NEW source \in Sources, Steady, Proceed(side, source)
      PROVE  Moves(side)
  <2>1. source # "ended"
    BY DEF Sources
  <2> QED
    BY <1>1, <2>1 DEF ControlOK, Steady, Proceed, Moves
<1>2. ASSUME NEW source \in Sources, Steady, Complete(side, source)
      PROVE  Moves(side)
  <2>1. source # "ended"
    BY DEF Sources
  <2>2. once /\ InMainLoop(side) => Cause(side)'
    BY <1>2 DEF Complete, Cause
  <2>3. \E x \in Sources \cup {"ended"} : Continue(side, x) /\ (x = "ended" => Cause(side)')
    BY <1>2, <2>1, <2>2 DEF Complete
  <2>4. completed \subseteq completed' /\ completed' \subseteq Sides
    BY <1>2 DEF Complete, ControlOK
  <2> QED
    BY <1>2, <2>3, <2>4 DEF ControlOK, Steady, Moves
<1>3. ASSUME Fatal(side)
      PROVE  Moves(side)
  <2>1. /\ InMainLoop(side) => <<side, "packet">> \in faults'
        /\ faults \subseteq faults' /\ faults' \subseteq Sides \X Places
    BY <1>3 DEF Fatal, Fault, ControlOK, Places
  <2>2. InMainLoop(side) => Cause(side)'
    BY <2>1 DEF Cause
  <2>3. \E x \in Sources \cup {"ended"} : Continue(side, x) /\ (x = "ended" => Cause(side)')
    BY <1>3, <2>2 DEF Fatal, Stop, Proceed, Sources
  <2>4. waiting' \in BOOLEAN /\ expired' \in BOOLEAN /\ (expired' => waiting')
    <3>1. UNCHANGED <<waiting, expired>> \/ EndWait
      BY <1>3 DEF Fatal, Stop
    <3> QED
      BY <3>1, WaitFlags
  <2> QED
    BY <1>3, <2>1, <2>3, <2>4 DEF Fatal, Fault, Stop, Proceed, ControlOK, Moves
<1> QED
  BY <1>1, <1>2, <1>3

\* Each step of a process is such a move.
LEMMA StepMoves ==
  ASSUME ControlOK, NEW side \in Sides, Step(side)
  PROVE  Moves(side)
<1>1. "tun" \in Sources /\ "raw" \in Sources /\ Start(side) \in Sources
  BY DEF Sources, Start
<1>2. UNCHANGED <<once, debug>>
  BY DEF Step, TunIdle, TunPollFails, TunDrop, TunForward, TunSendFails, RawIdle,
         RecvFails, DeliverFrame, TunWriteFails, DropFrame, Unmoved, Take
<1>3. CASE TunIdle(side) \/ TunDrop(side) \/ TunForward(side)
  BY <1>1, <1>2, <1>3, MovesOfParts DEF TunIdle, TunDrop, TunForward
<1>4. CASE TunPollFails(side) \/ TunSendFails(side) \/ TunWriteFails(side)
  BY <1>2, <1>4, MovesOfParts DEF TunPollFails, TunSendFails, TunWriteFails
<1>5. CASE RawIdle(side) \/ DeliverFrame(side) \/ \E f \in Frames : DropFrame(side, f)
  BY <1>1, <1>2, <1>5, MovesOfParts DEF RawIdle, DeliverFrame, DropFrame
<1>6. CASE RecvFails(side)
  <2>1. faults \subseteq faults' /\ faults' \subseteq Sides \X Places
    BY <1>6 DEF RecvFails, Fault, ControlOK, Places
  <2>2. Start(side) # "ended"
    BY DEF Start
  <2>3. \E x \in Sources \cup {"ended"} : Continue(side, x) /\ (x = "ended" => Cause(side)')
    BY <1>1, <1>6, <2>2 DEF RecvFails, Proceed
  <2>4. waiting' \in BOOLEAN /\ expired' \in BOOLEAN /\ (expired' => waiting')
    <3>1. UNCHANGED <<waiting, expired>> \/ EndWait
      BY <1>6 DEF RecvFails
    <3> QED
      BY <3>1, WaitFlags
  <2> QED
    BY <1>2, <1>6, <2>1, <2>3, <2>4 DEF RecvFails, Fault, Proceed, ControlOK, Moves
<1> QED
  BY <1>3, <1>4, <1>5, <1>6 DEF Step

\* Where the processes are, and that they ended for a cause.
LEMMA ControlStep ==
  ASSUME ControlOK, EndsForCause, [Next]_vars
  PROVE  ControlOK' /\ EndsForCause'
<1>1. /\ "core" \in Sides /\ "device" \in Sides
      /\ "console" \in Sources /\ "tun" \in Sources /\ "raw" \in Sources
  BY DEF Sides, Sources
<1>2. CASE CoreStep
  <2> SUFFICES Moves("core")
    BY <1>1, MovesSound
  <2>1. UNCHANGED <<once, debug>>
    BY <1>2 DEF CoreStep, ConsoleIdle, Quit, FailCommand, LocalCommand, DuplicateCommand,
       ExchangeCommand, CheckDeadline, AcceptResponse, TakeCommand, Unmoved, Take, Step,
       TunIdle, TunPollFails, TunDrop, TunForward, TunSendFails, RawIdle,
       RecvFails, DeliverFrame, TunWriteFails, DropFrame
  <2>2. CASE ConsoleIdle \/ FailCommand \/ LocalCommand \/ DuplicateCommand
    BY <1>1, <2>1, <2>2, MovesOfParts
       DEF ConsoleIdle, FailCommand, LocalCommand, DuplicateCommand
  <2>3. CASE Quit
    <3>1. Cause("core")'
      BY <2>3 DEF Quit, Cause
    <3>2. \E x \in Sources \cup {"ended"} :
            Continue("core", x) /\ (x = "ended" => Cause("core")')
      BY <2>3, <3>1 DEF Quit, Proceed
    <3> QED
      BY <2>1, <2>3, <3>2 DEF Quit, Proceed, ControlOK, Moves
  <2>4. CASE ExchangeCommand
    <3>1. \E x \in Sources \cup {"ended"} :
            Continue("core", x) /\ (x = "ended" => Cause("core")')
      BY <1>1, <2>4 DEF ExchangeCommand, Proceed
    <3> QED
      BY <2>1, <2>4, <3>1 DEF ExchangeCommand, Proceed, ControlOK, Moves
  <2>5. CASE CheckDeadline
    <3>1. \E x \in Sources \cup {"ended"} :
            Continue("core", x) /\ (x = "ended" => Cause("core")')
      BY <1>1, <2>5 DEF CheckDeadline, Proceed
    <3> QED
      BY <2>1, <2>5, <3>1 DEF CheckDeadline, EndWait, Proceed, ControlOK, Moves
  <2>6. CASE AcceptResponse
    <3>1. \E x \in Sources \cup {"ended"} :
            Continue("core", x) /\ (x = "ended" => Cause("core")')
      <4>1. CASE Proceed("core", "tun")
        BY <1>1, <4>1 DEF Proceed
      <4>2. CASE /\ completed' = IF once THEN completed \cup {"core"} ELSE completed
                 /\ Continue("core", IF once THEN "ended" ELSE "tun")
        <5>1. once => Cause("core")'
          BY <2>1, <4>2 DEF Cause
        <5> QED
          BY <1>1, <4>2, <5>1
      <4> QED
        BY <2>6, <4>1, <4>2 DEF AcceptResponse
    <3>2. completed \subseteq completed' /\ completed' \subseteq Sides
      BY <1>1, <2>6 DEF AcceptResponse, Proceed, ControlOK
    <3> QED
      BY <2>1, <2>6, <3>1, <3>2 DEF AcceptResponse, EndWait, ControlOK, Moves
  <2>7. CASE Step("core")
    BY <1>1, <2>7, StepMoves
  <2> QED
    BY <1>2, <2>2, <2>3, <2>4, <2>5, <2>6, <2>7 DEF CoreStep
<1>3. CASE DeviceStep
  <2> SUFFICES Moves("device")
    BY <1>1, MovesSound
  <2>1. UNCHANGED <<once, debug>>
    BY <1>3 DEF DeviceStep, AnswerRequest, AnswerFails, HandleDuplicate, ReportFails,
       Unmoved, Take, Step, TunIdle, TunPollFails, TunDrop, TunForward, TunSendFails,
       RawIdle, RecvFails, DeliverFrame, TunWriteFails, DropFrame
  <2>2. CASE AnswerRequest \/ AnswerFails \/ HandleDuplicate
    BY <1>1, <2>1, <2>2, MovesOfParts DEF AnswerRequest, AnswerFails, HandleDuplicate
  <2>3. CASE ReportFails
    <3>1. Cause("device")'
      BY <2>3 DEF ReportFails, Take, Cause
    <3>2. \E x \in Sources \cup {"ended"} :
            Continue("device", x) /\ (x = "ended" => Cause("device")')
      BY <1>1, <2>3, <3>1 DEF ReportFails, Stop, Proceed
    <3> QED
      <4>1. UNCHANGED <<waiting, expired>> \/ EndWait
        BY <2>3 DEF ReportFails, Stop
      <4>2. waiting' \in BOOLEAN /\ expired' \in BOOLEAN /\ (expired' => waiting')
        BY <4>1, WaitFlags
      <4> QED
        BY <2>1, <2>3, <3>2, <4>2 DEF ReportFails, Stop, Proceed, ControlOK, Moves
  <2>4. CASE Step("device")
    BY <1>1, <2>4, StepMoves
  <2> QED
    BY <1>3, <2>2, <2>3, <2>4 DEF DeviceStep
<1>4. CASE \/ Expire \/ UNCHANGED vars
           \/ \E kind \in CommandKinds : Type(kind)
           \/ \E side \in Sides, item \in TunItems : Enter(side, item)
  <2>1. /\ UNCHANGED <<once, debug, at, waiting, faults, undescribed, quit, completed>>
        /\ (expired' = expired) \/ (waiting /\ expired' = TRUE)
    BY <1>4 DEF Expire, vars, Type, Enter
  <2>2. ControlOK'
    <3>1. CASE expired' = expired
      BY <2>1, <3>1 DEF ControlOK
    <3>2. CASE waiting /\ expired' = TRUE
      BY <2>1, <3>2 DEF ControlOK
    <3> QED
      BY <2>1, <3>1, <3>2
  <2> QED
    BY <2>1, <2>2 DEF EndsForCause, Running
<1> QED
  BY <1>2, <1>3, <1>4 DEF Next

-----------------------------------------------------------------------------
(* How long an input waits for its turn. *)

\* What each input of a process has waited through when the loop comes to a
\* source: it counts only while something waits there, and it is served when
\* the loop comes round.
Turn(side) ==
  /\ \A s \in {"tun", "raw"} : overtaken[side][s] > 0 => Waiting(side, s)
  /\ at[side] = "console" => /\ overtaken[side].tun <= IF InMainLoop(side) THEN 1 ELSE 2
                             /\ overtaken[side].raw <= IF InMainLoop(side) THEN 0 ELSE 1
  /\ at[side] = "tun" => /\ overtaken[side].tun <= 2
                         /\ overtaken[side].raw <= IF InMainLoop(side) THEN 2 ELSE 1
  /\ at[side] = "raw" => /\ overtaken[side].tun = 0
                         /\ overtaken[side].raw <= IF InMainLoop(side) THEN 3 ELSE 2
  /\ at[side] = "ended" => overtaken[side].tun <= 2 /\ overtaken[side].raw <= 3

TurnsBounded == \A side \in Sides : Turn(side)

\* A step that takes an item of a source.
Takes(side, source) ==
  \/ \E item : Consumes(side, source, item)
  \/ \E f \in Frames : \E item : Transmits(side, source, item, f)

\* Taking an item lets the other inputs of the process wait, and takes nothing
\* from the peer.
LEMMA TakesFacts ==
  ASSUME QueuesOK, OvertakenOK, NEW side \in Sides, NEW source \in Sources,
         Takes(side, source)
  PROVE  /\ at[side] = source
         /\ \A s \in {"tun", "raw"} :
              /\ overtaken'[side][s] = IF s # source /\ Waiting(side, s)
                                         THEN overtaken[side][s] + 1 ELSE 0
              /\ overtaken'[side][s] > 0 => Waiting(side, s)'
              /\ Waiting(Peer(side), s) => Waiting(Peer(side), s)'
         /\ overtaken'[Peer(side)] = overtaken[Peer(side)]
<1>1. /\ {"tun", "raw"} \subseteq Sources
      /\ Peer(side) \in Sides \ {side}
  BY DEF Sources, Sides, Peer
<1>2. PICK item : Take(side, source, item)
  BY DEF Takes, Consumes, Transmits
<1>3. /\ \A s \in Sources \ {source} : input'[side][s] = input[side][s]
      /\ \A s \in Sources : Waiting(Peer(side), s) => Waiting(Peer(side), s)'
  <2>1. Waiting(side, source)
    BY <1>2 DEF Take
  <2>2. CASE \E it : Consumes(side, source, it)
    <3>1. input' = Rest(side, source)
      BY <2>2 DEF Consumes, Consume
    <3>2. \A s \in Sides, t \in Sources :
            input'[s][t] = IF s = side /\ t = source THEN Tail(input[s][t]) ELSE input[s][t]
      BY <2>1, <3>1, RestQueues
    <3> QED
      BY <1>1, <3>2 DEF Waiting
  <2>3. CASE \E f \in Frames : \E it : Transmits(side, source, it, f)
    <3>1. PICK f \in Frames : Transmit(side, source, f)
      BY <2>3 DEF Transmits
    <3>2. \A s \in Sides, t \in Sources :
            input'[s][t] = IF s = side /\ t = source THEN Tail(input[s][t])
                           ELSE IF s = Peer(side) /\ t = "raw"
                             THEN Append(input[s][t], f) ELSE input[s][t]
      BY <2>1, <3>1, SentQueues
    <3>3. input[Peer(side)]["raw"] \in Seq(Items) /\ f \in Items
      BY <1>1 DEF QueuesOK, Items
    <3>4. Append(input[Peer(side)]["raw"], f) # <<>>
      BY <3>3
    <3> QED
      BY <1>1, <3>2, <3>4 DEF Waiting
  <2> QED
    BY <2>2, <2>3 DEF Takes
<1>4. /\ at[side] = source
      /\ \A s \in {"tun", "raw"} :
           overtaken'[side][s] = IF s # source /\ Waiting(side, s)
                                   THEN overtaken[side][s] + 1 ELSE 0
      /\ overtaken'[Peer(side)] = overtaken[Peer(side)]
  BY <1>1, <1>2, TakeCounts DEF Take
<1>5. ASSUME NEW s \in {"tun", "raw"}, overtaken'[side][s] > 0
      PROVE  Waiting(side, s)'
  <2>1. s # source /\ Waiting(side, s)
    BY <1>4, <1>5
  <2> QED
    BY <1>1, <1>3, <2>1 DEF Waiting
<1> QED
  BY <1>1, <1>3, <1>4, <1>5

\* The turn after a step that takes an item.
LEMMA TakeTurn ==
  ASSUME QueuesOK, OvertakenOK, ControlOK, NEW side \in Sides, NEW source \in Sources,
         Takes(side, source), Turn(side), NEW next, Continue(side, next),
         \/ /\ source = "tun"
            /\ \/ next = "raw" /\ (InMainLoop(side)' <=> InMainLoop(side))
               \/ next = "ended"
               \/ next = "tun" /\ ~InMainLoop(side) /\ InMainLoop(side)'
         \/ source = "raw" /\ next \in {Start(side), "tun", "ended"}
         \/ /\ source = "console" /\ InMainLoop(side)
            /\ \/ next = "tun" /\ InMainLoop(side)'
               \/ next = "ended"
               \/ next = "console" /\ ~InMainLoop(side)'
  PROVE  Turn(side)'
<1> DEFINE o(s) == overtaken[side][s]
           p(s) == overtaken'[side][s]
           main == InMainLoop(side)
           mainN == InMainLoop(side)'
<1>1. at'[side] = next
  BY DEF ControlOK, Continue
<1>2. o("tun") \in Nat /\ o("raw") \in Nat
  BY DEF OvertakenOK
<1>3. /\ at[side] = source
      /\ p("tun") = IF "tun" # source /\ Waiting(side, "tun") THEN o("tun") + 1 ELSE 0
      /\ p("raw") = IF "raw" # source /\ Waiting(side, "raw") THEN o("raw") + 1 ELSE 0
      /\ \A s \in {"tun", "raw"} : p(s) > 0 => Waiting(side, s)'
  BY TakesFacts
<1>4. Start(side) \in {"console", "tun"}
  BY DEF Start
<1>5. /\ source = "tun" => o("raw") <= IF main THEN 2 ELSE 1
      /\ source = "raw" => o("tun") = 0
      /\ source = "console" => /\ o("tun") <= IF main THEN 1 ELSE 2
                               /\ o("raw") <= IF main THEN 0 ELSE 1
  BY <1>3 DEF Turn
<1> HIDE DEF o, p, main, mainN
<1>6. CASE /\ source = "tun"
           /\ \/ next = "raw" /\ (mainN <=> main)
              \/ next = "ended"
              \/ next = "tun" /\ ~main /\ mainN
  <2>1. p("tun") = 0 /\ p("raw") \in Nat /\ p("raw") <= IF main THEN 3 ELSE 2
    BY <1>2, <1>3, <1>5, <1>6
  <2>2. CASE next = "raw" /\ (mainN <=> main)
    BY <1>1, <1>3, <2>1, <2>2 DEF Turn, p, mainN
  <2>3. CASE next = "ended"
    BY <1>1, <1>3, <2>1, <2>3 DEF Turn, p
  <2>4. CASE next = "tun" /\ ~main /\ mainN
    BY <1>1, <1>3, <2>1, <2>4 DEF Turn, p, mainN
  <2> QED
    BY <1>6, <2>2, <2>3, <2>4
<1>7. CASE source = "raw" /\ next \in {Start(side), "tun", "ended"}
  <2>1. p("tun") \in Nat /\ p("tun") <= 1 /\ p("raw") = 0
    BY <1>2, <1>3, <1>5, <1>7
  <2> QED
    BY <1>1, <1>3, <1>4, <1>7, <2>1 DEF Turn, p, mainN
<1>8. CASE /\ source = "console" /\ main
           /\ \/ next = "tun" /\ mainN
              \/ next = "ended"
              \/ next = "console" /\ ~mainN
  <2>1. p("tun") \in Nat /\ p("tun") <= 2 /\ p("raw") \in Nat /\ p("raw") <= 1
    BY <1>2, <1>3, <1>5, <1>8
  <2> QED
    BY <1>1, <1>3, <1>8, <2>1 DEF Turn, p, mainN
<1> QED
  BY <1>6, <1>7, <1>8 DEF main, mainN

\* The turn after a step that takes none.
LEMMA IdleTurn ==
  ASSUME OvertakenOK, ControlOK, NEW side \in Sides, UNCHANGED <<input, overtaken>>,
         Turn(side), NEW next, Continue(side, next),
         \/ at[side] = "console" /\ next = "tun"
         \/ /\ at[side] = "tun"
            /\ \/ /\ next = "raw" /\ ~Waiting(side, "tun")
                  /\ InMainLoop(side)' <=> InMainLoop(side)
               \/ next = "ended"
               \/ next = "tun" /\ InMainLoop(side)'
         \/ at[side] = "raw" /\ ~Waiting(side, "raw") /\ next = Start(side)
  PROVE  Turn(side)'
<1>1. at'[side] = next
  BY DEF ControlOK, Continue
<1>2. overtaken[side].tun \in Nat /\ overtaken[side].raw \in Nat
  BY DEF OvertakenOK
<1>3. Start(side) \in {"console", "tun"}
  BY DEF Start
<1>4. \A s \in {"tun", "raw"} : Waiting(side, s)' <=> Waiting(side, s)
  BY DEF Waiting
<1>5. CASE at[side] = "console" /\ next = "tun"
  BY <1>1, <1>2, <1>4, <1>5 DEF Turn
<1>6. CASE /\ at[side] = "tun" /\ next = "raw" /\ ~Waiting(side, "tun")
           /\ InMainLoop(side)' <=> InMainLoop(side)
  BY <1>1, <1>2, <1>4, <1>6 DEF Turn
<1>7. CASE at[side] = "tun" /\ (next = "ended" \/ (next = "tun" /\ InMainLoop(side)'))
  BY <1>1, <1>2, <1>4, <1>7 DEF Turn
<1>8. CASE at[side] = "raw" /\ ~Waiting(side, "raw") /\ next = Start(side)
  BY <1>1, <1>2, <1>3, <1>4, <1>8 DEF Turn
<1> QED
  BY <1>5, <1>6, <1>7, <1>8

\* The turn of a process that the step is not about.
LEMMA OtherTurn ==
  ASSUME NEW side \in Sides, Turn(side),
         at'[side] = at[side], overtaken'[side] = overtaken[side],
         InMainLoop(side)' <=> InMainLoop(side),
         \A s \in {"tun", "raw"} : Waiting(side, s) => Waiting(side, s)'
  PROVE  Turn(side)'
BY DEF Turn

\* A step of one process keeps the turn of the other.
LEMMA PeerTurn ==
  ASSUME QueuesOK, OvertakenOK, ControlOK, TurnsBounded, NEW side \in Sides,
         NEW next, Continue(side, next),
         InMainLoop(Peer(side))' <=> InMainLoop(Peer(side)),
         \/ \E source \in Sources : Takes(side, source)
         \/ UNCHANGED <<input, overtaken>>
         \/ input' = input /\ overtaken' = [overtaken EXCEPT ![side].raw = 0]
  PROVE  Turn(Peer(side))'
<1>1. Peer(side) \in Sides /\ Peer(side) # side
  BY DEF Sides, Peer
<1>2. at'[Peer(side)] = at[Peer(side)]
  BY <1>1 DEF ControlOK, Continue
<1>3. /\ overtaken'[Peer(side)] = overtaken[Peer(side)]
      /\ \A s \in {"tun", "raw"} : Waiting(Peer(side), s) => Waiting(Peer(side), s)'
  <2>1. CASE \E source \in Sources : Takes(side, source)
    BY <2>1, TakesFacts
  <2>2. CASE UNCHANGED <<input, overtaken>>
    BY <2>2 DEF Waiting
  <2>3. CASE input' = input /\ overtaken' = [overtaken EXCEPT ![side].raw = 0]
    BY <1>1, <2>3 DEF Waiting, OvertakenOK
  <2> QED
    BY <2>1, <2>2, <2>3
<1> QED
  BY <1>1, <1>2, <1>3, OtherTurn DEF TurnsBounded

\* What is common to the steps: the other process is in the loop it was in.
LEMMA PeerLoop ==
  ASSUME NEW side \in Sides,
         UNCHANGED waiting \/ (side = "core") \/ Stop(side)
  PROVE  InMainLoop(Peer(side))' <=> InMainLoop(Peer(side))
BY DEF InMainLoop, Peer, Stop, Sides

\* Both processes have a turn.
LEMMA BothTurns ==
  ASSUME NEW side \in Sides, Turn(side)', Turn(Peer(side))'
  PROVE  TurnsBounded'
<1>1. \A s \in Sides : s = side \/ s = Peer(side)
  BY DEF Sides, Peer
<1> QED
  BY <1>1 DEF TurnsBounded

\* The steps that both processes have keep the bounds.
LEMMA StepTurns ==
  ASSUME QueuesOK, OvertakenOK, ControlOK, TurnsBounded, NEW side \in Sides, Step(side)
  PROVE  TurnsBounded'
<1> USE DEF TurnsBounded
<1>1. "tun" \in Sources /\ "raw" \in Sources
  BY DEF Sources
<1>2. CASE TunIdle(side)
  <2>1. /\ Continue(side, "raw") /\ at[side] = "tun" /\ ~Waiting(side, "tun")
        /\ UNCHANGED <<input, overtaken, waiting>>
    BY <1>2 DEF TunIdle, Proceed, Steady, Unmoved
  <2>2. InMainLoop(side)' <=> InMainLoop(side)
    BY <2>1 DEF InMainLoop
  <2> QED
    BY <2>1, <2>2, IdleTurn, PeerLoop, PeerTurn, BothTurns
<1>3. CASE TunPollFails(side)
  <2>1. /\ at[side] = "tun" /\ Stop(side) /\ UNCHANGED <<input, overtaken>>
    BY <1>3 DEF TunPollFails, Fatal, Unmoved
  <2>2. PICK next : /\ Continue(side, next)
                    /\ next = "ended" \/ (next = "tun" /\ InMainLoop(side)')
    BY <2>1 DEF Stop, Proceed, EndWait, InMainLoop
  <2> QED
    BY <2>1, <2>2, IdleTurn, PeerLoop, PeerTurn, BothTurns
<1>4. CASE TunDrop(side) \/ TunForward(side)
  <2>1. Takes(side, "tun")
    BY <1>4, QueueSteps DEF Takes, Frames
  <2>2. /\ UNCHANGED waiting
        /\ \E next \in {"raw", "ended"} : Continue(side, next)
    BY <1>4 DEF TunDrop, TunForward, Proceed, Complete, Steady
  <2>3. InMainLoop(side)' <=> InMainLoop(side)
    BY <2>2 DEF InMainLoop
  <2> QED
    BY <1>1, <2>1, <2>2, <2>3, TakeTurn, PeerLoop, PeerTurn, BothTurns
<1>5. CASE TunSendFails(side)
  <2>1. Takes(side, "tun") /\ Stop(side)
    BY <1>5, QueueSteps DEF Takes, TunSendFails, Fatal
  <2>2. PICK next : /\ Continue(side, next)
                    /\ \/ next = "ended"
                       \/ next = "tun" /\ ~InMainLoop(side) /\ InMainLoop(side)'
    BY <2>1 DEF Stop, Proceed, EndWait, InMainLoop
  <2> QED
    BY <1>1, <2>1, <2>2, TakeTurn, PeerLoop, PeerTurn, BothTurns
<1>6. CASE RawIdle(side)
  <2>1. /\ Continue(side, Start(side)) /\ at[side] = "raw" /\ ~Waiting(side, "raw")
        /\ UNCHANGED <<input, overtaken, waiting>>
    BY <1>6 DEF RawIdle, Proceed, Steady, Unmoved
  <2> QED
    BY <2>1, IdleTurn, PeerLoop, PeerTurn, BothTurns
<1>7. CASE RecvFails(side)
  <2>1. /\ at[side] = "raw"
        /\ input' = input /\ overtaken' = [overtaken EXCEPT ![side].raw = 0]
        /\ \E next \in {Start(side), "tun"} : Continue(side, next)
        /\ UNCHANGED waiting \/ side = "core"
    BY <1>7 DEF RecvFails, Proceed, InMainLoop, Sides
  <2>2. PICK next \in {"console", "tun"} : Continue(side, next)
    BY <2>1 DEF Start
  <2>3. at'[side] = next
    BY <2>2 DEF ControlOK, Continue
  <2>4. overtaken'[side].tun = 0 /\ overtaken'[side].raw = 0
    BY <2>1 DEF OvertakenOK, Turn
  <2>5. Turn(side)'
    BY <2>3, <2>4 DEF Turn
  <2>6. Turn(Peer(side))'
    BY <2>1, <2>2, PeerLoop, PeerTurn
  <2> QED
    BY <2>5, <2>6, BothTurns
<1>8. CASE DeliverFrame(side) \/ \E f \in Frames : DropFrame(side, f)
  <2>1. Takes(side, "raw")
    BY <1>8, QueueSteps DEF Takes
  <2>2. /\ UNCHANGED waiting
        /\ \E next \in {Start(side), "ended"} : Continue(side, next)
    BY <1>8 DEF DeliverFrame, DropFrame, Proceed, Complete, Steady
  <2> QED
    BY <1>1, <2>1, <2>2, TakeTurn, PeerLoop, PeerTurn, BothTurns
<1>9. CASE TunWriteFails(side)
  <2>1. Takes(side, "raw") /\ Stop(side)
    BY <1>9, QueueSteps DEF Takes, TunWriteFails, Fatal
  <2>2. \E next \in {"tun", "ended"} : Continue(side, next)
    BY <2>1 DEF Stop, Proceed
  <2> QED
    BY <1>1, <2>1, <2>2, TakeTurn, PeerLoop, PeerTurn, BothTurns
<1> QED
  BY <1>2, <1>3, <1>4, <1>5, <1>6, <1>7, <1>8, <1>9 DEF Step

\* Every step keeps the bounds.
LEMMA TurnsStep ==
  ASSUME QueuesOK, OvertakenOK, ControlOK, TurnsBounded, [Next]_vars
  PROVE  TurnsBounded'
<1> USE DEF TurnsBounded
<1>1. /\ "core" \in Sides /\ "device" \in Sides
      /\ "console" \in Sources /\ "raw" \in Sources
  BY DEF Sides, Sources
<1>2. CASE CoreStep
  <2>1. CASE ConsoleIdle \/ CheckDeadline
    <3>1. /\ Continue("core", "tun") /\ at["core"] = "console"
          /\ UNCHANGED <<input, overtaken>>
      BY <2>1 DEF ConsoleIdle, CheckDeadline, Proceed, Unmoved
    <3> QED
      BY <1>1, <3>1, IdleTurn, PeerLoop, PeerTurn, BothTurns
  <2>2. CASE Quit \/ FailCommand \/ LocalCommand \/ DuplicateCommand
    <3>1. Takes("core", "console")
      BY <2>2, QueueSteps DEF Takes, Frames
    <3>2. ~waiting /\ UNCHANGED waiting
      BY <2>2 DEF Quit, FailCommand, LocalCommand, DuplicateCommand, TakeCommand, Steady
    <3>3. InMainLoop("core") /\ InMainLoop("core")'
      BY <3>2 DEF InMainLoop
    <3>4. \E next \in {"tun", "ended"} : Continue("core", next)
      BY <2>2 DEF Quit, FailCommand, LocalCommand, DuplicateCommand, Proceed, Complete
    <3> QED
      BY <1>1, <3>1, <3>3, <3>4, TakeTurn, PeerLoop, PeerTurn, BothTurns
  <2>3. CASE ExchangeCommand
    <3>1. Takes("core", "console")
      BY <2>3, QueueSteps DEF Takes, Frames
    <3>2. InMainLoop("core") /\ ~InMainLoop("core")'
      BY <2>3 DEF ExchangeCommand, TakeCommand, InMainLoop
    <3>3. Continue("core", "console")
      BY <2>3 DEF ExchangeCommand, Proceed
    <3> QED
      BY <1>1, <3>1, <3>2, <3>3, TakeTurn, PeerLoop, PeerTurn, BothTurns
  <2>4. CASE AcceptResponse
    <3>1. Takes("core", "raw")
      BY <2>4, QueueSteps DEF Takes
    <3>2. \E next \in {"tun", "ended"} : Continue("core", next)
      BY <2>4 DEF AcceptResponse, Proceed
    <3> QED
      BY <1>1, <3>1, <3>2, TakeTurn, PeerLoop, PeerTurn, BothTurns
  <2>5. CASE Step("core")
    BY <1>1, <2>5, StepTurns
  <2> QED
    BY <1>2, <2>1, <2>2, <2>3, <2>4, <2>5 DEF CoreStep
<1>3. CASE DeviceStep
  <2>1. CASE AnswerRequest \/ AnswerFails \/ HandleDuplicate \/ ReportFails
    <3>1. Takes("device", "raw")
      BY <2>1, QueueSteps DEF Takes, Frames
    <3>2. UNCHANGED waiting \/ Stop("device")
      BY <2>1 DEF AnswerRequest, AnswerFails, HandleDuplicate, ReportFails, Fatal, Steady
    <3>3. \E next \in {"tun", "ended"} : Continue("device", next)
      BY <2>1 DEF AnswerRequest, AnswerFails, HandleDuplicate, ReportFails, Fatal, Stop,
         Proceed, Complete
    <3> QED
      BY <1>1, <3>1, <3>2, <3>3, TakeTurn, PeerLoop, PeerTurn, BothTurns
  <2>2. CASE Step("device")
    BY <1>1, <2>2, StepTurns
  <2> QED
    BY <1>3, <2>1, <2>2 DEF DeviceStep
<1>4. CASE Expire \/ UNCHANGED vars
  <2>1. UNCHANGED <<at, overtaken, waiting, input>>
    BY <1>4 DEF Expire, vars
  <2> QED
    BY <2>1, OtherTurn DEF Waiting, InMainLoop
<1>5. ASSUME NEW side \in Sides, UNCHANGED <<at, overtaken, waiting>>,
             \A s \in {"tun", "raw"} : Waiting(side, s) => Waiting(side, s)'
      PROVE  Turn(side)'
  BY <1>5, OtherTurn DEF InMainLoop
<1>6. ASSUME NEW kind \in CommandKinds, Type(kind)
      PROVE  TurnsBounded'
  <2>1. /\ input' = [input EXCEPT !["core"]["console"] = Append(@, kind)]
        /\ UNCHANGED <<at, overtaken, waiting>>
    BY <1>6 DEF Type
  <2>2. \A side \in Sides, s \in {"tun", "raw"} : input'[side][s] = input[side][s]
    BY <2>1 DEF QueuesOK, Sides, Sources
  <2> QED
    BY <1>5, <2>1, <2>2 DEF Waiting
<1>7. ASSUME NEW side \in Sides, NEW item \in TunItems, Enter(side, item)
      PROVE  TurnsBounded'
  <2>1. /\ input' = [input EXCEPT ![side]["tun"] = Append(@, item)]
        /\ UNCHANGED <<at, overtaken, waiting>>
    BY <1>7 DEF Enter
  <2>2. input[side]["tun"] \in Seq(Items) /\ item \in Items
    BY DEF QueuesOK, Sources, Items
  <2>3. Append(input[side]["tun"], item) # <<>>
    BY <2>2
  <2>4. \A t \in Sides, s \in {"tun", "raw"} :
          input'[t][s] = IF t = side /\ s = "tun" THEN Append(input[t][s], item)
                         ELSE input[t][s]
    BY <2>1 DEF QueuesOK, Sides, Sources
  <2>5. \A t \in Sides, s \in {"tun", "raw"} : Waiting(t, s) => Waiting(t, s)'
    BY <2>3, <2>4 DEF Waiting
  <2> QED
    BY <1>5, <2>1, <2>5
<1> QED
  BY <1>2, <1>3, <1>4, <1>6, <1>7 DEF Next

-----------------------------------------------------------------------------
(* The theorems. *)

\* The inductive invariant: TypeOK in its parts, the accounts, the causes, and
\* the turns.
LoopInv ==
  /\ QueuesOK /\ ControlOK /\ OvertakenOK /\ AccountOK
  /\ PacketsAccounted
  /\ EndsForCause
  /\ TurnsBounded

\* The processes start with empty queues.
LEMMA InitInv == Init => LoopInv
<1> SUFFICES ASSUME Init PROVE LoopInv
  OBVIOUS
<1> USE DEF Init
<1>1. QueuesOK
  <2>1. \A S : <<>> \in Seq(S)
    OBVIOUS
  <2> QED
    BY <2>1 DEF QueuesOK, Sources
<1>2. ControlOK
  BY DEF ControlOK, Start, Sources
<1>3. OvertakenOK /\ AccountOK
  BY DEF OvertakenOK, AccountOK
<1>4. Count(<<>>, "application") = 0
  <2>1. {i \in DOMAIN <<>> : <<>>[i] = "application"} = {}
    OBVIOUS
  <2> QED
    BY <2>1, FS_EmptySet DEF Count
<1>5. PacketsAccounted
  <2> SUFFICES ASSUME NEW side \in Sides
               PROVE  unaccounted[side] = Count(input[side].tun, "application")
                                  + Count(input[Peer(side)].raw, "application")
    BY DEF PacketsAccounted
  <2>1. input[side].tun = <<>> /\ input[Peer(side)].raw = <<>>
    BY DEF Sides, Sources, Peer
  <2> QED
    BY <1>4, <2>1
<1>6. EndsForCause
  BY DEF EndsForCause, Running, Start
<1>7. TurnsBounded
  BY DEF TurnsBounded, Turn, InMainLoop, Start
<1> QED
  BY <1>1, <1>2, <1>3, <1>5, <1>6, <1>7 DEF LoopInv

\* The invariant is inductive.
LEMMA StepInv == LoopInv /\ [Next]_vars => LoopInv'
<1> SUFFICES ASSUME LoopInv, [Next]_vars PROVE LoopInv'
  OBVIOUS
<1>1. QueuesOK'
  BY QueuesStep DEF LoopInv
<1>2. ControlOK' /\ EndsForCause'
  BY ControlStep DEF LoopInv
<1>3. OvertakenOK'
  BY OvertakenStep DEF LoopInv
<1>4. AccountOK' /\ PacketsAccounted'
  BY AccountStep DEF LoopInv
<1>5. TurnsBounded'
  BY TurnsStep DEF LoopInv
<1> QED
  BY <1>1, <1>2, <1>3, <1>4, <1>5 DEF LoopInv

\* The loops keep their inputs, flags and counts within their types; a
\* deadline is running only while a command waits.
THEOREM TypeSafety == Spec => []TypeOK
<1>1. LoopInv => TypeOK
  BY DEF LoopInv, TypeOK, QueuesOK, ControlOK, OvertakenOK, AccountOK, Items
<1> QED
  BY <1>1, InitInv, StepInv, PTL DEF Spec

\* process_core_tun_packet, send_device_tun_response, process_core_raw_frame
\* and receive_device_frame lose no application packet without saying so, also
\* while wait_management_response runs a loop of its own, however many packets
\* and commands wait.
THEOREM PacketsSettled == Spec => []PacketsAccounted
<1>1. LoopInv => PacketsAccounted
  BY DEF LoopInv
<1> QED
  BY <1>1, InitInv, StepInv, PTL DEF Spec

\* A process ends only by quit, --once, an I/O failure of its own outside a
\* wait, or a report it cannot print: no frame or command ends it.
THEOREM EndsExplained == Spec => []EndsForCause
<1>1. LoopInv => EndsForCause
  BY DEF LoopInv
<1> QED
  BY <1>1, InitInv, StepInv, PTL DEF Spec

\* No input is overtaken more often than the loops have other inputs: twice
\* for a TUN packet, three times for a frame, whatever waits.
THEOREM TurnsComeRound == Spec => []BoundedOvertaking
<1>1. LoopInv => BoundedOvertaking
  <2> SUFFICES ASSUME LoopInv, NEW side \in Sides
               PROVE  overtaken[side].tun <= 2 /\ overtaken[side].raw <= 3
    BY DEF BoundedOvertaking
  <2>1. Turn(side) /\ at[side] \in {"console", "tun", "raw", "ended"}
    BY DEF LoopInv, TurnsBounded, ControlOK, Sources
  <2>2. overtaken[side].tun \in Nat /\ overtaken[side].raw \in Nat
    BY DEF LoopInv, OvertakenOK
  <2> QED
    BY <2>1, <2>2 DEF Turn
<1> QED
  BY <1>1, InitInv, StepInv, PTL DEF Spec
=============================================================================
