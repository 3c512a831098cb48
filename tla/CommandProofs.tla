---------------------------- MODULE CommandProofs ----------------------------
(***************************************************************************)
(* What a command does, from what is typed to what is reported: a command  *)
(* of the data client (DataService), and rule update and rule duplicate of *)
(* the core console (RuleUpdate, DuplicateCodec).  For any number of       *)
(* clients, paths, values and restarts, for every rule and for targets of  *)
(* any length.                                                             *)
(***************************************************************************)
EXTENDS DataService, RuleUpdate, DuplicateCodec, FiniteSetTheorems, TLAPS

\* What is proved of numbers, powers of two and folds for the algorithms.
Facts == INSTANCE AlgorithmProofs
  WITH Namespaces <- {}, StaticIds <- {}, MaxRules <- 0,
       namespace <- Nothing, occupied <- {}, text <- <<>>, message <- <<>>

-----------------------------------------------------------------------------
(* The data client.  A report is about the past: the store may have changed  *)
(* since.  The inductive invariant therefore speaks of every response in the *)
(* network that a client could still accept (Answered), and of the           *)
(* transaction identifiers, which tie such a response to the one request it  *)
(* answers (RequestsUnique): a late request of an earlier command may be     *)
(* served at any time, but its response is for nobody.                       *)

\* What the network and the server hold.
StateOK ==
  /\ store \in [Paths -> Values \cup {Absent}]
  /\ commands \in Nat
  /\ \A f \in network :
       /\ f.xid \in Nat /\ f.xid <= commands
       /\ f.to = "server" => f.request \in Requests

\* The variables of the clients are functions.
ClientsOK ==
  /\ pending = [c \in Clients |-> pending[c]]
  /\ report = [c \in Clients |-> report[c]]
  /\ seen = [c \in Clients |-> seen[c]]

\* A client waits for a request that it has sent.
PendingSent ==
  \A c \in Clients : pending[c] # NoRequest =>
    pending[c] \in network /\ pending[c].to = "server"

\* No two requests have the same identifier.
RequestsUnique ==
  \A f, g \in network : f.to = "server" /\ g.to = "server" /\ f.xid = g.xid => f = g

\* A response that says something of the request's path was right about it at
\* one of the moments when the store was s[path].
Holds(r, f, s) ==
  /\ r.kind = "fetch" => f.value \in s /\ f.value \in Values \cup {Absent}
  /\ r.kind = "set" => r.value \in s
  /\ r.kind = "delete" /\ f.code \in {"2.04", "4.04"} => Absent \in s

\* Every response that a client may still accept was right while its command
\* ran.
Answered ==
  \A c \in Clients : pending[c] # NoRequest =>
    \A f \in network : f.to = "client" /\ f.xid = pending[c].xid =>
      Holds(pending[c].request, f, seen[c])

\* What a report says of the values its path had.
Tells(rep, s) ==
  rep # NoReport /\ rep.outcome # "error" =>
    /\ rep.request.kind \in {"fetch", "set", "delete"}
    /\ rep.request.kind = "fetch" =>
         /\ rep.value \in s
         /\ rep.outcome = "ok" => rep.value \in Values
    /\ rep.request.kind = "set" => rep.request.value \in s
    /\ rep.request.kind = "delete" => Absent \in s

\* PrintedWasTrue, of requests that a client can make.
Told == \A c \in Clients : Tells(report[c], seen[c])

LEMMA ToldPrinted == Told => PrintedWasTrue
<1> SUFFICES ASSUME Told, NEW c \in Clients,
                    report[c] # NoReport, report[c].outcome # "error"
             PROVE  CASE report[c].request.kind = "fetch" ->
                           /\ report[c].value \in seen[c]
                           /\ report[c].outcome = "ok" => report[c].value \in Values
                      [] report[c].request.kind = "set" -> report[c].request.value \in seen[c]
                      [] report[c].request.kind = "delete" -> Absent \in seen[c]
  BY DEF PrintedWasTrue
<1>1. Tells(report[c], seen[c])
  BY DEF Told
<1> QED
  BY <1>1 DEF Tells

\* The inductive invariant.
ServiceInv ==
  /\ StateOK /\ ClientsOK
  /\ PendingSent /\ RequestsUnique /\ Answered
  /\ Told

-----------------------------------------------------------------------------
(* The handler and the client. *)

\* The kinds of requests.
LEMMA RequestFields ==
  ASSUME NEW r \in Requests
  PROVE  /\ r.kind \in {"fetch", "set", "delete"}
         /\ r.path \in Paths
         /\ r.kind = "set" => r.value \in Values
BY DEF Requests

\* The handler leaves at the path what its response says is there.
LEMMA ServeHolds ==
  ASSUME store \in [Paths -> Values \cup {Absent}], NEW r \in Requests
  PROVE  /\ Effect(r) \in [Paths -> Values \cup {Absent}]
         /\ r.kind = "fetch" => Effect(r)[r.path] = store[r.path]
         /\ r.kind = "set" => Effect(r)[r.path] = r.value
         /\ r.kind = "delete" /\ Code(r) \in {"2.04", "4.04"} => Effect(r)[r.path] = Absent
<1>1. /\ r.kind \in {"fetch", "set", "delete"}
      /\ r.path \in Paths
      /\ r.kind = "set" => r.value \in Values
  BY RequestFields
<1>2. CASE r.kind = "fetch"
  BY <1>2 DEF Effect
<1>3. CASE r.kind = "set"
  <2>1. Effect(r) = [store EXCEPT ![r.path] = r.value]
    BY <1>3 DEF Effect
  <2> QED
    BY <1>1, <1>3, <2>1
<1>4. CASE r.kind = "delete"
  <2>1. Code(r) = IF store[r.path] = Absent THEN "4.04"
                  ELSE IF r.path \in Fixed THEN "4.00" ELSE "2.04"
    BY <1>4 DEF Code
  <2>2. CASE Code(r) = "2.04"
    <3>1. Effect(r) = [store EXCEPT ![r.path] = Absent]
      BY <1>4, <2>2 DEF Effect
    <3> QED
      BY <1>1, <1>4, <3>1
  <2>3. CASE Code(r) # "2.04"
    <3>1. Effect(r) = store
      BY <1>4, <2>3 DEF Effect
    <3> QED
      BY <1>1, <1>4, <2>1, <2>3, <3>1
  <2> QED
    BY <2>2, <2>3
<1> QED
  BY <1>1, <1>2, <1>3, <1>4

\* What is printed for a response that was right.
LEMMA PrintTells ==
  ASSUME NEW r \in Requests, NEW f, NEW s, Holds(r, f, s)
  PROVE  Tells([request |-> r, outcome |-> Printed(r, f), value |-> f.value], s)
<1> DEFINE rep == [request |-> r, outcome |-> Printed(r, f), value |-> f.value]
<1>1. /\ rep.request = r /\ rep.outcome = Printed(r, f) /\ rep.value = f.value
      /\ r.kind \in {"fetch", "set", "delete"}
  BY RequestFields
<1>2. r.kind = "fetch" => (Printed(r, f) = "ok" => f.value # Absent)
  BY DEF Printed
<1>3. r.kind = "delete" /\ Printed(r, f) # "error" => f.code \in {"2.04", "4.04"}
  BY DEF Printed
<1> HIDE DEF rep
<1>4. Tells(rep, s)
  BY <1>1, <1>2, <1>3 DEF Tells, Holds
<1> QED
  BY <1>4 DEF rep

\* What was right stays right: the values seen only grow.
LEMMA SeenGrows ==
  ASSUME NEW r, NEW f, NEW rep, NEW s, NEW t, s \subseteq t
  PROVE  (Holds(r, f, s) => Holds(r, f, t)) /\ (Tells(rep, s) => Tells(rep, t))
BY DEF Holds, Tells

-----------------------------------------------------------------------------
(* The steps. *)

LEMMA SubmitInv ==
  ASSUME ServiceInv, NEW c \in Clients, NEW r \in Requests, Submit(c, r)
  PROVE  ServiceInv'
<1> USE DEF ServiceInv
<1> DEFINE sent == [to |-> "server", xid |-> commands + 1, request |-> r]
<1>1. /\ pending' = [pending EXCEPT ![c] = sent]
      /\ network' = network \cup {sent}
      /\ commands' = commands + 1
      /\ report' = [report EXCEPT ![c] = NoReport]
      /\ seen' = [seen EXCEPT ![c] = {store[r.path]}]
      /\ UNCHANGED store
  BY DEF Submit
<1>2. sent.to = "server" /\ sent.xid = commands + 1 /\ sent.request = r
  OBVIOUS
<1> HIDE DEF sent
<1>3. StateOK'
  BY <1>1, <1>2 DEF StateOK
<1>4. ClientsOK'
  BY <1>1 DEF ClientsOK
<1>5. \A d \in Clients : /\ pending'[d] = IF d = c THEN sent ELSE pending[d]
                         /\ report'[d] = IF d = c THEN NoReport ELSE report[d]
                         /\ d # c => seen'[d] = seen[d]
  BY <1>1 DEF ClientsOK
<1>6. PendingSent'
  BY <1>1, <1>2, <1>5 DEF PendingSent
<1>7. \A f \in network : f.xid # sent.xid
  BY <1>2 DEF StateOK
<1>8. RequestsUnique'
  BY <1>1, <1>7 DEF RequestsUnique
<1>9. Answered'
  BY <1>1, <1>2, <1>5, <1>7 DEF Answered
<1>10. Told'
  BY <1>5 DEF Told, Tells
<1> QED
  BY <1>3, <1>4, <1>6, <1>8, <1>9, <1>10

\* The end of a command, with a report that was right.
LEMMA FinishInv ==
  ASSUME ServiceInv, NEW c \in Clients, NEW outcome, NEW value,
         Finish(c, outcome, value), UNCHANGED <<store, network, seen, commands>>,
         Tells([request |-> pending[c].request, outcome |-> outcome, value |-> value], seen[c])
  PROVE  ServiceInv'
<1> USE DEF ServiceInv
<1> DEFINE rep == [request |-> pending[c].request, outcome |-> outcome, value |-> value]
<1>1. /\ pending' = [pending EXCEPT ![c] = NoRequest]
      /\ report' = [report EXCEPT ![c] = rep]
  BY DEF Finish
<1>2. Tells(rep, seen[c])
  OBVIOUS
<1> HIDE DEF rep
<1>3. \A d \in Clients : /\ pending'[d] = IF d = c THEN NoRequest ELSE pending[d]
                         /\ report'[d] = IF d = c THEN rep ELSE report[d]
  BY <1>1 DEF ClientsOK
<1>4. StateOK' /\ ClientsOK'
  BY <1>1 DEF StateOK, ClientsOK
<1>5. PendingSent' /\ RequestsUnique' /\ Answered'
  BY <1>3 DEF PendingSent, RequestsUnique, Answered
<1>6. Told'
  BY <1>2, <1>3 DEF Told
<1> QED
  BY <1>4, <1>5, <1>6

LEMMA ReceiveInv ==
  ASSUME ServiceInv, NEW c \in Clients, NEW f \in network, Receive(c, f)
  PROVE  ServiceInv'
<1>1. pending[c].request \in Requests
  BY DEF ServiceInv, Receive, PendingSent, StateOK
<1>2. Holds(pending[c].request, f, seen[c])
  BY DEF ServiceInv, Receive, Answered
<1> QED
  BY <1>1, <1>2, PrintTells, FinishInv DEF Receive

LEMMA GiveUpInv ==
  ASSUME ServiceInv, NEW c \in Clients, GiveUp(c)
  PROVE  ServiceInv'
<1>1. Tells([request |-> pending[c].request, outcome |-> "error", value |-> Absent], seen[c])
  BY DEF Tells
<1> QED
  BY <1>1, FinishInv DEF GiveUp

\* The values seen after the store has changed.
LEMMA ObserveGrows ==
  ASSUME ClientsOK, NEW s, Observe(s)
  PROVE  /\ \A c \in Clients :
              /\ seen[c] \subseteq seen'[c]
              /\ pending[c] # NoRequest => s[pending[c].request.path] \in seen'[c]
         /\ seen' = [c \in Clients |-> seen'[c]]
BY DEF ClientsOK, Observe

LEMMA ServeInv ==
  ASSUME ServiceInv, NEW f \in network, Serve(f)
  PROVE  ServiceInv'
<1> USE DEF ServiceInv
<1> DEFINE r == f.request
           answer == [to |-> "client", xid |-> f.xid, code |-> Code(r),
                      value |-> IF r.kind = "fetch" THEN store[r.path] ELSE Absent]
<1>1. /\ f.to = "server"
      /\ store' = Effect(r)
      /\ Observe(store')
      /\ network' = network \cup {answer}
      /\ UNCHANGED <<pending, report, commands>>
  BY DEF Serve
<1>2. /\ answer.to = "client" /\ answer.xid = f.xid /\ answer.code = Code(r)
      /\ answer.value = IF r.kind = "fetch" THEN store[r.path] ELSE Absent
  OBVIOUS
<1> HIDE DEF answer
<1>3. r \in Requests /\ r.path \in Paths
  BY <1>1, RequestFields DEF StateOK
<1>4. store' \in [Paths -> Values \cup {Absent}]
  BY <1>1, <1>3, ServeHolds DEF StateOK
<1>5. /\ \A c \in Clients :
           /\ seen[c] \subseteq seen'[c]
           /\ pending[c] # NoRequest => store'[pending[c].request.path] \in seen'[c]
      /\ seen' = [c \in Clients |-> seen'[c]]
  BY <1>1, ObserveGrows
<1>6. StateOK'
  BY <1>1, <1>2, <1>4 DEF StateOK
<1>7. ClientsOK'
  BY <1>1, <1>5 DEF ClientsOK
<1>8. PendingSent' /\ RequestsUnique'
  BY <1>1, <1>2 DEF PendingSent, RequestsUnique
<1>9. Answered'
  <2> SUFFICES ASSUME NEW c \in Clients, pending[c] # NoRequest,
                      NEW g \in network', g.to = "client", g.xid = pending[c].xid
               PROVE  Holds(pending[c].request, g, seen'[c])
    BY <1>1 DEF Answered
  <2>1. CASE g \in network
    <3>1. Holds(pending[c].request, g, seen[c])
      BY <2>1 DEF Answered
    <3> QED
      BY <1>5, <3>1, SeenGrows
  <2>2. CASE g = answer
    <3>1. pending[c] = f
      BY <1>1, <1>2, <2>2 DEF PendingSent, RequestsUnique
    <3>2. store'[r.path] \in seen'[c]
      BY <1>5, <3>1
    <3>3. store[r.path] \in Values \cup {Absent}
      BY <1>3 DEF StateOK
    <3>4. Holds(r, answer, seen'[c])
      BY <1>1, <1>2, <1>3, <3>2, <3>3, ServeHolds DEF StateOK, Holds
    <3> QED
      BY <2>2, <3>1, <3>4
  <2> QED
    BY <1>1, <2>1, <2>2
<1>10. Told'
  BY <1>1, <1>5, SeenGrows DEF Told
<1> QED
  BY <1>6, <1>7, <1>8, <1>9, <1>10

LEMMA RestartInv ==
  ASSUME ServiceInv, Restart
  PROVE  ServiceInv'
<1> USE DEF ServiceInv
<1>1. /\ store' = Data /\ Observe(Data)
      /\ UNCHANGED <<pending, network, report, commands>>
  BY DEF Restart
<1>2. /\ \A c \in Clients : seen[c] \subseteq seen'[c]
      /\ seen' = [c \in Clients |-> seen'[c]]
  BY <1>1, ObserveGrows
<1>3. StateOK' /\ ClientsOK' /\ PendingSent' /\ RequestsUnique'
  BY <1>1, <1>2, DataAssumption DEF StateOK, ClientsOK, PendingSent, RequestsUnique
<1>4. Answered'
  BY <1>1, <1>2, SeenGrows DEF Answered
<1>5. Told'
  BY <1>1, <1>2, SeenGrows DEF Told
<1> QED
  BY <1>3, <1>4, <1>5

-----------------------------------------------------------------------------
(* The theorem. *)

\* What schc-data-client prints was so at some moment of the command, however
\* many clients, late or repeated requests and restarts of the server there
\* are: print_json_result's value and print_mutation's and print_delete's OK
\* are never those of another command or of a time outside this one.
THEOREM ReportsTrue == Spec => []PrintedWasTrue
<1>1. Init => ServiceInv
  <2> SUFFICES ASSUME Init PROVE ServiceInv
    OBVIOUS
  <2>1. StateOK /\ ClientsOK
    BY DataAssumption DEF Init, StateOK, ClientsOK
  <2>2. PendingSent /\ RequestsUnique /\ Answered /\ Told
    BY DEF Init, PendingSent, RequestsUnique, Answered, Told, Tells
  <2> QED
    BY <2>1, <2>2 DEF ServiceInv
<1>2. ServiceInv /\ [Next]_vars => ServiceInv'
  <2> SUFFICES ASSUME ServiceInv, [Next]_vars PROVE ServiceInv'
    OBVIOUS
  <2>1. CASE \E c \in Clients, r \in Requests : Submit(c, r)
    BY <2>1, SubmitInv
  <2>2. CASE \E c \in Clients, f \in network : Receive(c, f)
    BY <2>2, ReceiveInv
  <2>3. CASE \E c \in Clients : GiveUp(c)
    BY <2>3, GiveUpInv
  <2>4. CASE \E f \in network : Serve(f)
    BY <2>4, ServeInv
  <2>5. CASE Restart
    BY <2>5, RestartInv
  <2>6. CASE UNCHANGED vars
    BY <2>6 DEF vars, ServiceInv, StateOK, ClientsOK, PendingSent, RequestsUnique,
       Answered, Told
  <2> QED
    BY <2>1, <2>2, <2>3, <2>4, <2>5, <2>6 DEF Next
<1>3. ServiceInv => PrintedWasTrue
  BY ToldPrinted DEF ServiceInv
<1> QED
  BY <1>1, <1>2, <1>3, PTL DEF Spec

-----------------------------------------------------------------------------
(* Numbers as bytes. *)

\* The sum of a list is reached term by term.
LEMMA TotalRun ==
  ASSUME NEW seq \in Seq(Nat)
  PROVE  \E f \in [0..Len(seq) -> Nat] :
           /\ f[0] = 0
           /\ \A i \in 1..Len(seq) : f[i] = f[i - 1] + seq[i]
           /\ Total(seq) = f[Len(seq)]
<1>1. Total(seq) = Facts!Total(seq)
  BY Zenon DEF Total, FoldLeft, MapThenFoldSet, Max,
               Facts!Total, Facts!FoldLeft, Facts!MapThenFoldSet, Facts!Max
<1> QED
  BY <1>1, Facts!SumRun

\* The weight of a byte with k bytes behind it.
Weight(k) == 2^(8 * k)

LEMMA Octet == 2^8 = 256
<1>1. 2^0 = 1
  BY Facts!PowerZero
<1>2. \A n \in Nat : 2^(n + 1) = 2 * 2^n
  BY Facts!PowerStep
<1>3. 2^1 = 2 /\ 2^2 = 4 /\ 2^3 = 8 /\ 2^4 = 16
  <2>1. 2^(0 + 1) = 2 * 2^0 /\ 2^(1 + 1) = 2 * 2^1 /\ 2^(2 + 1) = 2 * 2^2
        /\ 2^(3 + 1) = 2 * 2^3
    BY <1>2
  <2> QED
    BY <1>1, <2>1
<1>4. 2^(4 + 1) = 2 * 2^4 /\ 2^(5 + 1) = 2 * 2^5 /\ 2^(6 + 1) = 2 * 2^6
      /\ 2^(7 + 1) = 2 * 2^7
  BY <1>2
<1> QED
  BY <1>3, <1>4

LEMMA Weights ==
  /\ Weight(0) = 1
  /\ \A k \in Nat : Weight(k) \in Nat /\ Weight(k) > 0 /\ Weight(k + 1) = 256 * Weight(k)
<1>1. Weight(0) = 1
  BY Facts!PowerZero DEF Weight
<1>2. ASSUME NEW k \in Nat
      PROVE  Weight(k) \in Nat /\ Weight(k) > 0 /\ Weight(k + 1) = 256 * Weight(k)
  <2> DEFINE a == 8 * k
  <2>1. a \in Nat /\ 8 * (k + 1) = a + 8
    OBVIOUS
  <2> HIDE DEF a
  <2>2. 2^a \in Nat /\ 2^a > 0
    BY <2>1, Facts!PowerType
  <2>3. 2^(a + 8) = 2^a * 2^8
    BY <2>1, Facts!PowerSum
  <2>4. 2^a * 256 = 256 * 2^a
    BY <2>2
  <2>5. Weight(k) = 2^a /\ Weight(k + 1) = 2^(a + 8)
    BY <2>1 DEF Weight, a
  <2> QED
    BY <2>2, <2>3, <2>4, <2>5, Octet
<1> QED
  BY <1>1, <1>2

LEMMA SameMax == \A s : Facts!Max(s) = Max(s)
BY DEF Max, Facts!Max

LEMMA Items ==
  ASSUME NEW T, NEW seq \in Seq(T)
  PROVE  Len(seq) \in Nat /\ DOMAIN seq = 1..Len(seq) /\ \A i \in 1..Len(seq) : seq[i] \in T
OBVIOUS

\* A list of bytes is read byte by byte, each one 256 times less than the one before.
LEMMA BytesRun ==
  ASSUME NEW seq \in Seq(0..255)
  PROVE  \E f \in [0..Len(seq) -> Nat] :
           /\ f[0] = 0
           /\ \A i \in 1..Len(seq) : f[i] = 256 * f[i - 1] + seq[i]
           /\ BytesNumber(seq) = f[Len(seq)]
<1> DEFINE Loop(h) ==
             h = [s \in SUBSET DOMAIN seq |->
                    IF s = {} THEN 0 ELSE 256 * h[s \ {Max(s)}] + seq[Max(s)]]
           n == Len(seq)
<1>1. \E h : Loop(h)
  <2> DEFINE g == [x \in 0..255 |-> [y \in Nat |-> 256 * y + x]]
  <2>1. g \in [0..255 -> [Nat -> Nat]]
    OBVIOUS
  <2>2. PICK h \in [SUBSET DOMAIN seq -> Nat] : Facts!FoldLoop(h, g, 0, seq)
    <3> HIDE DEF g
    <3> QED
      BY <2>1, Facts!FoldExists
  <2>3. ASSUME NEW s \in SUBSET DOMAIN seq, s # {}
        PROVE  g[seq[Max(s)]][h[s \ {Max(s)}]] = 256 * h[s \ {Max(s)}] + seq[Max(s)]
    <3>1. s \subseteq 0..n /\ n \in Nat
      OBVIOUS
    <3>2. Max(s) \in DOMAIN seq
      BY <2>3, <3>1, Facts!LargestNat, SameMax
    <3>3. seq[Max(s)] \in 0..255
      BY <3>2, Items
    <3>4. s \ {Max(s)} \in SUBSET DOMAIN seq
      OBVIOUS
    <3>5. h[s \ {Max(s)}] \in Nat
      BY <2>2, <3>4, Zenon
    <3> QED
      BY <3>3, <3>5
  <2>4. Loop(h)
    <3> HIDE DEF g
    <3> QED
      BY <2>2, <2>3, SameMax DEF Facts!FoldLoop
  <2> QED
    BY <2>4
<1> DEFINE h == CHOOSE h : Loop(h)
           f == [i \in 0..n |-> h[1..i]]
<1>2. Loop(h)
  BY <1>1
<1>3. BytesNumber(seq) = h[DOMAIN seq]
  BY DEF BytesNumber, FoldLeft, MapThenFoldSet
<1>4. n \in Nat /\ DOMAIN seq = 1..n /\ \A i \in 1..n : seq[i] \in Nat
  <2>1. 0..255 \subseteq Nat
    OBVIOUS
  <2> QED
    BY <2>1, Items, Zenon
<1> HIDE DEF h, n
<1>5. h[{}] = 0
  BY <1>2, <1>4
<1>6. ASSUME NEW i \in 1..n
      PROVE  h[1..i] = 256 * h[1..(i - 1)] + seq[i]
  <2> DEFINE s == 1..i
  <2>1. s \in SUBSET DOMAIN seq /\ s # {} /\ Max(s) = i /\ s \ {i} = 1..(i - 1)
    BY <1>4, Facts!Segments, SameMax
  <2> HIDE DEF s
  <2>2. h[s] = 256 * h[s \ {Max(s)}] + seq[Max(s)]
    BY <1>2, <2>1
  <2> QED
    BY <2>1, <2>2 DEF s
<1>7. f[0] = 0
  <2>1. 1..0 = {} /\ 0 \in 0..n
    BY <1>4
  <2> QED
    BY <1>5, <2>1
<1>8. ASSUME NEW i \in 1..n
      PROVE  f[i] = 256 * f[i - 1] + seq[i]
  <2>1. i \in 0..n /\ i - 1 \in 0..n
    BY <1>4
  <2> QED
    BY <1>6, <2>1
<1>9. BytesNumber(seq) = f[n]
  BY <1>3, <1>4
<1>10. f = [i \in 0..n |-> f[i]]
  OBVIOUS
<1> HIDE DEF f
<1>11. \A i \in 0..n : f[i] \in Nat
  <2> DEFINE Good == {i \in 0..n : f[i] \in Nat}
  <2>1. 0 \in Good
    BY <1>4, <1>7
  <2>2. ASSUME NEW i \in 1..n, i - 1 \in Good
        PROVE  i \in Good
    <3>1. f[i - 1] \in Nat /\ seq[i] \in Nat /\ i \in 0..n
      BY <1>4, <2>2
    <3> QED
      BY <1>8, <3>1
  <2> HIDE DEF Good
  <2>3. \A i \in 0..n : i \in Good
    BY <1>4, <2>1, <2>2, Facts!UpTo
  <2> QED
    BY <2>3 DEF Good
<1>12. f \in [0..n -> Nat]
  BY <1>10, <1>11
<1> QED
  BY <1>7, <1>8, <1>9, <1>12 DEF n

\* v lists the numbers that the first bytes of seq stand for.
Reads(v, seq) ==
  /\ v \in [0..Len(seq) -> Nat]
  /\ v[0] = 0
  /\ \A i \in 1..Len(seq) : v[i] = 256 * v[i - 1] + seq[i]
  /\ Number(seq) = v[Len(seq)]

\* Byte by byte or by weights: the number is the same.
LEMMA Digits ==
  ASSUME NEW seq \in Seq(0..255)
  PROVE  BytesNumber(seq) = Number(seq) /\ \E v : Reads(v, seq)
<1> DEFINE n == Len(seq)
           terms == [i \in DOMAIN seq |-> seq[i] * 2^(8 * (Len(seq) - i))]
<1>1. n \in Nat /\ DOMAIN seq = 1..n /\ \A i \in 1..n : seq[i] \in Nat
  <2>1. 0..255 \subseteq Nat
    OBVIOUS
  <2> QED
    BY <2>1, Items, Zenon
<1>2. PICK v \in [0..n -> Nat] :
        /\ v[0] = 0
        /\ \A i \in 1..n : v[i] = 256 * v[i - 1] + seq[i]
        /\ BytesNumber(seq) = v[n]
  BY BytesRun
<1>3. \A i \in 1..n : Weight(n - i) \in Nat /\ terms[i] = seq[i] * Weight(n - i)
  <2> TAKE i \in 1..n
  <2>1. n - i \in Nat
    BY <1>1
  <2>2. Weight(n - i) \in Nat
    BY <2>1, Weights
  <2>3. terms[i] = seq[i] * 2^(8 * (Len(seq) - i))
    BY <1>1
  <2> QED
    BY <2>2, <2>3 DEF Weight
<1>4. terms \in Seq(Nat) /\ Len(terms) = n
  <2>1. ASSUME NEW i \in 1..n PROVE terms[i] \in Nat
    <3>1. seq[i] \in Nat /\ Weight(n - i) \in Nat /\ terms[i] = seq[i] * Weight(n - i)
      BY <1>1, <1>3
    <3> HIDE DEF terms
    <3> QED
      BY <3>1
  <2>2. terms = [i \in 1..n |-> terms[i]]
    BY <1>1
  <2> HIDE DEF terms
  <2>3. terms \in [1..n -> Nat]
    BY <2>1, <2>2
  <2> QED
    BY <1>1, <2>3
<1>5. Number(seq) = Total(terms)
  BY DEF Number
<1> HIDE DEF terms, n
<1>6. PICK f \in [0..n -> Nat] :
        /\ f[0] = 0
        /\ \A i \in 1..n : f[i] = f[i - 1] + terms[i]
        /\ Total(terms) = f[n]
  BY <1>4, TotalRun
<1>7. \A i \in 0..n : f[i] = v[i] * Weight(n - i)
  <2> DEFINE Good == {i \in 0..n : f[i] = v[i] * Weight(n - i)}
  <2>1. 0 \in Good
    <3>1. Weight(n - 0) \in Nat
      BY <1>1, Weights
    <3> QED
      BY <1>1, <1>2, <1>6, <3>1
  <2>2. ASSUME NEW i \in 1..n, i - 1 \in Good
        PROVE  i \in Good
    <3> DEFINE w == Weight(n - i)
               a == v[i - 1]
               b == seq[i]
    <3>1. w \in Nat /\ a \in Nat /\ b \in Nat /\ Weight(n - (i - 1)) = 256 * w
      <4>1. n - i \in Nat /\ n - (i - 1) = (n - i) + 1 /\ i - 1 \in 0..n
        BY <1>1
      <4>2. seq[i] \in Nat /\ v[i - 1] \in Nat
        BY <1>1, <1>2, <4>1
      <4> QED
        BY <4>1, <4>2, Weights
    <3>2. f[i] = a * (256 * w) + b * w
      BY <1>3, <1>6, <2>2, <3>1
    <3>3. v[i] = 256 * a + b
      BY <1>2
    <3> HIDE DEF w, a, b
    <3>4. a * (256 * w) + b * w = (256 * a + b) * w
      BY <3>1
    <3>5. f[i] = v[i] * w
      BY <3>2, <3>3, <3>4
    <3> QED
      BY <1>1, <3>5 DEF w
  <2> HIDE DEF Good
  <2>3. \A i \in 0..n : i \in Good
    BY <1>1, <2>1, <2>2, Facts!UpTo
  <2> QED
    BY <2>3 DEF Good
<1>8. f[n] = v[n]
  <2>1. n \in 0..n /\ n - n = 0 /\ v[n] \in Nat
    BY <1>1, <1>2
  <2>2. f[n] = v[n] * Weight(0)
    BY <1>7, <2>1
  <2> QED
    BY <2>1, <2>2, Weights
<1>9. Number(seq) = v[n]
  BY <1>5, <1>6, <1>8
<1>10. Reads(v, seq)
  BY <1>2, <1>9 DEF n, Reads
<1> QED
  BY <1>2, <1>9, <1>10

\* What divides by 256 times as much divides twice.
LEMMA DivTwice ==
  ASSUME NEW n \in Nat, NEW m \in Nat, m > 0
  PROVE  n \div (256 * m) = (n \div m) \div 256 /\ n \div m \in Nat
<1> DEFINE q == n \div m
           c == q \div 256
<1>1. q \in Nat
  BY Facts!DivMod
<1>2. q * m <= n /\ n < q * m + m
  <2> HIDE DEF q
  <2>1. n \div m = q
    BY DEF q
  <2> QED
    BY <1>1, <2>1, Facts!Quotient
<1> HIDE DEF q
<1>3. c \in Nat /\ c * 256 <= q /\ q < c * 256 + 256
  BY <1>1
<1> HIDE DEF c
<1>4. (c * 256) * m <= q * m
  BY <1>1, <1>3, Facts!TimesMonotone
<1>5. (q + 1) * m <= (c * 256 + 256) * m
  BY <1>1, <1>3, Facts!TimesMonotone
<1>6. /\ (q + 1) * m = q * m + m
      /\ (c * 256) * m = c * (256 * m)
      /\ (c * 256 + 256) * m = c * (256 * m) + 256 * m
      /\ 256 * m \in Nat /\ 256 * m > 0
      /\ q * m \in Nat /\ c * (256 * m) \in Nat
  BY <1>1, <1>3
<1>7. c * (256 * m) <= n /\ n < c * (256 * m) + 256 * m
  BY <1>2, <1>4, <1>5, <1>6
<1>8. n \div (256 * m) = c
  BY <1>3, <1>6, <1>7, Facts!Quotient
<1> QED
  BY <1>1, <1>8 DEF c, q

\* The bytes that numeric_target_value makes of a number stand for it.
LEMMA BytesOfNumber ==
  ASSUME NEW n \in Nat, NEW width \in Nat, n < Weight(width)
  PROVE  /\ TargetBytes(n, width) \in Seq(0..255)
         /\ Len(TargetBytes(n, width)) = width
         /\ Number(TargetBytes(n, width)) = n
<1> DEFINE seq == TargetBytes(n, width)
           D(i) == n \div Weight(width - i)
<1>1. \A i \in 0..width : width - i \in Nat /\ Weight(width - i) \in Nat /\ Weight(width - i) > 0
  <2> TAKE i \in 0..width
  <2>1. width - i \in Nat
    OBVIOUS
  <2> QED
    BY <2>1, Weights
<1>2. \A i \in 0..width : D(i) \in Nat
  BY <1>1, DivTwice
<1>3. seq = [i \in 1..width |-> D(i) % 256]
  BY DEF TargetBytes, Weight
<1> HIDE DEF seq, D
<1>4. seq \in [1..width -> 0..255]
  <2>1. \A i \in 1..width : D(i) % 256 \in 0..255
    <3> TAKE i \in 1..width
    <3>1. D(i) \in Nat
      BY <1>2
    <3> QED
      BY <3>1
  <2> QED
    BY <1>3, <2>1, Zenon
<1>5. seq \in Seq(0..255) /\ Len(seq) = width
  BY <1>4
<1>6. PICK v \in [0..width -> Nat] :
        /\ v[0] = 0
        /\ \A i \in 1..width : v[i] = 256 * v[i - 1] + seq[i]
        /\ Number(seq) = v[width]
  BY <1>5, Digits DEF Reads
<1>7. \A i \in 0..width : v[i] = D(i)
  <2> DEFINE Good == {i \in 0..width : v[i] = D(i)}
  <2>1. 0 \in Good
    <3>1. Weight(width) \in Nat /\ Weight(width) > 0 /\ width - 0 = width /\ 0 \in 0..width
      BY Weights
    <3>2. n \div Weight(width) = 0
      BY <3>1, Facts!Quotient
    <3>3. D(0) = 0
      BY <3>1, <3>2 DEF D
    <3> QED
      BY <1>6, <3>1, <3>3
  <2>2. ASSUME NEW i \in 1..width, i - 1 \in Good
        PROVE  i \in Good
    <3> DEFINE w == Weight(width - i)
    <3>1. w \in Nat /\ w > 0 /\ Weight(width - (i - 1)) = 256 * w
      <4>1. width - i \in Nat /\ width - (i - 1) = (width - i) + 1
        OBVIOUS
      <4> QED
        BY <4>1, Weights
    <3>2. D(i) = n \div w /\ D(i - 1) = n \div (256 * w)
      BY <3>1 DEF D
    <3> HIDE DEF w
    <3>3. D(i - 1) = D(i) \div 256 /\ D(i) \in Nat
      BY <3>1, <3>2, DivTwice
    <3>4. 256 * (D(i) \div 256) + (D(i) % 256) = D(i)
      <4> DEFINE x == D(i)
      <4>1. x \in Nat
        BY <3>3
      <4> HIDE DEF x
      <4>2. 256 * (x \div 256) + (x % 256) = x
        BY <4>1
      <4> QED
        BY <4>2 DEF x
    <3>5. v[i] = 256 * D(i - 1) + seq[i] /\ seq[i] = D(i) % 256
      BY <1>3, <1>6, <2>2
    <3>6. v[i] = D(i)
      BY <3>3, <3>4, <3>5
    <3> QED
      BY <3>6
  <2> HIDE DEF Good
  <2>3. \A i \in 0..width : i \in Good
    BY <2>1, <2>2, Facts!UpTo
  <2> QED
    BY <2>3 DEF Good
<1>8. D(width) = n
  <2>1. width - width = 0 /\ n \div 1 = n
    OBVIOUS
  <2> QED
    BY <2>1, Weights DEF D
<1>9. Number(seq) = n
  BY <1>6, <1>7, <1>8
<1> QED
  BY <1>5, <1>9 DEF seq

\* Whether a number is less than a power of 256 times p is decided by its
\* first bytes.
LEMMA LeadingBytes ==
  ASSUME NEW a \in Nat, NEW w \in Nat, NEW t \in Nat, NEW p \in Nat, t < w
  PROVE  a * w + t < w * p <=> a < p
<1>1. a * w \in Nat /\ p * w \in Nat /\ p * w = w * p /\ (a + 1) * w = a * w + w
  OBVIOUS
<1>2. CASE a < p
  <2>1. (a + 1) * w <= p * w
    BY <1>2, Facts!TimesMonotone
  <2> QED
    BY <1>1, <1>2, <2>1
<1>3. CASE p <= a
  <2>1. p * w <= a * w
    BY <1>3, Facts!TimesMonotone
  <2> QED
    BY <1>1, <1>3, <2>1
<1> QED
  BY <1>2, <1>3

\* A factor moves into a product.
LEMMA Scaled ==
  ASSUME NEW a \in Nat, NEW w \in Nat
  PROVE  a * w \in Nat /\ a * (256 * w) = 256 * (a * w)
OBVIOUS

\* The first j bytes and the others.
LEMMA Split ==
  ASSUME NEW seq \in Seq(0..255), NEW v, Reads(v, seq), NEW j \in 0..Len(seq)
  PROVE  \E t \in Nat : /\ t < Weight(Len(seq) - j)
                        /\ Number(seq) = v[j] * Weight(Len(seq) - j) + t
<1> DEFINE n == Len(seq)
<1> n \in Nat /\ \A i \in 1..n : seq[i] \in 0..255
  BY Items
<1> v \in [0..n -> Nat] /\ (\A i \in 1..n : v[i] = 256 * v[i - 1] + seq[i]) /\ Number(seq) = v[n]
  BY DEF Reads
<1> j \in 0..n
  OBVIOUS
<1> HIDE DEF n
<1> DEFINE m == n - j
           Good == {d \in 0..m : \E t \in Nat : t < Weight(d) /\ v[j + d] = v[j] * Weight(d) + t}
<1>1. m \in Nat
  OBVIOUS
<1>2. 0 \in Good
  <2>1. v[j] \in Nat /\ j + 0 = j /\ 0 < Weight(0) /\ v[j] = v[j] * Weight(0) + 0
    <3>1. v[j] \in Nat
      OBVIOUS
    <3> QED
      BY <3>1, Weights
  <2> QED
    BY <2>1
<1>3. ASSUME NEW d \in 1..m, d - 1 \in Good
      PROVE  d \in Good
  <2> DEFINE c == d - 1
             w == Weight(c)
  <2>1. c \in Nat /\ d = c + 1 /\ w \in Nat /\ w > 0 /\ Weight(d) = 256 * w
    <3>1. c \in Nat /\ d = c + 1
      OBVIOUS
    <3> QED
      BY <3>1, Weights
  <2>2. PICK t \in Nat : t < w /\ v[j + c] = v[j] * w + t
    BY <1>3
  <2> DEFINE b == seq[j + d]
  <2>3. j + d \in 1..n /\ (j + d) - 1 = j + c
    BY <2>1
  <2>4. b \in 0..255
    BY <2>3
  <2>5. v[j + d] = 256 * (v[j] * w + t) + b
    BY <2>2, <2>3
  <2>6. v[j] \in Nat
    OBVIOUS
  <2> DEFINE a == v[j]
  <2> HIDE DEF w, b, a, c
  <2>7. 256 * (a * w + t) + b = a * (256 * w) + (256 * t + b)
    <3> DEFINE q == a * w
    <3>1. q \in Nat /\ a * (256 * w) = 256 * q
      BY <2>1, <2>6, Scaled DEF a
    <3>2. t \in Nat /\ b \in Nat
      BY <2>2, <2>4
    <3> HIDE DEF q
    <3>3. 256 * (q + t) + b = 256 * q + (256 * t + b)
      BY <3>1, <3>2
    <3> QED
      BY <3>1, <3>3 DEF q
  <2>8. 256 * t + b \in Nat /\ 256 * t + b < 256 * w
    BY <2>1, <2>2, <2>4
  <2>9. v[j + d] = v[j] * Weight(d) + (256 * t + b)
    BY <2>1, <2>5, <2>7 DEF a
  <2> QED
    BY <2>1, <2>8, <2>9
<1> HIDE DEF Good, m
<1>4. \A d \in 0..m : d \in Good
  BY <1>1, <1>2, <1>3, Facts!UpTo
<1>5. PICK t \in Nat : t < Weight(m) /\ v[j + m] = v[j] * Weight(m) + t
  <2>1. m \in Good
    BY <1>1, <1>4
  <2> QED
    BY <2>1, Zenon DEF Good
<1>6. j + m = n
  BY DEF m
<1> QED
  BY <1>5, <1>6 DEF m, n

\* Bytes stand for 0 if all of them are 0.
LEMMA Zeros ==
  ASSUME NEW seq \in Seq(0..255), NEW v, Reads(v, seq), NEW j \in 0..Len(seq)
  PROVE  v[j] = 0 <=> \A i \in 1..j : seq[i] = 0
<1> DEFINE n == Len(seq)
<1> n \in Nat /\ \A i \in 1..n : seq[i] \in 0..255
  BY Items
<1> v \in [0..n -> Nat] /\ v[0] = 0 /\ (\A i \in 1..n : v[i] = 256 * v[i - 1] + seq[i])
  BY DEF Reads
<1> j \in 0..n
  OBVIOUS
<1> HIDE DEF n
<1> DEFINE Good == {k \in 0..n : v[k] = 0 <=> \A i \in 1..k : seq[i] = 0}
<1>1. 0 \in Good
  OBVIOUS
<1>2. ASSUME NEW k \in 1..n, k - 1 \in Good
      PROVE  k \in Good
  <2> DEFINE c == k - 1
  <2>1. c \in 0..n /\ v[c] \in Nat /\ seq[k] \in 0..255 /\ v[k] = 256 * v[c] + seq[k]
    OBVIOUS
  <2>2. v[k] = 0 <=> v[c] = 0 /\ seq[k] = 0
    <3> DEFINE a == v[c]
               b == seq[k]
               d == v[k]
    <3>1. a \in Nat /\ b \in 0..255 /\ d = 256 * a + b
      BY <2>1
    <3> HIDE DEF a, b, d
    <3>2. d = 0 <=> a = 0 /\ b = 0
      BY <3>1
    <3> QED
      BY <3>2 DEF a, b, d
  <2>3. 1..k = (1..c) \cup {k}
    OBVIOUS
  <2>4. v[c] = 0 <=> \A i \in 1..c : seq[i] = 0
    BY <1>2
  <2>5. (\A i \in 1..k : seq[i] = 0) <=> (\A i \in 1..c : seq[i] = 0) /\ seq[k] = 0
    <3> HIDE DEF c
    <3> QED
      BY <2>3
  <2> HIDE DEF c
  <2> QED
    BY <2>2, <2>4, <2>5
<1> HIDE DEF Good
<1>3. \A k \in 0..n : k \in Good
  BY <1>1, <1>2, Facts!UpTo
<1> QED
  BY <1>3 DEF Good

\* binary_fits_field_length compares the number with the length of the field.
LEMMA FitsExactly ==
  ASSUME NEW seq \in Seq(0..255), NEW bits \in Nat
  PROVE  BinaryFits(seq, bits) <=> bits \in 1..8 * Len(seq) /\ Number(seq) < 2^bits
<1> DEFINE n == Len(seq)
           excess == 8 * n - bits
           k == excess \div 8
           rest == excess % 8
<1>1. n \in Nat /\ DOMAIN seq = 1..n /\ \A i \in 1..n : seq[i] \in 0..255
  BY Items
<1>2. BinaryFits(seq, bits) <=> /\ bits \in 1..8 * n
                                /\ \A i \in 1..k : seq[i] = 0
                                /\ rest # 0 => seq[k + 1] < 2^(8 - rest)
  BY DEF BinaryFits
<1> SUFFICES ASSUME bits \in 1..8 * n
             PROVE  (/\ \A i \in 1..k : seq[i] = 0
                     /\ rest # 0 => seq[k + 1] < 2^(8 - rest)) <=> Number(seq) < 2^bits
  BY <1>2
<1>3. k \in 0..n /\ rest \in 0..7 /\ (rest # 0 => k + 1 \in 1..n) /\ bits = 8 * (n - k) - rest
  <2> HIDE DEF n
  <2>1. excess \in Nat /\ excess = 8 * n - bits /\ bits >= 1
    BY <1>1
  <2> HIDE DEF excess
  <2>2. excess = 8 * k + rest /\ rest \in 0..7 /\ k \in Nat
    BY <2>1
  <2> HIDE DEF k, rest
  <2> QED
    BY <1>1, <2>1, <2>2
<1>4. bits = 8 * (n - k) - rest
  BY <1>3
<1>10. PICK v : Reads(v, seq)
  BY Digits
<1>5. v \in [0..n -> Nat] /\ \A i \in 1..n : v[i] = 256 * v[i - 1] + seq[i]
  BY <1>10 DEF Reads
<1> HIDE DEF n, excess, k, rest
<1>6. v[k] = 0 <=> \A i \in 1..k : seq[i] = 0
  BY <1>3, <1>10, Zeros DEF n
<1>7. ASSUME NEW j \in 0..n
      PROVE  \E t \in Nat : t < Weight(n - j) /\ Number(seq) = v[j] * Weight(n - j) + t
  BY <1>10, Split DEF n
<1>8. CASE rest = 0
  <2> DEFINE w == Weight(n - k)
  <2>1. 2^bits = w /\ w \in Nat
    <3>1. n - k \in Nat /\ bits = 8 * (n - k)
      BY <1>1, <1>3, <1>4, <1>8
    <3> QED
      BY <3>1, Weights DEF Weight
  <2>2. PICK t \in Nat : t < w /\ Number(seq) = v[k] * w + t
    BY <1>3, <1>7
  <2>3. v[k] \in Nat
    BY <1>3, <1>5
  <2> HIDE DEF w
  <2>4. v[k] * w + t < w * 1 <=> v[k] < 1
    <3> DEFINE a == v[k]
               s == a * w
    <3>1. a \in Nat /\ s \in Nat /\ (a = 0 => s = 0)
      BY <2>1, <2>3
    <3>2. a >= 1 => w <= s
      <4>1. a >= 1 => 1 * w <= a * w
        BY <2>1, <3>1, Facts!TimesMonotone
      <4> QED
        BY <2>1, <4>1
    <3> HIDE DEF a, s
    <3>3. s + t < w <=> a < 1
      BY <2>1, <2>2, <3>1, <3>2
    <3> QED
      BY <2>1, <3>3 DEF a, s
  <2>5. w * 1 = w
    BY <2>1
  <2> QED
    BY <1>6, <1>8, <2>1, <2>2, <2>3, <2>4, <2>5
<1>9. CASE rest # 0
  <2> DEFINE j == k + 1
             w == Weight(n - j)
             p == 2^(8 - rest)
             b == seq[j]
  <2>1. j \in 1..n /\ j \in 0..n /\ n - j \in Nat /\ 8 - rest \in Nat /\ rest \in Nat
    BY <1>1, <1>3, <1>9
  <2>2. w \in Nat /\ p \in Nat /\ p > 0
    BY <2>1, Weights, Facts!PowerType
  <2>3. 2^bits = w * p
    <3>1. bits = 8 * (n - j) + (8 - rest)
      BY <1>1, <1>3, <1>4
    <3>2. 8 * (n - j) \in Nat
      BY <2>1
    <3>3. 2^(8 * (n - j) + (8 - rest)) = 2^(8 * (n - j)) * 2^(8 - rest)
      BY <2>1, <3>2, Facts!PowerSum
    <3> QED
      BY <3>1, <3>3 DEF Weight
  <2>4. p <= 256
    <3> DEFINE r == 2^rest
    <3>1. 2^((8 - rest) + rest) = p * r
      BY <2>1, Facts!PowerSum
    <3>2. (8 - rest) + rest = 8
      BY <2>1
    <3>3. r \in Nat /\ r > 0
      BY <2>1, Facts!PowerType
    <3>4. p * r = 256
      BY <3>1, <3>2, Octet
    <3> HIDE DEF r, p
    <3>5. 1 * p <= r * p
      BY <2>2, <3>3, Facts!TimesMonotone
    <3> QED
      BY <2>2, <3>3, <3>4, <3>5
  <2>5. PICK t \in Nat : t < w /\ Number(seq) = v[j] * w + t
    BY <1>7, <2>1
  <2>6. v[j] \in Nat /\ v[k] \in Nat /\ b \in 0..255 /\ v[j] = 256 * v[k] + b
    <3>1. j - 1 = k
      BY <1>3
    <3>2. v[j] = 256 * v[j - 1] + seq[j]
      BY <1>5, <2>1
    <3>3. b \in 0..255
      BY <1>1, <2>1
    <3> QED
      BY <1>3, <1>5, <2>1, <3>1, <3>2, <3>3
  <2> HIDE DEF w, p, b, j
  <2>7. v[j] * w + t < w * p <=> v[j] < p
    BY <2>2, <2>5, <2>6, LeadingBytes
  <2>8. v[j] < p <=> v[k] = 0 /\ b < p
    BY <2>2, <2>4, <2>6
  <2> QED
    BY <1>6, <1>9, <2>3, <2>5, <2>7, <2>8 DEF p, b, j
<1> QED
  BY <1>3, <1>8, <1>9

-----------------------------------------------------------------------------
(* Rule update.                                                              *)
(*                                                                           *)
(* The three properties speak of what has become of the update; the          *)
(* invariant carries there what was checked on the way.  The rules and the   *)
(* bytes have their types; the device has the rule it had until it accepts;  *)
(* what it accepted fits its rule (Accepted); and an update with a target    *)
(* value that was typed is well formed and converted from it (Converted).    *)

UpdateEntries ==
  [fid : Fields, fp : Nat, di : Directions, bits : Nat \cup {Nothing}, targets : Seq(Seq(0..255))]

IsRule(rule) == rule \in [DOMAIN rule -> UpdateEntries]

UpdateTypes ==
  /\ status \in {"parsing", "parsed", "sent", "changed", "refused", "rejected"}
  /\ DOMAIN arguments = Keys
  /\ arguments["tv"] \in Numbers \cup {Unknown, Nothing}
  /\ IsRule(core) /\ IsRule(before)
  /\ status \in {"sent", "changed", "rejected"} => update.bytes \in Seq(0..255)

\* What apply_target_ipatch checks, of a rule.
Accepts(rule, u) ==
  /\ u.entry \in DOMAIN rule
  /\ u.index \in DOMAIN rule[u.entry].targets
  /\ rule[u.entry].bits # Nothing
  /\ BinaryFits(rule[u.entry].targets[u.index], rule[u.entry].bits)
  /\ Len(u.bytes) = Len(rule[u.entry].targets[u.index])
  /\ BinaryFits(u.bytes, rule[u.entry].bits)

Accepted ==
  /\ Accepts(before, update)
  /\ device = [before EXCEPT ![update.entry].targets[update.index] = update.bytes]

Converted ==
  /\ WellFormed
  /\ update.index = 1
  /\ update.entry \in DOMAIN core
  /\ Resolved(update.entry)
  /\ Convertible(update.entry)
  /\ update.bytes = TargetBytes(arguments["tv"], Len(core[update.entry].targets[1]))

UpdateInv ==
  /\ UpdateTypes
  /\ status # "changed" => device = before
  /\ status = "changed" => Accepted
  /\ status = "rejected" => ~Accepts(before, update)
  /\ status = "parsed" => WellFormed
  /\ status \in {"sent", "changed", "rejected"} /\ Given("tv") => Converted

LEMMA UpdateInitial == UpdateInit => UpdateInv
<1> SUFFICES ASSUME UpdateInit PROVE UpdateInv
  OBVIOUS
<1>1. status = "parsing" /\ device = before /\ arguments = [key \in Keys |-> Nothing]
  BY DEF UpdateInit
<1>2. "tv" \in Keys
  BY DEF Keys
<1>3. core \in CoreRules \cup DeviceRules /\ before \in CoreRules \cup DeviceRules
  BY DEF UpdateInit
<1>4. IsRule(core) /\ IsRule(before)
  BY <1>3, UpdateRulesValid DEF IsRule, UpdateEntries
<1>5. UpdateTypes
  BY <1>1, <1>2, <1>4 DEF UpdateTypes
<1> QED
  BY <1>1, <1>5 DEF UpdateInv

\* What was converted stays so while command, rule of the core and update stay.
LEMMA ConvertedStays ==
  ASSUME UNCHANGED <<arguments, core, update>>
  PROVE  /\ WellFormed' <=> WellFormed
         /\ Given("tv")' <=> Given("tv")
         /\ Converted' <=> Converted
<1>1. arguments' = arguments /\ core' = core /\ update' = update
  OBVIOUS
<1>2. /\ WellFormed' <=> WellFormed
      /\ \A key : Given(key)' <=> Given(key)
  BY <1>1 DEF WellFormed, Given
<1>3. Matches' = Matches
  BY <1>1 DEF Matches, EntryMatches, Given
<1>4. Resolved(update.entry)' <=> Resolved(update.entry)
  BY <1>1, <1>3 DEF Resolved
<1>5. Convertible(update.entry)' <=> Convertible(update.entry)
  BY <1>1 DEF Convertible
<1> QED
  BY <1>1, <1>2, <1>4, <1>5 DEF Converted, Given

LEMMA TypesStay ==
  ASSUME UpdateTypes, UNCHANGED <<arguments, core, before, update>>,
         status' \in {"parsing", "parsed", "sent", "changed", "refused", "rejected"},
         status' \in {"sent", "changed", "rejected"} => update.bytes \in Seq(0..255)
  PROVE  UpdateTypes'
BY DEF UpdateTypes, IsRule

LEMMA UpdateStep == UpdateInv /\ [UpdateNext]_updateVars => UpdateInv'
<1> SUFFICES ASSUME UpdateInv, [UpdateNext]_updateVars PROVE UpdateInv'
  OBVIOUS
<1>0. UpdateTypes
  BY DEF UpdateInv
<1>1. ASSUME NEW key \in Keys, NEW value \in ArgumentValues(key), ReadUpdateArgument(key, value)
      PROVE  UpdateInv'
  <2>1. /\ status = "parsing" /\ status' \in {"parsing", "refused"}
        /\ UNCHANGED <<core, before, device, update>>
    BY <1>1 DEF ReadUpdateArgument
  <2>2. arguments' = arguments \/ arguments' = [arguments EXCEPT ![key] = value]
    BY <1>1 DEF ReadUpdateArgument
  <2>3. DOMAIN arguments' = Keys
    BY <2>2, <1>0 DEF UpdateTypes
  <2>4. arguments'["tv"] \in Numbers \cup {Unknown, Nothing}
    <3>1. CASE key = "tv"
      <4>1. value \in Numbers \cup {Unknown}
        BY <1>1, <3>1 DEF ArgumentValues
      <4> QED
        BY <2>2, <3>1, <4>1, <1>0 DEF UpdateTypes
    <3>2. CASE key # "tv"
      BY <2>2, <3>2, <1>0 DEF UpdateTypes, Keys
    <3> QED
      BY <3>1, <3>2
  <2>5. UpdateTypes'
    BY <2>1, <2>3, <2>4, <1>0 DEF UpdateTypes, IsRule
  <2>6. device' = before'
    BY <2>1 DEF UpdateInv
  <2> QED
    BY <2>1, <2>5, <2>6 DEF UpdateInv
<1>2. CASE EndUpdate
  <2>1. /\ status = "parsing" /\ status' \in {"parsed", "refused"}
        /\ UNCHANGED <<arguments, core, before, device, update>>
        /\ status' = "parsed" => WellFormed
    BY <1>2 DEF EndUpdate
  <2>2. UpdateTypes'
    BY <2>1, <1>0, TypesStay
  <2>3. device' = before'
    BY <2>1 DEF UpdateInv
  <2>4. WellFormed' <=> WellFormed
    BY <2>1, ConvertedStays
  <2> QED
    BY <2>1, <2>2, <2>3, <2>4 DEF UpdateInv
<1>3. CASE Resolve
  <2>1. /\ status = "parsed" /\ status' \in {"sent", "refused"}
        /\ UNCHANGED <<arguments, core, before, device>>
    BY <1>3 DEF Resolve
  <2>2. device' = before' /\ WellFormed
    BY <2>1 DEF UpdateInv
  <2>3. CASE status' = "refused"
    <3>1. update' = update
      BY <1>3, <2>3 DEF Resolve
    <3>2. UpdateTypes'
      BY <2>1, <2>3, <3>1, <1>0, TypesStay
    <3> QED
      BY <2>2, <2>3, <3>2 DEF UpdateInv
  <2>4. CASE status' = "sent"
    <3>1. PICK e \in DOMAIN core :
            /\ Resolved(e) /\ Convertible(e)
            /\ update' = [entry |-> e, index |-> 1,
                          bytes |-> TargetBytes(arguments["tv"], Len(core[e].targets[1]))]
      BY <1>3, <2>4 DEF Resolve
    <3>2. update'.entry = e /\ update'.index = 1
          /\ update'.bytes = TargetBytes(arguments["tv"], Len(core[e].targets[1]))
      BY <3>1
    <3>3. WellFormed' /\ Resolved(e)' /\ Convertible(e)'
      BY <2>1, <2>2, <3>1 DEF WellFormed, Given, Resolved, Matches, EntryMatches, Convertible
    <3>4. Converted'
      BY <2>1, <3>2, <3>3 DEF Converted
    <3>5. update'.bytes \in Seq(0..255)
      <4>1. Given("tv") /\ arguments["tv"] # Unknown
        BY <2>2, <3>1 DEF WellFormed, Convertible
      <4>2. arguments["tv"] \in Nat
        BY <4>1, <1>0, UpdateInputs DEF UpdateTypes, Given
      <4>3. Len(core[e].targets[1]) \in Nat
        <5>1. core[e].targets \in Seq(Seq(0..255))
          BY <1>0 DEF UpdateTypes, IsRule, UpdateEntries
        <5>2. Len(core[e].targets) = 1
          BY <3>1 DEF Convertible
        <5>3. core[e].targets[1] \in Seq(0..255)
          BY <5>1, <5>2, Items
        <5> QED
          BY <5>3, Items
      <4>4. arguments["tv"] < Weight(Len(core[e].targets[1]))
        BY <3>1 DEF Convertible, FitsWidth, Weight
      <4> QED
        BY <3>2, <4>2, <4>3, <4>4, BytesOfNumber
    <3>6. UpdateTypes'
      BY <2>1, <2>4, <3>5, <1>0 DEF UpdateTypes, IsRule
    <3> QED
      BY <2>2, <2>4, <3>4, <3>6 DEF UpdateInv
  <2> QED
    BY <2>1, <2>3, <2>4
<1>4. CASE ClientSendsPatch
  <2>1. /\ status = "parsing" /\ status' = "sent" /\ ~Given("tv") /\ update' \in ClientPatches
        /\ UNCHANGED <<arguments, core, before, device>>
    BY <1>4 DEF ClientSendsPatch, Keys
  <2>2. UpdateTypes'
    BY <2>1, <1>0, UpdateInputs DEF UpdateTypes, IsRule
  <2>3. device' = before'
    BY <2>1 DEF UpdateInv
  <2>4. ~Given("tv")'
    BY <2>1 DEF Given
  <2> QED
    BY <2>1, <2>2, <2>3, <2>4 DEF UpdateInv
<1>5. CASE DeviceApplies
  <2>1. /\ status = "sent" /\ status' \in {"changed", "rejected"}
        /\ UNCHANGED <<arguments, core, before, update>>
    BY <1>5 DEF DeviceApplies
  <2>2. device = before
    BY <2>1 DEF UpdateInv
  <2>3. UpdateTypes'
    <3>1. update.bytes \in Seq(0..255)
      BY <2>1, <1>0 DEF UpdateTypes
    <3> QED
      BY <2>1, <3>1, <1>0, TypesStay
  <2>4. Given("tv")' => Converted'
    <3>1. Given("tv") => Converted
      BY <2>1 DEF UpdateInv
    <3> QED
      BY <2>1, <3>1, ConvertedStays
  <2>5. Acceptable(update) <=> Accepts(before, update)
    BY <2>2 DEF Acceptable, Accepts
  <2>6. Accepts(before, update)' <=> Accepts(before, update)
    BY <2>1 DEF Accepts
  <2>7. CASE Acceptable(update)
    <3>1. /\ device' = [before EXCEPT ![update.entry].targets[update.index] = update.bytes]
          /\ status' = "changed"
      BY <1>5, <2>2, <2>7 DEF DeviceApplies
    <3>2. Accepted'
      BY <2>1, <2>5, <2>6, <2>7, <3>1 DEF Accepted
    <3> QED
      BY <2>3, <2>4, <3>1, <3>2 DEF UpdateInv
  <2>8. CASE ~Acceptable(update)
    <3>1. device' = before' /\ status' = "rejected"
      BY <1>5, <2>1, <2>2, <2>8 DEF DeviceApplies
    <3> QED
      BY <2>3, <2>4, <2>5, <2>6, <2>8, <3>1 DEF UpdateInv
  <2> QED
    BY <2>7, <2>8
<1>6. CASE UNCHANGED updateVars
  <2>1. /\ status' = status /\ device' = device
        /\ UNCHANGED <<arguments, core, before, update>>
    BY <1>6 DEF updateVars
  <2>2. UpdateTypes'
    BY <2>1, <1>0 DEF UpdateTypes, IsRule
  <2>3. (Accepted' <=> Accepted) /\ (Accepts(before, update)' <=> Accepts(before, update))
    BY <2>1 DEF Accepted, Accepts
  <2>4. (WellFormed' <=> WellFormed) /\ (Given("tv")' <=> Given("tv")) /\ (Converted' <=> Converted)
    BY <2>1, ConvertedStays
  <2> QED
    BY <2>1, <2>2, <2>3, <2>4 DEF UpdateInv
<1> QED
  BY <1>1, <1>2, <1>3, <1>4, <1>5, <1>6 DEF UpdateNext

WithTarget(rule, e, k, bytes) == [rule EXCEPT ![e].targets[k] = bytes]

\* A rule with one target value changed.
LEMMA ChangedRule ==
  ASSUME NEW rule, IsRule(rule), NEW e \in DOMAIN rule, NEW k \in DOMAIN rule[e].targets,
         NEW bytes
  PROVE  LET new == WithTarget(rule, e, k, bytes) IN
         /\ DOMAIN new = DOMAIN rule
         /\ \A d \in DOMAIN rule \ {e} : new[d] = rule[d]
         /\ new[e].bits = rule[e].bits
         /\ DOMAIN new[e].targets = DOMAIN rule[e].targets
         /\ new[e].targets[k] = bytes
         /\ \A i \in DOMAIN rule[e].targets \ {k} : new[e].targets[i] = rule[e].targets[i]
<1> DEFINE new == WithTarget(rule, e, k, bytes)
<1>1. new = [rule EXCEPT ![e] = [rule[e] EXCEPT !.targets[k] = bytes]]
  BY DEF WithTarget
<1> HIDE DEF new
<1>2. rule[e] \in UpdateEntries
  BY DEF IsRule
<1> DEFINE was == rule[e]
           is == [was EXCEPT !.targets[k] = bytes]
<1>3. DOMAIN new = DOMAIN rule /\ new[e] = is /\ \A d \in DOMAIN rule \ {e} : new[d] = rule[d]
  BY <1>1
<1>4. is.bits = was.bits /\ is.targets = [was.targets EXCEPT ![k] = bytes]
  <2> HIDE DEF was
  <2>1. was \in UpdateEntries
    BY <1>2 DEF was
  <2> QED
    BY <2>1 DEF UpdateEntries
<1> HIDE DEF is
<1> QED
  BY <1>3, <1>4 DEF new

\* The types of an accepted update.
LEMMA AcceptedTypes ==
  ASSUME NEW rule, IsRule(rule), NEW e \in DOMAIN rule, NEW k \in DOMAIN rule[e].targets
  PROVE  /\ rule[e].targets[k] \in Seq(0..255)
         /\ rule[e].bits # Nothing => rule[e].bits \in Nat
<1>1. rule[e].targets \in Seq(Seq(0..255)) /\ rule[e].bits \in Nat \cup {Nothing}
  BY DEF IsRule, UpdateEntries
<1> QED
  BY <1>1, Items

LEMMA FitsAfterUpdate == UpdateInv => TargetsFitField
<1> SUFFICES ASSUME UpdateInv, NEW e \in DOMAIN device, NEW t \in DOMAIN device[e].targets,
                    device[e].targets[t] # before[e].targets[t]
             PROVE  /\ device[e].bits # Nothing
                    /\ Number(device[e].targets[t]) < 2^device[e].bits
                    /\ Len(device[e].targets[t]) = Len(before[e].targets[t])
  BY DEF TargetsFitField
<1>1. status = "changed" /\ Accepted
  BY DEF UpdateInv
<1>2. /\ Accepts(before, update)
      /\ device = WithTarget(before, update.entry, update.index, update.bytes)
  BY <1>1 DEF Accepted, WithTarget
<1>3. /\ update.entry \in DOMAIN before
      /\ update.index \in DOMAIN before[update.entry].targets
      /\ before[update.entry].bits # Nothing
      /\ Len(update.bytes) = Len(before[update.entry].targets[update.index])
      /\ BinaryFits(update.bytes, before[update.entry].bits)
  BY <1>2 DEF Accepts
<1>4. IsRule(before) /\ update.bytes \in Seq(0..255)
  BY <1>1 DEF UpdateInv, UpdateTypes
<1>5. before[update.entry].bits \in Nat
  BY <1>3, <1>4, AcceptedTypes
<1>6. Number(update.bytes) < 2^before[update.entry].bits
  BY <1>3, <1>4, <1>5, FitsExactly
<1>7. /\ DOMAIN device = DOMAIN before
      /\ \A d \in DOMAIN before \ {update.entry} : device[d] = before[d]
      /\ device[update.entry].bits = before[update.entry].bits
      /\ DOMAIN device[update.entry].targets = DOMAIN before[update.entry].targets
      /\ device[update.entry].targets[update.index] = update.bytes
      /\ \A i \in DOMAIN before[update.entry].targets \ {update.index} :
           device[update.entry].targets[i] = before[update.entry].targets[i]
  BY <1>2, <1>3, <1>4, ChangedRule
<1>8. e = update.entry /\ t = update.index
  BY <1>7
<1> QED
  BY <1>3, <1>6, <1>7, <1>8

\* What is converted from a command is what was meant.
LEMMA MeantIsOne ==
  ASSUME Converted
  PROVE  update.entry \in Meant /\ Meant = {update.entry}
<1>1. WellFormed /\ update.entry \in DOMAIN core /\ Matches = {update.entry}
  BY DEF Converted, Resolved
<1>2. Meant = Matches
  <2>1. CASE Given("entry")
    BY <1>1, <2>1 DEF WellFormed, Meant, Matches, EntryMatches
  <2>2. CASE ~Given("entry")
    BY <1>1, <2>2 DEF WellFormed, Meant, Matches, EntryMatches, NormalizeFid
  <2> QED
    BY <2>1, <2>2
<1> QED
  BY <1>1, <1>2

\* What was typed, and what it was converted to.
LEMMA ConvertedTypes ==
  ASSUME UpdateTypes, Converted
  PROVE  /\ update.bytes \in Seq(0..255)
         /\ Len(update.bytes) = Len(core[update.entry].targets[1])
         /\ Number(update.bytes) = arguments["tv"]
         /\ arguments["tv"] \in Nat
         /\ 1 \in DOMAIN core[update.entry].targets
<1> DEFINE e == update.entry
<1>1. /\ e \in DOMAIN core /\ Convertible(e) /\ WellFormed
      /\ update.bytes = TargetBytes(arguments["tv"], Len(core[e].targets[1]))
  BY DEF Converted
<1>2. arguments["tv"] \in Nat
  BY <1>1, UpdateInputs DEF UpdateTypes, Given, WellFormed, Convertible
<1>3. core[e].targets \in Seq(Seq(0..255)) /\ Len(core[e].targets) = 1
  BY <1>1 DEF UpdateTypes, IsRule, UpdateEntries, Convertible
<1>4. 1 \in DOMAIN core[e].targets /\ core[e].targets[1] \in Seq(0..255)
  <2> DEFINE list == core[e].targets
  <2>1. list \in Seq(Seq(0..255)) /\ Len(list) = 1
    BY <1>3
  <2> HIDE DEF list
  <2> DEFINE Bytes == Seq(0..255)
  <2>2. list \in Seq(Bytes)
    BY <2>1
  <2> HIDE DEF Bytes
  <2>3. 1 \in DOMAIN list /\ list[1] \in Bytes
    BY <2>1, <2>2
  <2> QED
    BY <2>3 DEF list, Bytes
<1>5. Len(core[e].targets[1]) \in Nat
  BY <1>4, Items
<1>6. arguments["tv"] < Weight(Len(core[e].targets[1]))
  BY <1>1 DEF Convertible, FitsWidth, Weight
<1> QED
  BY <1>1, <1>2, <1>4, <1>5, <1>6, BytesOfNumber

LEMMA MeantAfterUpdate == UpdateInv => ChangesWhatWasMeant
<1> SUFFICES ASSUME UpdateInv, status = "changed", Given("tv")
             PROVE  \E e \in Meant :
                      /\ Meant = {e}
                      /\ Number(device[e].targets[1]) = arguments["tv"]
                      /\ device = [before EXCEPT ![e].targets[1] = device[e].targets[1]]
  BY DEF ChangesWhatWasMeant
<1> DEFINE e == update.entry
<1>1. UpdateTypes /\ Converted /\ Accepted
  BY DEF UpdateInv
<1>2. e \in Meant /\ Meant = {e}
  BY <1>1, MeantIsOne
<1>3. update.index = 1
  BY <1>1 DEF Converted
<1>4. device = [before EXCEPT ![e].targets[1] = update.bytes]
  BY <1>1, <1>3 DEF Accepted
<1>5. e \in DOMAIN before /\ 1 \in DOMAIN before[e].targets
  BY <1>1, <1>3 DEF Accepted, Accepts
<1>6. IsRule(before)
  BY <1>1 DEF UpdateTypes
<1>7. device[e].targets[1] = update.bytes
  <2>1. device = WithTarget(before, e, 1, update.bytes)
    BY <1>4 DEF WithTarget
  <2> QED
    BY <1>5, <1>6, <2>1, ChangedRule
<1>8. Number(update.bytes) = arguments["tv"]
  BY <1>1, ConvertedTypes
<1> QED
  BY <1>2, <1>4, <1>7, <1>8

LEMMA AcceptedAfterCheck == UpdateInv => CheckedIsAccepted
<1> DEFINE e == update.entry
<1> SUFFICES ASSUME UpdateInv, status = "rejected", Given("tv"), core = before,
                    core[e].bits # Nothing,
                    ~(core[e].bits > 8 * Len(update.bytes)),
                    ~(Number(core[e].targets[1]) >= 2^core[e].bits)
             PROVE  FALSE
  BY DEF CheckedIsAccepted
<1>1. UpdateTypes /\ Converted /\ ~Accepts(core, update)
  BY DEF UpdateInv
<1>2. update.index = 1 /\ e \in DOMAIN core /\ Convertible(e)
  BY <1>1 DEF Converted
<1>3. /\ update.bytes \in Seq(0..255)
      /\ Len(update.bytes) = Len(core[e].targets[1])
      /\ Number(update.bytes) = arguments["tv"]
      /\ 1 \in DOMAIN core[e].targets
  BY <1>1, ConvertedTypes
<1>4. core[e].targets[1] \in Seq(0..255) /\ core[e].bits \in Nat
  BY <1>1, <1>2, <1>3, AcceptedTypes DEF UpdateTypes
<1>5. core[e].bits # 0 /\ arguments["tv"] < 2^core[e].bits
  BY <1>2 DEF Convertible, FitsField
<1>6. Len(update.bytes) \in Nat
  BY <1>3, Items
<1>7. core[e].bits \in 1..8 * Len(update.bytes)
  BY <1>4, <1>5, <1>6
<1>8. BinaryFits(update.bytes, core[e].bits)
  BY <1>3, <1>4, <1>5, <1>7, FitsExactly
<1>9. Number(core[e].targets[1]) < 2^core[e].bits
  <2>1. 2^core[e].bits \in Nat
    BY <1>4, Facts!PowerType
  <2>2. PICK v : Reads(v, core[e].targets[1])
    BY <1>4, Digits
  <2>3. Number(core[e].targets[1]) \in Nat
    BY <1>4, <2>2, Items DEF Reads
  <2> QED
    BY <2>1, <2>3
<1>10. BinaryFits(core[e].targets[1], core[e].bits)
  BY <1>3, <1>4, <1>7, <1>9, FitsExactly
<1> QED
  BY <1>1, <1>2, <1>3, <1>8, <1>10 DEF Accepts

\* Every target value a rule update changes fits its field and keeps its
\* width: for all rules of core and device, all arguments and all iPATCHes of
\* other clients (apply_target_ipatch, binary_fits_field_length).
THEOREM UpdatedTargetsFit == UpdateSpec => []TargetsFitField
<1>1. UpdateSpec => []UpdateInv
  BY UpdateInitial, UpdateStep, PTL DEF UpdateSpec
<1> QED
  BY <1>1, FitsAfterUpdate, PTL

\* A rule update that goes through has set the one entry all its arguments
\* describe to the number typed, whatever the number and the width of the
\* target (parse_rule_update_command, resolve_entry_index, from_request).
THEOREM UpdateChangesWhatWasMeant == UpdateSpec => []ChangesWhatWasMeant
<1>1. UpdateSpec => []UpdateInv
  BY UpdateInitial, UpdateStep, PTL DEF UpdateSpec
<1> QED
  BY <1>1, MeantAfterUpdate, PTL

\* A device with the core's rule accepts what the core has checked: the two
\* checks of width and bits agree on every number (FitsExactly).
THEOREM CheckedUpdateIsAccepted == UpdateSpec => []CheckedIsAccepted
<1>1. UpdateSpec => []UpdateInv
  BY UpdateInitial, UpdateStep, PTL DEF UpdateSpec
<1> QED
  BY <1>1, AcceptedAfterCheck, PTL
-----------------------------------------------------------------------------
(* Rule duplicate: lists of instances and what they do to a rule. *)

IsList(seq) == seq \in Seq(Range(seq))

LEMMA ListItems ==
  ASSUME NEW seq, IsList(seq)
  PROVE  Len(seq) \in Nat /\ DOMAIN seq = 1..Len(seq) /\ \A i \in DOMAIN seq : seq[i] \in Range(seq)
BY Items DEF IsList

LEMMA ListOf ==
  ASSUME NEW T, NEW seq \in Seq(T)
  PROVE  IsList(seq)
<1>1. Len(seq) \in Nat /\ DOMAIN seq = 1..Len(seq) /\ seq = [i \in DOMAIN seq |-> seq[i]]
  OBVIOUS
<1>2. \A i \in DOMAIN seq : seq[i] \in Range(seq)
  BY DEF Range
<1> DEFINE R == Range(seq)
<1> HIDE DEF R
<1> QED
  BY <1>1, <1>2 DEF IsList, R

\* A list behind another one.
LEMMA ListsJoined ==
  ASSUME NEW x, NEW y, IsList(x), IsList(y)
  PROVE  /\ IsList(x \o y)
         /\ Len(x \o y) = Len(x) + Len(y)
         /\ \A i \in 1..Len(x) : (x \o y)[i] = x[i]
         /\ \A i \in 1..Len(y) : (x \o y)[Len(x) + i] = y[i]
         /\ \A i \in 1..Len(x \o y) :
              i \in 1..Len(x) \/ \E k \in 1..Len(y) : i = Len(x) + k
<1> DEFINE T == Range(x) \cup Range(y)
           z == x \o y
<1>1. x \in Seq(T) /\ y \in Seq(T)
  <2>1. DOMAIN x = 1..Len(x) /\ Len(x) \in Nat /\ \A i \in DOMAIN x : x[i] \in T
    BY ListItems
  <2>2. DOMAIN y = 1..Len(y) /\ Len(y) \in Nat /\ \A i \in DOMAIN y : y[i] \in T
    BY ListItems
  <2> HIDE DEF T
  <2> QED
    BY <2>1, <2>2 DEF IsList
<1> HIDE DEF T
<1>2. /\ z \in Seq(T) /\ Len(z) = Len(x) + Len(y)
      /\ \A i \in 1..Len(x) : z[i] = x[i]
      /\ \A i \in 1..Len(y) : z[Len(x) + i] = y[i]
  BY <1>1, Facts!Joined
<1>3. Len(x) \in Nat /\ Len(y) \in Nat
  BY <1>1
<1> HIDE DEF z
<1>4. IsList(z)
  BY <1>2, ListOf
<1> DEFINE m == Len(x)
           n == Len(y)
<1> HIDE DEF m, n
<1>5. ASSUME m \in Nat, n \in Nat, NEW i \in 1..(m + n)
      PROVE  i \in 1..m \/ \E k \in 1..n : i = m + k
  <2>1. CASE i <= m
    BY <1>5, <2>1
  <2>2. CASE ~(i <= m)
    <3>1. i - m \in 1..n /\ i = m + (i - m)
      BY <1>5, <2>2
    <3> QED
      BY <3>1
  <2> QED
    BY <2>1, <2>2
<1> QED
  BY <1>2, <1>3, <1>4, <1>5 DEF z, m, n

\* f lists what the first lists of seqs are, joined.
Joins(f, seqs) ==
  /\ f[0] = <<>>
  /\ \A k \in 1..Len(seqs) : f[k] = f[k - 1] \o seqs[k]
  /\ FlattenSeq(seqs) = f[Len(seqs)]

LEMMA FlattenRun ==
  ASSUME NEW seqs, IsList(seqs), \A k \in DOMAIN seqs : IsList(seqs[k])
  PROVE  \E f : Joins(f, seqs)
<1> DEFINE n == Len(seqs)
<1>1. n \in Nat /\ DOMAIN seqs = 1..n
  BY ListItems
<1>2. CASE n = 0
  <2> DEFINE f == [k \in 0..0 |-> <<>>]
  <2>1. seqs = <<>> /\ FlattenSeq(seqs) = seqs
    BY <1>2 DEF FlattenSeq, IsList
  <2>2. f[0] = <<>> /\ 1..n = {}
    BY <1>2
  <2>3. f[n] = <<>>
    BY <1>2, <2>2
  <2> HIDE DEF f
  <2>4. Joins(f, seqs)
    BY <2>1, <2>2, <2>3 DEF Joins
  <2> QED
    BY <2>4
<1>3. CASE n # 0
  <2> DEFINE g == CHOOSE g : Facts!FlattenLoop(g, seqs)
             f == [k \in 0..n |-> IF k = 0 THEN <<>> ELSE g[k]]
  <2>1. Facts!FlattenLoop(g, seqs)
    BY Facts!FlattenExists DEF IsList
  <2>2. FlattenSeq(seqs) = g[n]
    BY <1>3 DEF FlattenSeq, Facts!FlattenLoop
  <2> HIDE DEF g
  <2> DEFINE Step(i) == IF i = 1 THEN seqs[i] ELSE g[i - 1] \o seqs[i]
  <2>3. g = [i \in 1..n |-> Step(i)]
    BY <2>1 DEF Facts!FlattenLoop
  <2>4. ASSUME NEW i \in 1..n PROVE g[i] = Step(i)
    <3> HIDE DEF Step, n
    <3> QED
      BY <2>3
  <2>5. f[0] = <<>> /\ f[n] = g[n]
    BY <1>1, <1>3
  <2>6. ASSUME NEW k \in 1..n PROVE f[k] = f[k - 1] \o seqs[k]
    <3>1. k # 0 /\ k \in 0..n /\ k - 1 \in 0..n
      BY <1>1
    <3>2. CASE k = 1
      <4>1. f[0] = <<>> /\ f[1] = seqs[1]
        BY <2>4, <2>5, <3>1, <3>2
      <4>2. IsList(seqs[1])
        BY <1>1, <3>2
      <4>3. <<>> \o seqs[1] = seqs[1]
        BY <4>2 DEF IsList
      <4>4. k - 1 = 0
        BY <3>2
      <4> QED
        BY <3>2, <4>1, <4>3, <4>4, Zenon
    <3>3. CASE k # 1
      <4>1. k - 1 # 0
        BY <3>1, <3>3
      <4>2. f[k] = g[k] /\ f[k - 1] = g[k - 1]
        BY <3>1, <4>1
      <4> QED
        BY <2>4, <3>3, <4>2, Zenon
    <3> QED
      BY <3>2, <3>3
  <2> HIDE DEF f
  <2>7. Joins(f, seqs)
    BY <2>2, <2>5, <2>6 DEF Joins
  <2> QED
    BY <2>7
<1> QED
  BY <1>2, <1>3

\* Instances that set leaves of entries of the source.
Sets(seq) ==
  /\ IsList(seq)
  /\ \A i \in DOMAIN seq : seq[i].entry \in DOMAIN Source /\ seq[i].leaf \in Leaves

EntryKeys == Leaves \cup {"bits"}

\* The source as a function of functions.
LEMMA SourceShape ==
  \E V : Source \in [DOMAIN Source -> [EntryKeys -> V]]
<1> DEFINE D == DOMAIN Source
           V == {Source[e][k] : e \in D, k \in EntryKeys}
<1>1. Source = [e \in D |-> Source[e]]
  BY SourceValid
<1>2. ASSUME NEW e \in D
      PROVE  Source[e] \in [EntryKeys -> V]
  <2>1. DOMAIN Source[e] = EntryKeys /\ Source[e] = [k \in EntryKeys |-> Source[e][k]]
    BY SourceValid DEF EntryKeys, Leaves
  <2>2. \A k \in EntryKeys : Source[e][k] \in V
    OBVIOUS
  <2> HIDE DEF V, EntryKeys
  <2> QED
    BY <2>1, <2>2
<1> HIDE DEF V, D
<1>3. Source \in [D -> [EntryKeys -> V]]
  BY <1>1, <1>2
<1> QED
  BY <1>3 DEF D

LEMMA CopyRun ==
  ASSUME NEW seq, Sets(seq)
  PROVE  \E f : /\ f[0] = Source
                /\ \A i \in 1..Len(seq) : f[i] = Override(f[i - 1], seq[i])
                /\ FoldLeft(Override, Source, seq) = f[Len(seq)]
<1> DEFINE Loop(h) ==
             h = [s \in SUBSET DOMAIN seq |->
                    IF s = {} THEN Source ELSE Override(h[s \ {Max(s)}], seq[Max(s)])]
           n == Len(seq)
<1>1. n \in Nat /\ DOMAIN seq = 1..n
  BY ListItems DEF Sets
<1>2. \E h : Loop(h)
  <2>1. PICK V : Source \in [DOMAIN Source -> [EntryKeys -> V]]
    BY SourceShape
  <2> DEFINE T == Range(seq)
             W == V \cup {i.value : i \in T}
             S == [DOMAIN Source -> [EntryKeys -> W]]
             g == [x \in T |-> [y \in S |-> Override(y, x)]]
  <2>2. Source \in S
    BY <2>1
  <2>3. ASSUME NEW x \in T, NEW y \in S
        PROVE  Override(y, x) \in S
    <3>1. x.leaf \in EntryKeys /\ x.value \in W
      BY DEF Sets, Range, EntryKeys
    <3> DEFINE e == x.entry
               l == x.leaf
               v == x.value
    <3>2. y[e] \in [EntryKeys -> W] \/ e \notin DOMAIN Source
      OBVIOUS
    <3>3. Override(y, x) = [y EXCEPT ![e] = [y[e] EXCEPT ![l] = v]]
      BY DEF Override
    <3> HIDE DEF e, l, v, W, EntryKeys, T
    <3>4. e \in DOMAIN Source => [y[e] EXCEPT ![l] = v] \in [EntryKeys -> W]
      BY <3>1, <3>2 DEF l, v
    <3> QED
      BY <3>3, <3>4
  <2>4. g \in [T -> [S -> S]]
    <3> HIDE DEF S, T
    <3> QED
      BY <2>3
  <2>5. seq \in Seq(T)
    BY DEF Sets, IsList
  <2>6. PICK h \in [SUBSET DOMAIN seq -> S] : Facts!FoldLoop(h, g, Source, seq)
    <3> HIDE DEF g, S, T
    <3> QED
      BY <2>2, <2>4, <2>5, Facts!FoldExists
  <2>7. ASSUME NEW s \in SUBSET DOMAIN seq, s # {}
        PROVE  g[seq[Max(s)]][h[s \ {Max(s)}]] = Override(h[s \ {Max(s)}], seq[Max(s)])
    <3>1. s \subseteq 0..n /\ n \in Nat
      BY <1>1
    <3>2. Max(s) \in DOMAIN seq
      BY <2>7, <3>1, Facts!LargestNat, SameMax
    <3>3. seq[Max(s)] \in T
      BY <3>2 DEF Range
    <3>4. s \ {Max(s)} \in SUBSET DOMAIN seq
      OBVIOUS
    <3> HIDE DEF S, T
    <3>5. h[s \ {Max(s)}] \in S
      BY <2>6, <3>4, Zenon
    <3> QED
      BY <3>3, <3>5, Zenon
  <2>8. Loop(h)
    <3> HIDE DEF g
    <3> QED
      BY <2>6, <2>7, SameMax DEF Facts!FoldLoop
  <2> QED
    BY <2>8
<1> DEFINE h == CHOOSE h : Loop(h)
           f == [i \in 0..n |-> h[1..i]]
<1>3. Loop(h)
  BY <1>2
<1>4. FoldLeft(Override, Source, seq) = h[DOMAIN seq]
  BY DEF FoldLeft, MapThenFoldSet
<1> HIDE DEF h, n
<1>5. h[{}] = Source
  BY <1>1, <1>3
<1>6. ASSUME NEW i \in 1..n
      PROVE  h[1..i] = Override(h[1..(i - 1)], seq[i])
  <2> DEFINE s == 1..i
  <2>1. s \in SUBSET DOMAIN seq /\ s # {} /\ Max(s) = i /\ s \ {i} = 1..(i - 1)
    BY <1>1, Facts!Segments, SameMax
  <2> HIDE DEF s
  <2>2. h[s] = Override(h[s \ {Max(s)}], seq[Max(s)])
    BY <1>3, <2>1
  <2> QED
    BY <2>1, <2>2 DEF s
<1>7. f[0] = Source
  <2>1. 1..0 = {} /\ 0 \in 0..n
    BY <1>1
  <2> QED
    BY <1>5, <2>1
<1>8. ASSUME NEW i \in 1..n
      PROVE  f[i] = Override(f[i - 1], seq[i])
  <2>1. i \in 0..n /\ i - 1 \in 0..n
    BY <1>1
  <2> QED
    BY <1>6, <2>1
<1>9. FoldLeft(Override, Source, seq) = f[n]
  BY <1>1, <1>4
<1> HIDE DEF f
<1> QED
  BY <1>7, <1>8, <1>9 DEF n

\* Every instance is applied, and nothing else is changed, if no two name the
\* same leaf.
LEMMA CopyShape ==
  ASSUME NEW seq, Sets(seq),
         \A i, j \in DOMAIN seq : Key(seq[i]) = Key(seq[j]) => i = j,
         NEW e \in DOMAIN Source, NEW l \in Leaves
  PROVE  LET c == FoldLeft(Override, Source, seq) IN
         /\ \A i \in DOMAIN seq : seq[i].entry = e /\ seq[i].leaf = l => c[e][l] = seq[i].value
         /\ (\A i \in DOMAIN seq : seq[i].entry # e \/ seq[i].leaf # l) => c[e][l] = Source[e][l]
<1> DEFINE n == Len(seq)
           c == FoldLeft(Override, Source, seq)
<1>1. n \in Nat /\ DOMAIN seq = 1..n
  BY ListItems DEF Sets
<1>2. PICK f : /\ f[0] = Source
               /\ \A i \in 1..n : f[i] = Override(f[i - 1], seq[i])
               /\ c = f[n]
  BY CopyRun
<1> HIDE DEF c, n
<1> DEFINE Shaped(r) == \E V : r \in [DOMAIN Source -> [EntryKeys -> V]]
           At(i) == seq[i].entry = e /\ seq[i].leaf = l
           Fits(k) == /\ Shaped(f[k])
                      /\ \A i \in 1..k : At(i) => f[k][e][l] = seq[i].value
                      /\ (\A i \in 1..k : ~At(i)) => f[k][e][l] = Source[e][l]
           Good == {k \in 0..n : Fits(k)}
<1>3. 0 \in Good
  <2>1. Shaped(f[0])
    BY <1>2, SourceShape
  <2>2. 1..0 = {} /\ 0 \in 0..n
    BY <1>1
  <2> HIDE DEF Shaped
  <2> QED
    BY <1>2, <2>1, <2>2
<1>4. ASSUME NEW k \in 1..n, k - 1 \in Good
      PROVE  k \in Good
  <2> DEFINE x == seq[k]
             y == f[k - 1]
             z == f[k]
             d == x.entry
             m == x.leaf
             v == x.value
  <2>1. k \in 0..n /\ k - 1 \in 0..n /\ 1..k = 1..(k - 1) \cup {k} /\ k \in DOMAIN seq
        /\ \A i \in 1..(k - 1) : i \in DOMAIN seq /\ i # k
    BY <1>1
  <2>2. PICK V : y \in [DOMAIN Source -> [EntryKeys -> V]]
    BY <1>4
  <2>3. z = [y EXCEPT ![d] = [y[d] EXCEPT ![m] = v]]
    BY <1>2 DEF Override
  <2>4. d \in DOMAIN Source /\ m \in EntryKeys /\ l \in EntryKeys
    BY <2>1 DEF Sets, EntryKeys
  <2>5. Fits(k - 1)
    BY <1>4
  <2> HIDE DEF x, y, z, d, m, v
  <2>6. z \in [DOMAIN Source -> [EntryKeys -> V \cup {v}]]
    <3>1. y[d] \in [EntryKeys -> V]
      BY <2>2, <2>4
    <3>2. [y[d] EXCEPT ![m] = v] \in [EntryKeys -> V \cup {v}]
      BY <3>1, <2>4
    <3>3. y \in [DOMAIN Source -> [EntryKeys -> V \cup {v}]]
      BY <2>2
    <3> DEFINE w == [y[d] EXCEPT ![m] = v]
               W == [EntryKeys -> V \cup {v}]
    <3> HIDE DEF w, W
    <3> QED
      BY <2>3, <3>2, <3>3 DEF w, W
  <2>7. d = e /\ m = l => z[e][l] = v
    BY <2>2, <2>3, <2>4
  <2>8. ~(d = e /\ m = l) => z[e][l] = y[e][l]
    <3>1. CASE d # e
      BY <2>2, <2>3, <2>4, <3>1
    <3>2. CASE d = e /\ m # l
      <4>1. y[e] \in [EntryKeys -> V] /\ z[e] = [y[e] EXCEPT ![m] = v]
        BY <2>2, <2>3, <2>4, <3>2
      <4> QED
        BY <2>4, <3>2, <4>1
    <3> QED
      BY <3>1, <3>2
  <2>9. Shaped(z)
    BY <2>6
  <2>10. At(k) <=> d = e /\ m = l
    BY DEF d, m, x
  <2>11. \A i \in 1..(k - 1) : At(i) => ~At(k)
    BY <2>1 DEF Key
  <2> HIDE DEF At, Shaped
  <2>12. \A i \in 1..k : At(i) => z[e][l] = seq[i].value
    <3> TAKE i \in 1..k
    <3>1. CASE i = k
      BY <2>7, <2>10, <3>1 DEF v, x
    <3>2. CASE i \in 1..(k - 1)
      BY <2>5, <2>8, <2>10, <2>11, <3>2 DEF y
    <3> QED
      BY <2>1, <3>1, <3>2
  <2>13. (\A i \in 1..k : ~At(i)) => z[e][l] = Source[e][l]
    BY <2>1, <2>5, <2>8, <2>10 DEF y
  <2> QED
    BY <2>1, <2>9, <2>12, <2>13 DEF z
<1> HIDE DEF Good
<1>5. \A k \in 0..n : k \in Good
  BY <1>1, <1>3, <1>4, Facts!UpTo
<1>6. n \in 0..n
  BY <1>1
<1>7. Fits(n)
  BY <1>5, <1>6 DEF Good
<1> QED
  BY <1>1, <1>2, <1>7 DEF c

\* No leaf of an entry is named twice.
Distinct(seq) == \A i, j \in DOMAIN seq : Key(seq[i]) = Key(seq[j]) => i = j

\* What is in two lists that are joined.
LEMMA JoinedRange ==
  ASSUME NEW x, NEW y, IsList(x), IsList(y)
  PROVE  /\ Range(x \o y) = Range(x) \cup Range(y)
         /\ Distinct(x) /\ Distinct(y)
            /\ (\A i \in Range(x), j \in Range(y) : Key(i) # Key(j)) => Distinct(x \o y)
<1> DEFINE z == x \o y
           m == Len(x)
           n == Len(y)
<1>1. m \in Nat /\ DOMAIN x = 1..m /\ n \in Nat /\ DOMAIN y = 1..n
  BY ListItems
<1>2. /\ IsList(z) /\ Len(z) = m + n
      /\ \A i \in 1..m : z[i] = x[i]
      /\ \A i \in 1..n : z[m + i] = y[i]
      /\ \A i \in 1..Len(z) : i \in 1..m \/ \E k \in 1..n : i = m + k
  BY ListsJoined
<1>3. DOMAIN z = 1..(m + n)
  BY <1>2, ListItems
<1> HIDE DEF z, m, n
<1>4. \A i \in 1..m : i \in DOMAIN z
  BY <1>1, <1>3
<1>5. \A i \in 1..n : m + i \in DOMAIN z
  BY <1>1, <1>3
<1>6. ASSUME NEW i \in DOMAIN z
      PROVE  i \in 1..m \/ \E k \in 1..n : i = m + k
  BY <1>2, <1>3
<1>7. Range(z) = Range(x) \cup Range(y)
  <2>1. ASSUME NEW i \in DOMAIN z PROVE z[i] \in Range(x) \cup Range(y)
    <3>1. CASE i \in 1..m
      BY <1>1, <1>2, <3>1 DEF Range
    <3>2. CASE \E k \in 1..n : i = m + k
      BY <1>1, <1>2, <3>2 DEF Range
    <3> QED
      BY <1>6, <3>1, <3>2
  <2>2. \A i \in DOMAIN x : x[i] \in Range(z)
    BY <1>1, <1>2, <1>4 DEF Range
  <2>3. \A i \in DOMAIN y : y[i] \in Range(z)
    BY <1>1, <1>2, <1>5 DEF Range
  <2> QED
    BY <2>1, <2>2, <2>3 DEF Range
<1>8. ASSUME Distinct(x), Distinct(y), \A i \in Range(x), j \in Range(y) : Key(i) # Key(j),
             NEW i \in DOMAIN z, NEW j \in DOMAIN z, Key(z[i]) = Key(z[j])
      PROVE  i = j
  <2>1. CASE i \in 1..m /\ j \in 1..m
    BY <1>1, <1>2, <1>8, <2>1 DEF Distinct
  <2>2. CASE i \in 1..m /\ \E k \in 1..n : j = m + k
    <3>1. PICK q \in 1..n : j = m + q
      BY <2>2
    <3>2. z[i] = x[i] /\ z[j] = y[q] /\ x[i] \in Range(x) /\ y[q] \in Range(y)
      BY <1>1, <1>2, <2>2, <3>1 DEF Range
    <3> QED
      BY <1>8, <3>2
  <2>3. CASE (\E k \in 1..n : i = m + k) /\ j \in 1..m
    <3>1. PICK q \in 1..n : i = m + q
      BY <2>3
    <3>2. z[j] = x[j] /\ z[i] = y[q] /\ x[j] \in Range(x) /\ y[q] \in Range(y)
      BY <1>1, <1>2, <2>3, <3>1 DEF Range
    <3> QED
      BY <1>8, <3>2
  <2>4. CASE (\E k \in 1..n : i = m + k) /\ \E k \in 1..n : j = m + k
    <3>1. PICK k \in 1..n : i = m + k
      BY <2>4
    <3>2. PICK q \in 1..n : j = m + q
      BY <2>4
    <3>3. z[i] = y[k] /\ z[j] = y[q]
      BY <1>2, <3>1, <3>2
    <3>4. k = q
      BY <1>1, <1>8, <3>3 DEF Distinct
    <3> QED
      BY <3>1, <3>2, <3>4
  <2> QED
    BY <1>6, <2>1, <2>2, <2>3, <2>4
<1> QED
  BY <1>7, <1>8 DEF z, Distinct

-----------------------------------------------------------------------------
(* Rule duplicate: the map that is sent for an override. *)

\* The instance for leaf l of override o.
Item(o, l) == [destination |-> TRUE, entry |-> o.entry, leaf |-> l, value |-> LeafValue(o, l)]

LEMMA ItemFields ==
  ASSUME NEW o, NEW l
  PROVE  /\ Item(o, l).destination
         /\ Item(o, l).entry = o.entry
         /\ Item(o, l).leaf = l
         /\ Item(o, l).value = LeafValue(o, l)
         /\ Key(Item(o, l)) = <<o.entry, l>>
BY Zenon DEF Item, Key

LEMMA PartShape ==
  ASSUME NEW o, NEW l
  PROVE  /\ IsList(Part(o, l)) /\ Distinct(Part(o, l))
         /\ Len(Part(o, l)) \in 0..1
         /\ Range(Part(o, l)) = {Item(o, k) : k \in DOMAIN o.leaf \cap {l}}
<1> DEFINE x == Item(o, l)
           p == Part(o, l)
           R == {Item(o, k) : k \in DOMAIN o.leaf \cap {l}}
<1>1. p = IF l \in DOMAIN o.leaf THEN <<x>> ELSE <<>>
  BY Zenon DEF Part, Item
<1>2. R = IF l \in DOMAIN o.leaf THEN {x} ELSE {}
  OBVIOUS
<1> HIDE DEF x, p, R
<1>3. CASE l \in DOMAIN o.leaf
  <2>1. p = <<x>> /\ R = {x}
    BY <1>1, <1>2, <1>3, Zenon
  <2>2. <<x>> \in Seq({x})
    OBVIOUS
  <2>3. Len(p) = 1 /\ DOMAIN p = {1} /\ p[1] = x
    BY <2>1
  <2>4. IsList(p)
    BY <2>1, <2>2, ListOf
  <2> QED
    BY <2>1, <2>3, <2>4 DEF Distinct, Range, p, R
<1>4. CASE l \notin DOMAIN o.leaf
  <2>1. p = <<>> /\ R = {}
    BY <1>1, <1>2, <1>4, Zenon
  <2>2. Len(p) = 0 /\ DOMAIN p = {} /\ p \in Seq({})
    BY <2>1
  <2>3. IsList(p)
    BY <2>2, ListOf
  <2> QED
    BY <2>1, <2>2, <2>3 DEF Distinct, Range, p, R
<1> QED
  BY <1>3, <1>4

\* The map has one instance for each leaf of the override.
LEMMA GroupShape ==
  ASSUME NEW o, DOMAIN o.leaf \subseteq Leaves, DOMAIN o.leaf # {}
  PROVE  /\ IsList(Group(o)) /\ Distinct(Group(o))
         /\ Len(Group(o)) \in 1..3
         /\ Range(Group(o)) = {Item(o, l) : l \in DOMAIN o.leaf}
<1> DEFINE D == DOMAIN o.leaf
           a == Part(o, "target")
           b == Part(o, "mo")
           c == Part(o, "cda")
           R(l) == {Item(o, k) : k \in D \cap {l}}
<1>1. /\ IsList(a) /\ Distinct(a) /\ Len(a) \in 0..1 /\ Range(a) = R("target")
      /\ IsList(b) /\ Distinct(b) /\ Len(b) \in 0..1 /\ Range(b) = R("mo")
      /\ IsList(c) /\ Distinct(c) /\ Len(c) \in 0..1 /\ Range(c) = R("cda")
  BY PartShape
<1>2. \A l, i : i \in R(l) => Key(i) = <<o.entry, l>>
  BY ItemFields
<1>3. Group(o) = (a \o b) \o c
  BY Zenon DEF Group
<1> HIDE DEF a, b, c, R
<1> DEFINE ab == a \o b
           g == ab \o c
<1>4. IsList(ab) /\ Len(ab) = Len(a) + Len(b)
  BY <1>1, ListsJoined
<1>5. Range(ab) = R("target") \cup R("mo") /\ Distinct(ab)
  <2>1. \A i \in Range(a), j \in Range(b) : Key(i) # Key(j)
    BY <1>1, <1>2
  <2> QED
    BY <1>1, <2>1, JoinedRange
<1> HIDE DEF ab
<1>6. IsList(g) /\ Len(g) = Len(ab) + Len(c)
  BY <1>1, <1>4, ListsJoined
<1>7. Range(g) = R("target") \cup R("mo") \cup R("cda") /\ Distinct(g)
  <2>1. \A i \in Range(ab), j \in Range(c) : Key(i) # Key(j)
    BY <1>1, <1>2, <1>5
  <2> QED
    BY <1>1, <1>4, <1>5, <2>1, JoinedRange
<1> HIDE DEF g
<1>8. Range(g) = {Item(o, l) : l \in D}
  <2>1. D \subseteq {"target", "mo", "cda"}
    BY DEF Leaves
  <2> HIDE DEF D
  <2> QED
    BY <1>7, <2>1 DEF R
<1>9. Len(g) \in 0..3
  <2>1. \A i, j, k \in 0..1 : (i + j) + k \in 0..3
    OBVIOUS
  <2> QED
    BY <1>1, <1>4, <1>6, <2>1
<1>10. Len(g) # 0
  <2>1. Range(g) # {}
    BY <1>8
  <2>2. DOMAIN g = 1..Len(g)
    BY <1>6, ListItems
  <2>3. Len(g) = 0 => DOMAIN g = {}
    BY <2>2
  <2> QED
    BY <2>1, <2>3 DEF Range
<1> QED
  BY <1>3, <1>6, <1>7, <1>8, <1>9, <1>10 DEF g, ab

-----------------------------------------------------------------------------
(* Rule duplicate: what is typed and what becomes of it.                     *)
(*                                                                           *)
(* The invariant follows the command from stage to stage.  While arguments   *)
(* are read, the overrides so far are what was typed so far (TypedAs); the   *)
(* maps built are those of the overrides (Built); what is decoded is what    *)
(* the maps hold, and names no leaf twice, whoever sent them (Decoding).     *)

\* The i-th argument belongs to entry e.
Belongs(args, i, e) ==
  \E j \in 1..i : /\ args[j].key = "entry" /\ args[j].value = e
                  /\ \A k \in (j + 1)..i : args[k].key # "entry"

\* Override o holds the i-th argument.
Carries(args, i, o) ==
  /\ Belongs(args, i, o.entry)
  /\ args[i].key \in DOMAIN o.leaf
  /\ o.leaf[args[i].key] = args[i].value

\* No two overrides are for the same entry, every leaf that was typed is in one
\* of them, and they hold nothing else.
TypedAs(args, list) ==
  /\ \A k, j \in DOMAIN list : list[k].entry = list[j].entry => k = j
  /\ \A i \in DOMAIN args : args[i].key \in Leaves =>
       \E k \in DOMAIN list : Carries(args, i, list[k])
  /\ \A k \in DOMAIN list : \A l \in DOMAIN list[k].leaf :
       l \in Leaves /\ \E i \in DOMAIN args : args[i].key = l /\ Carries(args, i, list[k])

\* One more item.
LEMMA Longer ==
  ASSUME NEW list, IsList(list), NEW x
  PROVE  LET new == Append(list, x)
             n == Len(list) IN
         /\ IsList(new) /\ Len(new) = n + 1
         /\ DOMAIN new = DOMAIN list \cup {n + 1}
         /\ n + 1 \notin DOMAIN list
         /\ new[n + 1] = x
         /\ \A i \in DOMAIN list : new[i] = list[i]
<1> DEFINE T == Range(list) \cup {x}
           new == Append(list, x)
           n == Len(list)
<1>1. n \in Nat /\ DOMAIN list = 1..n /\ list \in Seq(T)
  <2>1. n \in Nat /\ DOMAIN list = 1..n /\ \A i \in DOMAIN list : list[i] \in T
    BY ListItems
  <2> HIDE DEF T
  <2> QED
    BY <2>1 DEF IsList
<1> HIDE DEF T
<1>2. x \in T
  BY DEF T
<1>3. new \in Seq(T) /\ Len(new) = n + 1
  BY <1>1, <1>2
<1>4. new[n + 1] = x /\ \A i \in 1..n : new[i] = list[i]
  BY <1>1, <1>2
<1>5. DOMAIN new = 1..(n + 1)
  BY <1>1, <1>3
<1> HIDE DEF new, n
<1>6. DOMAIN new = 1..n \cup {n + 1} /\ n + 1 \notin 1..n
  BY <1>1, <1>5
<1>7. IsList(new)
  BY <1>3, ListOf
<1> QED
  BY <1>1, <1>3, <1>4, <1>6, <1>7 DEF new, n

\* A further argument changes nothing about the others.
LEMMA BelongsStays ==
  ASSUME NEW args, IsList(args), NEW a, NEW i \in DOMAIN args
  PROVE  /\ \A e : Belongs(Append(args, a), i, e) <=> Belongs(args, i, e)
         /\ \A o : Carries(Append(args, a), i, o) <=> Carries(args, i, o)
<1> DEFINE new == Append(args, a)
           n == Len(args)
<1>1. n \in Nat /\ DOMAIN args = 1..n
  BY ListItems
<1>2. \A j \in DOMAIN args : new[j] = args[j]
  BY Longer
<1> HIDE DEF new, n
<1>3. \A j \in 1..i : j \in DOMAIN args /\ \A k \in (j + 1)..i : k \in DOMAIN args
  BY <1>1
<1>4. \A j \in 1..i : new[j] = args[j] /\ \A k \in (j + 1)..i : new[k] = args[k]
  BY <1>2, <1>3
<1>5. ASSUME NEW e PROVE Belongs(new, i, e) <=> Belongs(args, i, e)
  <2>1. ASSUME NEW j \in 1..i
        PROVE  /\ new[j].key = "entry" /\ new[j].value = e <=>
                  args[j].key = "entry" /\ args[j].value = e
               /\ (\A k \in (j + 1)..i : new[k].key # "entry") <=>
                  (\A k \in (j + 1)..i : args[k].key # "entry")
    <3>1. new[j] = args[j]
      BY <1>4
    <3>2. \A k \in (j + 1)..i : new[k] = args[k]
      BY <1>4
    <3> QED
      BY <3>1, <3>2, Zenon
  <2> QED
    BY <2>1, Zenon DEF Belongs
<1>6. new[i] = args[i]
  BY <1>2
<1> QED
  BY <1>5, <1>6, Zenon DEF Carries, new

\* The last argument names an entry, or belongs to the one the argument before
\* it belongs to.
LEMMA BelongsNew ==
  ASSUME NEW args, IsList(args), NEW a, NEW e
  PROVE  LET new == Append(args, a)
             n == Len(args) IN
         /\ a.key = "entry" => Belongs(new, n + 1, a.value)
         /\ a.key # "entry" /\ Belongs(args, n, e) => Belongs(new, n + 1, e)
<1> DEFINE new == Append(args, a)
           n == Len(args)
<1>1. n \in Nat /\ DOMAIN args = 1..n
  BY ListItems
<1>2. new[n + 1] = a /\ \A j \in 1..n : new[j] = args[j]
  BY <1>1, Longer
<1> HIDE DEF new, n
<1>3. ASSUME a.key = "entry" PROVE Belongs(new, n + 1, a.value)
  <2>1. n + 1 \in 1..(n + 1) /\ ((n + 1) + 1)..(n + 1) = {}
    BY <1>1
  <2> QED
    BY <1>2, <1>3, <2>1 DEF Belongs
<1>4. ASSUME a.key # "entry", Belongs(args, n, e) PROVE Belongs(new, n + 1, e)
  <2>1. PICK j \in 1..n : /\ args[j].key = "entry" /\ args[j].value = e
                          /\ \A k \in (j + 1)..n : args[k].key # "entry"
    BY <1>4 DEF Belongs
  <2>2. j \in 1..(n + 1) /\ new[j] = args[j]
    BY <1>1, <1>2
  <2>3. ASSUME NEW k \in (j + 1)..(n + 1) PROVE new[k].key # "entry"
    <3>1. CASE k = n + 1
      BY <1>2, <1>4, <3>1
    <3>2. CASE k # n + 1
      <4>1. k \in 1..n /\ k \in (j + 1)..n
        BY <1>1, <3>2
      <4> QED
        BY <1>2, <2>1, <4>1
    <3> QED
      BY <3>1, <3>2
  <2> QED
    BY <2>1, <2>2, <2>3 DEF Belongs
<1> QED
  BY <1>3, <1>4 DEF new, n

\* entry= starts an override that holds nothing yet.
LEMMA EntryTyped ==
  ASSUME NEW args, IsList(args), NEW list, IsList(list), TypedAs(args, list),
         NEW a, a.key = "entry", \A k \in DOMAIN list : list[k].entry # a.value
  PROVE  TypedAs(Append(args, a), Append(list, [entry |-> a.value, leaf |-> <<>>]))
<1> DEFINE s == Append(args, a)
           o == [entry |-> a.value, leaf |-> <<>>]
           new == Append(list, o)
           m == Len(args) + 1
           n == Len(list) + 1
<1>1. DOMAIN s = DOMAIN args \cup {m} /\ s[m] = a /\ \A i \in DOMAIN args : s[i] = args[i]
  BY Longer
<1>2. DOMAIN new = DOMAIN list \cup {n} /\ new[n] = o /\ \A k \in DOMAIN list : new[k] = list[k]
  BY Longer
<1>3. o.entry = a.value /\ DOMAIN o.leaf = {}
  OBVIOUS
<1>4. \A i \in DOMAIN args : \A x : Carries(s, i, x) <=> Carries(args, i, x)
  BY BelongsStays
<1>5. s[m].key \notin Leaves
  BY <1>1 DEF Leaves
<1> HIDE DEF s, o, new, m, n
<1>6. \A k, j \in DOMAIN new : new[k].entry = new[j].entry => k = j
  BY <1>2, <1>3 DEF TypedAs
<1>7. ASSUME NEW i \in DOMAIN s, s[i].key \in Leaves
      PROVE  \E k \in DOMAIN new : Carries(s, i, new[k])
  <2>1. i \in DOMAIN args
    BY <1>1, <1>5, <1>7
  <2>2. PICK k \in DOMAIN list : Carries(args, i, list[k])
    BY <1>1, <1>7, <2>1 DEF TypedAs
  <2> QED
    BY <1>2, <1>4, <2>1, <2>2
<1>8. ASSUME NEW k \in DOMAIN new, NEW l \in DOMAIN new[k].leaf
      PROVE  l \in Leaves /\ \E i \in DOMAIN s : s[i].key = l /\ Carries(s, i, new[k])
  <2>1. k \in DOMAIN list /\ new[k] = list[k]
    BY <1>2, <1>3, <1>8
  <2>2. l \in Leaves /\ \E i \in DOMAIN args : args[i].key = l /\ Carries(args, i, list[k])
    BY <1>8, <2>1 DEF TypedAs
  <2> QED
    BY <1>1, <1>4, <2>1, <2>2
<1> QED
  BY <1>6, <1>7, <1>8 DEF TypedAs, s, new, o

\* Override c with leaf l set to v.
WithLeaf(c, l, v) ==
  [c EXCEPT !.leaf = [k \in DOMAIN c.leaf \cup {l} |-> IF k = l THEN v ELSE c.leaf[k]]]

\* A leaf goes to the override of the entry named last.
LEMMA LeafTyped ==
  ASSUME NEW args, IsList(args), NEW list, IsList(list), NEW c,
         c = [entry |-> c.entry, leaf |-> c.leaf],
         TypedAs(args, Append(list, c)), Belongs(args, Len(args), c.entry),
         NEW a, a.key \in Leaves, a.key \notin DOMAIN c.leaf
  PROVE  TypedAs(Append(args, a), Append(list, WithLeaf(c, a.key, a.value)))
<1> DEFINE s == Append(args, a)
           o == WithLeaf(c, a.key, a.value)
           old == Append(list, c)
           new == Append(list, o)
           m == Len(args) + 1
           n == Len(list) + 1
<1>1. DOMAIN s = DOMAIN args \cup {m} /\ s[m] = a /\ \A i \in DOMAIN args : s[i] = args[i]
  BY Longer
<1>2. DOMAIN new = DOMAIN list \cup {n} /\ new[n] = o /\ \A k \in DOMAIN list : new[k] = list[k]
  BY Longer
<1>3. DOMAIN old = DOMAIN list \cup {n} /\ old[n] = c /\ \A k \in DOMAIN list : old[k] = list[k]
      /\ n \notin DOMAIN list
  BY Longer
<1>4. /\ o.entry = c.entry
      /\ DOMAIN o.leaf = DOMAIN c.leaf \cup {a.key}
      /\ o.leaf[a.key] = a.value
      /\ \A k \in DOMAIN c.leaf : o.leaf[k] = c.leaf[k]
  <2> DEFINE f == [k \in DOMAIN c.leaf \cup {a.key} |-> IF k = a.key THEN a.value ELSE c.leaf[k]]
  <2>1. o.entry = c.entry /\ o.leaf = f
    BY DEF WithLeaf
  <2>2. /\ DOMAIN f = DOMAIN c.leaf \cup {a.key}
        /\ f[a.key] = a.value
        /\ \A k \in DOMAIN c.leaf : f[k] = c.leaf[k]
    OBVIOUS
  <2> HIDE DEF f, o
  <2> QED
    BY <2>1, <2>2
<1>5. \A i \in DOMAIN args : \A x : Carries(s, i, x) <=> Carries(args, i, x)
  BY BelongsStays
<1>6. Carries(s, m, o)
  <2>1. a.key # "entry"
    BY DEF Leaves
  <2>2. Belongs(s, m, c.entry)
    BY <2>1, BelongsNew
  <2> HIDE DEF s, o, m
  <2> QED
    BY <1>1, <1>4, <2>2 DEF Carries
<1>7. \A i : Carries(args, i, c) => Carries(args, i, o)
  <2> HIDE DEF o
  <2> QED
    BY <1>4, Zenon DEF Carries
<1> HIDE DEF s, o, new, old, m, n
<1>8. \A k, j \in DOMAIN old : old[k].entry = old[j].entry => k = j
  BY DEF TypedAs, old
<1>9. \A i \in DOMAIN args : args[i].key \in Leaves => \E k \in DOMAIN old : Carries(args, i, old[k])
  BY DEF TypedAs, old
<1>10. \A k \in DOMAIN old : \A l \in DOMAIN old[k].leaf :
         l \in Leaves /\ \E i \in DOMAIN args : args[i].key = l /\ Carries(args, i, old[k])
  BY DEF TypedAs, old
<1>11. \A k, j \in DOMAIN new : new[k].entry = new[j].entry => k = j
  <2>1. \A k \in DOMAIN new : k \in DOMAIN old /\ new[k].entry = old[k].entry
    BY <1>2, <1>3, <1>4
  <2> QED
    BY <1>8, <2>1
<1>12. ASSUME NEW i \in DOMAIN s, s[i].key \in Leaves
       PROVE  \E k \in DOMAIN new : Carries(s, i, new[k])
  <2>1. CASE i = m
    BY <1>2, <1>6, <2>1
  <2>2. CASE i \in DOMAIN args
    <3>1. PICK k \in DOMAIN old : Carries(args, i, old[k])
      BY <1>1, <1>9, <1>12, <2>2
    <3>2. CASE k = n
      BY <1>2, <1>3, <1>5, <1>7, <2>2, <3>1, <3>2
    <3>3. CASE k \in DOMAIN list
      BY <1>2, <1>3, <1>5, <2>2, <3>1, <3>3
    <3> QED
      BY <1>3, <3>2, <3>3
  <2> QED
    BY <1>1, <2>1, <2>2
<1>13. ASSUME NEW k \in DOMAIN new, NEW l \in DOMAIN new[k].leaf
       PROVE  l \in Leaves /\ \E i \in DOMAIN s : s[i].key = l /\ Carries(s, i, new[k])
  <2>1. CASE k \in DOMAIN list
    <3>1. new[k] = old[k] /\ k \in DOMAIN old
      BY <1>2, <1>3, <2>1
    <3> QED
      BY <1>1, <1>5, <1>10, <1>13, <3>1
  <2>2. CASE k = n /\ l = a.key
    BY <1>1, <1>2, <1>6, <2>2
  <2>3. CASE k = n /\ l # a.key
    <3>1. l \in DOMAIN c.leaf
      BY <1>2, <1>4, <1>13, <2>3
    <3>2. l \in Leaves /\ \E i \in DOMAIN args : args[i].key = l /\ Carries(args, i, c)
      BY <1>3, <1>10, <3>1
    <3> QED
      BY <1>1, <1>2, <1>5, <1>7, <2>3, <3>2
  <2> QED
    BY <1>2, <2>1, <2>2, <2>3
<1> QED
  BY <1>11, <1>12, <1>13 DEF TypedAs, s, new, o

IsOverride(o) ==
  /\ o = [entry |-> o.entry, leaf |-> o.leaf]
  /\ o.entry \in CopyIndexes
  /\ "target" \in DOMAIN o.leaf => o.leaf["target"] \in CopyNumbers \cup {Unknown}

\* Overrides that are not being parsed any more.
Finished(list) ==
  /\ IsList(list)
  /\ \A k \in DOMAIN list : IsOverride(list[k]) /\ DOMAIN list[k].leaf # {}

Built ==
  /\ IsList(wire)
  /\ \A k \in DOMAIN wire : /\ k \in DOMAIN overrides
                            /\ Buildable(overrides[k])
                            /\ wire[k] = Group(overrides[k])

\* What both a console and another client may send.
Sendable(payload) ==
  /\ IsList(payload)
  /\ \A k \in DOMAIN payload :
       /\ IsList(payload[k])
       /\ \A i \in Range(payload[k]) : i.leaf = "target" => i.value \in {Nothing} \cup Seq(0..255)

JoinOf(seqs) == CHOOSE f : Joins(f, seqs)

NothingDecoded == instances = <<>> /\ taken = 0 /\ groups = {}

Parsing ==
  /\ wire = <<>> /\ NothingDecoded
  /\ IsList(said)
  /\ Finished(overrides)
  /\ current # NoOverride => IsOverride(current) /\ Belongs(said, Len(said), current.entry)
  /\ TypedAs(said, Pushed)

Building ==
  /\ NothingDecoded
  /\ Finished(overrides)
  /\ IsList(said) /\ TypedAs(said, overrides)
  /\ Built

\* The operator's own request, or that of another client.
Sent ==
  /\ IsList(said)
  /\ said = <<>> => overrides = <<>>
  /\ said # <<>> => /\ Finished(overrides) /\ TypedAs(said, overrides)
                    /\ Built /\ Len(wire) = Len(overrides)

Decoding ==
  /\ Sent
  /\ Sendable(wire)
  /\ taken \in 0..Len(wire)
  /\ IsList(instances) /\ Distinct(instances)
  /\ instances = JoinOf(wire)[taken]
  /\ Range(instances) = UNION {Range(wire[k]) : k \in 1..taken}
  /\ \A i \in Range(instances) : PathOk(i)
  /\ groups = {i.entry : i \in Range(instances)}

CostTold ==
  /\ taken = Len(wire)
  /\ cost = IF Describable THEN [described |-> Described, targets |-> TargetValueBytes] ELSE NoCost

DuplicateInv ==
  /\ stage \in {"parsing", "building", "decoding", "decoded", "applied", "refused", "rejected"}
  /\ stage = "parsing" => Parsing
  /\ stage = "building" => Building
  /\ stage \in {"decoding", "decoded", "applied"} => Decoding
  /\ stage \in {"decoded", "applied"} => CostTold
  /\ stage = "applied" => Applicable /\ copy = FoldLeft(Override, Source, instances)
  /\ stage = "rejected" => said = <<>>

LEMMA EmptyList == IsList(<<>>) /\ DOMAIN <<>> = {} /\ Len(<<>>) = 0 /\ Range(<<>>) = {}
<1>1. <<>> \in Seq({}) /\ DOMAIN <<>> = {} /\ Len(<<>>) = 0
  OBVIOUS
<1>2. Range(<<>>) = {}
  BY <1>1 DEF Range
<1> QED
  BY <1>1, <1>2, ListOf

LEMMA DuplicateInitial == DuplicateInit => DuplicateInv
<1> SUFFICES ASSUME DuplicateInit PROVE DuplicateInv
  OBVIOUS
<1>1. Pushed = <<>>
  BY DEF DuplicateInit, Pushed
<1>2. TypedAs(<<>>, <<>>)
  BY EmptyList DEF TypedAs
<1>3. Finished(<<>>)
  BY EmptyList DEF Finished
<1>4. Parsing
  BY <1>1, <1>2, <1>3, EmptyList DEF Parsing, DuplicateInit, NothingDecoded
<1> QED
  BY <1>4 DEF DuplicateInit, DuplicateInv

LEMMA ArgumentKeys ==
  ASSUME NEW a \in Arguments
  PROVE  /\ a.key = "entry" => a.value \in CopyIndexes
         /\ a.key = "target" => a.value \in CopyNumbers \cup {Unknown}
BY NothingElse DEF Arguments, Leaves

LEMMA PushedFinished ==
  ASSUME Parsing
  PROVE  /\ IsList(Pushed)
         /\ Complete => Finished(Pushed)
<1>1. CASE current = NoOverride
  BY <1>1 DEF Pushed, Parsing, Finished
<1>2. CASE current # NoOverride
  <2>1. Pushed = Append(overrides, current)
    BY <1>2 DEF Pushed
  <2>2. IsList(overrides) /\ IsOverride(current)
    BY <1>2 DEF Parsing, Finished
  <2> DEFINE n == Len(overrides) + 1
  <2>3. /\ IsList(Pushed) /\ DOMAIN Pushed = DOMAIN overrides \cup {n}
        /\ Pushed[n] = current /\ \A k \in DOMAIN overrides : Pushed[k] = overrides[k]
    BY <2>1, <2>2, Longer
  <2> HIDE DEF n
  <2>4. Complete => DOMAIN current.leaf # {}
    BY <1>2 DEF Complete
  <2> QED
    BY <2>2, <2>3, <2>4 DEF Finished, Parsing
<1> QED
  BY <1>1, <1>2

LEMMA StartParsed ==
  ASSUME Parsing, NEW a \in Arguments, StartOverride(a), said' = Append(said, a), Parsed
  PROVE  Parsing'
<1> DEFINE o == [entry |-> a.value, leaf |-> <<>>]
<1>1. a.key = "entry" /\ Complete /\ overrides' = Pushed /\ current' = o
      /\ \A i \in DOMAIN Pushed : Pushed[i].entry # a.value
  BY DEF StartOverride, NewEntry
<1>2. a.value \in CopyIndexes
  BY <1>1, ArgumentKeys
<1>3. o.entry = a.value /\ o # NoOverride /\ IsOverride(o)
  <2>1. o.entry = a.value /\ o = [entry |-> o.entry, leaf |-> o.leaf] /\ DOMAIN o.leaf = {}
    OBVIOUS
  <2>2. NoOverride.entry = Nothing
    BY DEF NoOverride
  <2> HIDE DEF o
  <2> QED
    BY <1>2, <2>1, <2>2, NothingElse DEF IsOverride
<1>4. Pushed' = Append(Pushed, o)
  BY <1>1, <1>3 DEF Pushed
<1>5. IsList(Pushed) /\ Finished(Pushed)
  BY <1>1, PushedFinished
<1>6. IsList(said) /\ TypedAs(said, Pushed)
  BY DEF Parsing
<1>7. TypedAs(said', Pushed')
  BY <1>1, <1>4, <1>5, <1>6, EntryTyped
<1>8. IsList(said') /\ Len(said') = Len(said) + 1
  BY <1>6, Longer
<1>9. Belongs(said', Len(said'), o.entry)
  BY <1>1, <1>3, <1>6, <1>8, BelongsNew
<1>10. wire' = <<>> /\ NothingDecoded'
  BY DEF Parsing, NothingDecoded, Parsed
<1>11. Finished(overrides)'
  BY <1>1, <1>5 DEF Finished, IsOverride
<1> HIDE DEF o
<1>12. (current # NoOverride => IsOverride(current) /\ Belongs(said, Len(said), current.entry))'
  BY <1>1, <1>3, <1>9 DEF IsOverride
<1>13. IsList(said)' /\ TypedAs(said, Pushed)'
  BY <1>7, <1>8
<1> QED
  BY <1>10, <1>11, <1>12, <1>13 DEF Parsing

LEMMA LeafParsed ==
  ASSUME Parsing, NEW a \in Arguments, SetLeaf(a), said' = Append(said, a), Parsed
  PROVE  Parsing'
<1> DEFINE o == WithLeaf(current, a.key, a.value)
<1>1. a.key \in Leaves /\ current # NoOverride /\ a.key \notin DOMAIN current.leaf
      /\ current' = o /\ overrides' = overrides
  BY DEF SetLeaf, NewLeaf, WithLeaf
<1>2. IsOverride(current) /\ Belongs(said, Len(said), current.entry) /\ IsList(said)
      /\ IsList(overrides) /\ Finished(overrides)
  BY <1>1 DEF Parsing, Finished
<1>3. Pushed = Append(overrides, current)
  BY <1>1 DEF Pushed
<1>4. /\ o = [entry |-> o.entry, leaf |-> o.leaf] /\ o.entry = current.entry
      /\ DOMAIN o.leaf = DOMAIN current.leaf \cup {a.key}
      /\ o.leaf[a.key] = a.value
      /\ \A k \in DOMAIN current.leaf : o.leaf[k] = current.leaf[k]
  <2> DEFINE f == [k \in DOMAIN current.leaf \cup {a.key} |->
                     IF k = a.key THEN a.value ELSE current.leaf[k]]
  <2>1. current = [entry |-> current.entry, leaf |-> current.leaf]
    BY <1>2 DEF IsOverride
  <2>2. o.entry = current.entry /\ o.leaf = f /\ o = [entry |-> o.entry, leaf |-> o.leaf]
    BY <2>1 DEF WithLeaf
  <2>3. /\ DOMAIN f = DOMAIN current.leaf \cup {a.key}
        /\ f[a.key] = a.value
        /\ \A k \in DOMAIN current.leaf : f[k] = current.leaf[k]
    BY <1>1
  <2> HIDE DEF f, o
  <2> QED
    BY <2>2, <2>3
<1>5. TypedAs(said', Append(overrides, o))
  <2>1. current = [entry |-> current.entry, leaf |-> current.leaf]
    BY <1>2 DEF IsOverride
  <2>2. TypedAs(said, Append(overrides, current))
    BY <1>3 DEF Parsing
  <2> QED
    BY <1>1, <1>2, <2>1, <2>2, LeafTyped
<1> HIDE DEF o
<1>6. o # NoOverride /\ IsOverride(o)
  <2>1. NoOverride.entry = Nothing
    BY DEF NoOverride
  <2>2. o.entry \in CopyIndexes
    BY <1>2, <1>4 DEF IsOverride
  <2>3. "target" \in DOMAIN o.leaf => o.leaf["target"] \in CopyNumbers \cup {Unknown}
    <3>1. CASE a.key = "target"
      BY <1>4, <3>1, ArgumentKeys
    <3>2. CASE a.key # "target"
      BY <1>2, <1>4, <3>2 DEF IsOverride
    <3> QED
      BY <3>1, <3>2
  <2> QED
    BY <1>4, <2>1, <2>2, <2>3, NothingElse DEF IsOverride
<1>7. Pushed' = Append(overrides, o)
  BY <1>1, <1>6 DEF Pushed
<1>8. IsList(said') /\ Len(said') = Len(said) + 1
  BY <1>2, Longer
<1>9. Belongs(said', Len(said'), o.entry)
  <2>1. a.key # "entry"
    BY <1>1 DEF Leaves
  <2> QED
    BY <1>2, <1>4, <1>8, <2>1, BelongsNew
<1>10. wire' = <<>> /\ NothingDecoded'
  BY DEF Parsing, NothingDecoded, Parsed
<1>11. Finished(overrides)'
  BY <1>1, <1>2 DEF Finished, IsOverride
<1>12. (current # NoOverride => IsOverride(current) /\ Belongs(said, Len(said), current.entry))'
  BY <1>1, <1>6, <1>9 DEF IsOverride
<1>13. IsList(said)' /\ TypedAs(said, Pushed)'
  BY <1>5, <1>7, <1>8
<1> QED
  BY <1>10, <1>11, <1>12, <1>13 DEF Parsing

LEMMA EndParsed ==
  ASSUME Parsing, EndDuplicate, Complete
  PROVE  Building'
<1>1. overrides' = Pushed /\ said' = said /\ UNCHANGED <<wire, instances, taken, groups>>
  BY DEF EndDuplicate, Parsed
<1>2. Finished(Pushed) /\ IsList(said) /\ TypedAs(said, Pushed)
  BY PushedFinished DEF Parsing
<1>3. Finished(overrides)'
  BY <1>1, <1>2 DEF Finished, IsOverride
<1>4. Built'
  <2>1. wire' = <<>>
    BY <1>1 DEF Parsing
  <2> QED
    BY <2>1, EmptyList DEF Built
<1>5. NothingDecoded'
  BY <1>1 DEF Parsing, NothingDecoded
<1> QED
  BY <1>1, <1>2, <1>3, <1>4, <1>5 DEF Building

\* The value that is sent for a target that was typed.
LEMMA TargetSent ==
  ASSUME NEW o, IsOverride(o), Buildable(o), "target" \in DOMAIN o.leaf
  PROVE  LET value == LeafValue(o, "target") IN
         /\ value \in Seq(0..255)
         /\ Len(value) = Len(Source[o.entry].target)
         /\ Number(value) = o.leaf["target"]
<1> DEFINE n == o.leaf["target"]
           bytes == Source[o.entry].target
           w == Len(bytes)
           value == LeafValue(o, "target")
<1>1. n \in Nat
  BY NothingElse DEF IsOverride, Buildable
<1>2. bytes \in Seq(0..255)
  BY SourceValid DEF Buildable
<1>3. w \in Nat
  BY <1>2
<1>4. n < Weight(w)
  BY DEF Buildable, FitsWidth, Weight
<1>5. value = TargetBytes(n, w)
  BY DEF LeafValue
<1> HIDE DEF n, bytes, w, value
<1>6. value \in Seq(0..255) /\ Len(value) = w /\ Number(value) = n
  BY <1>1, <1>3, <1>4, <1>5, BytesOfNumber
<1> QED
  BY <1>6 DEF value, w, bytes, n

\* Whatever is sent is a value.
LEMMA ValueSent ==
  ASSUME NEW o, IsOverride(o), Buildable(o), NEW l \in DOMAIN o.leaf, l \in Leaves
  PROVE  /\ LeafValue(o, l) # Nothing
         /\ l # "target" => LeafValue(o, l) = <<l, o.leaf[l].name>>
<1>1. CASE l = "target"
  BY <1>1, TargetSent, NothingElse
<1>2. CASE l # "target"
  <2>1. LeafValue(o, l) = <<l, o.leaf[l].name>>
    BY <1>2 DEF LeafValue
  <2>2. o.leaf[l].name \in MatchingNames \cup CdaNames
    BY <1>2 DEF Buildable, Leaves
  <2>3. <<l, o.leaf[l].name>> \in Leaves \X (MatchingNames \cup CdaNames)
    BY <2>2
  <2> QED
    BY <1>2, <2>1, <2>3, NothingElse
<1> QED
  BY <1>1, <1>2

\* The maps that were built, of overrides that were typed.
LEMMA BuiltMaps ==
  ASSUME Finished(overrides), TypedAs(said, overrides), Built, NEW k \in DOMAIN wire
  PROVE  LET o == overrides[k] IN
         /\ k \in DOMAIN overrides /\ IsOverride(o) /\ Buildable(o)
         /\ DOMAIN o.leaf \subseteq Leaves
         /\ wire[k] = Group(o)
         /\ IsList(wire[k]) /\ Distinct(wire[k]) /\ Len(wire[k]) \in 1..3
         /\ Range(wire[k]) = {Item(o, l) : l \in DOMAIN o.leaf}
<1> DEFINE o == overrides[k]
<1>1. k \in DOMAIN overrides /\ Buildable(o) /\ wire[k] = Group(o)
  BY DEF Built
<1>2. IsOverride(o) /\ DOMAIN o.leaf # {}
  BY <1>1 DEF Finished
<1>3. DOMAIN o.leaf \subseteq Leaves
  BY <1>1 DEF TypedAs
<1> HIDE DEF o
<1> QED
  BY <1>1, <1>2, <1>3, GroupShape DEF o

\* An instance that the console has sent.
LEMMA ItemSent ==
  ASSUME NEW o, IsOverride(o), Buildable(o), DOMAIN o.leaf \subseteq Leaves,
         NEW i \in {Item(o, l) : l \in DOMAIN o.leaf}
  PROVE  /\ PathOk(i)
         /\ i.entry = o.entry /\ i.entry \in DOMAIN Source
         /\ i.leaf \in DOMAIN o.leaf /\ i.value = LeafValue(o, i.leaf)
         /\ i.value # Nothing
         /\ i.leaf = "target" => i.value \in Seq(0..255)
<1>1. PICK l \in DOMAIN o.leaf : i = Item(o, l)
  OBVIOUS
<1>2. i.destination /\ i.entry = o.entry /\ i.leaf = l /\ i.value = LeafValue(o, l)
  BY <1>1, ItemFields
<1>3. l \in Leaves /\ o.entry \in DOMAIN Source
  BY DEF Buildable
<1>4. LeafValue(o, l) # Nothing
  BY <1>3, ValueSent
<1>5. l = "target" => LeafValue(o, l) \in Seq(0..255)
  BY TargetSent
<1> QED
  BY <1>2, <1>3, <1>4, <1>5 DEF PathOk

LEMMA BuiltSendable ==
  ASSUME Finished(overrides), TypedAs(said, overrides), Built
  PROVE  Sendable(wire)
<1>1. IsList(wire)
  BY DEF Built
<1>2. ASSUME NEW k \in DOMAIN wire
      PROVE  /\ IsList(wire[k])
             /\ \A i \in Range(wire[k]) : i.leaf = "target" => i.value \in {Nothing} \cup Seq(0..255)
  <2> DEFINE o == overrides[k]
  <2>1. /\ IsOverride(o) /\ Buildable(o) /\ DOMAIN o.leaf \subseteq Leaves /\ IsList(wire[k])
        /\ Range(wire[k]) = {Item(o, l) : l \in DOMAIN o.leaf}
    BY BuiltMaps
  <2> HIDE DEF o
  <2> QED
    BY <2>1, ItemSent
<1> QED
  BY <1>1, <1>2 DEF Sendable

LEMMA JoinOfRun ==
  ASSUME NEW payload, Sendable(payload)
  PROVE  Joins(JoinOf(payload), payload)
BY FlattenRun DEF Sendable, JoinOf

\* Decoding starts with nothing decoded.
LEMMA DecodingStarts ==
  ASSUME Sent, Sendable(wire), NothingDecoded
  PROVE  Decoding
<1>1. JoinOf(wire)[0] = <<>>
  BY JoinOfRun DEF Joins
<1>2. Len(wire) \in Nat
  BY ListItems DEF Sendable
<1>3. taken = 0 /\ instances = <<>> /\ groups = {}
  BY DEF NothingDecoded
<1>4. taken \in 0..Len(wire) /\ 1..taken = {}
  BY <1>2, <1>3
<1>5. IsList(instances) /\ Distinct(instances) /\ Range(instances) = {}
  BY <1>3, EmptyList DEF Distinct
<1> QED
  BY <1>1, <1>3, <1>4, <1>5 DEF Decoding

LEMMA BuildStep ==
  ASSUME Building, BuildNext, stage' = stage
  PROVE  Building'
<1> DEFINE n == Len(wire) + 1
           o == overrides[n]
<1>1. UNCHANGED <<said, overrides, instances, taken, groups>> /\ Len(wire) < Len(overrides)
      /\ stage = "building"
  BY DEF BuildNext
<1>2. Buildable(o) /\ wire' = Append(wire, Group(o))
  BY <1>1 DEF BuildNext
<1>3. IsList(wire) /\ \A k \in DOMAIN wire : /\ k \in DOMAIN overrides /\ Buildable(overrides[k])
                                            /\ wire[k] = Group(overrides[k])
  BY DEF Building, Built
<1>4. /\ IsList(wire') /\ DOMAIN wire' = DOMAIN wire \cup {n}
      /\ wire'[n] = Group(o) /\ \A k \in DOMAIN wire : wire'[k] = wire[k]
  BY <1>2, <1>3, Longer
<1>5. n \in DOMAIN overrides
  <2>1. Len(wire) \in Nat
    BY <1>3, ListItems
  <2>2. Len(overrides) \in Nat /\ DOMAIN overrides = 1..Len(overrides)
    BY ListItems DEF Building, Finished
  <2> QED
    BY <1>1, <2>1, <2>2
<1> HIDE DEF n
<1>6. Built'
  <2>1. \A k \in DOMAIN wire' : /\ k \in DOMAIN overrides /\ Buildable(overrides[k])
                               /\ wire'[k] = Group(overrides[k])
    BY <1>2, <1>3, <1>4, <1>5
  <2> QED
    BY <1>1, <1>4, <2>1 DEF Built, Buildable, Group, Part, LeafValue
<1>7. NothingDecoded'
  BY <1>1 DEF Building, NothingDecoded
<1>8. Finished(overrides)' /\ IsList(said)' /\ TypedAs(said, overrides)'
  BY <1>1 DEF Building, Finished, IsOverride
<1> QED
  BY <1>6, <1>7, <1>8 DEF Building

LEMMA SendStep ==
  ASSUME Building, Len(wire) = Len(overrides)
  PROVE  Decoding
<1>1. IsList(said) /\ Finished(overrides) /\ TypedAs(said, overrides) /\ Built /\ NothingDecoded
  BY DEF Building
<1>2. ASSUME said = <<>> PROVE overrides = <<>>
  <2>1. DOMAIN said = {}
    BY <1>2, EmptyList
  <2>2. DOMAIN overrides = {}
    BY <1>1, <2>1 DEF Finished, TypedAs
  <2>3. IsList(overrides) /\ DOMAIN overrides = 1..Len(overrides) /\ Len(overrides) \in Nat
    BY <1>1, ListItems DEF Finished
  <2>4. Len(overrides) = 0
    BY <2>2, <2>3
  <2> QED
    BY <2>3, <2>4 DEF IsList
<1>3. Sent
  BY <1>1, <1>2 DEF Sent
<1>4. Sendable(wire)
  BY <1>1, BuiltSendable
<1> QED
  BY <1>1, <1>3, <1>4, DecodingStarts

\* Where the operator's own request is decoded, every map is as it should be.
LEMMA OwnMapOk ==
  ASSUME Decoding, said # <<>>, taken < Len(wire)
  PROVE  MapOk(wire[taken + 1])
<1> DEFINE n == taken + 1
           o == overrides[n]
           map == wire[n]
<1>1. Finished(overrides) /\ TypedAs(said, overrides) /\ Built
  BY DEF Decoding, Sent
<1>2. n \in DOMAIN wire /\ \A k \in 1..taken : k \in DOMAIN wire /\ k # n
  <2>1. taken \in 0..Len(wire) /\ Len(wire) \in Nat /\ DOMAIN wire = 1..Len(wire)
    BY ListItems DEF Decoding, Sendable
  <2> QED
    BY <2>1
<1> HIDE DEF n
<1>3. /\ n \in DOMAIN overrides /\ IsOverride(o) /\ Buildable(o) /\ DOMAIN o.leaf \subseteq Leaves
      /\ Distinct(map) /\ Len(map) \in 1..3 /\ Range(map) = {Item(o, l) : l \in DOMAIN o.leaf}
  BY <1>1, <1>2, BuiltMaps
<1>4. \A i \in Range(map) : PathOk(i) /\ i.entry = o.entry
  BY <1>3, ItemSent
<1>5. o.entry \notin groups
  <2> SUFFICES ASSUME NEW i \in Range(instances), i.entry = o.entry PROVE FALSE
    BY DEF Decoding
  <2>1. PICK k \in 1..taken : i \in Range(wire[k])
    BY DEF Decoding
  <2> DEFINE p == overrides[k]
  <2>2. /\ k \in DOMAIN overrides /\ IsOverride(p) /\ Buildable(p) /\ DOMAIN p.leaf \subseteq Leaves
        /\ Range(wire[k]) = {Item(p, l) : l \in DOMAIN p.leaf}
    BY <1>1, <1>2, BuiltMaps
  <2>3. i.entry = p.entry
    <3> HIDE DEF p
    <3> QED
      BY <2>1, <2>2, ItemSent
  <2> QED
    BY <1>1, <1>2, <1>3, <2>2, <2>3 DEF TypedAs
<1>6. \A i \in DOMAIN map : map[i] \in Range(map)
  BY DEF Range
<1> HIDE DEF map
<1>7. MapOk(map)
  BY <1>3, <1>4, <1>5, <1>6 DEF MapOk, EntriesOf, Distinct
<1> QED
  BY <1>7 DEF map, n

LEMMA SentStays ==
  ASSUME Sent, UNCHANGED <<said, overrides, wire>>
  PROVE  Sent'
<1>1. Built => Built'
  BY DEF Built, Buildable, Group, Part, LeafValue
<1>2. Finished(overrides) => Finished(overrides)'
  BY DEF Finished, IsOverride
<1> QED
  BY <1>1, <1>2 DEF Sent

LEMMA DecodeStep ==
  ASSUME Decoding, taken < Len(wire), MapOk(wire[taken + 1]),
         instances' = instances \o wire[taken + 1],
         groups' = groups \cup EntriesOf(wire[taken + 1]),
         taken' = taken + 1,
         UNCHANGED <<said, overrides, wire>>
  PROVE  Decoding'
<1> DEFINE n == taken + 1
           map == wire[n]
           joined == JoinOf(wire)
<1>1. /\ taken \in 0..Len(wire) /\ Len(wire) \in Nat /\ DOMAIN wire = 1..Len(wire)
      /\ Sendable(wire)
  BY ListItems DEF Decoding, Sendable
<1>2. n \in 0..Len(wire) /\ n \in DOMAIN wire /\ n \in 1..Len(wire) /\ 1..n = 1..taken \cup {n}
      /\ n - 1 = taken
  BY <1>1
<1>3. IsList(map) /\ IsList(instances) /\ Distinct(instances)
  BY <1>1, <1>2 DEF Sendable, Decoding
<1>4. Distinct(map) /\ (\A i \in DOMAIN map : PathOk(map[i])) /\ EntriesOf(map) \cap groups = {}
  BY DEF MapOk, Distinct
<1>5. \A i \in Range(map) : PathOk(i)
  BY <1>4 DEF Range
<1>6. EntriesOf(map) = {i.entry : i \in Range(map)}
  BY DEF EntriesOf, Range
<1> HIDE DEF n, map
<1>7. instances' = instances \o map /\ taken' = n /\ groups' = groups \cup EntriesOf(map)
  BY DEF map, n
<1>8. \A i \in Range(instances), j \in Range(map) : Key(i) # Key(j)
  BY <1>4, <1>6 DEF Decoding, Key
<1>9. IsList(instances') /\ Range(instances') = Range(instances) \cup Range(map) /\ Distinct(instances')
  BY <1>3, <1>4, <1>7, <1>8, ListsJoined, JoinedRange
<1>10. instances' = joined[n]
  <2>1. \A k \in 1..Len(wire) : joined[k] = joined[k - 1] \o wire[k]
    BY <1>1, JoinOfRun DEF Joins
  <2> HIDE DEF joined
  <2>2. instances = joined[n - 1]
    BY <1>2 DEF Decoding, joined
  <2> QED
    BY <1>2, <1>7, <2>1, <2>2 DEF map
<1>11. Range(instances') = UNION {Range(wire[k]) : k \in 1..n}
  <2>1. Range(instances) = UNION {Range(wire[k]) : k \in 1..taken}
    BY DEF Decoding
  <2> QED
    BY <1>2, <1>9, <2>1 DEF map
<1>12. \A i \in Range(instances') : PathOk(i)
  BY <1>5, <1>9 DEF Decoding
<1>13. groups' = {i.entry : i \in Range(instances')}
  BY <1>6, <1>7, <1>9 DEF Decoding
<1>14. Sent'
  BY SentStays DEF Decoding
<1>15. Sendable(wire)'
  BY <1>1 DEF Sendable
<1>16. taken' \in 0..Len(wire')
  BY <1>2, <1>7
<1>17. wire' = wire
  OBVIOUS
<1> HIDE DEF joined
<1>18. instances' = JoinOf(wire')[taken']
  BY <1>7, <1>10, <1>17 DEF joined
<1>19. Range(instances') = UNION {Range(wire'[k]) : k \in 1..taken'}
  BY <1>7, <1>11, <1>17
<1> QED
  BY <1>9, <1>12, <1>13, <1>14, <1>15, <1>16, <1>18, <1>19 DEF Decoding, Distinct, PathOk

LEMMA DecodingStays ==
  ASSUME Decoding, UNCHANGED <<said, overrides, wire, instances, taken, groups>>
  PROVE  Decoding'
<1>1. Sent'
  BY SentStays DEF Decoding
<1>2. Sendable(wire)'
  BY DEF Sendable, Decoding
<1> QED
  BY <1>1, <1>2 DEF Decoding, Distinct, PathOk

LEMMA CostStays ==
  ASSUME CostTold, UNCHANGED <<wire, instances, taken, cost>>
  PROVE  CostTold'
BY DEF CostTold, Describable, Described, TargetValueBytes, Label

\* What the console has sent can be applied.
LEMMA OwnApplicable ==
  ASSUME Decoding, said # <<>>
  PROVE  Applicable
<1>1. Finished(overrides) /\ TypedAs(said, overrides) /\ Built
  BY DEF Decoding, Sent
<1>2. taken \in 0..Len(wire) /\ Len(wire) \in Nat /\ DOMAIN wire = 1..Len(wire)
  BY ListItems DEF Decoding, Sendable
<1>3. ASSUME NEW i \in Range(instances)
      PROVE  i.entry \in DOMAIN Source /\ i.value # Nothing
  <2>1. PICK k \in 1..taken : i \in Range(wire[k])
    BY DEF Decoding
  <2>2. k \in DOMAIN wire
    BY <1>2
  <2> DEFINE p == overrides[k]
  <2>3. /\ IsOverride(p) /\ Buildable(p) /\ DOMAIN p.leaf \subseteq Leaves
        /\ Range(wire[k]) = {Item(p, l) : l \in DOMAIN p.leaf}
    BY <1>1, <2>2, BuiltMaps
  <2> HIDE DEF p
  <2> QED
    BY <2>1, <2>3, ItemSent
<1>4. Distinct(instances)
  BY DEF Decoding
<1> QED
  BY <1>3, <1>4 DEF Applicable, Range, Distinct

LEMMA PayloadSendable ==
  ASSUME NEW payload \in Payloads
  PROVE  Sendable(payload)
<1>1. IsList(payload)
  BY PayloadsValid DEF IsList
<1>2. ASSUME NEW k \in DOMAIN payload
      PROVE  /\ IsList(payload[k])
             /\ \A i \in Range(payload[k]) : i.leaf = "target" => i.value \in {Nothing} \cup Seq(0..255)
  <2>1. payload[k] \in Range(payload)
    BY DEF Range
  <2> QED
    BY <2>1, PayloadsValid DEF IsList
<1> QED
  BY <1>1, <1>2 DEF Sendable

LEMMA DuplicateStep == DuplicateInv /\ [DuplicateNext]_duplicateVars => DuplicateInv'
<1> SUFFICES ASSUME DuplicateInv, [DuplicateNext]_duplicateVars PROVE DuplicateInv'
  OBVIOUS
<1>1. ASSUME NEW a \in Arguments, ReadDuplicateArgument(a)
      PROVE  DuplicateInv'
  <2>1. stage = "parsing" /\ Parsing /\ said' = Append(said, a) /\ Parsed
    BY <1>1 DEF ReadDuplicateArgument, DuplicateInv
  <2>2. CASE StartOverride(a)
    <3>1. stage' = "parsing" /\ Parsing'
      BY <2>1, <2>2, StartParsed DEF StartOverride
    <3> QED
      BY <3>1 DEF DuplicateInv
  <2>3. CASE SetLeaf(a)
    <3>1. stage' = "parsing" /\ Parsing'
      BY <2>1, <2>3, LeafParsed DEF SetLeaf
    <3> QED
      BY <3>1 DEF DuplicateInv
  <2>4. CASE RefuseArgument(a)
    <3>1. stage' = "refused"
      BY <2>4 DEF RefuseArgument
    <3> QED
      BY <3>1 DEF DuplicateInv
  <2> QED
    BY <1>1, <2>2, <2>3, <2>4 DEF ReadDuplicateArgument
<1>2. CASE EndDuplicate
  <2>1. stage = "parsing" /\ Parsing
    BY <1>2 DEF EndDuplicate, DuplicateInv
  <2>2. CASE Complete
    <3>1. stage' = "building" /\ Building'
      BY <1>2, <2>1, <2>2, EndParsed DEF EndDuplicate
    <3> QED
      BY <3>1 DEF DuplicateInv
  <2>3. CASE ~Complete
    <3>1. stage' = "refused"
      BY <1>2, <2>3 DEF EndDuplicate
    <3> QED
      BY <3>1 DEF DuplicateInv
  <2> QED
    BY <2>2, <2>3
<1>3. CASE BuildNext
  <2>1. stage = "building" /\ Building
    BY <1>3 DEF BuildNext, DuplicateInv
  <2>2. CASE stage' = stage
    <3>1. stage' = "building" /\ Building'
      BY <1>3, <2>1, <2>2, BuildStep
    <3> QED
      BY <3>1 DEF DuplicateInv
  <2>3. CASE stage' = "refused"
    BY <2>3 DEF DuplicateInv
  <2> QED
    BY <1>3, <2>2, <2>3 DEF BuildNext
<1>4. CASE Send
  <2>1. stage = "building" /\ Building /\ stage' = "decoding" /\ Len(wire) = Len(overrides)
        /\ UNCHANGED <<said, overrides, wire, instances, taken, groups>>
    BY <1>4 DEF Send, DuplicateInv
  <2>2. Decoding'
    BY <2>1, SendStep, DecodingStays
  <2> QED
    BY <2>1, <2>2 DEF DuplicateInv
<1>5. CASE ClientSendsPayload
  <2>1. /\ Parsing /\ said = <<>> /\ wire' \in Payloads /\ stage' = "decoding"
        /\ UNCHANGED <<said, overrides, instances, taken, groups>>
    BY <1>5 DEF ClientSendsPayload, DuplicateInv
  <2>2. overrides = <<>>
    <3>1. DOMAIN said = {}
      BY <2>1, EmptyList
    <3>2. DOMAIN overrides \subseteq DOMAIN Pushed /\ \A k \in DOMAIN overrides : Pushed[k] = overrides[k]
      <4>1. IsList(overrides)
        BY <2>1 DEF Parsing, Finished
      <4> QED
        BY <4>1, Longer DEF Pushed
    <3>3. DOMAIN overrides = {}
      BY <2>1, <3>1, <3>2 DEF Parsing, Finished, TypedAs
    <3>4. IsList(overrides) /\ DOMAIN overrides = 1..Len(overrides) /\ Len(overrides) \in Nat
      BY <2>1, ListItems DEF Parsing, Finished
    <3>5. Len(overrides) = 0
      BY <3>3, <3>4
    <3> QED
      BY <3>4, <3>5 DEF IsList
  <2>3. Sent'
    BY <2>1, <2>2 DEF Sent, Parsing
  <2>4. Sendable(wire)'
    BY <2>1, PayloadSendable DEF Sendable
  <2>5. NothingDecoded'
    BY <2>1 DEF Parsing, NothingDecoded
  <2>6. Decoding'
    BY <2>3, <2>4, <2>5, DecodingStarts, PTL
  <2> QED
    BY <2>1, <2>6 DEF DuplicateInv
<1>6. CASE DecodeNext
  <2>1. stage = "decoding" /\ Decoding /\ taken < Len(wire) /\ UNCHANGED <<said, overrides, wire>>
    BY <1>6 DEF DecodeNext, DuplicateInv
  <2>2. CASE MapOk(wire[taken + 1])
    <3>1. stage' = "decoding" /\ Decoding'
      BY <1>6, <2>1, <2>2, DecodeStep DEF DecodeNext
    <3> QED
      BY <3>1 DEF DuplicateInv
  <2>3. CASE ~MapOk(wire[taken + 1])
    <3>1. stage' = "rejected" /\ said' = said
      BY <1>6, <2>3 DEF DecodeNext
    <3>2. said = <<>>
      BY <2>1, <2>3, OwnMapOk
    <3> QED
      BY <3>1, <3>2 DEF DuplicateInv
  <2> QED
    BY <2>2, <2>3
<1>7. CASE Describe
  <2>1. stage = "decoding" /\ Decoding /\ stage' = "decoded" /\ taken = Len(wire)
        /\ UNCHANGED <<said, overrides, wire, instances, taken, groups>>
    BY <1>7 DEF Describe, DuplicateInv
  <2>2. Decoding'
    BY <2>1, DecodingStays
  <2>3. CostTold'
    BY <1>7, <2>1 DEF Describe, CostTold, Describable, Described, TargetValueBytes, Label
  <2> QED
    BY <2>1, <2>2, <2>3 DEF DuplicateInv
<1>8. CASE Apply
  <2>1. stage = "decoded" /\ Decoding /\ CostTold
        /\ UNCHANGED <<said, overrides, wire, instances, taken, groups, cost>>
    BY <1>8 DEF Apply, DuplicateInv
  <2>2. Decoding' /\ CostTold'
    BY <2>1, DecodingStays, CostStays
  <2>3. CASE Applicable
    <3>1. stage' = "applied" /\ copy' = FoldLeft(Override, Source, instances)
      BY <1>8, <2>3 DEF Apply
    <3>2. Applicable' /\ copy' = FoldLeft(Override, Source, instances')
      BY <2>1, <2>3, <3>1 DEF Applicable
    <3> QED
      BY <2>2, <3>1, <3>2 DEF DuplicateInv
  <2>4. CASE ~Applicable
    <3>1. stage' = "rejected" /\ said = <<>>
      BY <1>8, <2>1, <2>4, OwnApplicable DEF Apply
    <3> QED
      BY <2>1, <3>1 DEF DuplicateInv
  <2> QED
    BY <2>3, <2>4
<1>9. CASE UNCHANGED duplicateVars
  <2>1. UNCHANGED <<stage, said, current, overrides, wire, instances, taken, groups, cost, copy>>
    BY <1>9 DEF duplicateVars
  <2>2. Decoding => Decoding'
    BY <2>1, DecodingStays
  <2>3. CostTold => CostTold'
    BY <2>1, CostStays
  <2>4. Parsing => Parsing'
    BY <2>1 DEF Parsing, NothingDecoded, Finished, IsOverride, Pushed
  <2>5. Building => Building'
    BY <2>1 DEF Building, NothingDecoded, Finished, IsOverride, Built, Buildable, Group, Part, LeafValue
  <2>6. Applicable => Applicable'
    BY <2>1 DEF Applicable
  <2>7. copy = FoldLeft(Override, Source, instances) => copy' = FoldLeft(Override, Source, instances')
    BY <2>1
  <2> QED
    BY <2>1, <2>2, <2>3, <2>4, <2>5, <2>6, <2>7 DEF DuplicateInv
<1> QED
  BY <1>1, <1>2, <1>3, <1>4, <1>5, <1>6, <1>7, <1>8, <1>9 DEF DuplicateNext

\* The arguments of a command, the overrides and the instances they become.
LEMMA EntryIs ==
  ASSUME IsList(said), NEW i \in DOMAIN said, NEW e, Belongs(said, i, e)
  PROVE  EntryOf(i) = e
<1> DEFINE At(j) == /\ said[j].key = "entry" /\ \A k \in (j + 1)..i : said[k].key # "entry"
           c == CHOOSE j \in 1..i : At(j)
<1>1. PICK j \in 1..i : At(j) /\ said[j].value = e
  BY DEF Belongs
<1>2. c \in 1..i /\ At(c)
  <2> HIDE DEF At
  <2> QED
    BY <1>1
<1>3. EntryOf(i) = said[c].value
  BY DEF EntryOf
<1>4. i \in Nat
  BY ListItems
<1> HIDE DEF c
<1>5. j = c
  <2>1. j < c => c \in (j + 1)..i
    BY <1>2, <1>4
  <2>2. c < j => j \in (c + 1)..i
    BY <1>2, <1>4
  <2>3. j < c \/ c < j \/ j = c
    BY <1>2, <1>4
  <2> QED
    BY <1>1, <1>2, <2>1, <2>2, <2>3
<1> QED
  BY <1>1, <1>3, <1>5

\* What is applied is what the operator has typed.
LEMMA TypedThenCopied == DuplicateInv => TypedIsInstalled
<1> SUFFICES ASSUME DuplicateInv PROVE TypedIsInstalled
  OBVIOUS
<1>1. SentIsDecoded
  BY DEF SentIsDecoded, DuplicateInv
<1>2. ASSUME stage = "applied", overrides # <<>>, NEW e \in DOMAIN Source, NEW l \in Leaves
      PROVE  LET typed == {i \in DOMAIN said : said[i].key = l /\ EntryOf(i) = e} IN
             IF typed = {} THEN copy[e][l] = Source[e][l]
             ELSE /\ \A i \in typed : Means(copy[e][l], l, said[i].value)
                  /\ l = "target" => Len(copy[e][l]) = Len(Source[e][l])
  <2> DEFINE typed == {i \in DOMAIN said : said[i].key = l /\ EntryOf(i) = e}
  <2>1. Decoding /\ CostTold /\ Applicable /\ copy = FoldLeft(Override, Source, instances)
    BY <1>2 DEF DuplicateInv
  <2>2. /\ IsList(said) /\ said # <<>> /\ Finished(overrides) /\ TypedAs(said, overrides)
        /\ Built /\ Len(wire) = Len(overrides)
    BY <1>2, <2>1 DEF Decoding, Sent
  <2>3. DOMAIN wire = DOMAIN overrides /\ DOMAIN wire = 1..taken
    <3>1. DOMAIN wire = 1..Len(wire)
      BY <2>1, ListItems DEF Decoding, Sendable
    <3>2. DOMAIN overrides = 1..Len(overrides)
      BY <2>2, ListItems DEF Finished
    <3> QED
      BY <2>1, <2>2, <3>1, <3>2 DEF CostTold
  <2>4. Sets(instances) /\ Distinct(instances)
    BY <2>1 DEF Sets, Decoding, Applicable, PathOk, Range
  <2>5. /\ \A i \in Range(instances) : i.entry = e /\ i.leaf = l => copy[e][l] = i.value
        /\ (\A i \in Range(instances) : i.entry # e \/ i.leaf # l) => copy[e][l] = Source[e][l]
    BY <2>1, <2>4, CopyShape DEF Distinct, Range
  <2>6. Range(instances) = UNION {Range(wire[k]) : k \in DOMAIN wire}
    BY <2>1, <2>3 DEF Decoding
  <2>7. ASSUME NEW i \in typed
        PROVE  \E o : /\ IsOverride(o) /\ Buildable(o) /\ DOMAIN o.leaf \subseteq Leaves
                      /\ l \in DOMAIN o.leaf /\ o.leaf[l] = said[i].value /\ o.entry = e
                      /\ copy[e][l] = LeafValue(o, l)
    <3>1. i \in DOMAIN said /\ said[i].key = l /\ EntryOf(i) = e
      OBVIOUS
    <3>2. PICK k \in DOMAIN overrides : Carries(said, i, overrides[k])
      BY <2>2, <3>1 DEF TypedAs
    <3> DEFINE o == overrides[k]
    <3>3. l \in DOMAIN o.leaf /\ o.leaf[l] = said[i].value /\ Belongs(said, i, o.entry)
      BY <3>1, <3>2 DEF Carries
    <3>4. o.entry = e
      BY <2>2, <3>1, <3>3, EntryIs
    <3>5. /\ IsOverride(o) /\ Buildable(o) /\ DOMAIN o.leaf \subseteq Leaves
          /\ Range(wire[k]) = {Item(o, m) : m \in DOMAIN o.leaf}
      BY <2>2, <2>3, BuiltMaps
    <3> HIDE DEF o
    <3>6. Item(o, l) \in Range(instances)
      BY <2>3, <2>6, <3>3, <3>5
    <3>7. copy[e][l] = LeafValue(o, l)
      BY <2>5, <3>4, <3>6, ItemFields
    <3> QED
      BY <3>3, <3>4, <3>5, <3>7
  <2>8. CASE typed = {}
    <3> SUFFICES ASSUME NEW i \in Range(instances), i.entry = e, i.leaf = l PROVE FALSE
      BY <2>5, <2>8
    <3>1. PICK k \in DOMAIN wire : i \in Range(wire[k])
      BY <2>6
    <3> DEFINE o == overrides[k]
    <3>2. /\ k \in DOMAIN overrides /\ IsOverride(o) /\ Buildable(o) /\ DOMAIN o.leaf \subseteq Leaves
          /\ Range(wire[k]) = {Item(o, m) : m \in DOMAIN o.leaf}
      BY <2>2, <2>3, BuiltMaps
    <3>3. o.entry = e /\ l \in DOMAIN o.leaf
      <4> HIDE DEF o
      <4> QED
        BY <3>1, <3>2, ItemSent
    <3>4. PICK j \in DOMAIN said : said[j].key = l /\ Carries(said, j, o)
      BY <2>2, <3>2, <3>3 DEF TypedAs
    <3>5. EntryOf(j) = e
      BY <2>2, <3>3, <3>4, EntryIs DEF Carries
    <3> QED
      BY <2>8, <3>4, <3>5
  <2>9. ASSUME NEW i \in typed
        PROVE  /\ Means(copy[e][l], l, said[i].value)
               /\ l = "target" => Len(copy[e][l]) = Len(Source[e][l])
    <3>1. PICK o : /\ IsOverride(o) /\ Buildable(o) /\ DOMAIN o.leaf \subseteq Leaves
                   /\ l \in DOMAIN o.leaf /\ o.leaf[l] = said[i].value /\ o.entry = e
                   /\ copy[e][l] = LeafValue(o, l)
      BY <2>7
    <3>2. CASE l = "target"
      <4>1. Len(copy[e][l]) = Len(Source[e].target) /\ Number(copy[e][l]) = said[i].value
        BY <3>1, <3>2, TargetSent
      <4> QED
        BY <3>2, <4>1 DEF Means
    <3>3. CASE l # "target"
      BY <3>1, <3>3, ValueSent DEF Means
    <3> QED
      BY <3>2, <3>3
  <2> HIDE DEF typed
  <2>10. CASE typed # {}
    BY <2>9, <2>10 DEF typed
  <2> QED
    BY <2>8, <2>10 DEF typed
<1>3. CopyIsWhatWasTyped
  BY <1>2 DEF CopyIsWhatWasTyped
<1> QED
  BY <1>1, <1>3 DEF TypedIsInstalled

\* The places of the bytes of the i-th instance, if it sets a target.
Places(i, seq) ==
  IF seq[i].leaf = "target" THEN {seq[i].entry} \X DOMAIN seq[i].value ELSE {}

\* The bytes of all targets are counted one target after the other.
LEMMA TargetBytesCounted ==
  ASSUME NEW seq, IsList(seq), Distinct(seq),
         \A i \in DOMAIN seq : seq[i].leaf = "target" => seq[i].value \in Seq(0..255)
  PROVE  Total([i \in DOMAIN seq |-> IF seq[i].leaf = "target" THEN Len(seq[i].value) ELSE 0])
           = Cardinality(UNION {Places(i, seq) : i \in DOMAIN seq})
<1> DEFINE n == Len(seq)
           lens == [i \in DOMAIN seq |-> IF seq[i].leaf = "target" THEN Len(seq[i].value) ELSE 0]
           P(i) == Places(i, seq)
           U(k) == UNION {P(i) : i \in 1..k}
<1>1. n \in Nat /\ DOMAIN seq = 1..n
  BY ListItems
<1>2. \A i \in 1..n : lens[i] \in Nat
  <2> TAKE i \in 1..n
  <2>1. CASE seq[i].leaf = "target"
    <3>1. Len(seq[i].value) \in Nat
      BY <1>1, <2>1, Items
    <3> QED
      BY <1>1, <2>1, <3>1
  <2>2. CASE seq[i].leaf # "target"
    BY <1>1, <2>2
  <2> QED
    BY <2>1, <2>2
<1>3. lens \in Seq(Nat) /\ Len(lens) = n
  <2>1. lens = [i \in 1..n |-> lens[i]]
    BY <1>1
  <2> HIDE DEF lens, n
  <2> QED
    BY <1>1, <1>2, <2>1
<1>4. \A i \in 1..n : IsFiniteSet(P(i)) /\ Cardinality(P(i)) = lens[i]
  <2> TAKE i \in 1..n
  <2>1. CASE seq[i].leaf = "target"
    <3> DEFINE m == Len(seq[i].value)
               x == seq[i].entry
    <3>1. m \in Nat /\ DOMAIN seq[i].value = 1..m
      BY <1>1, <2>1, Items
    <3>2. P(i) = {x} \X (1..m) /\ lens[i] = m
      BY <1>1, <2>1, <3>1 DEF Places
    <3> HIDE DEF m, x, P, lens
    <3>3. IsFiniteSet(1..m) /\ Cardinality(1..m) = m
      BY <3>1, FS_Interval
    <3>4. IsFiniteSet({x}) /\ Cardinality({x}) = 1
      BY FS_Singleton
    <3> DEFINE X == {x}
               M == 1..m
    <3> HIDE DEF X, M
    <3>5. IsFiniteSet(X \X M) /\ Cardinality(X \X M) = Cardinality(X) * Cardinality(M)
      BY <3>3, <3>4, FS_Product DEF X, M
    <3>6. Cardinality(X) = 1 /\ Cardinality(M) = m
      BY <3>3, <3>4 DEF X, M
    <3>7. Cardinality(X \X M) = m
      BY <3>1, <3>5, <3>6
    <3> QED
      BY <3>2, <3>5, <3>7 DEF X, M
  <2>2. CASE seq[i].leaf # "target"
    BY <1>1, <2>2, FS_EmptySet DEF Places
  <2> QED
    BY <2>1, <2>2
<1>5. ASSUME NEW i \in 1..n, NEW j \in 1..n, i # j
      PROVE  P(i) \cap P(j) = {}
  <2>1. CASE seq[i].leaf = "target" /\ seq[j].leaf = "target"
    <3>1. seq[i].entry # seq[j].entry
      BY <1>1, <1>5, <2>1 DEF Distinct, Key
    <3> QED
      BY <2>1, <3>1 DEF Places
  <2>2. CASE ~(seq[i].leaf = "target" /\ seq[j].leaf = "target")
    BY <2>2 DEF Places
  <2> QED
    BY <2>1, <2>2
<1> HIDE DEF lens, P, n
<1>6. PICK f \in [0..n -> Nat] : /\ f[0] = 0
                                 /\ \A i \in 1..n : f[i] = f[i - 1] + lens[i]
                                 /\ Total(lens) = f[n]
  BY <1>3, TotalRun
<1> DEFINE Good == {k \in 0..n : IsFiniteSet(U(k)) /\ Cardinality(U(k)) = f[k]}
<1>7. 0 \in Good
  <2>1. U(0) = {} /\ 0 \in 0..n
    BY <1>1
  <2> HIDE DEF U
  <2> QED
    BY <1>6, <2>1, FS_EmptySet
<1>8. ASSUME NEW k \in 1..n, k - 1 \in Good
      PROVE  k \in Good
  <2>1. k \in 0..n /\ k - 1 \in 0..n /\ 1..k = 1..(k - 1) \cup {k}
        /\ \A i \in 1..(k - 1) : i \in 1..n /\ i # k
    BY <1>1
  <2>2. U(k) = U(k - 1) \cup P(k)
    BY <2>1
  <2>3. U(k - 1) \cap P(k) = {}
    BY <1>5, <2>1
  <2>4. IsFiniteSet(U(k - 1)) /\ Cardinality(U(k - 1)) = f[k - 1]
    BY <1>8
  <2>5. IsFiniteSet(P(k)) /\ Cardinality(P(k)) = lens[k] /\ lens[k] \in Nat /\ f[k - 1] \in Nat
        /\ f[k] = f[k - 1] + lens[k]
    BY <1>2, <1>4, <1>6, <2>1
  <2> DEFINE S == U(k - 1)
             T == P(k)
             a == f[k - 1]
             b == lens[k]
  <2> HIDE DEF S, T, a, b, U
  <2>6. IsFiniteSet(S \cup T) /\ Cardinality(S \cup T) = Cardinality(S) + Cardinality(T) - Cardinality(S \cap T)
    BY <2>4, <2>5, FS_Union DEF S, T
  <2>7. Cardinality(S \cap T) = 0
    BY <2>3, FS_EmptySet DEF S, T
  <2>8. Cardinality(S) = a /\ Cardinality(T) = b /\ a \in Nat /\ b \in Nat
    BY <2>4, <2>5 DEF S, T, a, b
  <2>9. Cardinality(S \cup T) = a + b
    BY <2>6, <2>7, <2>8
  <2>10. IsFiniteSet(U(k)) /\ Cardinality(U(k)) = f[k]
    BY <2>2, <2>5, <2>6, <2>9 DEF S, T, a, b
  <2> QED
    BY <2>1, <2>10
<1> HIDE DEF Good
<1>9. \A k \in 0..n : k \in Good
  BY <1>1, <1>7, <1>8, Facts!UpTo
<1>10. n \in 0..n
  BY <1>1
<1>11. Cardinality(U(n)) = f[n]
  BY <1>9, <1>10 DEF Good
<1> QED
  BY <1>1, <1>6, <1>11 DEF lens, P

\* What the report tells is what is applied.
LEMMA CopiedThenTold == DuplicateInv => ReportTellsCopy
<1> SUFFICES ASSUME DuplicateInv, stage = "applied" PROVE ReportTellsCopy
  BY DEF ReportTellsCopy
<1>1. Decoding /\ CostTold /\ Applicable /\ copy = FoldLeft(Override, Source, instances)
  BY DEF DuplicateInv
<1>2. /\ IsList(instances) /\ Distinct(instances)
      /\ \A i \in DOMAIN instances : /\ instances[i].entry \in DOMAIN Source
                                     /\ instances[i].leaf \in Leaves
                                     /\ instances[i].value # Nothing
  BY <1>1 DEF Decoding, Applicable, PathOk, Range
<1>3. \A i \in DOMAIN instances : instances[i].leaf = "target" => instances[i].value \in Seq(0..255)
  <2> TAKE i \in DOMAIN instances
  <2>1. instances[i] \in Range(instances)
    BY DEF Range
  <2>2. PICK k \in 1..taken : instances[i] \in Range(wire[k])
    BY <1>1, <2>1 DEF Decoding
  <2>3. k \in DOMAIN wire
    BY <1>1, ListItems DEF CostTold, Decoding, Sendable
  <2> QED
    BY <1>1, <1>2, <2>2, <2>3 DEF Decoding, Sendable
<1>4. FlattenSeq(wire) = instances
  BY <1>1, JoinOfRun DEF Decoding, CostTold, Joins
<1>5. Describable
  BY <1>2 DEF Describable
<1>6. cost = [described |-> Described, targets |-> TargetValueBytes]
  BY <1>1, <1>5 DEF CostTold
<1>7. cost.described = Described /\ cost.targets = TargetValueBytes
  BY <1>6
<1>8. Described = {[entry |-> instances[i].entry, leaf |-> instances[i].leaf,
                    label |-> Label(instances[i], instances[i].value)] : i \in DOMAIN instances}
  BY <1>4, Zenon DEF Described
<1>9. \A i \in DOMAIN instances : copy[instances[i].entry][instances[i].leaf] = instances[i].value
  <2>1. Sets(instances)
    BY <1>2 DEF Sets
  <2> QED
    BY <1>1, <1>2, <2>1, CopyShape DEF Distinct
<1>10. ASSUME NEW d \in cost.described
       PROVE  \E i \in DOMAIN instances : /\ d.entry = instances[i].entry /\ d.leaf = instances[i].leaf
                                          /\ d.label = Label(instances[i], instances[i].value)
                                          /\ copy[d.entry][d.leaf] = instances[i].value
  <2>1. PICK i \in DOMAIN instances :
          d = [entry |-> instances[i].entry, leaf |-> instances[i].leaf,
               label |-> Label(instances[i], instances[i].value)]
    BY <1>7, <1>8
  <2>2. d.entry = instances[i].entry /\ d.leaf = instances[i].leaf
        /\ d.label = Label(instances[i], instances[i].value)
    BY <2>1
  <2> QED
    BY <1>9, <2>2
<1>11. ASSUME NEW i \in DOMAIN instances
       PROVE  \E d \in cost.described : d.entry = instances[i].entry /\ d.leaf = instances[i].leaf
  <2> DEFINE d == [entry |-> instances[i].entry, leaf |-> instances[i].leaf,
                   label |-> Label(instances[i], instances[i].value)]
  <2>1. d \in cost.described
    BY <1>7, <1>8
  <2>2. d.entry = instances[i].entry /\ d.leaf = instances[i].leaf
    OBVIOUS
  <2> HIDE DEF d
  <2> QED
    BY <2>1, <2>2
<1>12. ASSUME NEW d \in cost.described
       PROVE  d.label = IF d.leaf # "target" THEN copy[d.entry][d.leaf]
                        ELSE IF Len(copy[d.entry][d.leaf]) <= 8
                          THEN <<"number", Number(copy[d.entry][d.leaf])>>
                        ELSE <<"bytes", Len(copy[d.entry][d.leaf])>>
  <2>1. PICK i \in DOMAIN instances :
          /\ d.entry = instances[i].entry /\ d.leaf = instances[i].leaf
          /\ d.label = Label(instances[i], instances[i].value)
          /\ copy[d.entry][d.leaf] = instances[i].value
    BY <1>10
  <2>2. CASE d.leaf = "target"
    <3>1. BytesNumber(instances[i].value) = Number(instances[i].value)
      BY <1>3, <2>1, <2>2, Digits
    <3> QED
      BY <2>1, <2>2, <3>1, Zenon DEF Label, TargetLabel
  <2>3. CASE d.leaf # "target"
    BY <2>1, <2>3, Zenon DEF Label
  <2> QED
    BY <2>2, <2>3
<1>13. ASSUME NEW e \in DOMAIN Source, NEW l \in Leaves, copy[e][l] # Source[e][l]
       PROVE  \E d \in cost.described : d.entry = e /\ d.leaf = l
  <2>1. Sets(instances)
    BY <1>2 DEF Sets
  <2>2. \E i \in DOMAIN instances : instances[i].entry = e /\ instances[i].leaf = l
    BY <1>1, <1>2, <1>13, <2>1, CopyShape DEF Distinct
  <2> QED
    BY <1>11, <2>2
<1> DEFINE Bytes == UNION {{d.entry} \X DOMAIN copy[d.entry].target :
                             d \in {d \in cost.described : d.leaf = "target"}}
           All == UNION {Places(i, instances) : i \in DOMAIN instances}
<1>14. Bytes = All
  <2>1. ASSUME NEW d \in cost.described, d.leaf = "target"
        PROVE  \E i \in DOMAIN instances : {d.entry} \X DOMAIN copy[d.entry].target = Places(i, instances)
    <3>1. PICK i \in DOMAIN instances :
            /\ d.entry = instances[i].entry /\ d.leaf = instances[i].leaf
            /\ copy[d.entry][d.leaf] = instances[i].value
      BY <1>10
    <3>2. copy[d.entry].target = instances[i].value
      BY <2>1, <3>1
    <3> QED
      BY <2>1, <3>1, <3>2, Zenon DEF Places
  <2>2. ASSUME NEW i \in DOMAIN instances, instances[i].leaf = "target"
        PROVE  \E d \in cost.described :
                 d.leaf = "target" /\ {d.entry} \X DOMAIN copy[d.entry].target = Places(i, instances)
    <3>1. PICK d \in cost.described : d.entry = instances[i].entry /\ d.leaf = instances[i].leaf
      BY <1>11
    <3>2. copy[d.entry].target = instances[i].value
      BY <1>9, <2>2, <3>1
    <3> QED
      BY <2>2, <3>1, <3>2, Zenon DEF Places
  <2>3. \A i \in DOMAIN instances : instances[i].leaf # "target" => Places(i, instances) = {}
    BY DEF Places
  <2>4. ASSUME NEW x \in Bytes PROVE x \in All
    <3>1. PICK d \in cost.described : d.leaf = "target" /\ x \in {d.entry} \X DOMAIN copy[d.entry].target
      BY <2>4
    <3> QED
      BY <2>1, <3>1
  <2>5. ASSUME NEW x \in All PROVE x \in Bytes
    <3>1. PICK i \in DOMAIN instances : x \in Places(i, instances)
      BY <2>5
    <3>2. instances[i].leaf = "target"
      BY <2>3, <3>1
    <3> QED
      BY <2>2, <3>1, <3>2
  <2> HIDE DEF Bytes, All
  <2> QED
    BY <2>4, <2>5
<1>15. cost.targets = Cardinality(Bytes)
  <2>1. TargetValueBytes = Cardinality(All)
    BY <1>2, <1>3, TargetBytesCounted DEF TargetValueBytes
  <2> HIDE DEF Bytes, All
  <2> QED
    BY <1>7, <1>14, <2>1
<1>16. cost # NoCost
  <2>1. IsFiniteSet({}) /\ NoCost.targets = Nothing
    BY FS_EmptySet DEF NoCost
  <2>2. cost.targets \in Nat
    <3> DEFINE lens == [i \in DOMAIN instances |->
                          IF instances[i].leaf = "target" THEN Len(instances[i].value) ELSE 0]
               n == Len(instances)
    <3>1. n \in Nat /\ DOMAIN instances = 1..n
      BY <1>2, ListItems
    <3>2. \A i \in 1..n : lens[i] \in Nat
      BY <1>3, <3>1, Items
    <3>3. lens = [i \in 1..n |-> lens[i]]
      BY <3>1
    <3> HIDE DEF lens, n
    <3>4. lens \in Seq(Nat)
      BY <3>1, <3>2, <3>3
    <3>5. Total(lens) \in Nat
      BY <3>4, TotalRun
    <3> QED
      BY <1>7, <3>5 DEF TargetValueBytes, lens
  <2> QED
    BY <2>1, <2>2, NothingElse
<1> QED
  BY <1>12, <1>13, <1>15, <1>16 DEF ReportTellsCopy

LEMMA DuplicateInvariant == DuplicateSpec => []DuplicateInv
<1> QED
  BY DuplicateInitial, DuplicateStep, PTL DEF DuplicateSpec

\* A rule duplicate that goes through has set what was typed and nothing else,
\* and the receiver refuses none that the console has sent and whose source it
\* has: for every source rule, any number of arguments in any order, numbers of
\* any width (parse_rule_duplicate_command, duplicate_inner_payload,
\* decode_duplicate_inner, expected_duplicate_tree).
THEOREM DuplicateInstallsWhatWasTyped == DuplicateSpec => []TypedIsInstalled
<1> QED
  BY DuplicateInvariant, TypedThenCopied, PTL

\* The report of a duplicate-rule tells what its receiver installs, for every
\* payload of every client that is accepted (duplicate_rpc_cost).
THEOREM DuplicateReportTellsCopy == DuplicateSpec => []ReportTellsCopy
<1> QED
  BY DuplicateInvariant, CopiedThenTold, PTL
=============================================================================
