---------------------------- MODULE DataService ----------------------------
(***************************************************************************)
(* The application data service: schc-data-client sends one CORECONF       *)
(* request per command (application.rs, DataClient), schc-data-server      *)
(* answers it from a datastore that it keeps in memory                     *)
(* (GenericDataService).  The CoAP client and the request handler are      *)
(* rustconf's: the client returns the response to its own request or an    *)
(* error, the handler applies a request to the datastore in one step.      *)
(*                                                                         *)
(* Requests travel over the SCHC tunnel and arrive late, more than once,   *)
(* or never: what was sent stays in the network and may be delivered at    *)
(* any time.  The server remembers no requests, and a server that is       *)
(* started again reads its data file again.                                *)
(***************************************************************************)
EXTENDS Naturals, FiniteSets

CONSTANTS
  Clients,
  Paths,
  Values,
  Absent,         \* a path without a value
  Fixed,          \* paths whose deletion the model refuses
  Data,           \* the data file
  NoRequest,
  NoReport,
  MaxCommands,    \* bound on the commands of a run
  MaxRestarts     \* bound on the restarts of the server

ASSUME DataAssumption ==
  /\ Absent \notin Values
  /\ Fixed \subseteq Paths
  /\ Data \in [Paths -> Values \cup {Absent}]

ASSUME DataBounds == MaxCommands \in Nat /\ MaxRestarts \in Nat

VARIABLES
  store,       \* the datastore of the server
  pending,     \* the request of each client's command, or NoRequest
  network,     \* requests and responses ever sent
  report,      \* what each client's last command printed
  seen,        \* history: values of the requested path during the command
  commands,    \* number of requests sent so far
  restarts

vars == <<store, pending, network, report, seen, commands, restarts>>

Requests ==
  [kind : {"fetch", "delete"}, path : Paths]
    \cup [kind : {"set"}, path : Paths, value : Values]

Init ==
  /\ store = Data
  /\ pending = [c \in Clients |-> NoRequest]
  /\ network = {}
  /\ report = [c \in Clients |-> NoReport]
  /\ seen = [c \in Clients |-> {}]
  /\ commands = 0
  /\ restarts = 0

\* History: the store becomes s while commands are pending.
Observe(s) ==
  seen' = [c \in Clients |-> IF pending[c] = NoRequest THEN seen[c]
                             ELSE seen[c] \cup {s[pending[c].request.path]}]

-----------------------------------------------------------------------------
(* The client. *)

\* execute_command: fetch, set and delete send one request and wait.  A value
\* the model refuses, and the other commands, send nothing.
Submit(c, r) ==
  LET sent == [to |-> "server", xid |-> commands + 1, request |-> r] IN
  /\ pending[c] = NoRequest
  /\ commands < MaxCommands
  /\ commands' = commands + 1
  /\ pending' = [pending EXCEPT ![c] = sent]
  /\ network' = network \cup {sent}
  /\ report' = [report EXCEPT ![c] = NoReport]
  /\ seen' = [seen EXCEPT ![c] = {store[r.path]}]
  /\ UNCHANGED <<store, restarts>>

\* Fault variant of Printed: any refused deletion counts as done.
PrintedAnyRefusal(r, f) ==
  CASE r.kind = "fetch" -> IF f.value = Absent THEN "not-found" ELSE "ok"
    [] r.kind = "set" -> "ok"
    [] r.kind = "delete" -> IF f.code = "2.04" THEN "ok" ELSE "not-found"

\* print_json_result, print_mutation, print_delete.
Printed(r, f) ==
  CASE r.kind = "fetch" -> IF f.value = Absent THEN "not-found" ELSE "ok"
    [] r.kind = "set" -> "ok"
    [] r.kind = "delete" -> CASE f.code = "2.04" -> "ok"
                              [] f.code = "4.04" -> "not-found"
                              [] OTHER -> "error"

Finish(c, outcome, value) ==
  /\ report' = [report EXCEPT ![c] = [request |-> pending[c].request,
                                      outcome |-> outcome, value |-> value]]
  /\ pending' = [pending EXCEPT ![c] = NoRequest]

\* The response to the pending request arrives.
Receive(c, f) ==
  /\ pending[c] # NoRequest
  /\ f.to = "client" /\ f.xid = pending[c].xid
  /\ Finish(c, Printed(pending[c].request, f), f.value)
  /\ UNCHANGED <<store, network, seen, commands, restarts>>

\* rustconf gives up, or the server refuses a malformed request or value; the
\* request and its response may still be in flight.
GiveUp(c) ==
  /\ pending[c] # NoRequest
  /\ Finish(c, "error", Absent)
  /\ UNCHANGED <<store, network, seen, commands, restarts>>

-----------------------------------------------------------------------------
(* The server. *)

\* What the request handler does to the datastore, and its response code.
Code(r) ==
  CASE r.kind = "fetch" -> "2.05"
    [] r.kind = "set" -> "2.04"
    [] r.kind = "delete" -> IF store[r.path] = Absent THEN "4.04"
                            ELSE IF r.path \in Fixed THEN "4.00" ELSE "2.04"

Effect(r) ==
  CASE r.kind = "set" -> [store EXCEPT ![r.path] = r.value]
    [] r.kind = "delete" /\ Code(r) = "2.04" -> [store EXCEPT ![r.path] = Absent]
    [] OTHER -> store

\* serve_once: the datagram is handled and answered.
Serve(f) ==
  LET response == [to |-> "client", xid |-> f.xid, code |-> Code(f.request),
                   value |-> IF f.request.kind = "fetch" THEN store[f.request.path]
                             ELSE Absent] IN
  /\ f.to = "server"
  /\ store' = Effect(f.request)
  /\ Observe(store')
  /\ network' = network \cup {response}
  /\ UNCHANGED <<pending, report, commands, restarts>>

\* The server ends and is started again.
Restart ==
  /\ restarts < MaxRestarts
  /\ restarts' = restarts + 1
  /\ store' = Data
  /\ Observe(Data)
  /\ UNCHANGED <<pending, network, report, commands>>

Next ==
  \/ \E c \in Clients, r \in Requests : Submit(c, r)
  \/ \E c \in Clients, f \in network : Receive(c, f)
  \/ \E c \in Clients : GiveUp(c)
  \/ \E f \in network : Serve(f)
  \/ Restart

Spec == Init /\ [][Next]_vars

-----------------------------------------------------------------------------
(* Properties. *)

\* What a client prints was true of the datastore at some moment while the
\* command ran: a fetched value was there, an OK set had its value there, and
\* where a fetch found nothing or a delete is OK, not-found included, there
\* was nothing, whatever other clients, late requests and restarts did
\* meanwhile.
PrintedWasTrue ==
  \A c \in Clients :
    report[c] # NoReport /\ report[c].outcome # "error" =>
      LET r == report[c].request IN
      CASE r.kind = "fetch" -> /\ report[c].value \in seen[c]
                               /\ report[c].outcome = "ok" => report[c].value \in Values
        [] r.kind = "set" -> r.value \in seen[c]
        [] r.kind = "delete" -> Absent \in seen[c]
=============================================================================
