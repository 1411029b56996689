----------------------------- MODULE TcpClient ------------------------------
(***************************************************************************)
(* A TcpClient (registry/tcp_client.go) that registers a service with the  *)
(* TCP registry, and the registry itself.  The goroutines of the client    *)
(* are the application's, which registers, unregisters and queries, and    *)
(* one heartbeat goroutine for each successful Register.                   *)
(*                                                                         *)
(* sendRequest dials a connection of its own but keeps it in c.conn, which *)
(* the goroutines share: each Write and Read uses whatever c.conn is then, *)
(* and a nil c.conn is a panic that ends the process.                      *)
(***************************************************************************)
EXTENDS TcpRegistry

CONSTANTS
    App,           \* the application's goroutine
    Beats,         \* heartbeat goroutines
    NoConn, NoKey,
    MaxCalls       \* bound on calls of the application

ASSUME TcpClientAssumption ==
    /\ App \notin Beats /\ NoConn \notin Conns /\ NoKey \notin Keys
    /\ MaxCheckers \in Nat \ {0} /\ MaxFaults \in Nat /\ MaxCalls \in Nat

VARIABLES
    process,       \* the client's process: "up", "panic", "killed"
    conn,          \* c.conn
    done,          \* c.done is closed
    service,       \* c.serviceName and c.serviceAddr
    pc, cmd, on, ok,   \* sendRequest of each goroutine: where, the command,
                       \* the connection it reads from, the outcome
    calls

clientVars == <<process, conn, done, service, pc, cmd, on, ok, calls>>
vars == <<tcpVars, clientVars>>

Goroutines == {App} \cup Beats
NoCmd == [action |-> "none", key |-> NoKey]
registryVars == <<servers, phase, checkers, faults>>

Init ==
    /\ InitTcpRegistry
    /\ process = "up" /\ conn = NoConn /\ done = FALSE
    /\ service = NoKey
    /\ pc = [g \in Goroutines |-> IF g = App THEN "idle" ELSE "none"]
    /\ cmd = [g \in Goroutines |-> NoCmd]
    /\ on = [g \in Goroutines |-> NoConn]
    /\ ok = [g \in Goroutines |-> FALSE]
    /\ calls = 0

At(g, place) == process = "up" /\ pc[g] = place
GoTo(g, place) == pc' = [pc EXCEPT ![g] = place]

-----------------------------------------------------------------------------
(* sendRequest                                                              *)

(* A connection nobody refers to any more.                                  *)
Unused(x) ==
    /\ srv[x] = "over" /\ x # conn
    /\ \A g \in Goroutines : on[g] # x

(* connect: c.conn is replaced, whatever it was.  A connection it replaces  *)
(* is never closed, but once nobody reads from it either that cannot be     *)
(* told from a closed one.                                                  *)
Connect(g) ==
    /\ At(g, "connect") /\ phase = "up"
    /\ \E x \in Conns : Unused(x)
    /\ LET x == CHOOSE y \in Conns : Unused(y)
       IN /\ conn' = x
          /\ open' = {y \in open : \E h \in Goroutines : on[h] = y} \cup {x}
          /\ srv' = [srv EXCEPT ![x] = "waiting"]
          /\ sent' = [sent EXCEPT ![x] = <<>>]
          /\ reply' = [reply EXCEPT ![x] = NoReply]
    /\ GoTo(g, "write")
    /\ UNCHANGED <<registryVars, process, done, service, cmd, on, ok, calls>>

ConnectFails(g) ==
    /\ At(g, "connect") /\ phase # "up"
    /\ ok' = [ok EXCEPT ![g] = FALSE] /\ GoTo(g, "return")
    /\ UNCHANGED <<tcpVars, process, conn, done, service, cmd, on, calls>>

(* The process ends, and with it its goroutines and connections.            *)
Ends(how) ==
    /\ process' = how /\ conn' = NoConn
    /\ pc' = [g \in Goroutines |-> "ended"]
    /\ cmd' = [g \in Goroutines |-> NoCmd]
    /\ on' = [g \in Goroutines |-> NoConn]
    /\ ok' = [g \in Goroutines |-> FALSE]
    /\ open' = {} /\ reply' = [x \in Conns |-> NoReply]
    /\ UNCHANGED <<registryVars, srv, sent, done, service, calls>>

(* A method call on a nil connection.                                       *)

NilConn(g) ==
    /\ At(g, "write") \/ At(g, "read")
    /\ conn = NoConn
    /\ Ends("panic")

(* A handler that has returned no longer reads: the write fails or is lost. *)
Write(g) ==
    /\ At(g, "write") /\ conn # NoConn
    /\ \/ /\ sent' = IF srv[conn] = "waiting"
                        THEN [sent EXCEPT ![conn] = Append(@, cmd[g])] ELSE sent
          /\ GoTo(g, "read") /\ UNCHANGED ok
       \/ /\ srv[conn] = "over"
          /\ ok' = [ok EXCEPT ![g] = FALSE] /\ GoTo(g, "close")
          /\ UNCHANGED sent
    /\ UNCHANGED <<registryVars, srv, open, reply, process, conn, done, service,
                   cmd, on, calls>>

Read(g) ==
    /\ At(g, "read") /\ conn # NoConn
    /\ on' = [on EXCEPT ![g] = conn] /\ GoTo(g, "reading")
    /\ UNCHANGED <<tcpVars, process, conn, done, service, cmd, ok, calls>>

(* Read returns the response, or fails because the connection was closed    *)
(* at either end.                                                           *)
ReadReturns(g) ==
    /\ At(g, "reading")
    /\ LET x == on[g]
       IN  \/ /\ x \in open /\ reply[x] # NoReply
              /\ ok' = [ok EXCEPT ![g] = reply[x].ok]
              /\ reply' = [reply EXCEPT ![x] = NoReply]
           \/ /\ x \notin open \/ (srv[x] = "over" /\ reply[x] = NoReply)
              /\ ok' = [ok EXCEPT ![g] = FALSE]
              /\ UNCHANGED reply
    /\ on' = [on EXCEPT ![g] = NoConn] /\ GoTo(g, "close")
    /\ UNCHANGED <<registryVars, srv, sent, open, process, conn, done, service,
                   cmd, calls>>

(* sendRequest returns: after a connect that failed at once, otherwise with *)
(* the deferred close of whatever c.conn is.                                *)
Returns(g) ==
    /\ \/ At(g, "return") /\ UNCHANGED <<conn, open, reply>>
       \/ /\ At(g, "close")
          /\ open' = open \ {conn} /\ conn' = NoConn
          /\ reply' = [x \in Conns |-> IF x = conn THEN NoReply ELSE reply[x]]
    /\ UNCHANGED <<registryVars, srv, sent, process, on, calls>>

SendRequest(g) ==
    \/ Connect(g) \/ ConnectFails(g) \/ NilConn(g) \/ Write(g) \/ Read(g)
    \/ ReadReturns(g)

-----------------------------------------------------------------------------
(* The application                                                          *)

Start(g, action, k) ==
    /\ cmd' = [cmd EXCEPT ![g] = [action |-> action, key |-> k]]
    /\ ok' = [ok EXCEPT ![g] = FALSE]
    /\ GoTo(g, "connect")

Rest(g) ==
    /\ cmd' = [cmd EXCEPT ![g] = NoCmd] /\ ok' = [ok EXCEPT ![g] = FALSE]
    /\ GoTo(g, "idle")

(* Unregister needs an earlier Register; GetService and ListServices not.   *)
CallApp ==
    /\ At(App, "idle") /\ calls < MaxCalls
    /\ calls' = calls + 1
    /\ \/ \E k \in Keys, action \in {"register", "query"} : Start(App, action, k)
       \/ service # NoKey /\ Start(App, "unregister", service)
    /\ UNCHANGED <<tcpVars, process, conn, done, service, on>>

(* Register succeeded: the fields are set and a heartbeat started.          *)
RegisterReturns ==
    /\ ok[App] /\ cmd[App].action = "register"
    /\ Returns(App)
    /\ service' = cmd[App].key
    /\ \E b \in Beats :
          /\ pc[b] \in {"none", "ended"}
          /\ pc' = [pc EXCEPT ![App] = "idle", ![b] = "idle"]
    /\ cmd' = [cmd EXCEPT ![App] = NoCmd] /\ ok' = [ok EXCEPT ![App] = FALSE]
    /\ UNCHANGED done

(* Unregister succeeded: c.done is closed, which panics the second time.    *)
UnregisterReturns ==
    /\ ok[App] /\ cmd[App].action = "unregister"
    /\ IF done THEN At(App, "close") /\ Ends("panic")
               ELSE /\ Returns(App) /\ Rest(App)
                    /\ done' = TRUE /\ UNCHANGED service

OtherReturns ==
    /\ ~ok[App] \/ cmd[App].action = "query"
    /\ Returns(App) /\ Rest(App)
    /\ UNCHANGED <<done, service>>

Application == CallApp \/ RegisterReturns \/ UnregisterReturns \/ OtherReturns

-----------------------------------------------------------------------------
(* heartbeat: the loop of a goroutine                                       *)

Tick(b) ==
    /\ At(b, "idle")
    /\ Start(b, "heartbeat", service)
    /\ UNCHANGED <<tcpVars, process, conn, done, service, on, calls>>

\* Mutant: a failed heartbeat is only logged.
BeatFailsSilently(b) == Returns(b) /\ Rest(b) /\ UNCHANGED <<done, service>>

(* A failed heartbeat is followed by reregister, whose outcome is ignored.  *)
BeatReturns(b) ==
    /\ Returns(b)
    /\ IF ~ok[b] /\ cmd[b].action = "heartbeat"
          THEN Start(b, "register", service) ELSE Rest(b)
    /\ UNCHANGED <<done, service>>

\* Mutant: the loop does not look at done.
BeatNeverEnds(b) ==
    /\ At(b, "idle") /\ done /\ service = NoKey
    /\ GoTo(b, "ended")
    /\ UNCHANGED <<tcpVars, process, conn, done, service, cmd, on, ok, calls>>

BeatEnds(b) ==
    /\ At(b, "idle") /\ done
    /\ GoTo(b, "ended")
    /\ UNCHANGED <<tcpVars, process, conn, done, service, cmd, on, ok, calls>>

Beat(b) == Tick(b) \/ BeatReturns(b)

(* The process that runs the service dies.                                  *)
Kill ==
    /\ process = "up"
    /\ Ends("killed")

Aside(A) == A /\ UNCHANGED clientVars

(* Nobody will write to the connection: a client that has dialled writes    *)
(* before the handler's deadline.                                           *)
HandlerEnds(x) == x # conn /\ Aside(HandlerGivesUp(x))

Next ==
    \/ Application \/ Kill
    \/ \E g \in Goroutines : SendRequest(g)
    \/ \E b \in Beats : Beat(b) \/ BeatEnds(b)
    \/ \E x \in Conns : HandlerEnds(x)
    \/ Aside(RegistryNext)

Spec == Init /\ [][Next]_vars

(* No heartbeat will be sent any more.                                      *)
Silent == process # "up" \/ \A b \in Beats : pc[b] \in {"none", "ended"}

(* The heartbeats go on: requests are sent, tickers tick, and select picks  *)
(* done at some time when it is ready each time (SF).  Handlers answer and  *)
(* the registry cleans up.  An entry is bound to age only when no heartbeat *)
(* can come any more.  The application finishes what it has begun to send.  *)
FairSpec ==
    /\ Spec
    /\ \A b \in Beats : WF_vars(SendRequest(b) \/ Beat(b)) /\ SF_vars(BeatEnds(b))
    /\ WF_vars(SendRequest(App))
    /\ \A x \in Conns : WF_vars(Aside(HandleConnection(x)) \/ HandlerEnds(x))
    /\ \A k \in Keys : WF_vars(Silent /\ Aside(Expire(k)))
    /\ WF_vars(Aside(Clean))

-----------------------------------------------------------------------------
(* Properties                                                               *)

(* Every variable has its type.                                             *)
TypeOK ==
    /\ TcpRegistryTypeOK
    /\ process \in {"up", "panic", "killed"}
    /\ conn \in Conns \cup {NoConn}
    /\ done \in BOOLEAN /\ service \in Keys \cup {NoKey}
    /\ pc \in [Goroutines -> {"none", "idle", "connect", "write", "read",
                              "reading", "close", "return", "ended"}]
    /\ cmd \in [Goroutines -> Request \cup {NoCmd}]
    /\ on \in [Goroutines -> Conns \cup {NoConn}]
    /\ ok \in [Goroutines -> BOOLEAN]
    /\ calls \in 0..MaxCalls

(* A service whose process has died leaves the registry and stays away:     *)
(* requests still on their way, a restart of the registry and checkers that *)
(* end early do not keep its entry.                                         *)
DeadIsRemoved ==
    process # "up" ~> [](\A k \in Keys : ~Registered(k[1], k[2]))

(* A client that has unregistered leaves the registry for good, although    *)
(* its heartbeat may register it once more before it sees done.             *)
UnregisteredIsRemoved ==
    done ~> [](\A k \in Keys : ~Registered(k[1], k[2]))

(* While the heartbeat goes on and the registry is up, the service is       *)
(* registered, or will be again: also after a restart of the registry, a    *)
(* lost request or reply, or a checker that removed a live entry.           *)
KeptRegistered ==
    ((\E b \in Beats : pc[b] \notin {"none", "ended"}) /\ phase = "up") ~>
        \/ service \in Keys /\ Registered(service[1], service[2])
        \/ process # "up" \/ done \/ phase # "up"

(* Violated.  "sendRequest Sends a command and receives a response"         *)
(* (tcp_client.go:60): there is a connection to send it on.                 *)
NoPanic == process # "panic"

(* Violated.  "Unregister logout service" (tcp_client.go:134): once it has  *)
(* returned without an error the service is gone.                           *)
UnregisterLogsOut == done => \A k \in Keys : ~Registered(k[1], k[2])
=============================================================================
