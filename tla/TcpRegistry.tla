---------------------------- MODULE TcpRegistry -----------------------------
(***************************************************************************)
(* The registry served over TCP (registry/tcp_registry.go).  A connection  *)
(* carries one command: the handler reads once, executes, answers and      *)
(* closes.  A registration starts a checker goroutine, which watches the   *)
(* entry until it finds it expired; the check and the removal are two      *)
(* critical sections.  The entries are also cleaned by Registry itself.    *)
(*                                                                         *)
(* connMap is left out: nothing but Close reads it, and the handler of a   *)
(* connection it holds closes the connection itself.                       *)
(***************************************************************************)
EXTENDS Registry, Integers, Sequences

CONSTANTS
    Conns,         \* connections; one that is over is used again
    NoReply,
    MaxCheckers,   \* checkers of one entry beyond these are not counted
    MaxFaults      \* bound on failures of the registry's process, on calls
                   \* of Close, and on requests and replies lost

VARIABLES
    phase,         \* "up", "closed" (Close was called), "down"
    srv,           \* handleConnection: "waiting", "storing", "over"
    sent,          \* commands written and not read by the handler
    open,          \* connections the client has not closed
    reply,         \* the response on its way to the client
    checkers,      \* per entry, how many checkers are at each stage
    faults

tcpVars == <<servers, phase, srv, sent, open, reply, checkers, faults>>

Keys == Services \X Addrs
Actions == {"register", "unregister", "heartbeat", "query"}
Request == [action : Actions, key : Keys]
Response == [ok : BOOLEAN, action : Actions \cup {"garbled"}]
NoCheckers == [watching |-> 0, expired |-> 0]

InitTcpRegistry ==
    /\ InitTable
    /\ phase = "up"
    /\ srv = [x \in Conns |-> "over"] /\ sent = [x \in Conns |-> <<>>]
    /\ open = {} /\ reply = [x \in Conns |-> NoReply]
    /\ checkers = [k \in Keys |-> NoCheckers]
    /\ faults = 0

Watchers(k) == checkers[k].watching + checkers[k].expired

(* sendResponse; the handler then returns and closes the connection.  The   *)
(* response to a client that has closed its end is lost.                    *)
Respond(x, cmd, ok) ==
    /\ reply' = IF x \in open
                   THEN [reply EXCEPT ![x] = [ok |-> ok, action |-> cmd]]
                   ELSE reply
    /\ UNCHANGED open
    /\ srv' = [srv EXCEPT ![x] = "over"]
    /\ sent' = [sent EXCEPT ![x] = <<>>]

(* Two commands that arrive together are not one JSON value.                *)
HandleGarbled(x) ==
    /\ srv[x] = "waiting" /\ Len(sent[x]) > 1
    /\ Respond(x, "garbled", FALSE)
    /\ UNCHANGED <<servers, phase, checkers, faults>>

Received(x, action) ==
    /\ srv[x] = "waiting" /\ Len(sent[x]) = 1 /\ sent[x][1].action = action

HandleRegister(x) ==
    /\ Received(x, "register")
    /\ Register(sent[x][1].key[1], sent[x][1].key[2])
    /\ srv' = [srv EXCEPT ![x] = "storing"]
    /\ UNCHANGED <<phase, sent, open, reply, checkers, faults>>

(* The rest of a registration: go heartbeatChecker, reply.                  *)
StoreAndWatch(x) ==
    /\ srv[x] = "storing"
    /\ LET k == sent[x][1].key
       IN  checkers' = IF Watchers(k) < MaxCheckers
                          THEN [checkers EXCEPT ![k].watching = @ + 1]
                          ELSE checkers
    /\ Respond(x, "register", TRUE)
    /\ UNCHANGED <<servers, phase, faults>>

HandleUnregister(x) ==
    /\ Received(x, "unregister")
    /\ LET k  == sent[x][1].key
           ok == Registered(k[1], k[2])
       IN  /\ Unregister(k[1], k[2])
           /\ Respond(x, "unregister", ok)
    /\ UNCHANGED <<phase, checkers, faults>>

HandleHeartbeat(x) ==
    /\ Received(x, "heartbeat")
    /\ LET k == sent[x][1].key
       IN  /\ Heartbeat(k[1], k[2])
           /\ Respond(x, "heartbeat", Registered(k[1], k[2]))
    /\ UNCHANGED <<phase, checkers, faults>>

(* get or list: a get fails for a service without addresses.                *)
HandleQuery(x) ==
    /\ Received(x, "query")
    /\ \/ Respond(x, "query", GetService(sent[x][1].key[1]) # {})
       \/ Respond(x, "query", GetAllServices \subseteq Services)
    /\ UNCHANGED <<servers, phase, checkers, faults>>

(* The read deadline passes, or the client has gone without a command.      *)
HandlerGivesUp(x) ==
    /\ srv[x] = "waiting" /\ sent[x] = <<>>
    /\ srv' = [srv EXCEPT ![x] = "over"]
    /\ UNCHANGED <<servers, phase, sent, open, reply, checkers, faults>>

HandleConnection(x) ==
    \/ HandleGarbled(x) \/ HandleRegister(x) \/ StoreAndWatch(x)
    \/ HandleUnregister(x) \/ HandleHeartbeat(x) \/ HandleQuery(x)

-----------------------------------------------------------------------------
(* heartbeatChecker                                                         *)

CheckExpired(k) ==
    /\ checkers[k].watching > 0 /\ IsExpired(k[1], k[2])
    /\ checkers' = [checkers EXCEPT ![k].watching = @ - 1, ![k].expired = @ + 1]
    /\ UNCHANGED <<servers, phase, srv, sent, open, reply, faults>>

\* Mutant: the checker ends without removing the entry.
CheckerForgets(k) ==
    /\ checkers[k].expired > 0
    /\ checkers' = [checkers EXCEPT ![k].expired = @ - 1]
    /\ UNCHANGED <<servers, phase, srv, sent, open, reply, faults>>

CheckerUnregisters(k) ==
    /\ checkers[k].expired > 0
    /\ Unregister(k[1], k[2])
    /\ checkers' = [checkers EXCEPT ![k].expired = @ - 1]
    /\ UNCHANGED <<phase, srv, sent, open, reply, faults>>

(* r.done is closed.                                                        *)
CheckerStops(k) ==
    /\ phase = "closed" /\ checkers[k].watching > 0
    /\ checkers' = [checkers EXCEPT ![k].watching = @ - 1]
    /\ UNCHANGED <<servers, phase, srv, sent, open, reply, faults>>

HeartbeatChecker(k) ==
    CheckExpired(k) \/ CheckerUnregisters(k) \/ CheckerStops(k)

-----------------------------------------------------------------------------
Clean ==
    /\ CleanExpiredServers /\ servers' # servers
    /\ UNCHANGED <<phase, srv, sent, open, reply, checkers, faults>>

Expire(k) ==
    /\ Age(k[1], k[2])
    /\ UNCHANGED <<phase, srv, sent, open, reply, checkers, faults>>

(* Close: no connection is accepted any more.                               *)
Close ==
    /\ phase = "up" /\ faults < MaxFaults
    /\ phase' = "closed" /\ faults' = faults + 1
    /\ UNCHANGED <<servers, srv, sent, open, reply, checkers>>

(* The registry's process ends; the table is not persistent.                *)
Fail ==
    /\ \/ phase = "up" /\ faults < MaxFaults /\ faults' = faults + 1
       \/ phase = "closed" /\ UNCHANGED faults
    /\ phase' = "down"
    /\ servers' = <<>>
    /\ checkers' = [k \in Keys |-> NoCheckers]
    /\ srv' = [x \in Conns |-> "over"] /\ sent' = [x \in Conns |-> <<>>]
    /\ UNCHANGED <<open, reply>>

Restart ==
    /\ phase = "down"
    /\ phase' = "up"
    /\ UNCHANGED <<servers, srv, sent, open, reply, checkers, faults>>

(* A connection breaks before the command arrives, or before the reply.     *)
LoseRequest(x) ==
    /\ srv[x] = "waiting" /\ sent[x] # <<>> /\ faults < MaxFaults
    /\ srv' = [srv EXCEPT ![x] = "over"] /\ sent' = [sent EXCEPT ![x] = <<>>]
    /\ faults' = faults + 1
    /\ UNCHANGED <<servers, phase, open, reply, checkers>>

LoseReply(x) ==
    /\ reply[x] # NoReply /\ faults < MaxFaults
    /\ reply' = [reply EXCEPT ![x] = NoReply]
    /\ faults' = faults + 1
    /\ UNCHANGED <<servers, phase, srv, sent, open, checkers>>

RegistryNext ==
    \/ \E x \in Conns : HandleConnection(x) \/ LoseRequest(x) \/ LoseReply(x)
    \/ \E k \in Keys : HeartbeatChecker(k) \/ Expire(k)
    \/ Clean \/ Close \/ Fail \/ Restart

-----------------------------------------------------------------------------
TcpRegistryTypeOK ==
    /\ servers \in Table
    /\ phase \in {"up", "closed", "down"}
    /\ srv \in [Conns -> {"waiting", "storing", "over"}] /\ open \subseteq Conns
    /\ \A x \in Conns : sent[x] \in Seq(Request)
    /\ reply \in [Conns -> Response \cup {NoReply}]
    /\ checkers \in [Keys -> [watching : Nat, expired : Nat]]
    /\ faults \in 0..MaxFaults

(* While the registry is up, every entry has a checker that will notice     *)
(* that it expires, or a handler about to start one, although a checker    *)
(* that found an expired entry also removes what has been registered again  *)
(* since.                                                                   *)
EntryWatched ==
    phase = "up" =>
        \A k \in Keys : Registered(k[1], k[2]) =>
            \/ Watchers(k) > 0
            \/ \E x \in Conns : srv[x] = "storing" /\ sent[x][1].key = k

(* Violated.  An entry is removed because it timed out (tcp_registry.go:187,*)
(* "service timed out, unregister it"): a checker about to remove an entry  *)
(* has an expired entry before it.                                          *)
RemovedIsExpired ==
    \A k \in Keys : checkers[k].expired > 0 => IsExpired(k[1], k[2])
=============================================================================
