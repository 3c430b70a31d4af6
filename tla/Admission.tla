----------------------------- MODULE Admission -----------------------------
(***************************************************************************)
(* The proxy server around its sessions: the HTTP server and its shutdown  *)
(* (Action and cleanShutdown of server/command.go) and what                *)
(* handleConnection of server/proxy.go does before and after it hands a    *)
(* websocket over to proxy, whose detail is in ServerSession.  Handlers,   *)
(* the main goroutine and the shutdown goroutine interleave freely.        *)
(***************************************************************************)
EXTENDS Integers, FiniteSets

CONSTANTS
  Requests,       (* bound: the HTTP requests the server ever receives      *)
  MaxConnections  (* --max-connections, 0 for no limit                      *)

ASSUME AdmissionAssumption ==
  /\ IsFiniteSet(Requests)
  /\ MaxConnections \in Nat

VARIABLES
  action,    (* the main goroutine inside Action                            *)
  listening, (* the HTTP server accepts TCP connections                     *)
  signalled, (* runningCtx has ended                                        *)
  handler,   (* where the handler of each request is                        *)
  total,     (* totalConnections as each handler saw it                     *)
  nbConn,    (* the atomic counter                                          *)
  inflight,  (* the counter of the WaitGroup                                *)
  process    (* the MCP server each session spawned                         *)

vars == <<action, listening, signalled, handler, total, nbConn, inflight, process>>

(* The program exits when Action returns or panics: no goroutine goes on.  *)
Alive == action \in {"serving", "waiting", "blocked", "released"}

(* Handlers between inflight.Add(1) and inflight.Done().                   *)
InFlight == {r \in Requests : handler[r] \notin {"none", "dialed", "done"}}

Init ==
  /\ action = "serving" /\ listening = TRUE /\ signalled = FALSE
  /\ handler = [r \in Requests |-> "none"]
  /\ total = [r \in Requests |-> 0]
  /\ nbConn = 0 /\ inflight = 0
  /\ process = [r \in Requests |-> "none"]

Move(r, from, to) == Alive /\ handler[r] = from /\ handler' = [handler EXCEPT ![r] = to]

-----------------------------------------------------------------------------
(* net/http accepts a TCP connection and starts its goroutine, which will  *)
(* call the handler once it has read the request, Shutdown or not.         *)
Connect(r) ==
  /\ Move(r, "none", "dialed")
  /\ listening
  /\ UNCHANGED <<action, listening, signalled, total, nbConn, inflight, process>>

(* Mutant: the WaitGroup is not told of the request.                       *)
EnterUnannounced(r) ==
  /\ Move(r, "dialed", IF MaxConnections > 0 THEN "entered" ELSE "admitted")
  /\ UNCHANGED <<action, listening, signalled, total, nbConn, inflight, process>>

(* inflight.Add(1); without a limit nothing is counted or tested.          *)
Enter(r) ==
  /\ Move(r, "dialed", IF MaxConnections > 0 THEN "entered" ELSE "admitted")
  /\ inflight' = inflight + 1
  /\ UNCHANGED <<action, listening, signalled, total, nbConn, process>>

(* Mutant: the limit is tested against the counter before the addition.    *)
CountAfterLoad(r) ==
  /\ Move(r, "entered", "counted")
  /\ nbConn' = nbConn + 1
  /\ total' = [total EXCEPT ![r] = nbConn]
  /\ UNCHANGED <<action, listening, signalled, inflight, process>>

(* nbConn.Add(1), whose result the limit is tested against.                *)
Count(r) ==
  /\ Move(r, "entered", "counted")
  /\ nbConn' = nbConn + 1
  /\ total' = [total EXCEPT ![r] = nbConn']
  /\ UNCHANGED <<action, listening, signalled, inflight, process>>

Admit(r) ==
  /\ Move(r, "counted", "admitted")
  /\ total[r] <= MaxConnections
  /\ UNCHANGED <<action, listening, signalled, total, nbConn, inflight, process>>

(* 429 Too Many Requests.                                                  *)
Refuse(r) ==
  /\ Move(r, "counted", "leaving")
  /\ total[r] > MaxConnections
  /\ UNCHANGED <<action, listening, signalled, total, nbConn, inflight, process>>

(* websocket.Accept.                                                       *)
Upgrade(r) ==
  /\ \/ Move(r, "admitted", "serving")
     \/ Move(r, "admitted", "leaving")
  /\ UNCHANGED <<action, listening, signalled, total, nbConn, inflight, process>>

(* proxy starts the process; exec refuses when the context has ended.      *)
Spawn(r) ==
  /\ Move(r, "serving", "session")
  /\ ~signalled
  /\ process' = [process EXCEPT ![r] = "running"]
  /\ UNCHANGED <<action, listening, signalled, total, nbConn, inflight>>

SpawnFails(r) ==
  /\ Move(r, "serving", "leaving")
  /\ UNCHANGED <<action, listening, signalled, total, nbConn, inflight, process>>

(* The session ends after it reaped its process.                           *)
SessionEnds(r) ==
  /\ Move(r, "session", "leaving")
  /\ process[r] = "dead"
  /\ UNCHANGED <<action, listening, signalled, total, nbConn, inflight, process>>

(* start_ok could not be sent, or the receiver answered nil: proxy leaves  *)
(* without Wait and its processCancel lets os/exec kill the process later. *)
SessionAbandons(r) ==
  /\ Move(r, "session", "leaving")
  /\ process' = [process EXCEPT ![r] = IF @ = "running" THEN "abandoned" ELSE @]
  /\ UNCHANGED <<action, listening, signalled, total, nbConn, inflight>>

(* The receiver is stuck in its write to the stdin of a dead process: the  *)
(* session never ends (StuckStdinWrite of ServerSessionProperties).        *)
SessionHangs(r) ==
  /\ Move(r, "session", "hung")
  /\ process[r] = "dead"
  /\ UNCHANGED <<action, listening, signalled, total, nbConn, inflight, process>>

(* Mutant: the slot of a refused request is not given back.                *)
UncountServed(r) ==
  /\ Move(r, "leaving", "uncounted")
  /\ nbConn' = IF MaxConnections > 0 /\ total[r] <= MaxConnections THEN nbConn - 1 ELSE nbConn
  /\ UNCHANGED <<action, listening, signalled, total, inflight, process>>

(* defer nbConn.Add(-1), also after a panic.                               *)
Uncount(r) ==
  /\ Move(r, "leaving", "uncounted")
  /\ nbConn' = IF MaxConnections > 0 THEN nbConn - 1 ELSE nbConn
  /\ UNCHANGED <<action, listening, signalled, total, inflight, process>>

(* Mutant: inflight.Done() is not deferred.                                *)
LeaveSilently(r) ==
  /\ Move(r, "uncounted", "done")
  /\ UNCHANGED <<action, listening, signalled, total, nbConn, inflight, process>>

(* defer inflight.Done(), which wakes Wait when it was the last.           *)
Leave(r) ==
  /\ Move(r, "uncounted", "done")
  /\ inflight' = inflight - 1
  /\ action' = IF action = "blocked" /\ inflight' = 0 THEN "released" ELSE action
  /\ UNCHANGED <<listening, signalled, total, nbConn, process>>

Handler(r) ==
  \/ Enter(r) \/ Count(r) \/ Admit(r) \/ Refuse(r) \/ Upgrade(r)
  \/ Spawn(r) \/ SpawnFails(r) \/ SessionEnds(r)
  \/ Uncount(r) \/ Leave(r)

-----------------------------------------------------------------------------
(* The process exits by itself, or os/exec kills it for an ended context.  *)
ProcessDies(r) ==
  /\ Alive
  /\ process[r] \in {"running", "abandoned"}
  /\ process' = [process EXCEPT ![r] = "dead"]
  /\ UNCHANGED <<action, listening, signalled, handler, total, nbConn, inflight>>

KillProcess(r) == (signalled \/ process[r] = "abandoned") /\ ProcessDies(r)

Signal ==
  /\ Alive /\ ~signalled
  /\ signalled' = TRUE
  /\ UNCHANGED <<action, listening, handler, total, nbConn, inflight, process>>

(* cleanShutdown: Shutdown closes the listener.                            *)
Shutdown ==
  /\ Alive /\ signalled /\ listening
  /\ listening' = FALSE
  /\ UNCHANGED <<action, signalled, handler, total, nbConn, inflight, process>>

(* Mutant: Action does not wait for the requests.                          *)
ServeReturnsAtOnce ==
  /\ action = "serving"
  /\ action' = IF listening THEN "failed" ELSE "returned"
  /\ UNCHANGED <<listening, signalled, handler, total, nbConn, inflight, process>>

(* Serve returns: for Shutdown Action goes on to requests.Wait(), for any  *)
(* other error it leaves at once with exit code 2.                         *)
ServeReturns ==
  /\ action = "serving"
  /\ action' = IF listening THEN "failed" ELSE "waiting"
  /\ UNCHANGED <<listening, signalled, handler, total, nbConn, inflight, process>>

Wait ==
  /\ action = "waiting"
  /\ action' = IF inflight = 0 THEN "returned" ELSE "blocked"
  /\ UNCHANGED <<listening, signalled, handler, total, nbConn, inflight, process>>

(* The woken waiter panics when the counter is not 0 any more: "WaitGroup  *)
(* is reused before previous Wait has returned".                           *)
WaitWakes ==
  /\ action = "released"
  /\ action' = IF inflight = 0 THEN "returned" ELSE "panicked"
  /\ UNCHANGED <<listening, signalled, handler, total, nbConn, inflight, process>>

Server == Shutdown \/ ServeReturns \/ Wait \/ WaitWakes

Next ==
  \/ \E r \in Requests : Connect(r) \/ Handler(r) \/ ProcessDies(r)
  \/ \E r \in Requests : SessionAbandons(r) \/ SessionHangs(r)
  \/ Signal \/ Server

Spec == Init /\ [][Next]_vars

-----------------------------------------------------------------------------
(***************************************************************************)
(* Goroutines are scheduled, os/exec kills what it must, the client's      *)
(* request arrives, and a session whose process is dead ends or hangs:     *)
(* what SignalEndsSession of ServerSessionProperties shows.                *)
(***************************************************************************)
Fairness ==
  /\ WF_vars(Shutdown) /\ WF_vars(~listening /\ ServeReturns)
  /\ WF_vars(Wait) /\ WF_vars(WaitWakes)
  /\ \A r \in Requests : WF_vars(Handler(r)) /\ WF_vars(KillProcess(r))

FairSpec == Spec /\ Fairness

-----------------------------------------------------------------------------
(* Every variable holds a value of its type.                               *)
TypeOK ==
  /\ action \in {"serving", "waiting", "blocked", "released", "returned", "failed", "panicked"}
  /\ listening \in BOOLEAN
  /\ signalled \in BOOLEAN
  /\ handler \in [Requests -> {"none", "dialed", "entered", "counted", "admitted", "serving",
                               "session", "hung", "leaving", "uncounted", "done"}]
  /\ total \in [Requests -> Nat]
  /\ nbConn \in Nat
  /\ inflight \in Nat
  /\ process \in [Requests -> {"none", "running", "abandoned", "dead"}]

Connections == {r \in Requests : handler[r] \in {"serving", "session", "hung"}}
Counted     == {r \in Requests : handler[r] \in {"counted", "admitted", "serving", "session",
                                                "hung", "leaving"}}

(* At most --max-connections websockets are served at a time, whatever the *)
(* interleaving of the additions, the tests and the deferred subtractions. *)
ServedWithinMax == MaxConnections > 0 => Cardinality(Connections) <= MaxConnections

(* The counters are exact, refusals, failed upgrades and panics included:  *)
(* no slot leaks, and Wait waits for precisely the handlers that run.      *)
CountersExact ==
  /\ MaxConnections > 0 => nbConn = Cardinality(Counted)
  /\ inflight = Cardinality(InFlight)

(* When Action returns after a signal no handler is running, and a process *)
(* that still runs is one whose session left it without Wait.              *)
ReturnIsDrained ==
  action = "returned" =>
    /\ InFlight = {}
    /\ \A r \in Requests : process[r] # "running"

(* After a signal the program ends, unless a session hangs.                *)
SignalStopsServer == signalled ~> (~Alive \/ \E r \in Requests : handler[r] = "hung")

=============================================================================
