---------------------- MODULE ServerSessionProperties ----------------------
(***************************************************************************)
(* What one connection of the proxy server promises, and what its comments *)
(* and documents promise that it does not keep.                            *)
(***************************************************************************)
EXTENDS ServerSession

MainStates == {"starting", "startErr", "startOk", "select", "joinReceiver",
               "joinStdout", "joinStderrR", "joinStderrS", "waitR", "waitS",
               "exitMsg", "closing", "returning", "returned", "panicked"}

MainTypeOK ==
  /\ main \in MainStates
  /\ desired \in Statuses \cup {"nil"}
  /\ waitRes \in {"none", "nil", "code", "killed", "other"}
  /\ ctx \subseteq {"running", "process"} \cup Streams

ProcTypeOK ==
  /\ proc \in {"none", "running", "exit0", "exitN", "killed"}
  /\ leaked \in BOOLEAN
  /\ made \in [Streams -> Nat]
  /\ got \in Seq(Nat)

PipeTypeOK ==
  /\ queue \in [Streams -> Seq(Nat)]
  /\ copier \in [Streams -> {"off", "running", "done"}]
  /\ copyErr \in BOOLEAN
  /\ expired \in BOOLEAN

WorkTypeOK ==
  /\ worker \in [Streams -> {"off", "reading", "writing", "done"}]
  /\ held \in [Streams -> Nat]
  /\ result \in [Streams -> Results]
  /\ closed \subseteq OutStreams

NetTypeOK ==
  /\ ws \in {"open", "closed"}
  /\ peer \in {"connected", "finished", "closing", "gone"}
  /\ wsIn \in Seq(Frames)
  /\ wire \in Seq(Frames)

(* Every variable holds a value of its type: the groups of ServerSession.  *)
TypeOK == MainTypeOK /\ ProcTypeOK /\ PipeTypeOK /\ WorkTypeOK /\ NetTypeOK

-----------------------------------------------------------------------------
OfKind(frames, kind) == {i \in 1..Len(frames) : frames[i].kind = kind}

(* The frames of a kind carry the chunks after number from up to number    *)
(* to, each once and in order.                                             *)
Carry(frames, kind, from, to) ==
  /\ from <= to
  /\ {frames[i].n : i \in OfKind(frames, kind)} = (from + 1)..to
  /\ \A i, j \in OfKind(frames, kind) : i < j => frames[i].n < frames[j].n

Holding(s) == IF held[s] = 0 THEN <<>> ELSE <<held[s]>>

Serving(s) == worker[s] \in {"reading", "writing"}
Waiting    == main \in {"waitR", "waitS"}

(* Stdin: as long as the process runs and the receiver serves it, every    *)
(* byte the client sent is read, in the pipe, in the receiver's hand or    *)
(* still on the connection, once and in order.                             *)
StdinConservation ==
  proc = "running" /\ copier["stdin"] = "running" /\ Serving("stdin") =>
    LET received == got \o queue["stdin"] \o Holding("stdin") IN
    /\ received = [i \in 1..Len(received) |-> i]
    /\ Carry(wsIn, "bin", Len(received), made["stdin"])

(* Stdout: as long as senderStdout serves it and the client listens, every *)
(* chunk of the process is with the client, in hand or in the pipe, once   *)
(* and in order.                                                           *)
StdoutConservation ==
  Serving("stdout") /\ Listening /\ "stdout" \notin closed /\ ~expired =>
    LET inside    == Holding("stdout") \o queue["stdout"]
        delivered == made["stdout"] - Len(inside)
    IN  /\ Carry(wire, "bin", 0, delivered)
        /\ inside = [i \in 1..Len(inside) |-> delivered + i]

(* The client sees a prefix of the process's stdout whatever is cancelled, *)
(* broken or killed: no chunk is repeated, reordered or skipped.           *)
StdoutPrefix == \E n \in 0..made["stdout"] : Carry(wire, "bin", 0, n)

(* The order client/proxy.go relies on: only the first frame is a start    *)
(* message, start_ok comes before every other frame of the session, after  *)
(* start_err or server_exited only the closure follows, and nothing        *)
(* follows the closure.                                                    *)
WireOrder ==
  \A i \in 1..Len(wire) :
    /\ wire[i].kind \in {"start_ok", "start_err"} => i = 1
    /\ wire[i].kind \in {"bin", "process_stderr", "server_exited"} => wire[1] = StartOk
    /\ wire[i].kind \in {"start_err", "server_exited"} =>
         \A j \in (i + 1)..Len(wire) : wire[j].kind = "close"
    /\ wire[i].kind = "close" => i = Len(wire)

Protocol == INSTANCE SessionProtocol WITH fate <- proc, sent <- wire

(* A session implements the protocol its clients rely on: what reaches the *)
(* client comes in its order, every chunk of stdout once and in order, and *)
(* tells the truth about the process, whatever runs, fails or is cancelled *)
(* at the server.                                                          *)
ImplementsProtocol == Protocol!Spec

(* server_exited tells how the process ended: an exit code only if it      *)
(* exited with that code, killed only if a signal ended it, an error only  *)
(* after exit code 0, when the copying of the output failed or was cut     *)
(* short, or Wait found the session's context ended.                       *)
ExitReportTruthful ==
  \A i \in 1..Len(wire) :
    wire[i].kind = "server_exited" =>
      CASE wire[i].tag = "codeN"  -> proc = "exitN"
        [] wire[i].tag = "killed" -> proc = "killed"
        [] OTHER                  -> proc = "exit0"

NormalClosed == Close("normal") \in {wire[i] : i \in 1..Len(wire)}

(* A normal closure, the only one senderStdout of the client does not call *)
(* unexpected, is only sent after a clean exit that Wait confirmed.        *)
NormalCloseIsClean == NormalClosed => proc = "exit0" /\ waitRes = "nil"

(* A handler that served a session returns only after it reaped the        *)
(* process and every goroutine it started has ended.                       *)
ReturnedIsQuiescent ==
  main = "returned" /\ worker["stdin"] # "off" =>
    /\ waitRes # "none"
    /\ \A s \in Streams : worker[s] = "done" /\ copier[s] = "done"

(* While main is in Wait nothing main would have to do keeps Wait from     *)
(* returning: stdin has its end of file, and an output copier with a chunk *)
(* in hand has a reader or a closed pipe to write to.                      *)
WaitCanFinish ==
  Waiting =>
    /\ worker["stdin"] = "done"
    /\ \A s \in OutStreams :
         copier[s] = "running" /\ queue[s] # <<>> => Serving(s) \/ s \in closed

-----------------------------------------------------------------------------
(* Liveness.                                                               *)

(* The receiver waits for a reader of processStdin that is gone for good.  *)
StuckStdinWrite == worker["stdin"] = "writing" /\ copier["stdin"] = "done"

Ended == main \in {"returned", "panicked"}

(* After a signal the handler ends, unless the receiver is stuck in its    *)
(* write to the stdin of a dead process: nothing else can hold it.         *)
SignalEndsSession == ("running" \in ctx) ~> (Ended \/ StuckStdinWrite)

(* With a process that reads its stdin and exits at its end, the handler   *)
(* ends after the client asked for the shutdown, closed the connection or  *)
(* disappeared, unless the receiver is stuck; also when a descendant of    *)
(* the process keeps its pipes open for ever.                              *)
DisconnectEndsSession ==
  (peer # "connected" /\ main = "select") ~> (Ended \/ StuckStdinWrite)

(* However the handler ends, the process it started does not outlive it    *)
(* for ever.                                                               *)
ProcessEventuallyDies == Ended ~> (proc # "running")

-----------------------------------------------------------------------------
(* What comments and documents say and the code does not do.               *)

(* server/proxy.go:279, "nil: websocket already closed/dead, no need to    *)
(* close", and :197, "desiredClose already ready for closure (nil or not)":*)
(* a nil answer of the receiver is an ordinary way for a session to end.   *)
NilCloseIsOrdinary == main # "panicked"

(* protocol/oob.go:177, server_exited is "sent by server when MCP process  *)
(* exits": the handler notices the exit of a process that it serves.       *)
ExitIsNoticed == (Dead /\ main = "select") ~> (main # "select")

(* server/proxy.go:189, "draining stdout sender after normal process       *)
(* exit", which :178 spells out, "let them finish (and send potential      *)
(* remaining buffer first)": a client told that all went well has all of   *)
(* stdout.                                                                 *)
CleanCloseIsComplete ==
  NormalClosed => Carry(wire, "bin", 0, made["stdout"])

(* server/command.go:198, "The actual connection cleanup is handled by     *)
(* processCtx cancellation and requests.Wait()": after the signal every    *)
(* handler ends.                                                           *)
SignalCompletes == ("running" \in ctx) ~> Ended
=============================================================================
