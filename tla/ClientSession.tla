--------------------------- MODULE ClientSession ---------------------------
(***************************************************************************)
(* One run of the proxy client: Action of client/command.go, the function  *)
(* proxy of client/proxy.go and its two goroutines, receiverStdin (local   *)
(* stdin to the websocket) and senderStdout (the websocket to local stdout *)
(* and stderr).  The server is any that keeps SessionProtocol; the         *)
(* application that launched the client is the environment.                *)
(***************************************************************************)
EXTENDS WireFrames

CONSTANTS
  MaxIn,     (* bound: chunks the application writes on the client's stdin *)
  MaxOut,    (* bound: chunks of the remote stdout                         *)
  MaxErr,    (* bound: lines of the remote stderr                          *)
  LongLines  (* may a stderr message exceed the client's read limit?       *)

ASSUME ClientAssumption ==
  /\ MaxIn \in Nat /\ MaxOut \in Nat /\ MaxErr \in Nat
  /\ LongLines \in BOOLEAN

VARIABLES
  main,    (* where the main goroutine is                                   *)
  ctx,     (* the contexts that ended: "running" is the signal context      *)
  outcome, (* the error proxy or Dial came to                               *)
  code,    (* how the program ended: its exit code or "sigpipe"             *)
  worker,  (* receiverStdin and senderStdout                                *)
  answer,  (* the buffered channel each worker answers on                   *)
  info,    (* exitInfo: what the last server_exited said                    *)
  item,    (* the frame senderStdout is writing out                         *)
  typed,   (* chunks read from stdin                                        *)
  input,   (* the other end of the client's stdin                           *)
  app,     (* does somebody hold the other end of stdout and stderr?        *)
  out,     (* what the application was given on stdout and stderr           *)
  lost,    (* the stderr lines, by their place in sent, that it was not     *)
           (* given because the write to stderr failed                      *)
  conn,    (* the websocket at the client                                   *)
  up,      (* frames put on the connection for the server                   *)
  read,    (* frames of sent that the client has read                       *)
  fate,    (* the server's part: see SessionProtocol                        *)
  sent

mainVars   == <<main, ctx, outcome, code>>
workVars   == <<worker, answer, info, item>>
appVars    == <<typed, input, app, out, lost>>
connVars   == <<conn, up, read>>
serverVars == <<fate, sent>>
vars == <<mainVars, workVars, appVars, connVars, serverVars>>

Server == INSTANCE SessionProtocol

Workers  == {"receiver", "sender"}
Answers  == {"normal", "abnormal", "failed", "cancelled"}
Answered(w) == answer[w] \in Answers

(* A worker's context ends with its own cancel function or the signal.     *)
Done(w) == ctx \cap {"running", w} # {}

Init ==
  /\ main = "dialing" /\ ctx = {} /\ outcome = "none" /\ code = "none"
  /\ worker = [w \in Workers |-> "off"] /\ answer = [w \in Workers |-> "none"]
  /\ info = "none" /\ item = StartOk
  /\ typed = 0 /\ input = "open" /\ app = "reading" /\ out = <<>> /\ lost = {}
  /\ conn = "none" /\ up = <<>> /\ read = 0
  /\ Server!Init

(* The frame conn.Read returns next; what had arrived before the           *)
(* connection broke may still be read.                                     *)
Arrived == conn \in {"open", "broken"} /\ read < Len(sent)
Incoming == sent[read + 1]

(* conn.Write(ctx, frame), ok telling whether it returned nil; with an     *)
(* ended context it may fail, written or not, and close the connection.    *)
WsWrite(w, frame, ok) ==
  /\ UNCHANGED read
  /\ \/ /\ conn = "open" /\ ok
        /\ up' = Append(up, frame)
        /\ conn' \in {"open"} \cup IF Done(w) THEN {"closed"} ELSE {}
     \/ /\ conn = "open" /\ ~ok /\ Done(w)
        /\ \/ conn' \in {"open", "closed"} /\ UNCHANGED up
           \/ conn' = "closed" /\ up' = Append(up, frame)
     \/ /\ conn = "broken"
        /\ conn' = IF ok THEN "broken" ELSE "closed"
        /\ UNCHANGED up
     \/ /\ conn = "closed" /\ ~ok
        /\ UNCHANGED <<conn, up>>

(* A worker goes on at pc; a worker answers and ends.                      *)
Goto(w, pc) == worker' = [worker EXCEPT ![w] = pc] /\ UNCHANGED answer
Finish(w, r) ==
  /\ worker' = [worker EXCEPT ![w] = "done"]
  /\ answer' = [answer EXCEPT ![w] = r]

-----------------------------------------------------------------------------
(* The main goroutine.                                                     *)

Dial ==
  /\ main = "dialing"
  /\ \/ conn' = "open" /\ main' = "greeting" /\ UNCHANGED <<outcome, code>>
     \/ conn' = "none" /\ main' = "exited" /\ outcome' = "dial" /\ code' = "2"
  /\ UNCHANGED <<ctx, workVars, appVars, up, read, serverVars>>

(* The first frame has to be start_ok; every other ends the session.       *)
Greet ==
  /\ main = "greeting" /\ Arrived
  /\ read' = 1
  /\ IF Incoming.kind = "start_ok"
     THEN /\ main' = "select"
          /\ worker' = [w \in Workers |-> "reading"]
          /\ UNCHANGED <<outcome, conn>>
     ELSE /\ main' = "returning" /\ outcome' = "greeting"
          /\ conn' = IF Incoming.kind = "close" THEN "closed" ELSE conn
          /\ UNCHANGED worker
  /\ UNCHANGED <<ctx, code, answer, info, item, appVars, up, serverVars>>

GreetFails ==
  /\ main = "greeting"
  /\ conn # "open" \/ "running" \in ctx
  /\ main' = "returning" /\ outcome' = "greeting" /\ conn' = "closed"
  /\ UNCHANGED <<ctx, code, workVars, appVars, up, read, serverVars>>

(* Main goes from its select to a join with w's answer as the outcome, and *)
(* cancels the other worker.                                               *)
First(w, other, to) ==
  /\ main = "select" /\ Answered(w)
  /\ main' = to
  /\ outcome' = answer[w]
  /\ answer' = [answer EXCEPT ![w] = "taken"]
  /\ ctx' = ctx \cup {other}
  /\ UNCHANGED <<code, worker, info, item, appVars, connVars, serverVars>>

(* Mutant: the sender is cancelled but its answer not awaited.             *)
ReceiverFirstNoJoin == First("receiver", "sender", "returning")

ReceiverFirst == First("receiver", "sender", "joinSender")
SenderFirst   == First("sender", "receiver", "joinReceiver")

JoinSender ==
  /\ main = "joinSender" /\ Answered("sender")
  /\ main' = "returning"
  /\ answer' = [answer EXCEPT !["sender"] = "taken"]
  /\ UNCHANGED <<ctx, outcome, code, worker, info, item, appVars, connVars, serverVars>>

(* Mutant: the receiver is awaited without the timeout.                    *)
JoinReceiverForEver ==
  /\ main = "joinReceiver" /\ Answered("receiver")
  /\ main' = "returning"
  /\ answer' = [answer EXCEPT !["receiver"] = "taken"]
  /\ UNCHANGED <<ctx, outcome, code, worker, info, item, appVars, connVars, serverVars>>

(* The receiver answers within 100 ms or is left behind.                   *)
JoinReceiver ==
  /\ main = "joinReceiver"
  /\ main' = "returning"
  /\ answer' \in {answer} \cup IF Answered("receiver")
                               THEN {[answer EXCEPT !["receiver"] = "taken"]} ELSE {}
  /\ UNCHANGED <<ctx, outcome, code, worker, info, item, appVars, connVars, serverVars>>

(* The deferred cancel functions of proxy.                                 *)
ProxyReturns ==
  /\ main = "returning"
  /\ main' = "closing"
  /\ ctx' = ctx \cup IF worker["sender"] = "off" THEN {} ELSE Workers
  /\ UNCHANGED <<outcome, code, workVars, appVars, connVars, serverVars>>

(* Action: CloseNow, and every error of proxy becomes exit code 3.         *)
Exit ==
  /\ main = "closing"
  /\ main' = "exited" /\ code' = "3" /\ conn' = "closed"
  /\ UNCHANGED <<ctx, outcome, workVars, appVars, up, read, serverVars>>

Main == Dial \/ Greet \/ GreetFails \/ ReceiverFirst \/ SenderFirst
        \/ JoinSender \/ JoinReceiver \/ ProxyReturns \/ Exit

-----------------------------------------------------------------------------
(* receiverStdin: local stdin to the websocket.  Its Read cannot be        *)
(* interrupted by a context.                                               *)

ReadStdin ==
  /\ worker["receiver"] = "reading" /\ input = "open" /\ typed < MaxIn
  /\ typed' = typed + 1
  /\ Goto("receiver", "writing")
  /\ UNCHANGED <<mainVars, info, item, input, app, out, lost, connVars, serverVars>>

(* Mutant: the end of stdin is not told to the server.                     *)
ReadEofQuietly ==
  /\ worker["receiver"] = "reading" /\ input = "eof"
  /\ Goto("receiver", "waiting")
  /\ UNCHANGED <<mainVars, info, item, appVars, connVars, serverVars>>

(* io.EOF, after the last chunk.                                           *)
ReadEof ==
  /\ worker["receiver"] = "reading" /\ input = "eof"
  /\ Goto("receiver", "shutdown")
  /\ UNCHANGED <<mainVars, info, item, appVars, connVars, serverVars>>

ReadStdinFails ==
  /\ worker["receiver"] = "reading"
  /\ Finish("receiver", "failed")
  /\ UNCHANGED <<mainVars, info, item, appVars, connVars, serverVars>>

(* Mutant: what the write returned is not looked at.                       *)
SendStdinUnchecked ==
  /\ worker["receiver"] = "writing"
  /\ \E ok \in BOOLEAN : WsWrite("receiver", Binary(typed), ok)
  /\ Goto("receiver", "reading")
  /\ UNCHANGED <<mainVars, info, item, appVars, serverVars>>

SendStdin ==
  /\ worker["receiver"] = "writing"
  /\ \E ok \in BOOLEAN :
       /\ WsWrite("receiver", Binary(typed), ok)
       /\ IF ok THEN Goto("receiver", "reading") ELSE Finish("receiver", "failed")
  /\ UNCHANGED <<mainVars, info, item, appVars, serverVars>>

SendShutdown ==
  /\ worker["receiver"] = "shutdown"
  /\ \E ok \in BOOLEAN :
       /\ WsWrite("receiver", Shutdown, ok)
       /\ IF ok THEN Goto("receiver", "waiting") ELSE Finish("receiver", "failed")
  /\ UNCHANGED <<mainVars, info, item, appVars, serverVars>>

(* <-ctx.Done(): the sender finished first, or the signal came.            *)
AwaitCancel ==
  /\ worker["receiver"] = "waiting" /\ Done("receiver")
  /\ Finish("receiver", "cancelled")
  /\ UNCHANGED <<mainVars, info, item, appVars, connVars, serverVars>>

Receiver == ReadStdin \/ ReadEof \/ ReadStdinFails
            \/ SendStdin \/ SendShutdown \/ AwaitCancel

-----------------------------------------------------------------------------
(* senderStdout: the websocket to local stdout and stderr.                 *)

(* Mutant: exit_code as a plain integer, 0 when the message has none.      *)
ExitInfoDefaulted(p) ==
  IF p.exit_code \subseteq {0} THEN "code0" ELSE "codeN"

(* The switch on the payload of server_exited: the first case that holds.  *)
ExitInfo(p) ==
  IF p.exit_code = {0} THEN "code0"
  ELSE IF p.exit_code # {} THEN "codeN"
  ELSE IF p.killed THEN "killed" ELSE "error"

(* Mutant: the closure that follows server_exited is not waited for.       *)
HandleExitAndLeave(f) ==
  /\ info' = ExitInfo(ExitPayload(f.tag))
  /\ Finish("sender", "normal")
  /\ UNCHANGED <<item, conn>>

(* server_exited is remembered; the closure that follows decides.          *)
HandleExit(f) ==
  /\ info' = ExitInfo(ExitPayload(f.tag))
  /\ UNCHANGED <<worker, answer, item, conn>>

(* Mutant: the status itself becomes the answer.                           *)
CloseStatus(f) == f.tag

(* The answer for the status of a close frame.                             *)
CloseAnswer(f) == IF f.tag = "normal" THEN "normal" ELSE "abnormal"

(* What senderStdout does with frame f.  A text frame it cannot decode, or *)
(* one that has no business here, is only worth a warning.                 *)
Handle(f) ==
  CASE f.kind = "close" ->
         /\ Finish("sender", CloseAnswer(f))
         /\ conn' = "closed"
         /\ UNCHANGED <<info, item>>
    [] f.kind \in {"bin", "process_stderr"} ->
         /\ Goto("sender", "writing")
         /\ item' = f
         /\ UNCHANGED <<info, conn>>
    [] f.kind = "server_exited" -> HandleExit(f)
    [] OTHER -> UNCHANGED <<workVars, conn>>

ReadFrame ==
  /\ worker["sender"] = "reading" /\ Arrived
  /\ read' = read + 1
  /\ Handle(Incoming)
  /\ UNCHANGED <<mainVars, appVars, up, serverVars>>

(* The connection broke or was closed, the context ended, or the message   *)
(* is above the read limit: the library closes the connection.             *)
ReadFails ==
  /\ worker["sender"] = "reading"
  /\ \/ conn # "open" \/ Done("sender")
     \/ LongLines /\ Arrived /\ Incoming.kind = "process_stderr"
  /\ Finish("sender", "failed")
  /\ conn' = "closed"
  /\ UNCHANGED <<mainVars, info, item, appVars, up, read, serverVars>>

(* The application takes what the sender writes, in its own time.          *)
WriteOut ==
  /\ worker["sender"] = "writing" /\ app = "reading"
  /\ out' = Append(out, item)
  /\ Goto("sender", "reading")
  /\ UNCHANGED <<mainVars, info, item, typed, input, app, lost, connVars, serverVars>>

(* Mutant: the error of stdout.Write is not looked at.                     *)
WriteOutSkipped ==
  /\ worker["sender"] = "writing" /\ item.kind = "bin"
  /\ Goto("sender", "reading")
  /\ UNCHANGED <<mainVars, info, item, appVars, connVars, serverVars>>

(* stdout.Write fails, for instance on a file and a full disk.             *)
WriteOutFails ==
  /\ worker["sender"] = "writing" /\ item.kind = "bin"
  /\ Finish("sender", "failed")
  /\ UNCHANGED <<mainVars, info, item, appVars, connVars, serverVars>>

(* Fprintf to stderr fails likewise.  Nobody looks at its error: the line  *)
(* is lost and the loop goes on.                                           *)
StderrFails ==
  /\ worker["sender"] = "writing" /\ item.kind = "process_stderr"
  /\ lost' = lost \cup {read}
  /\ Goto("sender", "reading")
  /\ UNCHANGED <<mainVars, info, item, typed, input, app, out, connVars, serverVars>>

(* Nobody reads: the runtime turns EPIPE on stdout and stderr into a       *)
(* SIGPIPE that kills the program.                                         *)
BrokenPipe ==
  /\ worker["sender"] = "writing" /\ app = "gone"
  /\ main' = "exited" /\ code' = "sigpipe" /\ conn' = "closed"
  /\ UNCHANGED <<ctx, outcome, workVars, appVars, up, read, serverVars>>

Sender == ReadFrame \/ ReadFails \/ WriteOut \/ WriteOutFails \/ StderrFails \/ BrokenPipe

-----------------------------------------------------------------------------
(* The environment.                                                        *)

AppClosesStdin ==
  /\ input = "open"
  /\ input' = "eof"
  /\ UNCHANGED <<mainVars, workVars, typed, app, out, lost, connVars, serverVars>>

AppVanishes ==
  /\ app = "reading"
  /\ app' = "gone" /\ input' = "eof"
  /\ UNCHANGED <<mainVars, workVars, typed, out, lost, connVars, serverVars>>

(* SIGINT, SIGTERM or SIGQUIT.                                             *)
Signal ==
  /\ "running" \notin ctx
  /\ ctx' = ctx \cup {"running"}
  /\ UNCHANGED <<main, outcome, code, workVars, appVars, connVars, serverVars>>

ConnectionBreaks ==
  /\ conn = "open"
  /\ conn' = "broken"
  /\ UNCHANGED <<mainVars, workVars, appVars, up, read, serverVars>>

(* What the server does once the connection is gone is none of the         *)
(* client's business.                                                      *)
ServerActs ==
  /\ conn = "open" /\ Server!Next
  /\ UNCHANGED <<mainVars, workVars, appVars, connVars>>

Next ==
  /\ main # "exited"
  /\ \/ Main \/ Receiver \/ Sender
     \/ AppClosesStdin \/ AppVanishes \/ Signal \/ ConnectionBreaks \/ ServerActs

Spec == Init /\ [][Next]_vars

(***************************************************************************)
(* The client's goroutines are scheduled, the timer fires, the application *)
(* takes the client's output, and a broken connection or an ended context  *)
(* is noticed however many frames come.  Nothing is asked of the writes to *)
(* the server, of Dial unless the signal ends it, nor of the environment.  *)
(***************************************************************************)
Step(A) == main # "exited" /\ A

ClientFairness ==
  /\ WF_vars(Step(Main /\ (main = "dialing" => "running" \in ctx)))
  /\ WF_vars(Step(ReadEof \/ AwaitCancel))
  /\ WF_vars(Step(ReadFrame \/ WriteOut \/ BrokenPipe))
  /\ SF_vars(Step(ReadFails))

FairSpec == Spec /\ ClientFairness

(* The server reads what it is sent and ends the session after shutdown.   *)
ServerEnds ==
  /\ main # "exited" /\ Shutdown \in {up[i] : i \in 1..Len(up)}
  /\ ServerActs
  /\ sent' # sent /\ sent'[Len(sent')].kind = "close"

AttentiveServer == WF_vars(Step(SendStdin \/ SendShutdown)) /\ WF_vars(ServerEnds)

=============================================================================
