--------------------------- MODULE ServerSession ---------------------------
(***************************************************************************)
(* One accepted connection of the proxy server: the function proxy of      *)
(* server/proxy.go with the goroutines it starts (receiverStdin,           *)
(* senderStdout, senderStderr and the two helpers that close a pipe when a *)
(* context ends), os/exec around the spawned MCP server, the websocket as  *)
(* the server's end sees it, and the client as an environment.             *)
(*                                                                         *)
(* A chunk of a stream is its number: the k-th binary frame the client     *)
(* sends, the k-th chunk the process writes on stdout, its k-th stderr     *)
(* line.  queue[s] joins the OS pipe of stream s and the chunk its os/exec *)
(* copying goroutine has in hand; the io.Pipe between that goroutine and   *)
(* the worker is synchronous and holds nothing.                            *)
(***************************************************************************)
EXTENDS WireFrames

CONSTANTS
  MaxIn,         (* bound: binary frames the client sends                  *)
  MaxOut,        (* bound: chunks the process writes on stdout             *)
  MaxErr,        (* bound: lines the process writes on stderr              *)
  StdinCap,      (* chunks the stdin OS pipe and its copier hold           *)
  PeerFrames,    (* frames beside "bin" that the client may send           *)
  ParseOutcomes, (* what AccumulateResponse may answer: "ok", "error"      *)
  HeldPipes      (* may a descendant of the process keep its pipes open?   *)

ASSUME SessionAssumption ==
  /\ MaxIn \in Nat /\ MaxOut \in Nat /\ MaxErr \in Nat
  /\ StdinCap \in Nat \ {0}
  /\ PeerFrames \subseteq {"shutdown", "start_ok", "bad", "close"}
  /\ ParseOutcomes \subseteq {"ok", "error"}
  /\ HeldPipes \in BOOLEAN

VARIABLES
  main,     (* where the handler goroutine is inside proxy                  *)
  desired,  (* desiredClose: the status to close the websocket with, or nil *)
  waitRes,  (* what subProcess.Wait returned, "none" before                 *)
  ctx,      (* the contexts whose cancel function was called                *)
  proc,     (* the spawned process                                          *)
  leaked,   (* a descendant of the dead process still holds its pipes       *)
  made,     (* chunks each stream's source has written                      *)
  got,      (* the chunks the process has read from its stdin               *)
  queue,    (* chunks between the source or sink process and the io.Pipe    *)
  copier,   (* os/exec's copying goroutines                                 *)
  copyErr,  (* a copying goroutine failed                                   *)
  expired,  (* WaitDelay ran out and os/exec closed its pipe ends           *)
  worker,   (* receiverStdin, senderStdout and senderStderr                 *)
  held,     (* the chunk a worker is writing, 0 when it has none            *)
  result,   (* the buffered channel each worker answers on                  *)
  closed,   (* the io.Pipe read ends that were closed                       *)
  ws,       (* the websocket connection at the server                       *)
  peer,     (* the client's end                                             *)
  wsIn,     (* frames sent by the client, not yet read by the server        *)
  wire      (* history: frames the client receives                          *)

mainVars == <<main, desired, waitRes, ctx>>
procVars == <<proc, leaked, made, got>>
pipeVars == <<queue, copier, copyErr, expired>>
workVars == <<worker, held, result, closed>>
netVars  == <<ws, peer, wsIn, wire>>
vars == <<mainVars, procVars, pipeVars, workVars, netVars>>

Streams    == {"stdin", "stdout", "stderr"}
OutStreams == {"stdout", "stderr"}

(* The values of a worker's channel: a close status, "nil" when there is   *)
(* nothing to close, "none" before and "taken" after main received it.     *)
Results  == Statuses \cup {"nil", "none", "taken"}

(* The channel of worker s holds its answer.                               *)
Answered(s) == result[s] \in Statuses \cup {"nil"}

Dead == proc \in {"exit0", "exitN", "killed"}

(* ctx.Done(): a context ends with its own cancel function or a parent's.  *)
Done(c) == ctx \cap {"running", "process", c} # {}

(* The client still reads: it did not vanish and sent no close frame.      *)
Listening == peer \in {"connected", "finished"}

Limit == [stdin |-> MaxIn, stdout |-> MaxOut, stderr |-> MaxErr]

Init ==
  /\ main = "starting" /\ desired = "nil" /\ waitRes = "none" /\ ctx = {}
  /\ proc = "none" /\ leaked = FALSE
  /\ made = [s \in Streams |-> 0] /\ got = <<>>
  /\ queue = [s \in Streams |-> <<>>]
  /\ copier = [s \in Streams |-> "off"] /\ copyErr = FALSE /\ expired = FALSE
  /\ worker = [s \in Streams |-> "off"] /\ held = [s \in Streams |-> 0]
  /\ result = [s \in Streams |-> "none"] /\ closed = {}
  /\ ws = "open" /\ peer = "connected" /\ wsIn = <<>> /\ wire = <<>>

-----------------------------------------------------------------------------
(***************************************************************************)
(* wsc.Write(c, frame), ok telling whether it returned nil.  A dead client *)
(* loses the frame, noticed (the library closes the connection) or not.    *)
(* With an ended context the library may fail before it writes, may have   *)
(* written, and may close the whole connection in each case.               *)
(***************************************************************************)
WsWrite(c, frame, ok) ==
  \/ /\ ws = "open" /\ Listening /\ ~Done(c) /\ ok
     /\ wire' = Append(wire, frame)
     /\ UNCHANGED ws
  \/ /\ ws = "open" /\ Listening /\ Done(c)
     /\ wire' = IF ok THEN Append(wire, frame) ELSE wire
     /\ ws' \in {"open", "closed"}
  \/ /\ ws = "open" /\ ~Listening
     /\ ws' \in {"open", "closed"}
     /\ ok \/ ws' = "closed" \/ Done(c)
     /\ UNCHANGED wire
  \/ /\ ws = "closed" /\ ~ok
     /\ UNCHANGED <<ws, wire>>

(* A worker sends its answer; the deferred Close of its pipe follows.      *)
Finish(s, r) ==
  /\ worker' = [worker EXCEPT ![s] = "done"]
  /\ held' = [held EXCEPT ![s] = 0]
  /\ result' = [result EXCEPT ![s] = r]
  /\ closed' = closed \cup ({s} \cap OutStreams)

(* A worker moves between reading and writing, holding chunk n.            *)
Turn(s, pc, n) ==
  /\ worker' = [worker EXCEPT ![s] = pc]
  /\ held' = [held EXCEPT ![s] = n]
  /\ UNCHANGED <<result, closed>>

-----------------------------------------------------------------------------
(* The handler goroutine.                                                  *)

(* subProcess.Start: fails on an ended context or when exec itself fails.  *)
StartProcess ==
  /\ main = "starting"
  /\ \/ /\ main' = "startErr"
        /\ UNCHANGED <<proc, copier>>
     \/ /\ ~Done("process")
        /\ main' = "startOk"
        /\ proc' = "running"
        /\ copier' = [s \in Streams |-> "running"]
  /\ UNCHANGED <<desired, waitRes, ctx, leaked, made, got, queue, copyErr, expired>>
  /\ UNCHANGED <<workVars, netVars>>

SendStartErr ==
  /\ main = "startErr"
  /\ \E ok \in BOOLEAN : WsWrite("process", StartErr, ok)
  /\ main' = "closing" /\ desired' = "internal"
  /\ UNCHANGED <<waitRes, ctx, procVars, pipeVars, workVars, peer, wsIn>>

(* start_ok goes out before any worker runs; when it cannot be sent the    *)
(* handler leaves without waiting for the process.                         *)
SendStartOk ==
  /\ main = "startOk"
  /\ \E ok \in BOOLEAN :
       /\ WsWrite("process", StartOk, ok)
       /\ IF ok
          THEN /\ main' = "select"
               /\ worker' = [s \in Streams |-> "reading"]
               /\ UNCHANGED desired
          ELSE /\ main' = "closing" /\ desired' = "internal"
               /\ UNCHANGED worker
  /\ UNCHANGED <<waitRes, ctx, procVars, pipeVars, held, result, closed, peer, wsIn>>

(* The select: the receiver's answer, when it is a close status.           *)
ReceiverFirst ==
  /\ main = "select" /\ result["stdin"] \in Statuses
  /\ main' = "waitR"
  /\ desired' = result["stdin"]
  /\ result' = [result EXCEPT !["stdin"] = "taken"]
  /\ UNCHANGED <<waitRes, ctx, procVars, pipeVars, worker, held, closed, netVars>>

(* The receiver answered nil: the arguments of the log call dereference    *)
(* desiredClose.  The panic runs the deferred calls (the worker contexts,  *)
(* processCancel, CloseNow) and net/http recovers it.                      *)
ReceiverFirstNil ==
  /\ main = "select" /\ result["stdin"] = "nil"
  /\ main' = "panicked"
  /\ desired' = "nil"
  /\ result' = [result EXCEPT !["stdin"] = "taken"]
  /\ ctx' = ctx \cup Streams \cup {"process"}
  /\ ws' = "closed"
  /\ UNCHANGED <<waitRes, procVars, pipeVars, worker, held, closed, peer, wsIn, wire>>

(* Mutant: the receiver is cancelled but its answer not awaited.           *)
SenderFirstNoJoin ==
  /\ main = "select" /\ Answered("stdout")
  /\ main' = "joinStderrS"
  /\ desired' = result["stdout"]
  /\ result' = [result EXCEPT !["stdout"] = "taken"]
  /\ ctx' = ctx \cup {"stdin", "stderr"}
  /\ UNCHANGED <<waitRes, procVars, pipeVars, worker, held, closed, netVars>>

(* The select: senderStdout answered; the receiver is cancelled.           *)
SenderFirst ==
  /\ main = "select" /\ Answered("stdout")
  /\ main' = "joinReceiver"
  /\ desired' = result["stdout"]
  /\ result' = [result EXCEPT !["stdout"] = "taken"]
  /\ ctx' = ctx \cup {"stdin"}
  /\ UNCHANGED <<waitRes, procVars, pipeVars, worker, held, closed, netVars>>

(* Main receives worker s's answer, cancels the contexts cs, and goes on.  *)
Join(s, from, to, cs) ==
  /\ main = from /\ Answered(s)
  /\ main' = to
  /\ result' = [result EXCEPT ![s] = "taken"]
  /\ ctx' = ctx \cup cs
  /\ UNCHANGED <<desired, waitRes, procVars, pipeVars, worker, held, closed, netVars>>

(* Mutants: the stderr sender is cancelled but its answer not awaited.     *)
JoinReceiverOnly == Join("stdin", "joinReceiver", "waitS", {"stderr"})
JoinStdoutOnly   == Join("stdout", "joinStdout", "exitMsg", {"stderr"})

JoinReceiver == Join("stdin", "joinReceiver", "joinStderrS", {"stderr"})
JoinStdout   == Join("stdout", "joinStdout", "joinStderrR", {"stderr"})
JoinStderr   == \/ Join("stderr", "joinStderrR", "exitMsg", {})
                \/ Join("stderr", "joinStderrS", "waitS", {})

(***************************************************************************)
(* subProcess.Wait: the process is reaped and every copying goroutine has  *)
(* ended.  The exit status prevails; a clean exit still turns into another *)
(* error when a copy failed, WaitDelay ran out, or the context had ended   *)
(* and the dead process was signalled before it was reaped.                *)
(***************************************************************************)
WaitResults ==
  CASE proc = "exitN"  -> {"code"}
    [] proc = "killed" -> {"killed"}
    [] OTHER -> IF copyErr \/ expired THEN {"other"}
                ELSE {"nil"} \cup IF Done("process") THEN {"other"} ELSE {}

WaitReturns ==
  /\ main \in {"waitR", "waitS"}
  /\ Dead
  /\ \A s \in Streams : copier[s] = "done"
  /\ waitRes' \in WaitResults
  /\ IF main = "waitR"
     THEN main' = "joinStdout" /\ ctx' = ctx \cup {"stdout"}
     ELSE main' = "exitMsg" /\ UNCHANGED ctx
  /\ UNCHANGED <<desired, procVars, pipeVars, workVars, netVars>>

(* Mutant: every exec.ExitError is read as an exit code.                   *)
ExitReportAsCode ==
  CASE waitRes = "nil"              -> "code0"
    [] waitRes \in {"code", "killed"} -> "codeN"
    [] OTHER                        -> "error"

(* The payload handleProcessWaitError or sendNormalExitMessage builds.     *)
ExitReport ==
  CASE waitRes = "nil"    -> "code0"
    [] waitRes = "code"   -> "codeN"
    [] waitRes = "killed" -> "killed"
    [] OTHER              -> "error"

(* Mutants: the status is left as it was; it becomes the error of Wait.    *)
UnadaptedClose  == desired
WaitErrorClose  == IF waitRes # "nil" /\ desired = "normal" THEN waitRes ELSE desired

AdaptedClose ==
  IF waitRes # "nil" /\ desired = "normal" THEN "internal" ELSE desired

SendExitMessage ==
  /\ main = "exitMsg"
  /\ \E ok \in BOOLEAN : WsWrite("process", Exited(ExitReport), ok)
  /\ desired' = AdaptedClose
  /\ main' = "closing"
  /\ UNCHANGED <<waitRes, ctx, procVars, pipeVars, workVars, peer, wsIn>>

(* The deferred calls of proxy: the worker contexts, then wsc.Close.       *)
CloseWebsocket ==
  /\ main = "closing"
  /\ main' = "returning"
  /\ ctx' = ctx \cup Streams
  /\ IF desired # "nil" /\ ws = "open"
     THEN /\ ws' = "closed"
          /\ wire' = IF Listening THEN Append(wire, Close(desired)) ELSE wire
     ELSE UNCHANGED <<ws, wire>>
  /\ UNCHANGED <<desired, waitRes, procVars, pipeVars, workVars, peer, wsIn>>

(* Mutant: processCancel is not deferred.                                  *)
ReturnWithoutCancel ==
  /\ main = "returning"
  /\ main' = "returned"
  /\ ws' = "closed"
  /\ UNCHANGED <<desired, waitRes, ctx, procVars, pipeVars, workVars, peer, wsIn, wire>>

(* processCancel, then handleConnection's CloseNow.                        *)
Return ==
  /\ main = "returning"
  /\ main' = "returned"
  /\ ctx' = ctx \cup {"process"}
  /\ ws' = "closed"
  /\ UNCHANGED <<desired, waitRes, procVars, pipeVars, workVars, peer, wsIn, wire>>

Main ==
  \/ StartProcess \/ SendStartErr \/ SendStartOk
  \/ ReceiverFirst \/ ReceiverFirstNil \/ SenderFirst
  \/ JoinReceiver \/ JoinStdout \/ JoinStderr
  \/ WaitReturns \/ SendExitMessage \/ CloseWebsocket \/ Return

-----------------------------------------------------------------------------
(* receiverStdin: websocket frames to the process's stdin.                 *)

(* wsc.Read returned a frame; a close frame ends the connection, and a     *)
(* message of another type than shutdown only causes a warning.            *)
ReceiveFrame ==
  /\ worker["stdin"] = "reading" /\ ws = "open" /\ wsIn # <<>>
  /\ wsIn' = Tail(wsIn)
  /\ LET f == Head(wsIn) IN
     CASE f.kind = "close"    -> Finish("stdin", "nil") /\ ws' = "closed"
       [] f.kind = "bin"      -> Turn("stdin", "writing", f.n) /\ UNCHANGED ws
       [] f.kind = "shutdown" -> Finish("stdin", "normal") /\ UNCHANGED ws
       [] Undecodable(f)      -> Finish("stdin", "unsupported") /\ UNCHANGED ws
       [] OTHER               -> UNCHANGED <<workVars, ws>>
  /\ UNCHANGED <<mainVars, procVars, pipeVars, peer, wire>>

(* Mutant: wsc.Read is not given the receiver's context.                   *)
ReceiveFailsOnBroken ==
  /\ worker["stdin"] = "reading"
  /\ ws = "closed" \/ peer = "gone"
  /\ Finish("stdin", "internal")
  /\ ws' = "closed"
  /\ UNCHANGED <<mainVars, procVars, pipeVars, peer, wsIn, wire>>

(* wsc.Read failed without a close status: the connection broke, was       *)
(* closed, or the context ended, for which the library closes it.          *)
ReceiveFails ==
  /\ worker["stdin"] = "reading"
  /\ ws = "closed" \/ peer = "gone" \/ Done("stdin")
  /\ Finish("stdin", "internal")
  /\ ws' = "closed"
  /\ UNCHANGED <<mainVars, procVars, pipeVars, peer, wsIn, wire>>

(* Somebody still has the read end of the stdin OS pipe.                   *)
StdinOpen == ~expired /\ (proc = "running" \/ leaked)

(* Mutant: a chunk is dropped when the pipe is full.                       *)
WriteStdinOrDrop ==
  /\ worker["stdin"] = "writing" /\ copier["stdin"] = "running"
  /\ queue' = IF Len(queue["stdin"]) < StdinCap
              THEN [queue EXCEPT !["stdin"] = Append(@, held["stdin"])]
              ELSE queue
  /\ Turn("stdin", "reading", 0)
  /\ UNCHANGED <<mainVars, procVars, copier, copyErr, expired, netVars>>

(***************************************************************************)
(* processStdin.Write returns once the copying goroutine took the chunk.   *)
(* The goroutine stops at its first write to a broken pipe and closes only *)
(* the OS pipe, so the next Write of the receiver finds no reader, ever:   *)
(* no step then moves it, and its error branch is out of reach.            *)
(***************************************************************************)
WriteStdin ==
  /\ worker["stdin"] = "writing"
  /\ copier["stdin"] = "running" /\ Len(queue["stdin"]) < StdinCap
  /\ IF StdinOpen
     THEN /\ queue' = [queue EXCEPT !["stdin"] = Append(@, held["stdin"])]
          /\ UNCHANGED copier
     ELSE /\ copier' = [copier EXCEPT !["stdin"] = "done"]
          /\ UNCHANGED queue
  /\ Turn("stdin", "reading", 0)
  /\ UNCHANGED <<mainVars, procVars, copyErr, expired, netVars>>

Receiver == ReceiveFrame \/ ReceiveFails \/ WriteStdin

-----------------------------------------------------------------------------
(* senderStdout and senderStderr: process output to websocket frames.      *)

(* Mutant: what else is buffered is dropped with the chunk that is read.   *)
ReadOutputOnly(s) ==
  /\ worker[s] = "reading" /\ s \notin closed /\ queue[s] # <<>>
  /\ queue' = [queue EXCEPT ![s] = <<>>]
  /\ Turn(s, "writing", Head(queue[s]))
  /\ UNCHANGED <<mainVars, procVars, copier, copyErr, expired, netVars>>

(* processStdout.Read or ReadString returned data.                         *)
ReadOutput(s) ==
  /\ worker[s] = "reading" /\ s \notin closed /\ queue[s] # <<>>
  /\ queue' = [queue EXCEPT ![s] = Tail(@)]
  /\ Turn(s, "writing", Head(queue[s]))
  /\ UNCHANGED <<mainVars, procVars, copier, copyErr, expired, netVars>>

(* The read end was closed by the helper: io.ErrClosedPipe.  io.EOF never  *)
(* comes, for nobody closes the write end os/exec copies into.             *)
ReadClosed(s) ==
  /\ worker[s] = "reading" /\ s \in closed
  /\ Finish(s, IF s = "stdout" THEN "normal" ELSE "nil")
  /\ UNCHANGED <<mainVars, procVars, pipeVars, netVars>>

(* Mutant: a chunk that cannot be sent is dropped, as for stderr.          *)
SendStdoutOrDrop ==
  /\ worker["stdout"] = "writing"
  /\ \E ok \in BOOLEAN : WsWrite("stdout", Binary(held["stdout"]), ok)
  /\ Turn("stdout", "reading", 0)
  /\ UNCHANGED <<mainVars, procVars, pipeVars, peer, wsIn>>

(* A failed write ends senderStdout.  So does an error of the accumulator, *)
(* whose result overwrites the error of the read that the loop tests next. *)
SendStdout ==
  /\ worker["stdout"] = "writing"
  /\ \E ok \in BOOLEAN, parse \in ParseOutcomes :
       /\ WsWrite("stdout", Binary(held["stdout"]), ok)
       /\ IF ok /\ parse = "ok"
          THEN Turn("stdout", "reading", 0)
          ELSE \E r \in {"internal"} \cup IF ~ok /\ peer = "closing" THEN {"nil"} ELSE {} :
                 Finish("stdout", r)
  /\ UNCHANGED <<mainVars, procVars, pipeVars, peer, wsIn>>

(* A line that cannot be sent is dropped; the sender goes on reading.      *)
SendStderr ==
  /\ worker["stderr"] = "writing"
  /\ \E ok \in BOOLEAN : WsWrite("stderr", Stderr(held["stderr"]), ok)
  /\ Turn("stderr", "reading", 0)
  /\ UNCHANGED <<mainVars, procVars, pipeVars, peer, wsIn>>

(* Mutant: the helper waits for the process's context, not the worker's.   *)
CloseReadEndLate(s) ==
  /\ worker[s] # "off" /\ s \notin closed /\ Done("process")
  /\ closed' = closed \cup {s}
  /\ UNCHANGED <<mainVars, procVars, pipeVars, worker, held, result, netVars>>

(* Mutant: senderStderr has no helper.                                     *)
CloseStdoutReadEnd(s) ==
  /\ s = "stdout" /\ worker[s] # "off" /\ s \notin closed /\ Done(s)
  /\ closed' = closed \cup {s}
  /\ UNCHANGED <<mainVars, procVars, pipeVars, worker, held, result, netVars>>

(* The helper goroutine: <-ctx.Done(), then Close of the read end.         *)
CloseReadEnd(s) ==
  /\ worker[s] # "off" /\ s \notin closed /\ Done(s)
  /\ closed' = closed \cup {s}
  /\ UNCHANGED <<mainVars, procVars, pipeVars, worker, held, result, netVars>>

SenderStdout == ReadOutput("stdout") \/ ReadClosed("stdout") \/ SendStdout
SenderStderr == ReadOutput("stderr") \/ ReadClosed("stderr") \/ SendStderr
Helpers      == \E s \in OutStreams : CloseReadEnd(s)

-----------------------------------------------------------------------------
(* os/exec: the copying goroutines, watchCtx and WaitDelay.                *)

(* The stdin copier ends when the receiver closed processStdin and its     *)
(* hand is empty, or at a write to a broken or closed OS pipe.             *)
StdinCopierEnds ==
  /\ copier["stdin"] = "running"
  /\ \/ worker["stdin"] = "done" /\ Len(queue["stdin"]) < StdinCap
     \/ Len(queue["stdin"]) = StdinCap /\ ~StdinOpen
  /\ copier' = [copier EXCEPT !["stdin"] = "done"]
  /\ UNCHANGED <<mainVars, procVars, queue, copyErr, expired, workVars, netVars>>

(* An output copier ends at the end of the OS pipe (or because os/exec     *)
(* closed it), or when it writes to a closed read end, which is an error.  *)
OutputCopierEnds(s) ==
  /\ copier[s] = "running"
  /\ IF queue[s] = <<>>
     THEN /\ (Dead /\ ~leaked) \/ expired
          /\ UNCHANGED <<queue, copyErr>>
     ELSE /\ s \in closed
          /\ queue' = [queue EXCEPT ![s] = <<>>]
          /\ copyErr' = TRUE
  /\ copier' = [copier EXCEPT ![s] = "done"]
  /\ UNCHANGED <<mainVars, procVars, expired, workVars, netVars>>

(* watchCtx: an ended context kills the process, with no delay.            *)
WatchKills ==
  /\ proc = "running" /\ Done("process")
  /\ proc' = "killed"
  /\ leaked' \in IF HeldPipes THEN BOOLEAN ELSE {FALSE}
  /\ UNCHANGED <<mainVars, made, got, pipeVars, workVars, netVars>>

(* WaitDelay starts when Wait sees the process dead or its context ends.   *)
(* What is left in the OS pipes is lost, not the chunk a copier holds.     *)
WaitDelayExpires ==
  /\ ~expired /\ Dead /\ waitRes = "none"
  /\ main \in {"waitR", "waitS"} \/ Done("process")
  /\ \E s \in Streams : copier[s] = "running"
  /\ expired' = TRUE
  /\ queue' = [s \in Streams |->
                 IF s = "stdin" \/ queue[s] = <<>> THEN queue[s] ELSE <<Head(queue[s])>>]
  /\ UNCHANGED <<mainVars, procVars, copier, copyErr, workVars, netVars>>

Copiers == StdinCopierEnds \/ \E s \in OutStreams : OutputCopierEnds(s)
Exec    == Copiers \/ WatchKills \/ WaitDelayExpires

-----------------------------------------------------------------------------
(* The environment: the MCP server process, the client, the signals.       *)

ProcessReads ==
  /\ proc = "running" /\ queue["stdin"] # <<>>
  /\ got' = Append(got, Head(queue["stdin"]))
  /\ queue' = [queue EXCEPT !["stdin"] = Tail(@)]
  /\ UNCHANGED <<mainVars, proc, leaked, made, copier, copyErr, expired, workVars, netVars>>

ProcessWrites(s) ==
  /\ proc = "running" /\ copier[s] = "running" /\ made[s] < Limit[s]
  /\ made' = [made EXCEPT ![s] = @ + 1]
  /\ queue' = [queue EXCEPT ![s] = Append(@, made[s] + 1)]
  /\ UNCHANGED <<mainVars, proc, leaked, got, copier, copyErr, expired, workVars, netVars>>

(* It exits with a code or dies of a signal of its own.                    *)
ProcessExits ==
  /\ proc = "running"
  /\ proc' \in {"exit0", "exitN", "killed"}
  /\ leaked' \in IF HeldPipes THEN BOOLEAN ELSE {FALSE}
  /\ UNCHANGED <<mainVars, made, got, pipeVars, workVars, netVars>>

(* The client speaks after start_ok, says nothing after shutdown or a      *)
(* close frame, and may disappear at any time.                             *)
PeerSends(f) ==
  /\ peer = "connected" /\ ws = "open"
  /\ wire # <<>> /\ wire[1] = StartOk
  /\ wsIn' = Append(wsIn, f)
  /\ peer' = CASE f.kind = "close"    -> "closing"
              [] f.kind = "shutdown" -> "finished"
              [] OTHER               -> peer
  /\ UNCHANGED <<mainVars, proc, leaked, got, pipeVars, workVars, ws, wire>>

PeerSendsBinary ==
  /\ made["stdin"] < MaxIn
  /\ PeerSends(Binary(made["stdin"] + 1))
  /\ made' = [made EXCEPT !["stdin"] = @ + 1]

(* Bound: at most MaxIn + 1 frames wait.                                   *)
PeerSendsOther ==
  /\ Len(wsIn) <= MaxIn
  /\ \E k \in PeerFrames : PeerSends(Frame(k, 0, ""))
  /\ UNCHANGED made

PeerVanishes ==
  /\ Listening /\ ws = "open"
  /\ peer' = "gone"
  /\ UNCHANGED <<mainVars, procVars, pipeVars, workVars, ws, wsIn, wire>>

(* SIGINT, SIGTERM or SIGQUIT ends runningCtx.                             *)
Signal ==
  /\ "running" \notin ctx /\ main \notin {"returned", "panicked"}
  /\ ctx' = ctx \cup {"running"}
  /\ UNCHANGED <<main, desired, waitRes, procVars, pipeVars, workVars, netVars>>

Environment ==
  \/ ProcessReads \/ ProcessExits \/ \E s \in OutStreams : ProcessWrites(s)
  \/ PeerSendsBinary \/ PeerSendsOther \/ PeerVanishes \/ Signal

Next == Main \/ Receiver \/ SenderStdout \/ SenderStderr \/ Helpers \/ Exec \/ Environment

Spec == Init /\ [][Next]_vars

-----------------------------------------------------------------------------
(***************************************************************************)
(* Every goroutine of the server is scheduled and every call returns that  *)
(* can: a client that is connected reads, a broken connection is noticed.  *)
(* A Read whose context ended fails even when frames keep coming: the      *)
(* library closes the connection.  Nothing is asked of the client, the     *)
(* process or the signals.                                                 *)
(***************************************************************************)
ServerFairness ==
  /\ SF_vars(ReceiveFails)
  /\ WF_vars(Main) /\ WF_vars(Receiver) /\ WF_vars(SenderStdout) /\ WF_vars(SenderStderr)
  /\ WF_vars(CloseReadEnd("stdout")) /\ WF_vars(CloseReadEnd("stderr"))
  /\ WF_vars(Copiers) /\ WF_vars(WatchKills) /\ WF_vars(WaitDelayExpires)

(* An MCP server that reads its stdin and exits at its end.                *)
ProcessSeesEOF == copier["stdin"] = "done" /\ queue["stdin"] = <<>> /\ ProcessExits
CooperativeProcess == WF_vars(ProcessReads) /\ WF_vars(ProcessSeesEOF)

FairSpec        == Spec /\ ServerFairness
CooperativeSpec == FairSpec /\ CooperativeProcess

=============================================================================
