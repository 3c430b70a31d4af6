------------------------ MODULE ServerSessionProofs ------------------------
(***************************************************************************)
(* The safety of one session for any number of chunks, any pipe capacity   *)
(* and any client: by induction over the steps of Next, one lemma for each *)
(* goroutine and one step for each of its actions.                         *)
(***************************************************************************)
EXTENDS ServerSessionProperties, TLAPS

(* A group of variables that does not change keeps its type.               *)
LEMMA Unchanged ==
  ASSUME TypeOK
  PROVE  /\ UNCHANGED mainVars => MainTypeOK'
         /\ UNCHANGED procVars => ProcTypeOK'
         /\ UNCHANGED pipeVars => PipeTypeOK'
         /\ UNCHANGED workVars => WorkTypeOK'
         /\ UNCHANGED netVars => NetTypeOK'
<1>1. UNCHANGED mainVars => MainTypeOK'
  BY DEF TypeOK, mainVars, MainTypeOK
<1>2. UNCHANGED procVars => ProcTypeOK'
  BY DEF TypeOK, procVars, ProcTypeOK
<1>3. UNCHANGED pipeVars => PipeTypeOK'
  BY DEF TypeOK, pipeVars, PipeTypeOK
<1>4. UNCHANGED workVars => WorkTypeOK'
  BY DEF TypeOK, workVars, WorkTypeOK
<1>5. UNCHANGED netVars => NetTypeOK'
  BY DEF TypeOK, netVars, NetTypeOK
<1> QED
  BY <1>1, <1>2, <1>3, <1>4, <1>5

(* What a write leaves on the wire.                                        *)
LEMMA WriteOutcome ==
  ASSUME NetTypeOK, NEW c, NEW frame \in Frames, NEW ok \in BOOLEAN, WsWrite(c, frame, ok)
  PROVE  /\ ws' \in {"open", "closed"}
         /\ wire' \in Seq(Frames)
         /\ wire' = wire \/ wire' = Append(wire, frame)
<1>1. wire \in Seq(Frames) /\ Append(wire, frame) \in Seq(Frames)
  BY DEF NetTypeOK
<1>2. ws' \in {"open", "closed"}
  BY DEF NetTypeOK, WsWrite
<1>3. wire' = wire \/ wire' = Append(wire, frame)
  BY DEF WsWrite
<1> QED
  BY <1>1, <1>2, <1>3

(* Every frame of the model is one of the protocol.                        *)
LEMMA FrameTypes ==
  /\ StartOk \in Frames /\ StartErr \in Frames
  /\ \A n \in Nat : Binary(n) \in Frames /\ Stderr(n) \in Frames
  /\ \A t \in {"code0", "codeN", "killed", "error"} : Exited(t) \in Frames
  /\ \A t \in Statuses : Close(t) \in Frames
  /\ \A k \in PeerFrames : Frame(k, 0, "") \in Frames
BY SessionAssumption
   DEF Frames, Frame, StartOk, StartErr, Binary, Stderr, Exited, Close, Statuses, Reports

LEMMA InitType == Init => TypeOK
<1> SUFFICES ASSUME Init PROVE TypeOK
  OBVIOUS
<1> USE DEF Init
<1>1. MainTypeOK
  BY DEF MainTypeOK, MainStates
<1> DEFINE NoChunk == <<>>
<1>0. NoChunk \in Seq(Nat)
  OBVIOUS
<1>2. ProcTypeOK
  <2>1. got \in Seq(Nat)
    BY <1>0
  <2>2. made \in [Streams -> Nat]
    OBVIOUS
  <2> QED
    BY <2>1, <2>2 DEF ProcTypeOK
<1>3. PipeTypeOK
  <2>1. queue \in [Streams -> Seq(Nat)]
    BY <1>0
  <2>2. copier \in [Streams -> {"off", "running", "done"}]
    OBVIOUS
  <2> QED
    BY <2>1, <2>2 DEF PipeTypeOK
<1>4. WorkTypeOK
  BY DEF WorkTypeOK, Results
<1>5. NetTypeOK
  BY DEF NetTypeOK
<1> QED
  BY <1>1, <1>2, <1>3, <1>4, <1>5 DEF TypeOK

-----------------------------------------------------------------------------
LEMMA MainType ==
  ASSUME TypeOK, Main
  PROVE  TypeOK'
<1> USE Unchanged DEF TypeOK
<1>1. CASE StartProcess
  <2>1. MainTypeOK'
    BY <1>1 DEF StartProcess, MainTypeOK, MainStates
  <2>2. ProcTypeOK'
    BY <1>1 DEF StartProcess, ProcTypeOK
  <2>3. PipeTypeOK'
    BY <1>1 DEF StartProcess, PipeTypeOK
  <2> QED
    BY <1>1, <2>1, <2>2, <2>3 DEF StartProcess
<1>2. CASE SendStartErr
  <2>1. MainTypeOK'
    BY <1>2 DEF SendStartErr, MainTypeOK, MainStates, Statuses
  <2>2. NetTypeOK'
    BY <1>2, WriteOutcome, FrameTypes DEF SendStartErr, NetTypeOK
  <2> QED
    BY <1>2, <2>1, <2>2 DEF SendStartErr
<1>3. CASE SendStartOk
  <2>1. MainTypeOK'
    BY <1>3 DEF SendStartOk, MainTypeOK, MainStates, Statuses
  <2>2. WorkTypeOK'
    BY <1>3 DEF SendStartOk, WorkTypeOK
  <2>3. NetTypeOK'
    BY <1>3, WriteOutcome, FrameTypes DEF SendStartOk, NetTypeOK
  <2> QED
    BY <1>3, <2>1, <2>2, <2>3 DEF SendStartOk
<1>4. CASE ReceiverFirst
  <2>1. MainTypeOK'
    BY <1>4 DEF ReceiverFirst, MainTypeOK, MainStates
  <2>2. WorkTypeOK'
    BY <1>4 DEF ReceiverFirst, WorkTypeOK, Results
  <2> QED
    BY <1>4, <2>1, <2>2 DEF ReceiverFirst
<1>5. CASE ReceiverFirstNil
  <2>1. MainTypeOK'
    BY <1>5 DEF ReceiverFirstNil, MainTypeOK, MainStates
  <2>2. WorkTypeOK'
    BY <1>5 DEF ReceiverFirstNil, WorkTypeOK, Results
  <2>3. NetTypeOK'
    BY <1>5 DEF ReceiverFirstNil, NetTypeOK
  <2> QED
    BY <1>5, <2>1, <2>2, <2>3 DEF ReceiverFirstNil
<1>6. CASE SenderFirst
  <2>1. MainTypeOK'
    BY <1>6 DEF SenderFirst, Answered, MainTypeOK, MainStates, Streams
  <2>2. WorkTypeOK'
    BY <1>6 DEF SenderFirst, WorkTypeOK, Results
  <2> QED
    BY <1>6, <2>1, <2>2 DEF SenderFirst
<1>7. CASE JoinReceiver \/ JoinStdout \/ JoinStderr
  <2>1. MainTypeOK'
    BY <1>7 DEF JoinReceiver, JoinStdout, JoinStderr, Join, MainTypeOK, MainStates, Streams
  <2>2. WorkTypeOK'
    BY <1>7 DEF JoinReceiver, JoinStdout, JoinStderr, Join, WorkTypeOK, Results
  <2> QED
    BY <1>7, <2>1, <2>2 DEF JoinReceiver, JoinStdout, JoinStderr, Join
<1>8. CASE WaitReturns
  <2>1. MainTypeOK'
    BY <1>8 DEF WaitReturns, WaitResults, MainTypeOK, MainStates, Streams
  <2> QED
    BY <1>8, <2>1 DEF WaitReturns
<1>9. CASE SendExitMessage
  <2>1. MainTypeOK'
    BY <1>9 DEF SendExitMessage, AdaptedClose, MainTypeOK, MainStates, Statuses
  <2>2. ExitReport \in {"code0", "codeN", "killed", "error"}
    BY DEF ExitReport
  <2>3. NetTypeOK'
    BY <1>9, <2>2, WriteOutcome, FrameTypes DEF SendExitMessage, NetTypeOK
  <2> QED
    BY <1>9, <2>1, <2>3 DEF SendExitMessage
<1>10. CASE CloseWebsocket
  <2>1. MainTypeOK'
    BY <1>10 DEF CloseWebsocket, MainTypeOK, MainStates
  <2>2. desired # "nil" => Append(wire, Close(desired)) \in Seq(Frames)
    <3>1. desired # "nil" => Close(desired) \in Frames
      BY FrameTypes DEF MainTypeOK
    <3> QED
      BY <3>1 DEF NetTypeOK
  <2>3. NetTypeOK'
    BY <1>10, <2>2 DEF CloseWebsocket, NetTypeOK
  <2> QED
    BY <1>10, <2>1, <2>3 DEF CloseWebsocket
<1>11. CASE Return
  <2>1. MainTypeOK'
    BY <1>11 DEF Return, MainTypeOK, MainStates
  <2>2. NetTypeOK'
    BY <1>11 DEF Return, NetTypeOK
  <2> QED
    BY <1>11, <2>1, <2>2 DEF Return
<1> QED
  BY <1>1, <1>2, <1>3, <1>4, <1>5, <1>6, <1>7, <1>8, <1>9, <1>10, <1>11 DEF Main

(* Ending or turning a worker keeps the types of the workers' variables.   *)
LEMMA WorkerSteps ==
  ASSUME WorkTypeOK, NEW s \in Streams
  PROVE  /\ \A r \in Results : Finish(s, r) => WorkTypeOK'
         /\ \A pc \in {"reading", "writing"}, n \in Nat : Turn(s, pc, n) => WorkTypeOK'
<1>1. ASSUME NEW r \in Results, Finish(s, r) PROVE WorkTypeOK'
  BY <1>1 DEF Finish, WorkTypeOK
<1>2. ASSUME NEW pc \in {"reading", "writing"}, NEW n \in Nat, Turn(s, pc, n)
      PROVE  WorkTypeOK'
  BY <1>2 DEF Turn, WorkTypeOK
<1> QED
  BY <1>1, <1>2

LEMMA ReceiverType ==
  ASSUME TypeOK, Receiver
  PROVE  TypeOK'
<1> USE Unchanged DEF TypeOK
<1>0. "stdin" \in Streams /\ {"normal", "internal", "unsupported", "nil"} \subseteq Results
  BY DEF Streams, Results, Statuses
<1>1. CASE ReceiveFrame
  <2> DEFINE f == Head(wsIn)
  <2>1. f \in Frames /\ Tail(wsIn) \in Seq(Frames) /\ f.n \in Nat
    <3>1. f \in Frames /\ Tail(wsIn) \in Seq(Frames)
      BY <1>1 DEF ReceiveFrame, NetTypeOK
    <3>2. \A g \in Frames : g.n \in Nat
      BY DEF Frames
    <3> QED
      BY <3>1, <3>2
  <2>2. WorkTypeOK' /\ ws' \in {"open", "closed"}
    <3>1. CASE f.kind = "bin"
      BY <1>0, <1>1, <2>1, <3>1, WorkerSteps DEF ReceiveFrame, NetTypeOK
    <3>2. CASE f.kind = "shutdown"
      BY <1>0, <1>1, <3>2, WorkerSteps DEF ReceiveFrame, NetTypeOK
    <3>3. CASE f.kind = "close"
      BY <1>0, <1>1, <3>3, WorkerSteps DEF ReceiveFrame, NetTypeOK
    <3>4. CASE Undecodable(f)
      <4>1. f.kind \notin {"bin", "shutdown", "close"}
        BY <3>4 DEF Undecodable, Decodes
      <4> QED
        BY <1>0, <1>1, <3>4, <4>1, WorkerSteps DEF ReceiveFrame, NetTypeOK
    <3>5. CASE f.kind \notin {"bin", "shutdown", "close"} /\ ~Undecodable(f)
      BY <1>1, <3>5 DEF ReceiveFrame, NetTypeOK
    <3> QED
      BY <3>1, <3>2, <3>3, <3>4, <3>5
  <2>3. NetTypeOK'
    BY <1>1, <2>1, <2>2 DEF ReceiveFrame, NetTypeOK
  <2> QED
    BY <1>1, <2>2, <2>3 DEF ReceiveFrame
<1>2. CASE ReceiveFails
  <2>1. WorkTypeOK'
    BY <1>0, <1>2, WorkerSteps DEF ReceiveFails
  <2>2. NetTypeOK'
    BY <1>2 DEF ReceiveFails, NetTypeOK
  <2> QED
    BY <1>2, <2>1, <2>2 DEF ReceiveFails
<1>3. CASE WriteStdin
  <2>1. WorkTypeOK'
    BY <1>0, <1>3, WorkerSteps DEF WriteStdin
  <2>2. queue["stdin"] \in Seq(Nat) /\ held["stdin"] \in Nat
          /\ Append(queue["stdin"], held["stdin"]) \in Seq(Nat)
    BY <1>0 DEF PipeTypeOK, WorkTypeOK
  <2>3. PipeTypeOK'
    BY <1>3, <2>2 DEF WriteStdin, PipeTypeOK
  <2> QED
    BY <1>3, <2>1, <2>3 DEF WriteStdin
<1> QED
  BY <1>1, <1>2, <1>3 DEF Receiver

LEMMA SenderType ==
  ASSUME TypeOK, SenderStdout \/ SenderStderr \/ Helpers
  PROVE  TypeOK'
<1> USE Unchanged DEF TypeOK
<1>0. {"stdout", "stderr"} \subseteq Streams /\ {"normal", "internal", "nil"} \subseteq Results
  BY DEF Streams, Results, Statuses
<1>1. ASSUME NEW s \in OutStreams, ReadOutput(s)
      PROVE  TypeOK'
  <2>1. queue[s] \in Seq(Nat) /\ Head(queue[s]) \in Nat /\ Tail(queue[s]) \in Seq(Nat)
    BY <1>0, <1>1 DEF ReadOutput, PipeTypeOK, OutStreams
  <2>2. WorkTypeOK'
    BY <1>0, <1>1, <2>1, WorkerSteps DEF ReadOutput, OutStreams
  <2>3. PipeTypeOK'
    BY <1>1, <2>1 DEF ReadOutput, PipeTypeOK
  <2> QED
    BY <1>1, <2>2, <2>3 DEF ReadOutput
<1>2. ASSUME NEW s \in OutStreams, ReadClosed(s)
      PROVE  TypeOK'
  <2>1. WorkTypeOK'
    BY <1>0, <1>2, WorkerSteps DEF ReadClosed, OutStreams
  <2> QED
    BY <1>2, <2>1 DEF ReadClosed
<1>3. CASE SendStdout
  <2>1. Binary(held["stdout"]) \in Frames
    BY <1>0, FrameTypes DEF WorkTypeOK
  <2>2. WorkTypeOK'
    BY <1>0, <1>3, WorkerSteps DEF SendStdout
  <2>3. NetTypeOK'
    BY <1>3, <2>1, WriteOutcome DEF SendStdout, NetTypeOK
  <2> QED
    BY <1>3, <2>2, <2>3 DEF SendStdout
<1>4. CASE SendStderr
  <2>1. Stderr(held["stderr"]) \in Frames
    BY <1>0, FrameTypes DEF WorkTypeOK
  <2>2. WorkTypeOK'
    BY <1>0, <1>4, WorkerSteps DEF SendStderr
  <2>3. NetTypeOK'
    BY <1>4, <2>1, WriteOutcome DEF SendStderr, NetTypeOK
  <2> QED
    BY <1>4, <2>2, <2>3 DEF SendStderr
<1>5. ASSUME NEW s \in OutStreams, CloseReadEnd(s)
      PROVE  TypeOK'
  <2>1. WorkTypeOK'
    BY <1>5 DEF CloseReadEnd, WorkTypeOK
  <2> QED
    BY <1>5, <2>1 DEF CloseReadEnd
<1> QED
  BY <1>1, <1>2, <1>3, <1>4, <1>5 DEF SenderStdout, SenderStderr, Helpers, OutStreams

LEMMA ExecType ==
  ASSUME TypeOK, Exec
  PROVE  TypeOK'
<1> USE Unchanged DEF TypeOK
<1>1. CASE StdinCopierEnds
  <2>1. PipeTypeOK'
    BY <1>1 DEF StdinCopierEnds, PipeTypeOK
  <2> QED
    BY <1>1, <2>1 DEF StdinCopierEnds
<1>2. ASSUME NEW s \in OutStreams, OutputCopierEnds(s)
      PROVE  TypeOK'
  <2>1. PipeTypeOK'
    <3> DEFINE NoChunk == <<>>
    <3>1. NoChunk \in Seq(Nat)
      OBVIOUS
    <3>2. queue' \in [Streams -> Seq(Nat)]
      BY <1>2, <3>1 DEF OutputCopierEnds, PipeTypeOK
    <3> QED
      BY <1>2, <3>2 DEF OutputCopierEnds, PipeTypeOK
  <2> QED
    BY <1>2, <2>1 DEF OutputCopierEnds
<1>3. CASE WatchKills
  <2>1. ProcTypeOK'
    BY <1>3 DEF WatchKills, ProcTypeOK
  <2> QED
    BY <1>3, <2>1 DEF WatchKills
<1>4. CASE WaitDelayExpires
  <2>1. \A s \in Streams : queue[s] # <<>> => <<Head(queue[s])>> \in Seq(Nat)
    BY DEF PipeTypeOK
  <2>2. PipeTypeOK'
    BY <1>4, <2>1 DEF WaitDelayExpires, PipeTypeOK
  <2> QED
    BY <1>4, <2>2 DEF WaitDelayExpires
<1> QED
  BY <1>1, <1>2, <1>3, <1>4 DEF Exec, Copiers

LEMMA EnvironmentType ==
  ASSUME TypeOK, Environment
  PROVE  TypeOK'
<1> USE Unchanged DEF TypeOK
<1>0. Streams = {"stdin", "stdout", "stderr"} /\ OutStreams \subseteq Streams
  BY DEF Streams, OutStreams
<1>1. CASE ProcessReads
  <2>1. queue["stdin"] \in Seq(Nat) /\ Head(queue["stdin"]) \in Nat
          /\ Tail(queue["stdin"]) \in Seq(Nat)
    BY <1>0, <1>1 DEF ProcessReads, PipeTypeOK
  <2>2. ProcTypeOK'
    BY <1>1, <2>1 DEF ProcessReads, ProcTypeOK
  <2>3. PipeTypeOK'
    BY <1>1, <2>1 DEF ProcessReads, PipeTypeOK
  <2> QED
    BY <1>1, <2>2, <2>3 DEF ProcessReads
<1>2. ASSUME NEW s \in OutStreams, ProcessWrites(s)
      PROVE  TypeOK'
  <2>1. made[s] + 1 \in Nat /\ Append(queue[s], made[s] + 1) \in Seq(Nat)
    BY <1>0 DEF ProcTypeOK, PipeTypeOK
  <2>2. ProcTypeOK'
    BY <1>2, <2>1 DEF ProcessWrites, ProcTypeOK
  <2>3. PipeTypeOK'
    BY <1>2, <2>1 DEF ProcessWrites, PipeTypeOK
  <2> QED
    BY <1>2, <2>2, <2>3 DEF ProcessWrites
<1>3. CASE ProcessExits
  <2>1. ProcTypeOK'
    BY <1>3 DEF ProcessExits, ProcTypeOK
  <2> QED
    BY <1>3, <2>1 DEF ProcessExits
<1>4. ASSUME NEW f \in Frames, PeerSends(f)
      PROVE  NetTypeOK'
  BY <1>4 DEF PeerSends, NetTypeOK
<1>5. CASE PeerSendsBinary
  <2>1. made["stdin"] + 1 \in Nat
    BY <1>0 DEF ProcTypeOK
  <2>2. ProcTypeOK'
    BY <1>5, <2>1 DEF PeerSendsBinary, PeerSends, ProcTypeOK
  <2>3. NetTypeOK'
    BY <1>4, <1>5, <2>1, FrameTypes DEF PeerSendsBinary
  <2> QED
    BY <1>5, <2>2, <2>3 DEF PeerSendsBinary, PeerSends
<1>6. CASE PeerSendsOther
  <2>1. NetTypeOK'
    BY <1>4, <1>6, FrameTypes DEF PeerSendsOther
  <2>2. UNCHANGED <<mainVars, procVars, pipeVars, workVars>>
    BY <1>6 DEF PeerSendsOther, PeerSends, procVars
  <2> QED
    BY <2>1, <2>2
<1>7. CASE PeerVanishes
  <2>1. NetTypeOK'
    BY <1>7 DEF PeerVanishes, NetTypeOK
  <2> QED
    BY <1>7, <2>1 DEF PeerVanishes
<1>8. CASE Signal
  <2>1. MainTypeOK'
    BY <1>8 DEF Signal, MainTypeOK
  <2> QED
    BY <1>8, <2>1 DEF Signal
<1> QED
  BY <1>1, <1>2, <1>3, <1>5, <1>6, <1>7, <1>8 DEF Environment

LEMMA NextType == TypeOK /\ [Next]_vars => TypeOK'
<1>1. ASSUME TypeOK, UNCHANGED vars PROVE TypeOK'
  BY <1>1, Unchanged DEF vars, TypeOK
<1> QED
  BY <1>1, MainType, ReceiverType, SenderType, ExecType, EnvironmentType DEF Next

(* Every variable keeps a value of its type, whatever the client, the      *)
(* process and the signals do.                                             *)
THEOREM TypeCorrect == Spec => []TypeOK
<1> QED
  BY InitType, NextType, PTL DEF Spec

-----------------------------------------------------------------------------
(***************************************************************************)
(* The inductive invariant.  An answer on a channel is the last thing a    *)
(* worker does, so what main has received tells, at each place of proxy,   *)
(* which goroutines have ended.                                            *)
(***************************************************************************)
AllDone(v) == \A s \in Streams : v[s] = "done"

AnswersAreLast ==
  /\ \A s \in Streams : result[s] # "none" => worker[s] = "done"
  /\ \A s \in OutStreams : worker[s] = "done" => s \in closed

Joined ==
  /\ main \in {"starting", "startErr", "startOk"} => \A s \in Streams : worker[s] = "off"
  /\ main \in {"select", "joinReceiver", "joinStdout", "joinStderrR", "joinStderrS",
               "waitR", "waitS"} => \A s \in Streams : worker[s] # "off"
  /\ main \in {"waitR", "joinStdout", "joinStderrR", "joinStderrS", "waitS"} =>
       worker["stdin"] = "done"
  /\ main \in {"joinReceiver", "joinStderrR", "joinStderrS", "waitS"} =>
       worker["stdout"] = "done"
  /\ main = "waitS" => worker["stderr"] = "done"
  /\ main \in {"joinStdout", "joinStderrR"} => waitRes # "none" /\ AllDone(copier)
  /\ main = "exitMsg" => waitRes # "none" /\ AllDone(copier) /\ AllDone(worker)
  /\ main \in {"closing", "returning", "returned"} =>
       \/ worker["stdin"] = "off"
       \/ waitRes # "none" /\ AllDone(copier) /\ AllDone(worker)

(* The normal status survives to the closure only beside a clean Wait.     *)
CleanClosure ==
  /\ main = "starting" => waitRes = "none"
  /\ waitRes = "nil" => proc = "exit0"
  /\ main = "closing" /\ desired = "normal" => waitRes = "nil"
  /\ NormalClosed => main \in {"returning", "returned"} /\ waitRes = "nil"

IInv == TypeOK /\ AnswersAreLast /\ Joined /\ CleanClosure

LEMMA InitInv == Init => IInv
<1> SUFFICES ASSUME Init PROVE IInv
  OBVIOUS
<1>1. AnswersAreLast /\ Joined
  BY DEF Init, AnswersAreLast, Joined, OutStreams, Streams
<1>2. CleanClosure
  BY DEF Init, CleanClosure, NormalClosed
<1> QED
  BY <1>1, <1>2, InitType DEF IInv

(* A frame that is not the normal closure leaves the wire without one.     *)
LEMMA OtherFrame ==
  ASSUME wire \in Seq(Frames), NEW f \in Frames, f # Close("normal"),
         wire' = wire \/ wire' = Append(wire, f), NormalClosed'
  PROVE  NormalClosed
<1>1. CASE wire' = wire
  BY <1>1 DEF NormalClosed
<1>2. CASE wire' = Append(wire, f)
  <2>1. PICK i \in 1..Len(wire') : wire'[i] = Close("normal")
    BY DEF NormalClosed, Close, Frame
  <2>2. i \in 1..Len(wire) /\ wire[i] = Close("normal")
    BY <1>2, <2>1
  <2> QED
    BY <2>2 DEF NormalClosed
<1> QED
  BY <1>1, <1>2

(* Only main moves main; the other actors only make progress.              *)
Progress ==
  /\ main' = main /\ desired' = desired /\ waitRes' = waitRes
  /\ \A s \in Streams :
       /\ worker[s] = "off" <=> worker'[s] = "off"
       /\ worker[s] = "done" => worker'[s] = "done"
       /\ copier[s] = "done" => copier'[s] = "done"
       /\ result'[s] # "none" => result[s] # "none" \/ worker'[s] = "done"
  /\ \A s \in OutStreams :
       /\ worker'[s] = "done" => worker[s] = "done" \/ s \in closed'
       /\ s \in closed => s \in closed'
  /\ proc = "exit0" => proc' = "exit0"
  /\ NormalClosed' => NormalClosed

LEMMA ProgressKeeps ==
  ASSUME IInv, TypeOK', Progress
  PROVE  IInv'
<1> USE DEF IInv, Progress
<1>1. AnswersAreLast'
  BY DEF AnswersAreLast, OutStreams, Streams
<1>2. Joined'
  BY DEF Joined, AllDone, Streams
<1>3. CleanClosure'
  BY DEF CleanClosure
<1> QED
  BY <1>1, <1>2, <1>3

(* What ends or turns a worker that is at work is progress.                *)
LEMMA WorkerProgress ==
  ASSUME TypeOK, NEW s \in Streams, worker[s] \in {"reading", "writing"},
         \/ \E r \in Results : Finish(s, r)
         \/ \E pc \in {"reading", "writing"}, n \in Nat : Turn(s, pc, n)
  PROVE  /\ \A t \in Streams :
              /\ worker[t] = "off" <=> worker'[t] = "off"
              /\ worker[t] = "done" => worker'[t] = "done"
              /\ result'[t] # "none" => result[t] # "none" \/ worker'[t] = "done"
         /\ \A t \in OutStreams :
              /\ worker'[t] = "done" => worker[t] = "done" \/ t \in closed'
              /\ t \in closed => t \in closed'
BY DEF TypeOK, WorkTypeOK, Finish, Turn, OutStreams, Streams

LEMMA ReceiverProgress ==
  ASSUME TypeOK, Receiver
  PROVE  Progress
<1>0. "stdin" \in Streams /\ {"normal", "internal", "unsupported", "nil"} \subseteq Results
  BY DEF Streams, Results, Statuses
<1>1. UNCHANGED <<main, desired, waitRes, proc, wire>>
  BY DEF Receiver, ReceiveFrame, ReceiveFails, WriteStdin, mainVars, procVars, netVars
<1>2. NormalClosed' => NormalClosed
  BY <1>1 DEF NormalClosed
<1>3. \A s \in Streams : copier[s] = "done" => copier'[s] = "done"
  BY DEF Receiver, ReceiveFrame, ReceiveFails, WriteStdin, pipeVars, TypeOK, PipeTypeOK
<1>4. CASE UNCHANGED workVars
  BY <1>1, <1>2, <1>3, <1>4 DEF Progress, workVars
<1>5. CASE ~UNCHANGED workVars
  <2>1. worker["stdin"] \in {"reading", "writing"}
    BY DEF Receiver, ReceiveFrame, ReceiveFails, WriteStdin
  <2>2. \/ \E r \in Results : Finish("stdin", r)
        \/ \E pc \in {"reading", "writing"}, n \in Nat : Turn("stdin", pc, n)
    <3>1. CASE ReceiveFrame
      <4>1. Head(wsIn) \in Frames
        BY <3>1 DEF ReceiveFrame, TypeOK, NetTypeOK
      <4>2. Head(wsIn).n \in Nat
        BY <4>1 DEF Frames
      <4> QED
        BY <1>0, <1>5, <3>1, <4>2 DEF ReceiveFrame
    <3>2. CASE ReceiveFails
      BY <1>0, <3>2 DEF ReceiveFails
    <3>3. CASE WriteStdin
      BY <3>3 DEF WriteStdin
    <3> QED
      BY <3>1, <3>2, <3>3 DEF Receiver
  <2> QED
    BY <1>0, <1>1, <1>2, <1>3, <2>1, <2>2, WorkerProgress DEF Progress
<1> QED
  BY <1>4, <1>5

LEMMA SenderProgress ==
  ASSUME TypeOK, SenderStdout \/ SenderStderr \/ Helpers
  PROVE  Progress
<1>0. {"stdout", "stderr"} \subseteq Streams /\ {"normal", "internal", "nil"} \subseteq Results
  BY DEF Streams, Results, Statuses
<1>1. ASSUME NEW s \in OutStreams, ReadOutput(s)
      PROVE  Progress
  <2>1. s \in Streams /\ Head(queue[s]) \in Nat
    BY <1>0, <1>1 DEF ReadOutput, TypeOK, PipeTypeOK, OutStreams
  <2> QED
    BY <1>1, <2>1, WorkerProgress
       DEF ReadOutput, Progress, mainVars, procVars, netVars, NormalClosed
<1>2. ASSUME NEW s \in OutStreams, ReadClosed(s)
      PROVE  Progress
  BY <1>0, <1>2, WorkerProgress
     DEF ReadClosed, Progress, mainVars, procVars, pipeVars, netVars, NormalClosed, OutStreams
<1>3. CASE SendStdout
  <2>1. Binary(held["stdout"]) \in Frames /\ Binary(held["stdout"]) # Close("normal")
    BY <1>0, FrameTypes DEF TypeOK, WorkTypeOK, Binary, Close, Frame
  <2>2. NormalClosed' => NormalClosed
    BY <1>3, <2>1, WriteOutcome, OtherFrame DEF SendStdout, TypeOK, NetTypeOK
  <2> QED
    BY <1>0, <1>3, <2>2, WorkerProgress DEF SendStdout, Progress, mainVars, procVars, pipeVars
<1>4. CASE SendStderr
  <2>1. Stderr(held["stderr"]) \in Frames /\ Stderr(held["stderr"]) # Close("normal")
    BY <1>0, FrameTypes DEF TypeOK, WorkTypeOK, Stderr, Close, Frame
  <2>2. NormalClosed' => NormalClosed
    BY <1>4, <2>1, WriteOutcome, OtherFrame DEF SendStderr, TypeOK, NetTypeOK
  <2> QED
    BY <1>0, <1>4, <2>2, WorkerProgress DEF SendStderr, Progress, mainVars, procVars, pipeVars
<1>5. ASSUME NEW s \in OutStreams, CloseReadEnd(s)
      PROVE  Progress
  BY <1>5 DEF CloseReadEnd, Progress, mainVars, procVars, pipeVars, netVars, NormalClosed
<1> QED
  BY <1>1, <1>2, <1>3, <1>4, <1>5 DEF SenderStdout, SenderStderr, Helpers, OutStreams

LEMMA OtherProgress ==
  ASSUME TypeOK, Exec \/ Environment \/ UNCHANGED vars
  PROVE  Progress
<1>1. UNCHANGED <<main, desired, waitRes, workVars, wire>>
  BY DEF Exec, Copiers, StdinCopierEnds, OutputCopierEnds, WatchKills, WaitDelayExpires,
         Environment, ProcessReads, ProcessWrites, ProcessExits, PeerSendsBinary,
         PeerSendsOther, PeerSends, PeerVanishes, Signal, vars, mainVars, netVars
<1>2. \A s \in Streams : copier[s] = "done" => copier'[s] = "done"
  BY DEF Exec, Copiers, StdinCopierEnds, OutputCopierEnds, WatchKills, WaitDelayExpires,
         Environment, ProcessReads, ProcessWrites, ProcessExits, PeerSendsBinary,
         PeerSendsOther, PeerSends, PeerVanishes, Signal, vars, pipeVars, TypeOK, PipeTypeOK
<1>3. proc = "exit0" => proc' = "exit0"
  BY DEF Exec, Copiers, StdinCopierEnds, OutputCopierEnds, WatchKills, WaitDelayExpires,
         Environment, ProcessReads, ProcessWrites, ProcessExits, PeerSendsBinary,
         PeerSendsOther, PeerSends, PeerVanishes, Signal, vars, procVars
<1> QED
  BY <1>1, <1>2, <1>3 DEF Progress, workVars, NormalClosed

LEMMA MainKeeps ==
  ASSUME IInv, Main
  PROVE  IInv'
<1>0. TypeOK /\ TypeOK'
  BY MainType DEF IInv
<1> SUFFICES AnswersAreLast' /\ Joined' /\ CleanClosure'
  BY <1>0 DEF IInv
<1> USE DEF IInv, mainVars, procVars, pipeVars, workVars, netVars
<1>1. CASE StartProcess
  <2>1. main = "starting" /\ main' \in {"startErr", "startOk"}
    BY <1>1 DEF StartProcess
  <2>2. UNCHANGED <<waitRes, wire, workVars>>
    BY <1>1 DEF StartProcess
  <2>3. AnswersAreLast'
    BY <2>2 DEF AnswersAreLast
  <2>4. Joined'
    BY <2>1, <2>2 DEF Joined
  <2>5. waitRes # "nil" /\ ~NormalClosed
    BY <2>1 DEF CleanClosure
  <2>6. CleanClosure'
    BY <2>1, <2>2, <2>5 DEF CleanClosure, NormalClosed
  <2> QED
    BY <2>3, <2>4, <2>6
<1>2. CASE SendStartErr
  <2>1. NormalClosed' => NormalClosed
    <3>1. StartErr # Close("normal")
      BY DEF StartErr, Close, Frame
    <3> QED
      BY <1>0, <1>2, <3>1, WriteOutcome, OtherFrame, FrameTypes DEF SendStartErr, TypeOK, NetTypeOK
  <2> QED
    BY <1>2, <2>1 DEF SendStartErr, AnswersAreLast, Joined, CleanClosure, Streams
<1>3. CASE SendStartOk
  <2>1. NormalClosed' => NormalClosed
    <3>1. StartOk # Close("normal")
      BY DEF StartOk, Close, Frame
    <3> QED
      BY <1>0, <1>3, <3>1, WriteOutcome, OtherFrame, FrameTypes DEF SendStartOk, TypeOK, NetTypeOK
  <2>2. \A s \in Streams : worker[s] = "off" /\ worker'[s] \in {"off", "reading"}
    BY <1>3 DEF SendStartOk, Joined
  <2>3. AnswersAreLast'
    BY <1>3, <2>2 DEF SendStartOk, AnswersAreLast, OutStreams, Streams
  <2>4. Joined'
    BY <1>3, <2>2 DEF SendStartOk, Joined, Streams
  <2>5. CleanClosure'
    BY <1>3, <2>1 DEF SendStartOk, CleanClosure
  <2> QED
    BY <2>3, <2>4, <2>5
<1>4. CASE ReceiverFirst
  <2>1. worker["stdin"] = "done"
    BY <1>4 DEF ReceiverFirst, AnswersAreLast, Streams, Statuses
  <2> QED
    BY <1>0, <1>4, <2>1
       DEF ReceiverFirst, AnswersAreLast, Joined, CleanClosure, NormalClosed, Streams,
           TypeOK, WorkTypeOK
<1>5. CASE ReceiverFirstNil
  BY <1>0, <1>5
     DEF ReceiverFirstNil, AnswersAreLast, Joined, CleanClosure, NormalClosed, Streams,
         TypeOK, WorkTypeOK
<1>6. CASE SenderFirst
  <2>1. worker["stdout"] = "done"
    BY <1>6 DEF SenderFirst, Answered, AnswersAreLast, Streams, Statuses
  <2> QED
    BY <1>0, <1>6, <2>1
       DEF SenderFirst, AnswersAreLast, Joined, CleanClosure, NormalClosed, Streams,
           TypeOK, WorkTypeOK
<1>7. ASSUME NEW s \in Streams, NEW from, NEW to, NEW cs, Join(s, from, to, cs),
             {from, to} \cap {"starting", "closing", "returning", "returned"} = {}
      PROVE  AnswersAreLast' /\ CleanClosure' /\ worker[s] = "done"
  <2>1. worker[s] = "done"
    BY <1>7 DEF Join, Answered, AnswersAreLast, Statuses
  <2>2. AnswersAreLast'
    BY <1>0, <1>7, <2>1 DEF Join, AnswersAreLast, TypeOK, WorkTypeOK
  <2>3. CleanClosure'
    BY <1>7 DEF Join, CleanClosure, NormalClosed
  <2> QED
    BY <2>1, <2>2, <2>3
<1>8. CASE JoinReceiver
  BY <1>7, <1>8 DEF JoinReceiver, Join, Joined, Streams
<1>9. CASE JoinStdout
  BY <1>7, <1>9 DEF JoinStdout, Join, Joined, Streams
<1>10. CASE JoinStderr
  <2>1. CASE Join("stderr", "joinStderrR", "exitMsg", {})
    <3>1. AnswersAreLast' /\ CleanClosure' /\ worker["stderr"] = "done"
      BY <1>7, <2>1 DEF Streams
    <3>2. worker["stdin"] = "done" /\ worker["stdout"] = "done"
      BY <2>1 DEF Join, Joined
    <3> QED
      BY <2>1, <3>1, <3>2 DEF Join, Joined, AllDone, Streams
  <2>2. CASE Join("stderr", "joinStderrS", "waitS", {})
    <3>1. AnswersAreLast' /\ CleanClosure' /\ worker["stderr"] = "done"
      BY <1>7, <2>2 DEF Streams
    <3> QED
      BY <2>2, <3>1 DEF Join, Joined
  <2> QED
    BY <1>10, <2>1, <2>2 DEF JoinStderr
<1>11. CASE WaitReturns
  <2>1. waitRes' # "none" /\ (waitRes' = "nil" => proc = "exit0")
    BY <1>11 DEF WaitReturns, WaitResults, Dead
  <2>2. AnswersAreLast'
    BY <1>11 DEF WaitReturns, AnswersAreLast
  <2>3. Joined'
    BY <1>11, <2>1 DEF WaitReturns, Joined, AllDone, Streams
  <2>4. CleanClosure'
    BY <1>11, <2>1 DEF WaitReturns, CleanClosure, NormalClosed
  <2> QED
    BY <2>2, <2>3, <2>4
<1>12. CASE SendExitMessage
  <2>1. NormalClosed' => NormalClosed
    <3>1. ExitReport \in {"code0", "codeN", "killed", "error"}
      BY DEF ExitReport
    <3>2. Exited(ExitReport) \in Frames /\ Exited(ExitReport) # Close("normal")
      BY <3>1, FrameTypes DEF Exited, Close, Frame
    <3> QED
      BY <1>0, <1>12, <3>2, WriteOutcome, OtherFrame DEF SendExitMessage, TypeOK, NetTypeOK
  <2> QED
    BY <1>12, <2>1 DEF SendExitMessage, AdaptedClose, AnswersAreLast, Joined, CleanClosure, AllDone
<1>13. CASE CloseWebsocket
  <2>1. CASE desired = "normal"
    BY <1>13, <2>1 DEF CloseWebsocket, AnswersAreLast, Joined, CleanClosure, AllDone
  <2>2. CASE desired # "normal"
    <3>1. desired # "nil" => Close(desired) \in Frames /\ Close(desired) # Close("normal")
      BY <1>0, <2>2, FrameTypes DEF Close, Frame, TypeOK, MainTypeOK
    <3>2. wire' = wire \/ (desired # "nil" /\ wire' = Append(wire, Close(desired)))
      BY <1>13 DEF CloseWebsocket
    <3>3. NormalClosed' => NormalClosed
      <4>1. CASE wire' = wire
        BY <4>1 DEF NormalClosed
      <4>2. CASE desired # "nil" /\ wire' = Append(wire, Close(desired))
        BY <1>0, <3>1, <4>2, OtherFrame DEF TypeOK, NetTypeOK
      <4> QED
        BY <3>2, <4>1, <4>2
    <3> QED
      BY <1>13, <3>3 DEF CloseWebsocket, AnswersAreLast, Joined, CleanClosure, AllDone
  <2> QED
    BY <2>1, <2>2
<1>14. CASE Return
  BY <1>14 DEF Return, AnswersAreLast, Joined, CleanClosure, NormalClosed, AllDone
<1> QED
  BY <1>1, <1>2, <1>3, <1>4, <1>5, <1>6, <1>8, <1>9, <1>10, <1>11, <1>12, <1>13, <1>14
     DEF Main

LEMMA NextKeeps == IInv /\ [Next]_vars => IInv'
<1> SUFFICES ASSUME IInv, [Next]_vars PROVE IInv'
  OBVIOUS
<1>1. TypeOK /\ TypeOK'
  BY NextType DEF IInv
<1>2. CASE Main
  BY <1>2, MainKeeps
<1>3. CASE Receiver \/ SenderStdout \/ SenderStderr \/ Helpers \/ Exec \/ Environment
             \/ UNCHANGED vars
  <2>1. Progress
    BY <1>1, <1>3, ReceiverProgress, SenderProgress, OtherProgress
  <2> QED
    BY <1>1, <2>1, ProgressKeeps
<1> QED
  BY <1>2, <1>3 DEF Next

LEMMA Invariance == Spec => []IInv
<1> QED
  BY InitInv, NextKeeps, PTL DEF Spec

-----------------------------------------------------------------------------
(* The client is told that all went well only after a clean exit.          *)
THEOREM NormalCloseAfterCleanExit == Spec => []NormalCloseIsClean
<1>1. IInv => NormalCloseIsClean
  BY DEF IInv, CleanClosure, NormalCloseIsClean
<1> QED
  BY <1>1, Invariance, PTL

(* A handler that served a session leaves no goroutine and no process      *)
(* behind when it returns.                                                 *)
THEOREM ReturnIsQuiescent == Spec => []ReturnedIsQuiescent
<1>1. IInv => ReturnedIsQuiescent
  BY DEF IInv, Joined, AllDone, ReturnedIsQuiescent
<1> QED
  BY <1>1, Invariance, PTL

(* proxy never waits for the process while something it has yet to do      *)
(* keeps Wait from returning.                                              *)
THEOREM WaitIsNotSelfBlocked == Spec => []WaitCanFinish
<1>1. IInv => WaitCanFinish
  <2> SUFFICES ASSUME IInv, Waiting PROVE WaitCanFinish
    BY DEF WaitCanFinish
  <2>1. worker["stdin"] = "done"
    BY DEF IInv, Joined, Waiting
  <2>2. \A s \in OutStreams : Serving(s) \/ s \in closed
    BY DEF IInv, Joined, AnswersAreLast, TypeOK, WorkTypeOK, Waiting, Serving, OutStreams, Streams
  <2> QED
    BY <2>1, <2>2 DEF WaitCanFinish
<1> QED
  BY <1>1, Invariance, PTL
=============================================================================
