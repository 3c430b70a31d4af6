------------------------- MODULE SessionWireProofs --------------------------
(***************************************************************************)
(* What one session puts on the wire, for any number of chunks and lines   *)
(* and any client: its order, its truth, the streams of the process, and   *)
(* from these that ServerSession implements SessionProtocol.               *)
(***************************************************************************)
EXTENDS ServerSessionProofs, SequenceTheorems

(***************************************************************************)
(* The inductive invariant.  Start: nothing is sent before the process was *)
(* started or failed to, and only start_ok comes before the workers run.   *)
(***************************************************************************)
NoFinal == \A i \in 1..Len(wire) :
             wire[i].kind \notin {"start_err", "server_exited", "close"}

Started ==
  /\ main \in {"starting", "startErr"} => proc = "none"
  /\ main = "startOk" => proc # "none"
  /\ main \in {"starting", "startErr", "startOk"} => wire = <<>>
  /\ \A s \in Streams : worker[s] = "off" <=> worker["stdin"] = "off"
  /\ worker["stdin"] # "off" =>
       /\ proc # "none"
       /\ wire # <<>> => wire[1] = StartOk
       /\ Listening => wire # <<>>

(* What ends the data is only sent once main has decided on the closure,   *)
(* and the closure only by CloseWebsocket.                                 *)
Ending ==
  /\ main \notin {"closing", "returning", "returned"} => NoFinal
  /\ main = "closing" => \A i \in 1..Len(wire) : wire[i].kind # "close"

(* What main knows of the process is true, and what it reports is what it  *)
(* knows.                                                                  *)
Truth ==
  /\ waitRes = "code" => proc = "exitN"
  /\ waitRes = "killed" => proc = "killed"
  /\ waitRes \in {"nil", "other"} => proc = "exit0"
  /\ main \in {"joinStdout", "joinStderrR", "exitMsg"} => waitRes # "none"
  /\ \A i \in 1..Len(wire) :
       /\ wire[i].kind = "server_exited" => waitRes # "none" /\ wire[i].tag = ExitReport
       /\ wire[i].kind = "start_err" => desired = "internal"

WInv == Started /\ Ending /\ Truth /\ WireOrder

(***************************************************************************)
(* Stdout.  Of the chunks made, n are with the client; the next is in the  *)
(* sender's hand or first in the pipe, and the others follow it, as long   *)
(* as the sender runs and the client listens.  The pipe ends at the last   *)
(* chunk unless the copier or WaitDelay dropped what was in it.            *)
(***************************************************************************)
InHand(s) == IF held[s] = 0 THEN 0 ELSE 1

Last(n) == n + InHand("stdout") + Len(queue["stdout"])

StdoutFlow(n) ==
  /\ n <= made["stdout"]
  /\ Carry(wire, "bin", 0, n)
  /\ worker["stdout"] # "done" /\ Listening =>
       /\ held["stdout"] # 0 => held["stdout"] = n + 1
       /\ \A j \in 1..Len(queue["stdout"]) : queue["stdout"][j] = n + InHand("stdout") + j
       /\ Last(n) <= made["stdout"]
       /\ ~expired /\ (copier["stdout"] # "done" \/ "stdout" \notin closed) =>
            Last(n) = made["stdout"]

Work ==
  /\ \A s \in Streams :
       /\ worker[s] = "writing" <=> held[s] # 0
       /\ made[s] <= Limit[s]
       /\ proc = "none" => copier[s] = "off"
       /\ \A j \in 1..Len(queue[s]) : queue[s][j] # 0
  /\ \A i \in 1..Len(wsIn) : wsIn[i].kind = "bin" => wsIn[i].n # 0
  /\ expired => Dead

StdoutInv == \E n \in 0..made["stdout"] : StdoutFlow(n)

(* Stderr: lines may be dropped, but what is in hand or in the pipe is     *)
(* newer than what was sent.                                               *)
StderrInv ==
  LET q == queue["stderr"]  h == held["stderr"] IN
  /\ h <= made["stderr"]
  /\ \A j \in 1..Len(q) : q[j] \in 1..made["stderr"] /\ (h # 0 => h < q[j])
  /\ \A j, k \in 1..Len(q) : j < k => q[j] < q[k]
  /\ \A i \in OfKind(wire, "process_stderr") :
       /\ wire[i].n <= made["stderr"] /\ (h # 0 => wire[i].n < h)
       /\ \A j \in 1..Len(q) : wire[i].n < q[j]

(* Stdin: nothing of it exists before the workers run.                     *)
StdinInv ==
  /\ main \in {"starting", "startErr", "startOk"} =>
       made["stdin"] = 0 /\ wsIn = <<>> /\ got = <<>> /\ queue["stdin"] = <<>>
  /\ StdinConservation

(* Binary frames have nothing but their chunk.                             *)
Plain == \A i \in 1..Len(wire) : wire[i].kind = "bin" => wire[i] = Binary(wire[i].n)

AllInv == WInv /\ Work /\ StdoutInv /\ StderrInv /\ StdinInv /\ Plain

-----------------------------------------------------------------------------
(* Chunks at the two ends of a sequence of frames.                         *)

LEMMA CarryAppend ==
  ASSUME NEW frames \in Seq(Frames), NEW f \in Frames, NEW kind,
         NEW from \in Nat, NEW to \in Nat, Carry(frames, kind, from, to)
  PROVE  /\ f.kind # kind => Carry(Append(frames, f), kind, from, to)
         /\ f.kind = kind /\ f.n = to + 1 => Carry(Append(frames, f), kind, from, to + 1)
<1> DEFINE longer == Append(frames, f)
<1>1. /\ Len(longer) = Len(frames) + 1 /\ longer[Len(frames) + 1] = f
      /\ \A i \in 1..Len(frames) : longer[i] = frames[i]
      /\ Len(frames) \in Nat
  OBVIOUS
<1> HIDE DEF longer
<1>2. \A i \in OfKind(frames, kind) : frames[i].n \in (from + 1)..to
  BY DEF Carry
<1>3. ASSUME f.kind # kind PROVE Carry(longer, kind, from, to)
  <2>1. OfKind(longer, kind) = OfKind(frames, kind)
    BY <1>1, <1>3 DEF OfKind
  <2>2. \A i \in OfKind(frames, kind) : longer[i] = frames[i]
    BY <1>1 DEF OfKind
  <2> QED
    BY <2>1, <2>2 DEF Carry
<1>4. ASSUME f.kind = kind, f.n = to + 1 PROVE Carry(longer, kind, from, to + 1)
  <2>1. OfKind(longer, kind) = OfKind(frames, kind) \cup {Len(frames) + 1}
    BY <1>1, <1>4 DEF OfKind
  <2>2. /\ \A i \in OfKind(frames, kind) : longer[i] = frames[i] /\ i < Len(frames) + 1
        /\ OfKind(frames, kind) \subseteq 1..Len(frames)
    BY <1>1 DEF OfKind
  <2>3. {longer[i].n : i \in OfKind(longer, kind)}
          = {frames[i].n : i \in OfKind(frames, kind)} \cup {to + 1}
    BY <1>1, <1>4, <2>1, <2>2
  <2>4. from <= to + 1 /\ {longer[i].n : i \in OfKind(longer, kind)} = (from + 1)..(to + 1)
    <3>1. from <= to /\ {frames[i].n : i \in OfKind(frames, kind)} = (from + 1)..to
      BY DEF Carry
    <3>2. ((from + 1)..to) \cup {to + 1} = (from + 1)..(to + 1)
      BY <3>1
    <3>3. from <= to + 1
      BY <3>1
    <3> QED
      BY <2>3, <3>1, <3>2, <3>3, Zenon
  <2>5. ASSUME NEW i \in OfKind(longer, kind), NEW j \in OfKind(longer, kind), i < j
        PROVE  longer[i].n < longer[j].n
    <3>1. i \in OfKind(frames, kind)
      BY <2>1, <2>2, <2>5
    <3>2. CASE j \in OfKind(frames, kind)
      BY <2>2, <2>5, <3>1, <3>2 DEF Carry
    <3>3. CASE j = Len(frames) + 1
      BY <1>1, <1>2, <1>4, <2>2, <3>1, <3>3
    <3> QED
      BY <2>1, <3>2, <3>3
  <2> QED
    BY <2>4, <2>5 DEF Carry
<1> QED
  BY <1>3, <1>4 DEF longer

LEMMA CarryTail ==
  ASSUME NEW frames \in Seq(Frames), frames # <<>>, NEW kind,
         NEW from \in Nat, NEW to \in Nat, Carry(frames, kind, from, to)
  PROVE  /\ Head(frames).kind # kind => Carry(Tail(frames), kind, from, to)
         /\ Head(frames).kind = kind =>
              /\ Head(frames).n = from + 1 /\ from < to
              /\ Carry(Tail(frames), kind, from + 1, to)
<1> DEFINE rest == Tail(frames)
<1>1. /\ Len(rest) = Len(frames) - 1 /\ Len(frames) \in Nat \ {0}
      /\ \A i \in 1..Len(rest) : rest[i] = frames[i + 1]
      /\ Head(frames) = frames[1]
  OBVIOUS
<1> HIDE DEF rest
<1>2. ASSUME NEW i \in OfKind(rest, kind)
      PROVE  /\ i \in Nat /\ 1 < i + 1 /\ i + 1 \in OfKind(frames, kind)
             /\ rest[i] = frames[i + 1]
  BY <1>1 DEF OfKind
<1>7. ASSUME NEW i \in OfKind(frames, kind), i # 1
      PROVE  i - 1 \in OfKind(rest, kind) /\ rest[i - 1] = frames[i] /\ 1 < i
  <2>1. i - 1 \in 1..Len(rest) /\ i = (i - 1) + 1
    BY <1>1, <1>7 DEF OfKind
  <2>2. rest[i - 1] = frames[i]
    BY <1>1, <2>1
  <2> QED
    BY <2>1, <2>2 DEF OfKind
<1>3. \A i, j \in OfKind(rest, kind) : i < j => rest[i].n < rest[j].n
  <2> SUFFICES ASSUME NEW i \in OfKind(rest, kind), NEW j \in OfKind(rest, kind), i < j
               PROVE  rest[i].n < rest[j].n
    OBVIOUS
  <2>1. i + 1 < j + 1
    BY <1>2
  <2> QED
    BY <1>2, <2>1 DEF Carry
<1>4. 1 \in OfKind(frames, kind) <=> frames[1].kind = kind
  BY <1>1 DEF OfKind
<1>5. ASSUME frames[1].kind # kind PROVE Carry(rest, kind, from, to)
  <2>1. ASSUME NEW i \in OfKind(frames, kind)
        PROVE  i - 1 \in OfKind(rest, kind) /\ rest[i - 1] = frames[i]
    BY <1>4, <1>5, <1>7
  <2>2. {rest[i].n : i \in OfKind(rest, kind)} = {frames[i].n : i \in OfKind(frames, kind)}
    BY <1>2, <2>1
  <2> QED
    BY <1>3, <2>2 DEF Carry
<1>6. ASSUME frames[1].kind = kind
      PROVE  frames[1].n = from + 1 /\ from < to /\ Carry(rest, kind, from + 1, to)
  <2>1. frames[1].n \in (from + 1)..to
    BY <1>4, <1>6 DEF Carry
  <2>2. from < to /\ from + 1 \in (from + 1)..to
    BY <2>1
  <2>3. PICK i \in OfKind(frames, kind) : frames[i].n = from + 1
    BY <2>2 DEF Carry
  <2>4. frames[1].n = from + 1
    <3>1. 1 < i => frames[1].n < frames[i].n
      BY <1>4, <1>6 DEF Carry
    <3>2. i = 1 \/ 1 < i
      BY <1>7
    <3> QED
      BY <2>1, <2>3, <3>1, <3>2
  <2>5. {rest[j].n : j \in OfKind(rest, kind)} = (from + 2)..to
    <3>1. ASSUME NEW j \in OfKind(rest, kind) PROVE rest[j].n \in (from + 2)..to
      <4>1. j + 1 \in OfKind(frames, kind) /\ rest[j] = frames[j + 1] /\ 1 < j + 1
        BY <1>2
      <4>2. frames[1].n < frames[j + 1].n /\ frames[j + 1].n \in (from + 1)..to
        BY <1>4, <1>6, <4>1 DEF Carry
      <4> QED
        BY <2>4, <4>1, <4>2
    <3>2. ASSUME NEW n \in (from + 2)..to
          PROVE  \E j \in OfKind(rest, kind) : rest[j].n = n
      <4>1. n \in (from + 1)..to
        OBVIOUS
      <4>2. PICK k \in OfKind(frames, kind) : frames[k].n = n
        BY <4>1 DEF Carry
      <4>3. k # 1
        BY <2>4, <4>2
      <4>4. k - 1 \in OfKind(rest, kind) /\ rest[k - 1] = frames[k]
        BY <1>7, <4>3
      <4> QED
        BY <4>2, <4>4
    <3> QED
      BY <3>1, <3>2
  <2> QED
    BY <1>3, <2>2, <2>4, <2>5 DEF Carry
<1> QED
  BY <1>1, <1>5, <1>6 DEF rest

(* A write succeeded with a client that listens, or left the wire alone.   *)
LEMMA WriteEffect ==
  ASSUME NEW c, NEW frame, NEW ok \in BOOLEAN, WsWrite(c, frame, ok)
  PROVE  /\ wire' = wire \/ (ok /\ Listening /\ wire' = Append(wire, frame))
         /\ ok /\ Listening => wire' = Append(wire, frame)
BY DEF WsWrite

(* The wire is longer by one frame.                                        *)
Longer(f) ==
  /\ Len(wire) \in Nat /\ Len(wire') = Len(wire) + 1 /\ wire'[Len(wire) + 1] = f
  /\ \A i \in 1..Len(wire) : wire'[i] = wire[i]
  /\ wire' # <<>>

LEMMA AppendLonger ==
  ASSUME wire \in Seq(Frames), NEW f \in Frames, wire' = Append(wire, f)
  PROVE  Longer(f)
BY DEF Longer

LEMMA InitAll == Init => AllInv
<1> SUFFICES ASSUME Init PROVE AllInv
  OBVIOUS
<1>0. TypeOK
  BY InitType
<1> USE DEF Init
<1>1. WInv
  BY DEF WInv, Started, Ending, NoFinal, Truth, WireOrder, Streams
<1>2. Work
  BY SessionAssumption DEF Work, Limit, Streams
<1>3. Carry(wire, "bin", 0, 0)
  BY DEF Carry, OfKind
<1>4. StdoutInv
  <2>1. StdoutFlow(0)
    BY <1>3 DEF StdoutFlow, Last, InHand, Streams
  <2> QED
    BY <2>1 DEF StdoutInv, Streams
<1>5. StderrInv
  BY DEF StderrInv, OfKind, Streams
<1>6. StdinInv
  BY DEF StdinInv, StdinConservation, Streams
<1>7. Plain
  BY DEF Plain
<1> QED
  BY <1>1, <1>2, <1>4, <1>5, <1>6, <1>7 DEF AllInv

-----------------------------------------------------------------------------
(* The order and the truth of the wire.                                    *)

(* A step of another actor than main that leaves the wire alone.           *)
Quiet ==
  /\ Progress
  /\ wire' = wire
  /\ Listening' => Listening
  /\ proc' = proc \/ (proc = "running" /\ proc' # "none")

LEMMA QuietKeepsWire ==
  ASSUME TypeOK, WInv, Quiet
  PROVE  WInv'
<1> USE DEF WInv, Quiet, Progress
<1>1. Started'
  BY DEF Started, Streams
<1>2. Ending'
  BY DEF Ending, NoFinal
<1>3. Truth'
  BY DEF Truth, ExitReport
<1>4. WireOrder'
  BY DEF WireOrder
<1> QED
  BY <1>1, <1>2, <1>3, <1>4

LEMMA QuietSteps ==
  ASSUME TypeOK, Receiver \/ Helpers \/ Exec \/ Environment \/ UNCHANGED vars
                 \/ \E s \in OutStreams : ReadOutput(s) \/ ReadClosed(s)
  PROVE  Quiet
<1>1. CASE Receiver
  <2>1. UNCHANGED <<wire, peer, proc>>
    BY <1>1 DEF Receiver, ReceiveFrame, ReceiveFails, WriteStdin, netVars, procVars
  <2> QED
    BY <1>1, <2>1, ReceiverProgress DEF Quiet, Listening
<1>2. CASE Helpers \/ \E s \in OutStreams : ReadOutput(s) \/ ReadClosed(s)
  <2>1. UNCHANGED <<wire, peer, proc>>
    BY <1>2 DEF Helpers, CloseReadEnd, ReadOutput, ReadClosed, netVars, procVars
  <2>2. SenderStdout \/ SenderStderr \/ Helpers
    BY <1>2 DEF SenderStdout, SenderStderr, OutStreams
  <2> QED
    BY <2>1, <2>2, SenderProgress DEF Quiet, Listening
<1>3. CASE Exec \/ Environment \/ UNCHANGED vars
  <2>1. wire' = wire
    BY <1>3 DEF Exec, Copiers, StdinCopierEnds, OutputCopierEnds, WatchKills, WaitDelayExpires,
         Environment, ProcessReads, ProcessWrites, ProcessExits, PeerSendsBinary,
         PeerSendsOther, PeerSends, PeerVanishes, Signal, vars, netVars
  <2>2. peer' = peer \/ Listening
    BY <1>3 DEF Exec, Copiers, StdinCopierEnds, OutputCopierEnds, WatchKills, WaitDelayExpires,
         Environment, ProcessReads, ProcessWrites, ProcessExits, PeerSendsBinary,
         PeerSendsOther, PeerSends, PeerVanishes, Signal, vars, netVars, Listening
  <2>3. proc' = proc \/ (proc = "running" /\ proc' # "none")
    BY <1>3 DEF Exec, Copiers, StdinCopierEnds, OutputCopierEnds, WatchKills, WaitDelayExpires,
         Environment, ProcessReads, ProcessWrites, ProcessExits, PeerSendsBinary,
         PeerSendsOther, PeerSends, PeerVanishes, Signal, vars, procVars
  <2> QED
    BY <1>3, <2>1, <2>2, <2>3, OtherProgress DEF Quiet, Listening
<1> QED
  BY <1>1, <1>2, <1>3

(* A sender at work finds a session that serves: nothing final was sent.   *)
LEMMA SenderFinds ==
  ASSUME IInv, WInv, NEW s \in OutStreams, worker[s] = "writing"
  PROVE  /\ worker["stdin"] # "off" /\ proc # "none"
         /\ main \notin {"starting", "startErr", "startOk", "exitMsg",
                         "closing", "returning", "returned"}
         /\ NoFinal
         /\ Listening => wire # <<>> /\ wire[1] = StartOk
<1>1. worker["stdin"] # "off"
  BY DEF WInv, Started, OutStreams, Streams
<1>2. main \notin {"starting", "startErr", "startOk", "exitMsg",
                   "closing", "returning", "returned"}
  BY <1>1 DEF IInv, Joined, AllDone, OutStreams, Streams
<1> QED
  BY <1>1, <1>2 DEF WInv, Started, Ending

LEMMA SendKeepsWire ==
  ASSUME IInv, WInv, NEW s \in OutStreams, worker[s] = "writing",
         Progress, UNCHANGED <<proc, peer>>,
         NEW f \in Frames, f.kind \in {"bin", "process_stderr"},
         wire' = wire \/ (Listening /\ wire' = Append(wire, f))
  PROVE  WInv'
<1>1. CASE wire' = wire
  BY <1>1, QuietKeepsWire DEF Quiet, IInv, Listening
<1>2. CASE Listening /\ wire' = Append(wire, f)
  <2>0. wire \in Seq(Frames)
    BY DEF IInv, TypeOK, NetTypeOK
  <2>1. Longer(f)
    BY <1>2, <2>0, AppendLonger
  <2> USE DEF Longer
  <2>2. /\ worker["stdin"] # "off" /\ proc # "none"
        /\ main \notin {"starting", "startErr", "startOk", "exitMsg",
                        "closing", "returning", "returned"}
        /\ NoFinal /\ wire # <<>> /\ wire[1] = StartOk
    BY <1>2, SenderFinds
  <2>3. 1 \in 1..Len(wire)
    BY <2>0, <2>2
  <2>4. Started'
    BY <2>1, <2>2, <2>3 DEF WInv, Started, Progress, Streams
  <2>5. NoFinal'
    BY <2>1, <2>2 DEF NoFinal
  <2>6. Ending'
    BY <2>2, <2>5 DEF Ending, Progress
  <2>7. Truth'
    BY <2>5 DEF Truth, Progress, WInv, NoFinal
  <2>8. WireOrder'
    <3>1. \A i \in 1..Len(wire') : wire'[i].kind \in {"start_ok", "start_err"} => i = 1
      BY <2>1 DEF WInv, WireOrder
    <3> QED
      BY <2>1, <2>2, <2>3, <2>5, <3>1 DEF WireOrder, NoFinal
  <2> QED
    BY <2>4, <2>6, <2>7, <2>8 DEF WInv
<1> QED
  BY <1>1, <1>2

LEMMA MainKeepsWire ==
  ASSUME IInv, WInv, Main
  PROVE  WInv'
<1>0. wire \in Seq(Frames) /\ Len(wire) \in Nat
  BY DEF IInv, TypeOK, NetTypeOK
<1>1. TypeOK /\ TypeOK'
  BY MainType DEF IInv
<1> USE DEF WInv, mainVars, procVars, pipeVars, workVars, netVars
<1>2. ASSUME wire' = wire, proc' = proc, waitRes' = waitRes, peer' = peer,
             UNCHANGED worker,
             main' \in {"starting", "startErr", "startOk"} => FALSE,
             main \notin {"closing", "returning", "returned"} \/ desired' = desired,
             main' \in {"joinStdout", "joinStderrR", "exitMsg"} => waitRes # "none",
             main \in {"closing", "returning", "returned"} =>
               main' \in {"returning", "returned"}
      PROVE  WInv'
  <2>1. Started'
    BY <1>2 DEF Started, Listening
  <2>2. Ending'
    BY <1>2 DEF Ending, NoFinal
  <2>3. Truth'
    BY <1>2 DEF Truth, Ending, NoFinal, ExitReport
  <2>4. WireOrder'
    BY <1>2 DEF WireOrder
  <2> QED
    BY <2>1, <2>2, <2>3, <2>4
<1>3. CASE StartProcess
  <2>1. /\ main = "starting" /\ proc = "none" /\ wire = <<>> /\ waitRes = "none"
        /\ wire' = <<>> /\ waitRes' = "none" /\ worker' = worker
        /\ \A s \in Streams : worker[s] = "off"
        /\ \/ main' = "startErr" /\ proc' = "none"
           \/ main' = "startOk" /\ proc' = "running"
    BY <1>3 DEF StartProcess, Started, IInv, CleanClosure, Joined
  <2> QED
    BY <2>1 DEF Started, Ending, NoFinal, Truth, WireOrder, Streams
<1>4. CASE SendStartErr
  <2>1. /\ wire = <<>> /\ main' = "closing" /\ desired' = "internal" /\ proc' = proc
        /\ waitRes' = waitRes /\ worker' = worker
        /\ \A s \in Streams : worker[s] = "off"
        /\ wire' = wire \/ wire' = Append(wire, StartErr)
    BY <1>4, WriteEffect DEF SendStartErr, Started, IInv, Joined
  <2>2. wire' = <<>> \/ (Len(wire') = 1 /\ wire'[1] = StartErr)
    BY <2>1
  <2>3. StartErr.kind = "start_err"
    BY DEF StartErr, Frame
  <2> QED
    BY <2>1, <2>2, <2>3 DEF Started, Ending, NoFinal, Truth, WireOrder, Streams
<1>5. CASE SendStartOk
  <2>1. /\ wire = <<>> /\ proc # "none" /\ proc' = proc /\ waitRes' = waitRes
        /\ \A s \in Streams : worker[s] = "off"
        /\ wire' = wire \/ wire' = Append(wire, StartOk)
        /\ \/ main' = "select" /\ worker' = [s \in Streams |-> "reading"]
              /\ (Listening => wire' = Append(wire, StartOk))
           \/ main' = "closing" /\ worker' = worker
    BY <1>5, WriteEffect DEF SendStartOk, Started, IInv, Joined
  <2>2. wire' = <<>> \/ (Len(wire') = 1 /\ wire'[1] = StartOk)
    BY <2>1
  <2>3. StartOk.kind = "start_ok"
    BY DEF StartOk, Frame
  <2>4. Listening' = Listening
    BY <1>5 DEF SendStartOk, Listening
  <2>5. Started'
    BY <2>1, <2>2, <2>4 DEF Started, Streams
  <2> QED
    BY <2>1, <2>2, <2>3, <2>5 DEF Ending, NoFinal, Truth, WireOrder
<1>6. CASE ReceiverFirst \/ SenderFirst \/ JoinReceiver \/ JoinStdout \/ JoinStderr
  BY <1>2, <1>6
     DEF ReceiverFirst, SenderFirst, JoinReceiver, JoinStdout, JoinStderr, Join, IInv, Joined
<1>7. CASE ReceiverFirstNil
  BY <1>2, <1>7 DEF ReceiverFirstNil
<1>8. CASE WaitReturns
  <2>1. /\ main \in {"waitR", "waitS"} /\ main' \in {"joinStdout", "exitMsg"}
        /\ UNCHANGED <<proc, peer, desired, wire, worker>>
    BY <1>8 DEF WaitReturns
  <2>2. /\ waitRes' = "code" => proc = "exitN"
        /\ waitRes' = "killed" => proc = "killed"
        /\ waitRes' \in {"nil", "other"} => proc = "exit0"
        /\ waitRes' # "none"
    BY <1>8 DEF WaitReturns, WaitResults, Dead
  <2>3. NoFinal /\ NoFinal'
    BY <2>1 DEF Ending, NoFinal
  <2>4. Started'
    BY <2>1 DEF Started, Listening
  <2>5. Truth'
    BY <2>1, <2>2, <2>3 DEF Truth, NoFinal
  <2> QED
    BY <2>1, <2>3, <2>4, <2>5 DEF Ending, WireOrder
<1>9. CASE SendExitMessage
  <2> DEFINE f == Exited(ExitReport)
  <2>1. f \in Frames /\ f.kind = "server_exited" /\ f.tag = ExitReport
    <3>1. ExitReport \in {"code0", "codeN", "killed", "error"}
      BY DEF ExitReport
    <3> QED
      BY <3>1, FrameTypes DEF Exited, Frame
  <2>2. /\ main = "exitMsg" /\ main' = "closing"
        /\ UNCHANGED <<proc, peer, waitRes, worker>>
        /\ wire' = wire \/ (Listening /\ wire' = Append(wire, f))
        /\ ExitReport' = ExitReport /\ waitRes # "none"
    BY <1>9, WriteEffect DEF SendExitMessage, ExitReport, IInv, Joined
  <2>3. /\ NoFinal /\ worker["stdin"] # "off" /\ proc # "none"
        /\ wire # <<>> => 1 \in 1..Len(wire) /\ wire[1] = StartOk
        /\ Listening => wire # <<>>
    BY <1>0, <2>2 DEF Ending, Started, IInv, Joined, AllDone, Streams
  <2> HIDE DEF f
  <2>4. wire' = wire \/ (Longer(f) /\ wire # <<>>)
    BY <1>0, <2>1, <2>2, <2>3, AppendLonger
  <2>5. Started'
    BY <2>2, <2>3, <2>4 DEF Started, Listening, Longer
  <2>6. /\ \A i \in 1..Len(wire') : wire'[i].kind = "server_exited" \/ i \in 1..Len(wire)
        /\ \A i \in 1..Len(wire') : wire'[i].kind \notin {"close", "start_err"}
        /\ \A i \in 1..Len(wire') : wire'[i].kind = "server_exited" =>
             wire'[i].tag = ExitReport /\ i = Len(wire')
        /\ \A i \in 1..Len(wire') : wire'[i].kind = "start_ok" => i = 1
        /\ wire' # <<>> => wire'[1] = StartOk
    BY <2>1, <2>3, <2>4 DEF Longer, NoFinal, WireOrder
  <2>7. Ending'
    BY <2>2, <2>6 DEF Ending
  <2>8. Truth'
    BY <2>2, <2>6 DEF Truth
  <2>9. WireOrder'
    BY <2>6 DEF WireOrder
  <2> QED
    BY <2>5, <2>7, <2>8, <2>9
<1>10. CASE CloseWebsocket
  <2> DEFINE f == Close(desired)
  <2>1. /\ main = "closing" /\ main' = "returning"
        /\ UNCHANGED <<proc, peer, waitRes, worker, desired>>
        /\ wire' = wire \/ (desired # "nil" /\ Listening /\ wire' = Append(wire, f))
    BY <1>10 DEF CloseWebsocket
  <2>2. CASE wire' = wire
    BY <1>2, <2>1, <2>2
  <2>3. CASE desired # "nil" /\ Listening /\ wire' = Append(wire, f)
    <3>1. f \in Frames /\ f.kind = "close"
      BY <1>1, <2>3, FrameTypes DEF Close, Frame, TypeOK, MainTypeOK
    <3> HIDE DEF f
    <3>2. Longer(f)
      BY <1>0, <2>3, <3>1, AppendLonger
    <3>3. Started'
      BY <2>1, <2>3, <3>2 DEF Started, Listening, Longer
    <3>4. Truth'
      BY <2>1, <3>1, <3>2 DEF Truth, Longer, ExitReport
    <3>5. WireOrder'
      <4>1. \A i \in 1..Len(wire) : wire[i].kind # "close"
        BY <2>1 DEF Ending
      <4> QED
        BY <3>1, <3>2, <4>1 DEF WireOrder, Longer
    <3> QED
      BY <2>1, <3>3, <3>4, <3>5 DEF Ending
  <2> QED
    BY <2>1, <2>2, <2>3
<1>11. CASE Return
  BY <1>2, <1>11 DEF Return
<1> QED
  BY <1>3, <1>4, <1>5, <1>6, <1>7, <1>8, <1>9, <1>10, <1>11 DEF Main

-----------------------------------------------------------------------------
(* What a worker holds, and what the pipes and the connection carry, are   *)
(* chunks.                                                                 *)

NoZero(q) == \A j \in 1..Len(q) : q[j] # 0

LEMMA NoZeroSteps ==
  ASSUME NEW q \in Seq(Nat), NoZero(q)
  PROVE  /\ \A n \in Nat \ {0} : NoZero(Append(q, n))
         /\ q # <<>> => Head(q) \in Nat \ {0} /\ NoZero(Tail(q)) /\ NoZero(<<Head(q)>>)
         /\ NoZero(<<>>)
BY DEF NoZero

HeldChunk(s) == worker[s] = "writing" <=> held[s] # 0
FramesChunk  == \A i \in 1..Len(wsIn) : wsIn[i].kind = "bin" => wsIn[i].n # 0

LEMMA WorkParts ==
  Work <=> /\ \A s \in Streams : /\ HeldChunk(s) /\ NoZero(queue[s])
                                 /\ made[s] <= Limit[s]
                                 /\ proc = "none" => copier[s] = "off"
           /\ FramesChunk
           /\ expired => Dead
BY DEF Work, HeldChunk, NoZero, FramesChunk

(* Ending a worker empties its hand; turning it to write fills it.         *)
LEMMA HandSteps ==
  ASSUME WorkTypeOK, \A t \in Streams : HeldChunk(t), NEW s \in Streams,
         \/ UNCHANGED workVars
         \/ \E r \in Results : Finish(s, r)
         \/ Turn(s, "reading", 0)
         \/ \E n \in Nat \ {0} : Turn(s, "writing", n)
  PROVE  \A t \in Streams : HeldChunk(t)'
BY DEF WorkTypeOK, HeldChunk, Finish, Turn, workVars

LEMMA ReceiverKeepsWork ==
  ASSUME TypeOK, Work, Receiver
  PROVE  Work'
<1> USE DEF TypeOK
<1>0. "stdin" \in Streams /\ {"normal", "internal", "unsupported", "nil"} \subseteq Results
  BY DEF Streams, Results, Statuses
<1>1. /\ \A s \in Streams : /\ HeldChunk(s) /\ NoZero(queue[s])
                            /\ proc = "none" => copier[s] = "off"
      /\ FramesChunk
  BY WorkParts
<1>2. UNCHANGED <<made, proc, expired>>
  BY DEF Receiver, ReceiveFrame, ReceiveFails, WriteStdin, procVars, pipeVars
<1>3. \A s \in Streams : HeldChunk(s)'
  <2>1. CASE ReceiveFrame
    <3>1. wsIn # <<>> /\ wsIn \in Seq(Frames)
      BY <2>1 DEF ReceiveFrame, NetTypeOK
    <3>2. Head(wsIn) \in Frames /\ Head(wsIn) = wsIn[1] /\ 1 \in 1..Len(wsIn)
      BY <3>1
    <3>3. Head(wsIn).n \in Nat
      BY <3>2 DEF Frames
    <3>4. CASE Head(wsIn).kind = "bin"
      BY <1>0, <1>1, <2>1, <3>2, <3>3, <3>4, HandSteps DEF ReceiveFrame, FramesChunk
    <3>5. CASE Head(wsIn).kind # "bin"
      BY <1>0, <1>1, <2>1, <3>5, HandSteps DEF ReceiveFrame
    <3> QED
      BY <3>4, <3>5
  <2>2. CASE ReceiveFails
    BY <1>0, <1>1, <2>2, HandSteps DEF ReceiveFails
  <2>3. CASE WriteStdin
    BY <1>0, <1>1, <2>3, HandSteps DEF WriteStdin
  <2> QED
    BY <2>1, <2>2, <2>3 DEF Receiver
<1>4. \A s \in Streams : NoZero(queue'[s]) /\ (proc = "none" => copier'[s] = "off")
  <2>1. CASE WriteStdin
    <3>1. held["stdin"] \in Nat \ {0} /\ queue["stdin"] \in Seq(Nat)
      BY <1>0, <1>1, <2>1 DEF WriteStdin, HeldChunk, WorkTypeOK, PipeTypeOK
    <3>2. NoZero(Append(queue["stdin"], held["stdin"]))
      BY <1>0, <1>1, <3>1, NoZeroSteps
    <3> QED
      BY <1>0, <1>1, <2>1, <3>2 DEF WriteStdin, PipeTypeOK
  <2>2. CASE ReceiveFrame \/ ReceiveFails
    BY <1>1, <2>2 DEF ReceiveFrame, ReceiveFails, pipeVars
  <2> QED
    BY <2>1, <2>2 DEF Receiver
<1>5. FramesChunk'
  <2>1. CASE wsIn' = wsIn
    BY <1>1, <2>1 DEF FramesChunk
  <2>2. CASE wsIn # <<>> /\ wsIn' = Tail(wsIn)
    BY <1>1, <2>2 DEF FramesChunk, NetTypeOK
  <2> QED
    BY <2>1, <2>2 DEF Receiver, ReceiveFrame, ReceiveFails, WriteStdin, netVars
<1>6. \A s \in Streams : made'[s] <= Limit'[s]
  BY <1>2 DEF Work, Limit
<1> QED
  BY <1>2, <1>3, <1>4, <1>5, <1>6 DEF Work, HeldChunk, NoZero, FramesChunk, Dead

LEMMA SenderKeepsWork ==
  ASSUME TypeOK, Work, SenderStdout \/ SenderStderr \/ Helpers
  PROVE  Work'
<1> USE DEF TypeOK
<1>0. /\ {"stdout", "stderr"} \subseteq Streams /\ OutStreams \subseteq Streams
      /\ {"normal", "internal", "nil"} \subseteq Results
  BY DEF Streams, OutStreams, Results, Statuses
<1>1. \A s \in Streams : HeldChunk(s) /\ NoZero(queue[s])
  BY WorkParts
<1>2. UNCHANGED <<made, proc, expired, copier, wsIn>>
  BY DEF SenderStdout, SenderStderr, Helpers, ReadOutput, ReadClosed, SendStdout, SendStderr,
         CloseReadEnd, procVars, pipeVars, netVars
<1>3. ASSUME NEW s \in OutStreams, ReadOutput(s)
      PROVE  (\A t \in Streams : HeldChunk(t)') /\ \A t \in Streams : NoZero(queue'[t])
  <2>1. queue[s] \in Seq(Nat) /\ NoZero(queue[s]) /\ queue[s] # <<>>
    BY <1>0, <1>1, <1>3 DEF ReadOutput, PipeTypeOK
  <2>2. Head(queue[s]) \in Nat \ {0} /\ NoZero(Tail(queue[s]))
    BY <2>1, NoZeroSteps
  <2>3. \A t \in Streams : HeldChunk(t)'
    BY <1>0, <1>1, <1>3, <2>2, HandSteps DEF ReadOutput
  <2>4. \A t \in Streams : NoZero(queue'[t])
    BY <1>0, <1>1, <1>3, <2>2 DEF ReadOutput, PipeTypeOK
  <2> QED
    BY <2>3, <2>4
<1>4. CASE \E s \in OutStreams : ReadClosed(s) \/ CloseReadEnd(s)
  <2>1. \A t \in Streams : HeldChunk(t)'
    <3>1. ASSUME NEW s \in OutStreams, ReadClosed(s) PROVE \A t \in Streams : HeldChunk(t)'
      BY <1>0, <1>1, <3>1, HandSteps DEF ReadClosed
    <3>2. ASSUME NEW s \in OutStreams, CloseReadEnd(s) PROVE \A t \in Streams : HeldChunk(t)'
      BY <1>1, <3>2 DEF CloseReadEnd, HeldChunk
    <3> QED
      BY <1>4, <3>1, <3>2
  <2>2. queue' = queue
    BY <1>4 DEF ReadClosed, CloseReadEnd, pipeVars
  <2> QED
    BY <1>2, <2>1, <2>2 DEF Work, HeldChunk, Limit, Dead
<1>5. CASE SendStdout \/ SendStderr
  <2>1. \A t \in Streams : HeldChunk(t)'
    BY <1>0, <1>1, <1>5, HandSteps DEF SendStdout, SendStderr
  <2>2. queue' = queue
    BY <1>5 DEF SendStdout, SendStderr, pipeVars
  <2> QED
    BY <1>2, <2>1, <2>2 DEF Work, HeldChunk, Limit, Dead
<1>6. CASE \E s \in OutStreams : ReadOutput(s)
  <2>1. (\A t \in Streams : HeldChunk(t)') /\ \A t \in Streams : NoZero(queue'[t])
    BY <1>3, <1>6
  <2> QED
    BY <1>2, <2>1 DEF Work, HeldChunk, NoZero, Limit, Dead
<1> QED
  BY <1>4, <1>5, <1>6 DEF SenderStdout, SenderStderr, Helpers, OutStreams

LEMMA ExecKeepsWork ==
  ASSUME TypeOK, Work, Exec
  PROVE  Work'
<1> USE DEF TypeOK
<1>1. UNCHANGED <<made, worker, held, wsIn>>
  BY DEF Exec, Copiers, StdinCopierEnds, OutputCopierEnds, WatchKills, WaitDelayExpires,
         procVars, workVars, netVars
<1>2. \A s \in Streams : NoZero(queue'[s])
  <2>1. \A s \in Streams : NoZero(queue[s])
    BY WorkParts
  <2>2. ASSUME NEW s \in OutStreams, OutputCopierEnds(s)
        PROVE  \A t \in Streams : NoZero(queue'[t])
    BY <2>1, <2>2 DEF OutputCopierEnds, PipeTypeOK, NoZero
  <2>3. CASE WaitDelayExpires
    <3>1. \A s \in Streams : queue[s] # <<>> => NoZero(<<Head(queue[s])>>)
      BY <2>1, NoZeroSteps DEF PipeTypeOK
    <3> QED
      BY <2>1, <2>3, <3>1 DEF WaitDelayExpires
  <2>4. CASE StdinCopierEnds \/ WatchKills
    BY <2>1, <2>4 DEF StdinCopierEnds, WatchKills, pipeVars
  <2> QED
    BY <2>2, <2>3, <2>4 DEF Exec, Copiers
<1>3. proc' = "none" => proc = "none" /\ copier' = copier
  BY DEF Exec, Copiers, StdinCopierEnds, OutputCopierEnds, WatchKills, WaitDelayExpires,
         procVars, pipeVars, Work, OutStreams, Streams, Dead
<1>4. expired' => Dead'
  BY DEF Exec, Copiers, StdinCopierEnds, OutputCopierEnds, WatchKills, WaitDelayExpires,
         procVars, pipeVars, Work, Dead
<1> QED
  BY <1>1, <1>2, <1>3, <1>4 DEF Work, NoZero, Limit

LEMMA EnvironmentKeepsWork ==
  ASSUME TypeOK, Work, Environment \/ UNCHANGED vars
  PROVE  Work'
<1> USE DEF TypeOK
<1>0. Streams = {"stdin", "stdout", "stderr"} /\ OutStreams \subseteq Streams
  BY DEF Streams, OutStreams
<1>1. UNCHANGED <<worker, held, copier, expired>> /\ (proc' = "none" => proc = "none")
      /\ (Dead => Dead')
  BY DEF Environment, ProcessReads, ProcessWrites, ProcessExits, PeerSendsBinary,
         PeerSendsOther, PeerSends, PeerVanishes, Signal, vars, procVars, pipeVars, workVars, Dead
<1>2. \A s \in Streams : NoZero(queue'[s])
  <2>1. \A s \in Streams : NoZero(queue[s])
    BY WorkParts
  <2>2. CASE ProcessReads
    <3>1. NoZero(Tail(queue["stdin"]))
      BY <1>0, <2>1, <2>2, NoZeroSteps DEF ProcessReads, PipeTypeOK
    <3> QED
      BY <2>1, <2>2, <3>1 DEF ProcessReads, PipeTypeOK
  <2>3. ASSUME NEW s \in OutStreams, ProcessWrites(s)
        PROVE  \A t \in Streams : NoZero(queue'[t])
    <3>1. queue[s] \in Seq(Nat) /\ made[s] + 1 \in Nat \ {0}
      BY <1>0 DEF PipeTypeOK, ProcTypeOK
    <3>2. NoZero(Append(queue[s], made[s] + 1))
      BY <1>0, <2>1, <3>1, NoZeroSteps
    <3> QED
      BY <2>1, <2>3, <3>2 DEF ProcessWrites, PipeTypeOK
  <2>4. CASE queue' = queue
    BY <2>1, <2>4
  <2> QED
    BY <2>2, <2>3, <2>4
       DEF Environment, ProcessExits, PeerSendsBinary, PeerSendsOther, PeerSends,
           PeerVanishes, Signal, vars, pipeVars
<1>3. \A s \in Streams : made'[s] <= Limit'[s]
  <2>1. \A s \in Streams : made[s] <= Limit[s] /\ made[s] \in Nat /\ Limit[s] \in Nat
                           /\ Limit' = Limit
    BY <1>0, SessionAssumption DEF Work, ProcTypeOK, Limit
  <2>2. CASE made' = made
    BY <2>1, <2>2
  <2>3. ASSUME NEW s \in OutStreams, ProcessWrites(s) PROVE \A t \in Streams : made'[t] <= Limit'[t]
    BY <2>1, <2>3 DEF ProcessWrites, ProcTypeOK
  <2> QED
    <3>1. CASE PeerSendsBinary
      BY <1>0, <2>1, <3>1 DEF PeerSendsBinary, ProcTypeOK, Limit
    <3> QED
      BY <2>2, <2>3, <3>1
         DEF Environment, ProcessReads, ProcessExits, PeerSendsOther, PeerVanishes, Signal,
             vars, procVars
<1>4. FramesChunk'
  <2>1. FramesChunk
    BY WorkParts
  <2>2. CASE wsIn' = wsIn
    BY <2>1, <2>2 DEF FramesChunk
  <2>3. ASSUME NEW f \in Frames, PeerSends(f), f.kind = "bin" => f.n # 0
        PROVE  FramesChunk'
    BY <2>1, <2>3 DEF FramesChunk, PeerSends, NetTypeOK
  <2>4. CASE PeerSendsBinary
    <3>1. made["stdin"] + 1 \in Nat \ {0}
      BY <1>0 DEF ProcTypeOK
    <3>2. Binary(made["stdin"] + 1) \in Frames /\ Binary(made["stdin"] + 1).n # 0
      BY <3>1, FrameTypes DEF Binary, Frame
    <3> QED
      BY <2>3, <2>4, <3>2 DEF PeerSendsBinary
  <2>5. CASE PeerSendsOther
    <3>1. \A k \in PeerFrames : Frame(k, 0, "") \in Frames /\ Frame(k, 0, "").kind # "bin"
      BY FrameTypes, SessionAssumption DEF Frame
    <3> QED
      BY <2>3, <2>5, <3>1 DEF PeerSendsOther
  <2> QED
    BY <2>2, <2>4, <2>5
       DEF Environment, ProcessReads, ProcessWrites, ProcessExits, PeerVanishes, Signal,
           vars, netVars
<1> QED
  BY <1>1, <1>2, <1>3, <1>4 DEF Work, NoZero, FramesChunk

LEMMA MainKeepsWork ==
  ASSUME IInv, WInv, Work, Main
  PROVE  Work'
<1>1. UNCHANGED <<made, queue, expired, held, wsIn>> /\ (proc' = "none" => copier' = copier)
      /\ (proc' = proc \/ proc = "none")
  BY DEF Main, StartProcess, SendStartErr, SendStartOk, ReceiverFirst, ReceiverFirstNil,
         SenderFirst, JoinReceiver, JoinStdout, JoinStderr, Join, WaitReturns,
         SendExitMessage, CloseWebsocket, Return, procVars, pipeVars, workVars, netVars,
         WInv, Started
<1>2. \A s \in Streams : worker'[s] = "writing" <=> worker[s] = "writing"
  <2>1. CASE SendStartOk
    BY <2>1 DEF SendStartOk, IInv, Joined
  <2>2. CASE ~SendStartOk
    BY <2>2 DEF Main, StartProcess, SendStartErr, ReceiverFirst, ReceiverFirstNil,
         SenderFirst, JoinReceiver, JoinStdout, JoinStderr, Join, WaitReturns,
         SendExitMessage, CloseWebsocket, Return, workVars
  <2> QED
    BY <2>1, <2>2
<1>3. expired => Dead /\ Dead'
  BY <1>1 DEF Work, Dead
<1> QED
  BY <1>1, <1>2, <1>3 DEF Work, Limit

-----------------------------------------------------------------------------
(* Stdout.                                                                 *)

(* Main sends no chunk.                                                    *)
LEMMA MainSends ==
  ASSUME TypeOK, Main
  PROVE  \/ wire' = wire
         \/ \E f \in Frames : f.kind \notin {"bin", "process_stderr"} /\ wire' = Append(wire, f)
<1>1. ASSUME SendStartErr, wire' # wire PROVE wire' = Append(wire, StartErr)
  BY <1>1, WriteEffect DEF SendStartErr
<1>2. ASSUME SendStartOk, wire' # wire PROVE wire' = Append(wire, StartOk)
  BY <1>2, WriteEffect DEF SendStartOk
<1>3. ASSUME SendExitMessage, wire' # wire PROVE wire' = Append(wire, Exited(ExitReport))
  BY <1>3, WriteEffect DEF SendExitMessage
<1>4. ASSUME CloseWebsocket, wire' # wire
      PROVE  wire' = Append(wire, Close(desired)) /\ desired \in Statuses
  BY <1>4 DEF CloseWebsocket, TypeOK, MainTypeOK
<1>5. ExitReport \in {"code0", "codeN", "killed", "error"}
  BY DEF ExitReport
<1>6. /\ StartOk.kind = "start_ok" /\ StartErr.kind = "start_err"
      /\ Exited(ExitReport).kind = "server_exited" /\ Close(desired).kind = "close"
  BY DEF StartOk, StartErr, Exited, Close, Frame
<1>7. wire' = wire \/ SendStartErr \/ SendStartOk \/ SendExitMessage \/ CloseWebsocket
  BY DEF Main, StartProcess, ReceiverFirst, ReceiverFirstNil, SenderFirst, JoinReceiver,
         JoinStdout, JoinStderr, Join, WaitReturns, Return, netVars
<1>8. /\ StartOk \in Frames /\ StartErr \in Frames /\ Exited(ExitReport) \in Frames
      /\ desired \in Statuses => Close(desired) \in Frames
  BY <1>5, FrameTypes
<1> QED
  BY <1>1, <1>2, <1>3, <1>4, <1>6, <1>7, <1>8

(* What is left alone, or has ended, keeps the flow.                       *)
LEMMA StdoutSame ==
  ASSUME NEW n \in Nat, StdoutFlow(n),
         made'["stdout"] = made["stdout"], Carry(wire', "bin", 0, n),
         Listening' => Listening,
         \/ worker'["stdout"] = "done"
         \/ /\ worker["stdout"] # "done"
            /\ held'["stdout"] = held["stdout"] /\ queue'["stdout"] = queue["stdout"]
            /\ expired => expired'
            /\ "stdout" \in closed => "stdout" \in closed'
            /\ copier["stdout"] = "done" => copier'["stdout"] = "done"
  PROVE  StdoutFlow(n)'
BY DEF StdoutFlow, Last, InHand

LEMMA ReadKeepsStdout ==
  ASSUME TypeOK, Work, NEW n \in Nat, StdoutFlow(n), ReadOutput("stdout")
  PROVE  StdoutFlow(n)'
<1> DEFINE q == queue["stdout"]
<1>1. /\ q \in Seq(Nat) /\ q # <<>> /\ held["stdout"] = 0 /\ made["stdout"] \in Nat
  BY DEF TypeOK, PipeTypeOK, ProcTypeOK, WorkTypeOK, Work, ReadOutput, Streams
<1>2. /\ UNCHANGED <<made, wire, peer, expired, closed, copier>>
      /\ queue'["stdout"] = Tail(q) /\ held'["stdout"] = Head(q)
      /\ worker["stdout"] # "done"
  BY DEF ReadOutput, Turn, procVars, netVars, TypeOK, PipeTypeOK, WorkTypeOK, Streams
<1>3. Head(q) = q[1] /\ Head(q) # 0
  BY <1>1 DEF Work, Streams
<1>4. Len(Tail(q)) = Len(q) - 1 /\ Len(q) \in Nat \ {0}
      /\ \A j \in 1..(Len(q) - 1) : Tail(q)[j] = q[j + 1] /\ j + 1 \in 1..Len(q)
  BY <1>1
<1> HIDE DEF q
<1>5. CASE Listening
  <2>1. \A j \in 1..Len(q) : q[j] = n + j
    BY <1>1, <1>2, <1>5 DEF StdoutFlow, InHand, q
  <2>2. Head(q) = n + 1 /\ \A j \in 1..Len(Tail(q)) : Tail(q)[j] = n + 1 + j
    BY <1>3, <1>4, <2>1
  <2>3. InHand("stdout") = 0 /\ InHand("stdout")' = 1
    BY <1>1, <1>2, <1>3 DEF InHand
  <2>4. Last(n)' = Last(n)
    BY <1>2, <1>4, <2>3 DEF Last, q
  <2> QED
    BY <1>2, <1>5, <2>2, <2>3, <2>4 DEF StdoutFlow, Listening
<1>6. CASE ~Listening
  BY <1>2, <1>6 DEF StdoutFlow, Listening
<1> QED
  BY <1>5, <1>6

LEMMA SendKeepsStdout ==
  ASSUME TypeOK, Work, NEW n \in Nat, StdoutFlow(n), SendStdout
  PROVE  StdoutFlow(n)' \/ (n + 1 <= made["stdout"] /\ StdoutFlow(n + 1)')
<1> DEFINE h == held["stdout"]
<1>1. /\ h \in Nat \ {0} /\ wire \in Seq(Frames) /\ made["stdout"] \in Nat
      /\ Binary(h) \in Frames /\ Binary(h).n = h /\ Binary(h).kind = "bin"
      /\ Len(queue["stdout"]) \in Nat
  <2>1. h \in Nat /\ h # 0
    BY DEF TypeOK, WorkTypeOK, Work, SendStdout, Streams
  <2>2. wire \in Seq(Frames) /\ made["stdout"] \in Nat /\ queue["stdout"] \in Seq(Nat)
    BY DEF TypeOK, NetTypeOK, ProcTypeOK, PipeTypeOK, Streams
  <2>3. Binary(h) \in Frames
    BY <2>1, FrameTypes
  <2>4. Binary(h).n = h /\ Binary(h).kind = "bin"
    BY DEF Binary, Frame
  <2>5. Len(queue["stdout"]) \in Nat
    BY <2>2
  <2> QED
    BY <2>1, <2>2, <2>3, <2>4, <2>5
<1>2. UNCHANGED <<made, queue, peer, expired, copier>>
  BY DEF SendStdout, procVars, pipeVars
<1>3. PICK ok \in BOOLEAN, parse \in ParseOutcomes :
        /\ WsWrite("stdout", Binary(h), ok)
        /\ IF ok /\ parse = "ok" THEN Turn("stdout", "reading", 0)
           ELSE \E r \in {"internal", "nil"} : Finish("stdout", r)
  BY DEF SendStdout
<1>4. /\ wire' = wire \/ (ok /\ Listening /\ wire' = Append(wire, Binary(h)))
      /\ ok /\ Listening => wire' = Append(wire, Binary(h))
  BY <1>3, WriteEffect
<1>5. /\ worker["stdout"] # "done"
      /\ \/ ok /\ worker'["stdout"] = "reading" /\ held'["stdout"] = 0 /\ closed' = closed
         \/ worker'["stdout"] = "done"
  BY <1>3 DEF SendStdout, Turn, Finish, TypeOK, WorkTypeOK, Streams
<1>6. n <= made["stdout"] /\ Carry(wire, "bin", 0, n)
  BY DEF StdoutFlow
<1>7. CASE Listening /\ ok
  <2>1. h = n + 1 /\ InHand("stdout") = 1 /\ Last(n) <= made["stdout"]
    BY <1>1, <1>5, <1>7 DEF StdoutFlow, InHand
  <2>2. n + 1 <= made["stdout"]
    BY <1>1, <2>1 DEF Last
  <2>3. Carry(wire', "bin", 0, n + 1)
    BY <1>1, <1>4, <1>6, <1>7, <2>1, CarryAppend
  <2>4. CASE worker'["stdout"] = "done"
    BY <1>2, <2>2, <2>3, <2>4 DEF StdoutFlow
  <2>5. CASE worker'["stdout"] = "reading" /\ held'["stdout"] = 0 /\ closed' = closed
    <3>1. InHand("stdout")' = 0 /\ Last(n + 1)' = Last(n)
      BY <1>1, <1>2, <2>1, <2>5 DEF InHand, Last
    <3>2. \A j \in 1..Len(queue["stdout"]) : queue["stdout"][j] = n + 1 + j
      BY <1>5, <1>7, <2>1 DEF StdoutFlow
    <3> QED
      BY <1>2, <1>5, <1>7, <2>2, <2>3, <2>5, <3>1, <3>2 DEF StdoutFlow
  <2> QED
    BY <1>5, <2>4, <2>5
<1>8. CASE ~(Listening /\ ok)
  <2>1. wire' = wire /\ (worker'["stdout"] = "done" \/ ~Listening')
    BY <1>2, <1>4, <1>5, <1>8 DEF Listening
  <2> QED
    BY <1>2, <1>6, <2>1 DEF StdoutFlow
<1> QED
  BY <1>7, <1>8

LEMMA PipeKeepsStdout ==
  ASSUME TypeOK, Work, NEW n \in Nat, StdoutFlow(n),
         OutputCopierEnds("stdout") \/ WaitDelayExpires \/ ProcessWrites("stdout")
  PROVE  StdoutFlow(n)'
<1> DEFINE q == queue["stdout"]
<1>1. q \in Seq(Nat) /\ made["stdout"] \in Nat
  BY DEF TypeOK, PipeTypeOK, ProcTypeOK, Streams
<1>2. UNCHANGED <<wire, peer, worker, held, closed>> /\ InHand("stdout")' = InHand("stdout")
      /\ InHand("stdout") \in Nat
  BY DEF OutputCopierEnds, WaitDelayExpires, ProcessWrites, workVars, netVars, InHand
<1>3. CASE OutputCopierEnds("stdout") /\ q = <<>>
  BY <1>2, <1>3 DEF OutputCopierEnds, StdoutFlow, Last, Listening, procVars
<1>4. CASE OutputCopierEnds("stdout") /\ q # <<>>
  <2>1. /\ queue'["stdout"] = <<>> /\ "stdout" \in closed' /\ copier'["stdout"] = "done"
        /\ made' = made
    BY <1>2, <1>4 DEF OutputCopierEnds, procVars, TypeOK, PipeTypeOK, Streams
  <2>2. Last(n)' <= Last(n)
    BY <1>1, <1>2, <2>1 DEF Last
  <2>3. Last(n) \in Nat /\ Last(n)' \in Nat
    BY <1>1, <1>2, <2>1 DEF Last
  <2> QED
    BY <1>1, <1>2, <2>1, <2>2, <2>3 DEF StdoutFlow, Listening
<1>5. CASE WaitDelayExpires
  <2>1. /\ queue'["stdout"] = IF q = <<>> THEN q ELSE <<Head(q)>>
        /\ expired' /\ made' = made
    BY <1>5 DEF WaitDelayExpires, procVars, Streams
  <2>2. /\ Len(queue'["stdout"]) <= Len(q) /\ Len(queue'["stdout"]) \in Nat
        /\ \A j \in 1..Len(queue'["stdout"]) : queue'["stdout"][j] = q[j] /\ j \in 1..Len(q)
    BY <1>1, <2>1
  <2>3. Last(n)' <= Last(n) /\ Last(n) \in Nat /\ Last(n)' \in Nat
    BY <1>1, <1>2, <2>2 DEF Last
  <2> HIDE DEF q
  <2>4. CASE worker["stdout"] # "done" /\ Listening
    BY <1>1, <1>2, <2>1, <2>2, <2>3, <2>4 DEF StdoutFlow, Listening, q
  <2>5. CASE ~(worker["stdout"] # "done" /\ Listening)
    BY <1>2, <2>1, <2>5 DEF StdoutFlow, Listening
  <2> QED
    BY <2>4, <2>5
<1>6. CASE ProcessWrites("stdout")
  <2>1. /\ queue'["stdout"] = Append(q, made["stdout"] + 1)
        /\ made'["stdout"] = made["stdout"] + 1
        /\ UNCHANGED <<expired, copier>> /\ ~expired /\ copier["stdout"] # "done"
    BY <1>6 DEF ProcessWrites, TypeOK, ProcTypeOK, PipeTypeOK, Work, Dead, Streams
  <2>2. CASE worker["stdout"] # "done" /\ Listening
    <3>1. Last(n) = made["stdout"]
      BY <2>1, <2>2 DEF StdoutFlow
    <3>2. Last(n)' = made'["stdout"]
      BY <1>1, <1>2, <2>1, <3>1 DEF Last
    <3>3. \A j \in 1..Len(queue'["stdout"]) : queue'["stdout"][j] = n + InHand("stdout") + j
      <4>1. \A j \in 1..Len(q) : q[j] = n + InHand("stdout") + j
        BY <2>2 DEF StdoutFlow
      <4>2. made["stdout"] + 1 = n + InHand("stdout") + (Len(q) + 1)
        BY <1>1, <1>2, <3>1 DEF Last
      <4> HIDE DEF q
      <4> QED
        BY <1>1, <2>1, <4>1, <4>2
    <3> QED
      BY <1>1, <1>2, <2>1, <2>2, <3>2, <3>3 DEF StdoutFlow, Listening
  <2>3. CASE ~(worker["stdout"] # "done" /\ Listening)
    BY <1>1, <1>2, <2>1, <2>3 DEF StdoutFlow, Listening
  <2> QED
    BY <2>2, <2>3
<1> QED
  BY <1>3, <1>4, <1>5, <1>6

(* Every other step leaves the stdout of the session alone.                *)
LEMMA OthersKeepStdout ==
  ASSUME IInv, IInv', WInv, Work, NEW n \in Nat, StdoutFlow(n), [Next]_vars,
         ~ReadOutput("stdout"), ~SendStdout, ~OutputCopierEnds("stdout"),
         ~WaitDelayExpires, ~ProcessWrites("stdout")
  PROVE  StdoutFlow(n)'
<1>0. TypeOK
  BY DEF IInv
<1>1. /\ made["stdout"] \in Nat /\ wire \in Seq(Frames) /\ Carry(wire, "bin", 0, n)
  BY <1>0 DEF TypeOK, ProcTypeOK, NetTypeOK, Streams, StdoutFlow
<1>2. CASE Main
  <2>1. Carry(wire', "bin", 0, n)
    BY <1>0, <1>1, <1>2, MainSends, CarryAppend
  <2>2. UNCHANGED <<made, held, queue, expired, closed, peer>>
    BY <1>2 DEF Main, StartProcess, SendStartErr, SendStartOk, ReceiverFirst, ReceiverFirstNil,
         SenderFirst, JoinReceiver, JoinStdout, JoinStderr, Join, WaitReturns,
         SendExitMessage, CloseWebsocket, Return, procVars, pipeVars, workVars, netVars
  <2>3. worker["stdout"] = "done" => worker'["stdout"] = "done"
    BY <1>2 DEF Main, StartProcess, SendStartErr, SendStartOk, ReceiverFirst, ReceiverFirstNil,
         SenderFirst, JoinReceiver, JoinStdout, JoinStderr, Join, WaitReturns,
         SendExitMessage, CloseWebsocket, Return, workVars, IInv, Joined, Streams
  <2>4. copier["stdout"] = "done" => copier'["stdout"] = "done"
    BY <1>2 DEF Main, StartProcess, SendStartErr, SendStartOk, ReceiverFirst, ReceiverFirstNil,
         SenderFirst, JoinReceiver, JoinStdout, JoinStderr, Join, WaitReturns,
         SendExitMessage, CloseWebsocket, Return, pipeVars, WInv, Started, Work, Streams
  <2> QED
    BY <2>1, <2>2, <2>3, <2>4, StdoutSame DEF Listening
<1>3. CASE SenderStderr
  <2>1. Carry(wire', "bin", 0, n)
    <3>1. held["stderr"] \in Nat
      BY <1>0 DEF TypeOK, WorkTypeOK, Streams
    <3>2. Stderr(held["stderr"]) \in Frames /\ Stderr(held["stderr"]).kind = "process_stderr"
      BY <3>1, FrameTypes DEF Stderr, Frame
    <3>3. wire' = wire \/ wire' = Append(wire, Stderr(held["stderr"]))
      BY <1>3, WriteEffect DEF SenderStderr, ReadOutput, ReadClosed, SendStderr, netVars
    <3> QED
      BY <1>1, <3>2, <3>3, CarryAppend
  <2>2. /\ UNCHANGED <<made, expired, copier, peer>> /\ queue'["stdout"] = queue["stdout"]
        /\ held'["stdout"] = held["stdout"] /\ worker'["stdout"] = worker["stdout"]
        /\ "stdout" \in closed => "stdout" \in closed'
    BY <1>0, <1>3 DEF SenderStderr, ReadOutput, ReadClosed, SendStderr, Turn, Finish, procVars,
         pipeVars, workVars, netVars, TypeOK, WorkTypeOK, PipeTypeOK, Streams, OutStreams
  <2> QED
    BY <2>1, <2>2, StdoutSame DEF Listening
<1>4. CASE SenderStdout \/ Receiver \/ Helpers \/ Exec \/ Environment \/ UNCHANGED vars
  <2>1. SenderStdout => ReadClosed("stdout")
    BY DEF SenderStdout
  <2>2. Quiet
    BY <1>0, <1>4, <2>1, QuietSteps DEF OutStreams
  <2>3. Carry(wire', "bin", 0, n) /\ (Listening' => Listening)
    BY <1>1, <2>2 DEF Quiet
  <2>4. CASE SenderStdout
    <3>1. worker'["stdout"] = "done" /\ made' = made
      BY <1>0, <2>1, <2>4 DEF ReadClosed, Finish, TypeOK, WorkTypeOK, procVars, Streams
    <3> QED
      BY <2>3, <3>1, StdoutSame
  <2>5. CASE Receiver
    <3>1. /\ UNCHANGED <<made, expired>> /\ queue'["stdout"] = queue["stdout"]
          /\ held'["stdout"] = held["stdout"] /\ worker'["stdout"] = worker["stdout"]
          /\ "stdout" \in closed => "stdout" \in closed'
          /\ copier'["stdout"] = copier["stdout"]
      BY <1>0, <2>5 DEF Receiver, ReceiveFrame, ReceiveFails, WriteStdin, Turn, Finish, procVars,
         pipeVars, workVars, TypeOK, WorkTypeOK, PipeTypeOK, Streams
    <3> QED
      BY <2>3, <3>1, StdoutSame
  <2>6. CASE Helpers \/ Exec \/ Environment \/ UNCHANGED vars
    <3>1. /\ UNCHANGED <<held, worker>> /\ (expired' = expired \/ expired' = TRUE)
          /\ "stdout" \in closed => "stdout" \in closed'
      BY <2>6
         DEF Helpers, CloseReadEnd, Exec, Copiers, StdinCopierEnds, OutputCopierEnds, WatchKills,
             WaitDelayExpires, Environment, ProcessReads, ProcessWrites, ProcessExits,
             PeerSendsBinary, PeerSendsOther, PeerSends, PeerVanishes, Signal, vars,
             pipeVars, workVars
    <3>4. made'["stdout"] = made["stdout"]
      BY <1>0, <2>6
         DEF Helpers, CloseReadEnd, Exec, Copiers, StdinCopierEnds, OutputCopierEnds, WatchKills,
             WaitDelayExpires, Environment, ProcessReads, ProcessWrites, ProcessExits,
             PeerSendsBinary, PeerSendsOther, PeerSends, PeerVanishes, Signal, vars,
             procVars, TypeOK, ProcTypeOK, Streams, OutStreams
    <3>2. queue'["stdout"] = queue["stdout"]
      BY <1>0, <2>6
         DEF Helpers, CloseReadEnd, Exec, Copiers, StdinCopierEnds, OutputCopierEnds, WatchKills,
             WaitDelayExpires, Environment, ProcessReads, ProcessWrites, ProcessExits,
             PeerSendsBinary, PeerSendsOther, PeerSends, PeerVanishes, Signal, vars,
             pipeVars, TypeOK, PipeTypeOK, Streams, OutStreams
    <3>3. copier["stdout"] = "done" => copier'["stdout"] = "done"
      BY <2>2 DEF Quiet, Progress, Streams
    <3> QED
      BY <2>3, <3>1, <3>2, <3>3, <3>4, StdoutSame
  <2> QED
    BY <1>4, <2>4, <2>5, <2>6
<1> QED
  BY <1>2, <1>3, <1>4 DEF Next

LEMMA StdoutKeeps ==
  ASSUME IInv, IInv', WInv, Work, StdoutInv, [Next]_vars
  PROVE  StdoutInv'
<1>1. PICK n \in 0..made["stdout"] : StdoutFlow(n)
  BY DEF StdoutInv
<1>2. TypeOK /\ n \in Nat /\ made["stdout"] \in Nat /\ made'["stdout"] \in Nat
  BY <1>1 DEF IInv, TypeOK, ProcTypeOK, Streams
<1>3. \A m \in Nat : StdoutFlow(m)' => m \in 0..made'["stdout"]
  BY <1>2 DEF StdoutFlow
<1>4. \E m \in Nat : StdoutFlow(m)'
  <2>1. CASE ReadOutput("stdout")
    BY <1>1, <1>2, <2>1, ReadKeepsStdout
  <2>2. CASE SendStdout
    BY <1>1, <1>2, <2>2, SendKeepsStdout
  <2>3. CASE OutputCopierEnds("stdout") \/ WaitDelayExpires \/ ProcessWrites("stdout")
    BY <1>1, <1>2, <2>3, PipeKeepsStdout
  <2> QED
    BY <1>1, <1>2, <2>1, <2>2, <2>3, OthersKeepStdout
<1> QED
  BY <1>3, <1>4 DEF StdoutInv

-----------------------------------------------------------------------------
(* Stderr.                                                                 *)

(* The lines sent before, the one in hand and those in the pipe, after     *)
(* what was in the pipe has been cut short or the hand emptied.            *)
LEMMA StderrLess ==
  ASSUME StderrInv, NEW q, q = queue["stderr"], q \in Seq(Nat),
         NEW r, r = queue'["stderr"], Len(r) \in Nat,
         Len(r) <= Len(q), \A j \in 1..Len(r) : r[j] = q[j],
         made["stderr"] \in Nat, made'["stderr"] = made["stderr"],
         held'["stderr"] \in {0, held["stderr"]}, wire' = wire
  PROVE  StderrInv'
<1>1. \A j \in 1..Len(r) : j \in 1..Len(q)
  OBVIOUS
<1> QED
  BY <1>1 DEF StderrInv, OfKind

(* A frame that is no line of stderr.                                      *)
LEMMA StderrSame ==
  ASSUME StderrInv, queue'["stderr"] = queue["stderr"],
         made'["stderr"] = made["stderr"], made["stderr"] \in Nat,
         held'["stderr"] \in {0, held["stderr"]},
         wire \in Seq(Frames),
         \/ wire' = wire
         \/ \E f \in Frames : f.kind # "process_stderr" /\ wire' = Append(wire, f)
  PROVE  StderrInv'
<1>1. OfKind(wire', "process_stderr") = OfKind(wire, "process_stderr")
  BY DEF OfKind
<1>2. \A i \in OfKind(wire, "process_stderr") : wire'[i] = wire[i]
  BY DEF OfKind
<1> QED
  BY <1>1, <1>2 DEF StderrInv

LEMMA SenderKeepsStderr ==
  ASSUME TypeOK, Work, StderrInv, SenderStderr
  PROVE  StderrInv'
<1> DEFINE q == queue["stderr"]  h == held["stderr"]
<1>1. q \in Seq(Nat) /\ made["stderr"] \in Nat /\ h \in Nat /\ wire \in Seq(Frames)
      /\ made' = made
  BY DEF TypeOK, PipeTypeOK, ProcTypeOK, WorkTypeOK, NetTypeOK, Streams, SenderStderr,
         ReadOutput, ReadClosed, SendStderr, procVars
<1>2. CASE ReadOutput("stderr")
  <2>1. /\ q # <<>> /\ queue'["stderr"] = Tail(q) /\ held'["stderr"] = Head(q)
        /\ wire' = wire
    BY <1>2 DEF ReadOutput, Turn, TypeOK, PipeTypeOK, WorkTypeOK, Streams, netVars
  <2>2. /\ Head(q) = q[1] /\ Len(Tail(q)) = Len(q) - 1 /\ 1 \in 1..Len(q)
        /\ \A j \in 1..Len(Tail(q)) :
             Tail(q)[j] = q[j + 1] /\ j + 1 \in 1..Len(q) /\ 1 < j + 1
        /\ \A j, k \in 1..Len(Tail(q)) : j < k => j + 1 < k + 1
    BY <1>1, <2>1
  <2> HIDE DEF q
  <2> QED
    BY <1>1, <2>1, <2>2 DEF StderrInv, q
<1>3. CASE ReadClosed("stderr")
  <2>1. queue' = queue /\ wire' = wire /\ held'["stderr"] = 0
    BY <1>3 DEF ReadClosed, Finish, TypeOK, WorkTypeOK, Streams, pipeVars, netVars
  <2> QED
    BY <1>1, <2>1, StderrSame
<1>4. CASE SendStderr
  <2>1. /\ queue' = queue /\ held'["stderr"] = 0 /\ h # 0
        /\ wire' = wire \/ wire' = Append(wire, Stderr(h))
    BY <1>4, WriteEffect
       DEF SendStderr, Turn, TypeOK, WorkTypeOK, Work, Streams, pipeVars
  <2>2. Stderr(h) \in Frames /\ Stderr(h).n = h /\ Stderr(h).kind = "process_stderr"
    <3>1. Stderr(h) \in Frames
      BY <1>1, FrameTypes
    <3> QED
      BY <3>1 DEF Stderr, Frame
  <2>3. CASE wire' = wire
    BY <1>1, <2>1, <2>3, StderrSame
  <2>4. CASE wire' = Append(wire, Stderr(h))
    <3> DEFINE f == Stderr(h)
    <3> HIDE DEF f
    <3>1. Longer(f)
      BY <1>1, <2>2, <2>4, AppendLonger DEF f
    <3>2. ASSUME NEW i \in OfKind(wire', "process_stderr")
          PROVE  wire'[i].n <= made["stderr"] /\ \A j \in 1..Len(q) : wire'[i].n < q[j]
      <4>1. CASE i = Len(wire) + 1
        <5>1. wire'[i].n = h
          BY <2>2, <3>1, <4>1 DEF Longer, f
        <5> QED
          BY <2>1, <5>1 DEF StderrInv
      <4>2. CASE i # Len(wire) + 1
        <5>1. i \in OfKind(wire, "process_stderr") /\ wire'[i] = wire[i]
          BY <3>1, <4>2 DEF Longer, OfKind
        <5> QED
          BY <5>1 DEF StderrInv
      <4> QED
        BY <4>1, <4>2
    <3> QED
      BY <1>1, <2>1, <3>2 DEF StderrInv
  <2> QED
    BY <2>1, <2>3, <2>4
<1> QED
  BY <1>2, <1>3, <1>4 DEF SenderStderr

LEMMA PipeKeepsStderr ==
  ASSUME TypeOK, StderrInv,
         OutputCopierEnds("stderr") \/ WaitDelayExpires \/ ProcessWrites("stderr")
  PROVE  StderrInv'
<1> DEFINE q == queue["stderr"]  r == queue'["stderr"]
<1>1. q \in Seq(Nat) /\ made["stderr"] \in Nat
  BY DEF TypeOK, PipeTypeOK, ProcTypeOK, Streams
<1>2. wire' = wire /\ held' = held
  BY DEF OutputCopierEnds, WaitDelayExpires, ProcessWrites, workVars, netVars
<1>3. CASE OutputCopierEnds("stderr") \/ WaitDelayExpires
  <2>1. r = q \/ r = <<>> \/ (q # <<>> /\ r = <<Head(q)>>)
    BY <1>3 DEF OutputCopierEnds, WaitDelayExpires, TypeOK, PipeTypeOK, Streams
  <2>2. Len(r) \in Nat /\ Len(r) <= Len(q) /\ \A j \in 1..Len(r) : r[j] = q[j]
    BY <1>1, <2>1
  <2>3. made' = made
    BY <1>3 DEF OutputCopierEnds, WaitDelayExpires, procVars
  <2> QED
    BY <1>1, <1>2, <2>2, <2>3, StderrLess
<1>4. CASE ProcessWrites("stderr")
  <2>1. r = Append(q, made["stderr"] + 1) /\ made'["stderr"] = made["stderr"] + 1
    BY <1>4 DEF ProcessWrites, TypeOK, ProcTypeOK, PipeTypeOK, Streams
  <2>2. /\ Len(r) = Len(q) + 1 /\ r[Len(q) + 1] = made["stderr"] + 1 /\ Len(q) \in Nat
        /\ \A j \in 1..Len(q) : r[j] = q[j]
    BY <1>1, <2>1
  <2> HIDE DEF q, r
  <2>3. ASSUME NEW j \in 1..Len(r) PROVE j \in 1..Len(q) \/ j = Len(q) + 1
    BY <2>2
  <2>4. held["stderr"] \in Nat /\ \A i \in OfKind(wire, "process_stderr") : wire[i].n \in Nat
    <3>1. wire \in Seq(Frames)
      BY DEF TypeOK, NetTypeOK
    <3>2. \A f \in Frames : f.n \in Nat
      BY DEF Frames
    <3> QED
      BY <3>1, <3>2 DEF TypeOK, WorkTypeOK, Streams, OfKind
  <2>5. \A j \in 1..Len(r) : r[j] \in 1..made'["stderr"]
                             /\ (held["stderr"] # 0 => held["stderr"] < r[j])
    <3> SUFFICES ASSUME NEW j \in 1..Len(r)
                 PROVE  r[j] \in 1..made'["stderr"]
                        /\ (held["stderr"] # 0 => held["stderr"] < r[j])
      OBVIOUS
    <3>1. CASE j \in 1..Len(q)
      <4>1. r[j] = q[j]
        BY <2>2, <3>1
      <4>2. q[j] \in 1..made["stderr"] /\ (held["stderr"] # 0 => held["stderr"] < q[j])
        BY <3>1 DEF StderrInv, q
      <4> QED
        BY <1>1, <2>1, <2>4, <4>1, <4>2
    <3>2. CASE j = Len(q) + 1
      <4>1. r[j] = made["stderr"] + 1 /\ held["stderr"] <= made["stderr"]
        BY <2>2, <3>2 DEF StderrInv
      <4> QED
        BY <1>1, <2>1, <2>4, <4>1
    <3> QED
      BY <2>3, <3>1, <3>2
  <2>6. ASSUME NEW j \in 1..Len(r), NEW k \in 1..Len(r), j < k PROVE r[j] < r[k]
    <3>1. j \in 1..Len(q) /\ r[j] = q[j] /\ q[j] \in 1..made["stderr"]
      BY <2>2, <2>3, <2>6 DEF StderrInv, q
    <3>2. CASE k \in 1..Len(q)
      BY <2>2, <2>6, <3>1, <3>2 DEF StderrInv, q
    <3>3. CASE k = Len(q) + 1
      BY <1>1, <2>2, <3>1, <3>3
    <3> QED
      BY <2>3, <3>2, <3>3
  <2>7. ASSUME NEW i \in OfKind(wire, "process_stderr")
        PROVE  wire[i].n <= made'["stderr"] /\ \A j \in 1..Len(r) : wire[i].n < r[j]
    <3>1. wire[i].n \in Nat /\ wire[i].n <= made["stderr"]
      BY <2>4 DEF StderrInv
    <3>2. ASSUME NEW j \in 1..Len(q) PROVE wire[i].n < r[j]
      BY <2>2 DEF StderrInv, q
    <3> QED
      BY <1>1, <2>1, <2>2, <2>3, <3>1, <3>2
  <2>8. held["stderr"] <= made'["stderr"]
    BY <1>1, <2>1, <2>4 DEF StderrInv
  <2>9. \A i \in OfKind(wire, "process_stderr") :
          held["stderr"] # 0 => wire[i].n < held["stderr"]
    BY DEF StderrInv
  <2> QED
    BY <1>2, <2>5, <2>6, <2>7, <2>8, <2>9 DEF StderrInv, r
<1> QED
  BY <1>3, <1>4

LEMMA StderrKeeps ==
  ASSUME IInv, Work, StderrInv, [Next]_vars
  PROVE  StderrInv'
<1>0. TypeOK
  BY DEF IInv
<1>1. made["stderr"] \in Nat /\ wire \in Seq(Frames)
  BY <1>0 DEF TypeOK, ProcTypeOK, NetTypeOK, Streams
<1>2. CASE SenderStderr
  BY <1>0, <1>2, SenderKeepsStderr
<1>3. CASE OutputCopierEnds("stderr") \/ WaitDelayExpires \/ ProcessWrites("stderr")
  BY <1>0, <1>3, PipeKeepsStderr
<1>4. CASE Main
  <2>1. UNCHANGED <<made, held, queue>>
    BY <1>4 DEF Main, StartProcess, SendStartErr, SendStartOk, ReceiverFirst, ReceiverFirstNil,
         SenderFirst, JoinReceiver, JoinStdout, JoinStderr, Join, WaitReturns,
         SendExitMessage, CloseWebsocket, Return, procVars, pipeVars, workVars
  <2> QED
    BY <1>0, <1>1, <1>4, <2>1, MainSends, StderrSame
<1>5. CASE SenderStdout \/ Receiver
  <2>1. /\ made' = made /\ queue'["stderr"] = queue["stderr"]
        /\ held'["stderr"] = held["stderr"]
    BY <1>0, <1>5 DEF Receiver, ReceiveFrame, ReceiveFails, WriteStdin, SenderStdout, ReadOutput,
         ReadClosed, SendStdout, Turn, Finish, procVars,
         pipeVars, workVars, TypeOK, WorkTypeOK, PipeTypeOK, Streams
  <2>2. CASE SendStdout
    <3>1. held["stdout"] \in Nat
      BY <1>0 DEF TypeOK, WorkTypeOK, Streams
    <3>2. Binary(held["stdout"]) \in Frames /\ Binary(held["stdout"]).kind = "bin"
      BY <3>1, FrameTypes DEF Binary, Frame
    <3>3. wire' = wire \/ wire' = Append(wire, Binary(held["stdout"]))
      BY <2>2, WriteEffect DEF SendStdout
    <3> QED
      BY <1>1, <2>1, <3>2, <3>3, StderrSame
  <2>3. CASE ~SendStdout
    <3>1. wire' = wire
      BY <1>5, <2>3 DEF Receiver, ReceiveFrame, ReceiveFails, WriteStdin, SenderStdout,
         ReadOutput, ReadClosed, netVars
    <3> QED
      BY <1>1, <2>1, <3>1, StderrSame
  <2> QED
    BY <2>2, <2>3
<1>6. CASE Helpers \/ Exec \/ Environment \/ UNCHANGED vars
  <2>1. Quiet
    BY <1>0, <1>6, QuietSteps
  <2>2. CASE ~OutputCopierEnds("stderr") /\ ~WaitDelayExpires /\ ~ProcessWrites("stderr")
    <3>1. held' = held
      BY <1>6
         DEF Helpers, CloseReadEnd, Exec, Copiers, StdinCopierEnds, OutputCopierEnds, WatchKills,
             WaitDelayExpires, Environment, ProcessReads, ProcessWrites, ProcessExits,
             PeerSendsBinary, PeerSendsOther, PeerSends, PeerVanishes, Signal, vars, workVars
    <3>2. queue'["stderr"] = queue["stderr"]
      BY <1>0, <1>6, <2>2
         DEF Helpers, CloseReadEnd, Exec, Copiers, StdinCopierEnds, OutputCopierEnds, WatchKills,
             WaitDelayExpires, Environment, ProcessReads, ProcessWrites, ProcessExits,
             PeerSendsBinary, PeerSendsOther, PeerSends, PeerVanishes, Signal, vars,
             pipeVars, TypeOK, PipeTypeOK, Streams, OutStreams
    <3>3. made'["stderr"] = made["stderr"]
      BY <1>0, <1>6, <2>2
         DEF Helpers, CloseReadEnd, Exec, Copiers, StdinCopierEnds, OutputCopierEnds, WatchKills,
             WaitDelayExpires, Environment, ProcessReads, ProcessWrites, ProcessExits,
             PeerSendsBinary, PeerSendsOther, PeerSends, PeerVanishes, Signal, vars,
             procVars, TypeOK, ProcTypeOK, Streams, OutStreams
    <3> QED
      BY <1>1, <2>1, <3>1, <3>2, <3>3, StderrSame DEF Quiet
  <2> QED
    BY <1>3, <2>2
<1> QED
  BY <1>2, <1>4, <1>5, <1>6 DEF Next

-----------------------------------------------------------------------------
(* Stdin.                                                                  *)

(* A chunk that moves on from the hand to the pipe, from the pipe to the   *)
(* process, or arrives from the connection.                                *)
LEMMA ChunkMoves ==
  ASSUME NEW g \in Seq(Nat), NEW q \in Seq(Nat), NEW h \in Nat
  PROVE  /\ g \o q \o <<>> = g \o q
         /\ g \o Append(q, h) \o <<>> = g \o q \o <<h>>
         /\ g \o q \o <<h>> = Append(g \o q, h)
         /\ q # <<>> => Append(g, Head(q)) \o Tail(q) = g \o q
<1>1. g \o q \in Seq(Nat) /\ <<h>> \in Seq(Nat)
  OBVIOUS
<1>2. g \o q \o <<>> = g \o q
  BY <1>1, ConcatEmptySeq
<1>3. g \o q \o <<h>> = Append(g \o q, h)
  BY <1>1, AppendIsConcat
<1>4. g \o Append(q, h) \o <<>> = g \o q \o <<h>>
  <2>1. Append(q, h) = q \o <<h>> /\ Append(q, h) \in Seq(Nat)
    BY AppendIsConcat
  <2>2. g \o (q \o <<h>>) = g \o q \o <<h>>
    BY <1>1, ConcatAssociative
  <2>3. g \o Append(q, h) \in Seq(Nat)
    BY <2>1
  <2>4. g \o Append(q, h) \o <<>> = g \o Append(q, h)
    BY <2>3, ConcatEmptySeq
  <2> QED
    BY <2>1, <2>2, <2>4
<1>5. ASSUME q # <<>> PROVE Append(g, Head(q)) \o Tail(q) = g \o q
  <2>1. /\ Head(q) \in Nat /\ Tail(q) \in Seq(Nat) /\ <<Head(q)>> \in Seq(Nat)
        /\ <<Head(q)>> \o Tail(q) = q
    BY <1>5
  <2>2. Append(g, Head(q)) = g \o <<Head(q)>>
    BY <2>1, AppendIsConcat
  <2>3. (g \o <<Head(q)>>) \o Tail(q) = g \o (<<Head(q)>> \o Tail(q))
    BY <2>1, ConcatAssociative
  <2> QED
    BY <2>1, <2>2, <2>3
<1> QED
  BY <1>2, <1>3, <1>4, <1>5

Starting == main \in {"starting", "startErr", "startOk"}
Live     == proc = "running" /\ copier["stdin"] = "running" /\ Serving("stdin")
Received == got \o queue["stdin"] \o Holding("stdin")
Counts(r) == r = [i \in 1..Len(r) |-> i]

LEMMA CountOn ==
  ASSUME NEW r \in Seq(Nat), Counts(r)
  PROVE  Counts(Append(r, Len(r) + 1))
BY DEF Counts

LEMMA StdinParts ==
  StdinInv <=> /\ Starting => /\ made["stdin"] = 0 /\ wsIn = <<>> /\ got = <<>>
                              /\ queue["stdin"] = <<>>
               /\ Live => /\ Counts(Received)
                          /\ Carry(wsIn, "bin", Len(Received), made["stdin"])
BY DEF StdinInv, StdinConservation, Starting, Live, Received, Counts

(* What leaves the chunks where they are keeps their order.                *)
LEMMA StdinSame ==
  ASSUME StdinInv, Starting' => Starting,
         got' = got, wsIn' = wsIn, made'["stdin"] = made["stdin"],
         queue'["stdin"] = queue["stdin"],
         Live' => Live /\ held'["stdin"] = held["stdin"]
  PROVE  StdinInv'
<1>1. Live' => Received' = Received
  BY DEF Received, Holding
<1> QED
  BY <1>1, StdinParts DEF StdinInv, StdinConservation, Starting, Live, Received, Counts, Serving

(* A chunk moves inside the server or into the process.                    *)
LEMMA StdinMoves ==
  ASSUME TypeOK, Work, StdinInv, ~Starting', WriteStdin \/ ProcessReads
  PROVE  StdinInv'
<1> DEFINE q == queue["stdin"]  h == held["stdin"]
<1>1. /\ got \in Seq(Nat) /\ q \in Seq(Nat) /\ h \in Nat
      /\ HeldChunk("stdin")
  BY DEF TypeOK, ProcTypeOK, PipeTypeOK, WorkTypeOK, Streams, Work, HeldChunk
<1>2. UNCHANGED <<wsIn, made, proc>>
  BY DEF WriteStdin, ProcessReads, procVars, netVars
<1>3. CASE WriteStdin
  <2>1. h # 0 /\ got' = got /\ held'["stdin"] = 0 /\ Serving("stdin")
        /\ (copier'["stdin"] = "running" =>
               copier["stdin"] = "running" /\ queue'["stdin"] = Append(q, h))
    BY <1>1, <1>3 DEF WriteStdin, Turn, TypeOK, PipeTypeOK, WorkTypeOK, HeldChunk, Streams,
         procVars, Serving
  <2>2. ASSUME Live' PROVE Live /\ Received' = Received
    <3>1. Live /\ queue'["stdin"] = Append(q, h)
      BY <1>2, <2>1, <2>2 DEF Live
    <3>2. Holding("stdin") = <<h>> /\ Holding("stdin")' = <<>>
      BY <2>1 DEF Holding
    <3>3. got \o Append(q, h) \o <<>> = got \o q \o <<h>>
      BY <1>1, ChunkMoves
    <3> QED
      BY <2>1, <3>1, <3>2, <3>3 DEF Received
  <2> QED
    BY <1>2, <2>2 DEF StdinInv, StdinConservation, Starting, Live, Received
<1>4. CASE ProcessReads
  <2>1. /\ q # <<>> /\ got' = Append(got, Head(q)) /\ queue'["stdin"] = Tail(q)
        /\ UNCHANGED <<copier, worker, held>>
    BY <1>4 DEF ProcessReads, TypeOK, PipeTypeOK, Streams, workVars
  <2>2. Append(got, Head(q)) \o Tail(q) = got \o q
    BY <1>1, <2>1, ChunkMoves
  <2>3. (Live' <=> Live) /\ Received' = Received
    BY <1>2, <2>1, <2>2 DEF Live, Serving, Received, Holding
  <2> QED
    BY <1>2, <2>3 DEF StdinInv, StdinConservation, Starting, Live, Received
<1> QED
  BY <1>3, <1>4

(* A frame leaves the connection.                                          *)
LEMMA StdinReceives ==
  ASSUME TypeOK, Work, StdinInv, ~Starting', ReceiveFrame
  PROVE  StdinInv'
<1> DEFINE q == queue["stdin"]  f == Head(wsIn)
<1>1. /\ got \in Seq(Nat) /\ q \in Seq(Nat) /\ held["stdin"] = 0 /\ made["stdin"] \in Nat
      /\ wsIn \in Seq(Frames) /\ wsIn # <<>> /\ wsIn' = Tail(wsIn)
      /\ worker["stdin"] = "reading"
  BY DEF TypeOK, ProcTypeOK, PipeTypeOK, WorkTypeOK, NetTypeOK, Streams, Work, ReceiveFrame
<1>2. UNCHANGED <<got, made, proc, queue, copier>>
  BY DEF ReceiveFrame, procVars, pipeVars
<1>3. f \in Frames /\ f.n \in Nat
  <2>1. \A g \in Frames : g.n \in Nat
    BY DEF Frames
  <2> QED
    BY <1>1, <2>1
<1>4. SUFFICES ASSUME Live'
               PROVE  /\ Counts(Received')
                      /\ Carry(wsIn', "bin", Len(Received'), made["stdin"])
  BY <1>2 DEF StdinInv, StdinConservation, Starting, Live, Received, Counts
<1>5. Live /\ worker'["stdin"] # "done"
  BY <1>1, <1>2, <1>4 DEF Live, Serving
<1>6. Received = got \o q /\ got \o q \in Seq(Nat)
  BY <1>1, ChunkMoves DEF Received, Holding
<1>7. /\ Counts(got \o q) /\ Len(got \o q) \in Nat
      /\ Carry(wsIn, "bin", Len(got \o q), made["stdin"])
  BY <1>5, <1>6, StdinParts
<1>8. CASE f.kind = "bin"
  <2>1. Turn("stdin", "writing", f.n)
    BY <1>8 DEF ReceiveFrame, Undecodable
  <2>2. /\ f.n = Len(got \o q) + 1
        /\ Carry(Tail(wsIn), "bin", Len(got \o q) + 1, made["stdin"])
    BY <1>1, <1>7, <1>8, CarryTail
  <2>3. held'["stdin"] = f.n
    BY <2>1 DEF Turn, TypeOK, WorkTypeOK, Streams
  <2>4. f.n # 0 /\ Holding("stdin")' = <<f.n>>
    BY <1>7, <2>2, <2>3 DEF Holding
  <2>5. Received' = Append(got \o q, Len(got \o q) + 1)
    <3>1. got \o q \o <<f.n>> = Append(got \o q, f.n)
      BY <1>1, <1>3, ChunkMoves
    <3>2. Received' = got \o q \o <<f.n>>
      BY <1>2, <2>4 DEF Received
    <3> QED
      BY <2>2, <3>1, <3>2
  <2>6. Len(Received') = Len(got \o q) + 1
    BY <1>6, <2>5
  <2> QED
    BY <1>1, <1>6, <1>7, <2>2, <2>5, <2>6, CountOn
<1>9. CASE f.kind # "bin"
  <2>1. UNCHANGED workVars
    <3>1. \A r : Finish("stdin", r) => worker'["stdin"] = "done"
      BY DEF Finish, TypeOK, WorkTypeOK, Streams
    <3> QED
      BY <1>5, <1>9, <3>1 DEF ReceiveFrame
  <2>2. Carry(Tail(wsIn), "bin", Len(got \o q), made["stdin"])
    BY <1>1, <1>7, <1>9, CarryTail
  <2>3. Received' = Received
    BY <1>2, <2>1 DEF Received, Holding, workVars
  <2> QED
    BY <1>1, <1>6, <1>7, <2>2, <2>3
<1> QED
  BY <1>8, <1>9

(* The client sends a frame: a session has started.                        *)
LEMMA StdinSent ==
  ASSUME IInv, WInv, StdinInv, PeerSendsBinary \/ PeerSendsOther
  PROVE  StdinInv'
<1>1. ~Starting' /\ UNCHANGED <<got, queue, held, proc, copier, worker>>
  BY DEF Starting, PeerSendsBinary, PeerSendsOther, PeerSends, mainVars, pipeVars, workVars,
         WInv, Started
<1>2. wsIn \in Seq(Frames) /\ made["stdin"] \in Nat /\ Received \in Seq(Nat)
  <2>1. /\ got \in Seq(Nat) /\ queue["stdin"] \in Seq(Nat) /\ held["stdin"] \in Nat
        /\ wsIn \in Seq(Frames) /\ made["stdin"] \in Nat
    BY DEF IInv, TypeOK, ProcTypeOK, PipeTypeOK, WorkTypeOK, NetTypeOK, Streams
  <2>2. \A n \in Nat : <<n>> \in Seq(Nat)
    OBVIOUS
  <2>3. Holding("stdin") \in Seq(Nat)
    BY <2>1, <2>2 DEF Holding
  <2> QED
    BY <2>1, <2>3 DEF Received
<1>3. Received' = Received /\ (Live' <=> Live)
  BY <1>1 DEF Received, Holding, Live, Serving
<1>4. SUFFICES ASSUME Live
               PROVE  Carry(wsIn', "bin", Len(Received), made'["stdin"])
  BY <1>1, <1>3, StdinParts DEF StdinInv, StdinConservation, Starting, Live, Received, Counts
<1>5. Carry(wsIn, "bin", Len(Received), made["stdin"]) /\ Len(Received) \in Nat
  BY <1>2, <1>4, StdinParts
<1>6. CASE PeerSendsBinary
  <2> DEFINE n == made["stdin"] + 1
  <2>1. n \in Nat /\ wsIn' = Append(wsIn, Binary(n)) /\ made'["stdin"] = n
    BY <1>2, <1>6 DEF PeerSendsBinary, PeerSends, IInv, TypeOK, ProcTypeOK, Streams
  <2>2. Binary(n) \in Frames /\ Binary(n).kind = "bin" /\ Binary(n).n = n
    <3>1. Binary(n) \in Frames
      BY <2>1, FrameTypes
    <3> QED
      BY <3>1 DEF Binary, Frame
  <2> HIDE DEF n
  <2>3. n = made["stdin"] + 1
    BY DEF n
  <2> QED
    BY <1>2, <1>5, <2>1, <2>2, <2>3, CarryAppend
<1>7. CASE PeerSendsOther
  <2>1. PICK k \in PeerFrames : wsIn' = Append(wsIn, Frame(k, 0, "")) /\ made' = made
    BY <1>7 DEF PeerSendsOther, PeerSends
  <2>2. Frame(k, 0, "") \in Frames /\ Frame(k, 0, "").kind # "bin"
    BY FrameTypes, SessionAssumption DEF Frame
  <2> QED
    BY <1>2, <1>5, <2>1, <2>2, CarryAppend
<1> QED
  BY <1>6, <1>7

LEMMA StdinKeeps ==
  ASSUME IInv, WInv, Work, StdinInv, [Next]_vars
  PROVE  StdinInv'
<1>0. TypeOK
  BY DEF IInv
<1>1. CASE Main
  <2>1. /\ UNCHANGED <<got, wsIn, made, queue, held>> /\ (Starting' => Starting)
    BY <1>1 DEF Main, StartProcess, SendStartErr, SendStartOk, ReceiverFirst, ReceiverFirstNil,
         SenderFirst, JoinReceiver, JoinStdout, JoinStderr, Join, WaitReturns,
         SendExitMessage, CloseWebsocket, Return, procVars, pipeVars, workVars, netVars, Starting
  <2>2. CASE Starting
    <3>1. /\ made["stdin"] = 0 /\ wsIn = <<>> /\ got = <<>> /\ queue["stdin"] = <<>>
          /\ held["stdin"] = 0
      BY <2>2, StdinParts DEF Starting, IInv, Joined, Work, Streams
    <3>2. Received' = <<>>
      BY <2>1, <3>1 DEF Received, Holding
    <3>3. Counts(<<>>) /\ Carry(<<>>, "bin", 0, 0) /\ Len(<<>>) = 0
      BY DEF Counts, Carry, OfKind
    <3> QED
      BY <2>1, <3>1, <3>2, <3>3 DEF StdinInv, StdinConservation, Starting, Received, Counts
  <2>3. CASE ~Starting
    <3>1. Live' => Live
      BY <1>1, <2>3 DEF Main, StartProcess, SendStartErr, SendStartOk, ReceiverFirst,
         ReceiverFirstNil, SenderFirst, JoinReceiver, JoinStdout, JoinStderr, Join, WaitReturns,
         SendExitMessage, CloseWebsocket, Return, procVars, pipeVars, workVars, Starting,
         Live, Serving
    <3> QED
      BY <2>1, <3>1, StdinSame
  <2> QED
    BY <2>2, <2>3
<1>2. CASE ~Main
  <2>0. main' = main /\ (Starting' <=> Starting)
    <3>1. Progress
      BY <1>0, <1>2, ReceiverProgress, SenderProgress, OtherProgress DEF Next
    <3> QED
      BY <3>1 DEF Progress, Starting
  <2>1. CASE WriteStdin \/ ReceiveFrame
    <3>1. ~Starting'
      BY <2>0, <2>1 DEF Starting, IInv, Joined, WriteStdin, ReceiveFrame, Streams
    <3> QED
      BY <1>0, <2>1, <3>1, StdinMoves, StdinReceives
  <2>2. CASE ReceiveFails
    <3>1. ~Live' /\ ~Starting'
      BY <1>0, <2>0, <2>2 DEF ReceiveFails, Finish, Live, Serving, Starting, IInv, Joined,
         TypeOK, WorkTypeOK, Streams
    <3> QED
      BY <3>1 DEF StdinInv, StdinConservation, Live, Starting
  <2>3. CASE ProcessReads
    <3>1. ~Starting'
      BY <2>0, <2>3, StdinParts DEF ProcessReads
    <3> QED
      BY <1>0, <2>3, <3>1, StdinMoves
  <2>4. CASE PeerSendsBinary \/ PeerSendsOther
    BY <2>4, StdinSent
  <2>5. CASE SenderStdout \/ SenderStderr
    <3>1. UNCHANGED <<got, wsIn, made, proc, copier>> /\ queue'["stdin"] = queue["stdin"]
          /\ held'["stdin"] = held["stdin"] /\ worker'["stdin"] = worker["stdin"]
      BY <1>0, <2>5 DEF SenderStdout, SenderStderr, ReadOutput, ReadClosed, SendStdout, SendStderr,
         Turn, Finish, procVars, pipeVars, netVars, TypeOK, PipeTypeOK, WorkTypeOK, Streams
    <3> QED
      BY <2>0, <3>1, StdinSame DEF Live, Serving
  <2>6. CASE \/ Helpers \/ Exec \/ ProcessExits \/ PeerVanishes \/ Signal \/ UNCHANGED vars
             \/ \E s \in OutStreams : ProcessWrites(s)
    <3>1. UNCHANGED <<got, wsIn, worker, held>> /\ made'["stdin"] = made["stdin"]
          /\ (proc' = "running" => proc = "running")
      BY <1>0, <2>6 DEF Helpers, CloseReadEnd, Exec, Copiers, StdinCopierEnds, OutputCopierEnds,
         WatchKills, WaitDelayExpires, ProcessExits, PeerVanishes, Signal, vars, ProcessWrites,
         procVars, workVars, netVars, TypeOK, ProcTypeOK, Streams, OutStreams
    <3>2. queue'["stdin"] = queue["stdin"]
      BY <1>0, <2>6 DEF Helpers, CloseReadEnd, Exec, Copiers, StdinCopierEnds, OutputCopierEnds,
         WatchKills, WaitDelayExpires, ProcessExits, PeerVanishes, Signal, vars, ProcessWrites,
         pipeVars, TypeOK, PipeTypeOK, Streams, OutStreams
    <3>3. copier'["stdin"] = "running" => copier["stdin"] = "running"
      BY <1>0, <2>6 DEF Helpers, CloseReadEnd, Exec, Copiers, StdinCopierEnds, OutputCopierEnds,
         WatchKills, WaitDelayExpires, ProcessExits, PeerVanishes, Signal, vars, ProcessWrites,
         pipeVars, TypeOK, PipeTypeOK, Streams, OutStreams
    <3> QED
      BY <2>0, <3>1, <3>2, <3>3, StdinSame DEF Live, Serving
  <2> QED
    BY <1>2, <2>1, <2>2, <2>3, <2>4, <2>5, <2>6 DEF Next, Receiver, Environment
<1> QED
  BY <1>1, <1>2

-----------------------------------------------------------------------------
LEMMA WireKeeps ==
  ASSUME IInv, WInv, [Next]_vars
  PROVE  WInv'
<1>0. TypeOK
  BY DEF IInv
<1>1. CASE Main
  BY <1>1, MainKeepsWire
<1>2. ASSUME NEW s \in OutStreams, NEW f \in Frames, worker[s] = "writing",
             f.kind \in {"bin", "process_stderr"}, NEW ok \in BOOLEAN, WsWrite(s, f, ok),
             UNCHANGED <<proc, peer>>, SenderStdout \/ SenderStderr
      PROVE  WInv'
  <2>1. wire' = wire \/ (Listening /\ wire' = Append(wire, f))
    BY <1>2, WriteEffect
  <2>2. Progress
    BY <1>0, <1>2, SenderProgress
  <2> QED
    BY <1>2, <2>1, <2>2, SendKeepsWire
<1>3. CASE SendStdout
  <2>1. held["stdout"] \in Nat
    BY <1>0 DEF TypeOK, WorkTypeOK, Streams
  <2>2. Binary(held["stdout"]) \in Frames /\ Binary(held["stdout"]).kind = "bin"
    BY <2>1, FrameTypes DEF Binary, Frame
  <2> QED
    BY <1>2, <1>3, <2>2 DEF SendStdout, procVars, SenderStdout, OutStreams
<1>4. CASE SendStderr
  <2>1. held["stderr"] \in Nat
    BY <1>0 DEF TypeOK, WorkTypeOK, Streams
  <2>2. Stderr(held["stderr"]) \in Frames /\ Stderr(held["stderr"]).kind = "process_stderr"
    BY <2>1, FrameTypes DEF Stderr, Frame
  <2> QED
    BY <1>2, <1>4, <2>2 DEF SendStderr, procVars, SenderStderr, OutStreams
<1>5. CASE ~Main /\ ~SendStdout /\ ~SendStderr
  <2>1. Quiet
    BY <1>0, <1>5, QuietSteps DEF Next, SenderStdout, SenderStderr, OutStreams
  <2> QED
    BY <1>0, <2>1, QuietKeepsWire
<1> QED
  BY <1>1, <1>3, <1>4, <1>5

LEMMA WorkKeeps ==
  ASSUME IInv, WInv, Work, [Next]_vars
  PROVE  Work'
<1>1. TypeOK
  BY DEF IInv
<1> QED
  BY <1>1, MainKeepsWork, ReceiverKeepsWork, SenderKeepsWork, ExecKeepsWork,
     EnvironmentKeepsWork DEF Next

LEMMA PlainKeeps ==
  ASSUME TypeOK, Plain, [Next]_vars
  PROVE  Plain'
<1>0. wire \in Seq(Frames) /\ held["stdout"] \in Nat /\ held["stderr"] \in Nat
  BY DEF TypeOK, NetTypeOK, WorkTypeOK, Streams
<1>1. ASSUME NEW f \in Frames, f.kind = "bin" => f = Binary(f.n), wire' = Append(wire, f)
      PROVE  Plain'
  <2>1. Longer(f)
    BY <1>0, <1>1, AppendLonger
  <2> QED
    BY <1>1, <2>1 DEF Plain, Longer
<1>2. CASE wire' = wire
  BY <1>2 DEF Plain
<1>3. CASE Main
  BY <1>1, <1>2, <1>3, MainSends
<1>4. CASE SendStdout
  <2>1. /\ Binary(held["stdout"]) \in Frames
        /\ Binary(held["stdout"]) = Binary(Binary(held["stdout"]).n)
    BY <1>0, FrameTypes DEF Binary, Frame
  <2>2. wire' = wire \/ wire' = Append(wire, Binary(held["stdout"]))
    BY <1>4, WriteEffect DEF SendStdout
  <2> QED
    BY <1>1, <1>2, <2>1, <2>2
<1>5. CASE SendStderr
  <2>1. Stderr(held["stderr"]) \in Frames /\ Stderr(held["stderr"]).kind # "bin"
    BY <1>0, FrameTypes DEF Stderr, Frame
  <2>2. wire' = wire \/ wire' = Append(wire, Stderr(held["stderr"]))
    BY <1>5, WriteEffect DEF SendStderr
  <2> QED
    BY <1>1, <1>2, <2>1, <2>2
<1>6. CASE ~Main /\ ~SendStdout /\ ~SendStderr
  <2>1. Quiet
    BY <1>6, QuietSteps DEF Next, SenderStdout, SenderStderr, OutStreams
  <2> QED
    BY <1>2, <2>1 DEF Quiet
<1> QED
  BY <1>3, <1>4, <1>5, <1>6

LEMMA AllKeeps == IInv /\ AllInv /\ [Next]_vars => IInv' /\ AllInv'
<1> SUFFICES ASSUME IInv, AllInv, [Next]_vars PROVE IInv' /\ AllInv'
  OBVIOUS
<1>1. IInv'
  BY NextKeeps
<1>2. WInv' /\ Work'
  BY WireKeeps, WorkKeeps DEF AllInv
<1>3. StdoutInv'
  BY <1>1, StdoutKeeps DEF AllInv
<1>4. StderrInv' /\ StdinInv'
  BY StderrKeeps, StdinKeeps DEF AllInv
<1>5. Plain'
  BY PlainKeeps DEF AllInv, IInv
<1> QED
  BY <1>1, <1>2, <1>3, <1>4, <1>5 DEF AllInv

LEMMA AllInvariance == Spec => [](IInv /\ AllInv)
<1>1. Init => IInv /\ AllInv
  BY InitInv, InitAll
<1> QED
  BY <1>1, AllKeeps, PTL DEF Spec

-----------------------------------------------------------------------------
(* What the client's reader relies on: start_ok or start_err first and     *)
(* once, nothing but the closure after the last word about the process,    *)
(* and nothing after the closure.                                          *)
THEOREM WireIsOrdered == Spec => []WireOrder
<1>1. AllInv => WireOrder
  BY DEF AllInv, WInv
<1> QED
  BY <1>1, AllInvariance, PTL

(* The client reports the exit code of the process that ran, or that it    *)
(* was killed, only if that is what happened.                              *)
THEOREM ExitReportIsTrue == Spec => []ExitReportTruthful
<1>1. IInv /\ AllInv => ExitReportTruthful
  <2> SUFFICES ASSUME IInv, AllInv, NEW i \in 1..Len(wire), wire[i].kind = "server_exited"
               PROVE  CASE wire[i].tag = "codeN"  -> proc = "exitN"
                        [] wire[i].tag = "killed" -> proc = "killed"
                        [] OTHER                  -> proc = "exit0"
    BY DEF ExitReportTruthful
  <2>1. Truth /\ waitRes # "none" /\ wire[i].tag = ExitReport
    BY DEF AllInv, WInv, Truth
  <2>2. waitRes \in {"none", "nil", "code", "killed", "other"}
    BY DEF IInv, TypeOK, MainTypeOK
  <2> QED
    BY <2>1, <2>2 DEF Truth, ExitReport
<1> QED
  BY <1>1, AllInvariance, PTL

(* Whatever is cancelled, broken or killed, the client has a prefix of the *)
(* stdout of the process.                                                  *)
THEOREM StdoutIsPrefix == Spec => []StdoutPrefix
<1>1. AllInv => StdoutPrefix
  BY DEF AllInv, StdoutInv, StdoutFlow, StdoutPrefix
<1> QED
  BY <1>1, AllInvariance, PTL

(* While the sender serves a client that listens, nothing of the process's *)
(* stdout is lost.                                                         *)
THEOREM StdoutIsConserved == Spec => []StdoutConservation
<1>1. IInv /\ AllInv => StdoutConservation
  <2> SUFFICES ASSUME IInv, AllInv, Serving("stdout"), Listening, "stdout" \notin closed,
                      ~expired
               PROVE  StdoutConservation
    BY DEF StdoutConservation
  <2> DEFINE q == queue["stdout"]  h == held["stdout"]
             inside == Holding("stdout") \o q
  <2>1. PICK n \in Nat : StdoutFlow(n)
    BY DEF AllInv, StdoutInv
  <2>2. /\ q \in Seq(Nat) /\ h \in Nat /\ made["stdout"] \in Nat /\ Len(q) \in Nat
    BY DEF IInv, TypeOK, PipeTypeOK, WorkTypeOK, ProcTypeOK, Streams
  <2>3. /\ Carry(wire, "bin", 0, n) /\ Last(n) = made["stdout"]
        /\ h # 0 => h = n + 1
        /\ \A j \in 1..Len(q) : q[j] = n + InHand("stdout") + j
    BY <2>1 DEF StdoutFlow, Serving
  <2> HIDE DEF q, h
  <2>4. /\ Len(inside) = InHand("stdout") + Len(q) /\ inside \in Seq(Nat)
        /\ \A j \in 1..Len(inside) : inside[j] = n + j
    <3>1. CASE h = 0
      <4>1. inside = q /\ InHand("stdout") = 0
        BY <2>2, <3>1, ConcatEmptySeq DEF Holding, InHand, h
      <4>2. \A j \in 1..Len(q) : q[j] = n + j
        BY <2>2, <2>3, <4>1
      <4> HIDE DEF inside
      <4> QED
        BY <2>2, <4>1, <4>2
    <3>2. CASE h # 0
      <4>1. inside = <<h>> \o q /\ InHand("stdout") = 1
        BY <3>2 DEF Holding, InHand, h
      <4>2. <<h>> \in Seq(Nat) /\ Len(<<h>>) = 1 /\ <<h>>[1] = h
        BY <2>2
      <4>3. /\ <<h>> \o q \in Seq(Nat) /\ Len(<<h>> \o q) = 1 + Len(q)
            /\ \A j \in 1..(1 + Len(q)) :
                 (<<h>> \o q)[j] = IF j <= 1 THEN <<h>>[j] ELSE q[j - 1]
        BY <2>2, <4>2, ConcatProperties
      <4>4. ASSUME NEW j \in 1..(1 + Len(q)) PROVE (<<h>> \o q)[j] = n + j
        <5>1. CASE j = 1
          BY <2>2, <2>3, <3>2, <4>2, <4>3, <5>1
        <5>2. CASE j # 1
          <6>1. j - 1 \in 1..Len(q) /\ ~(j <= 1)
            BY <2>2, <5>2
          <6>2. q[j - 1] = n + InHand("stdout") + (j - 1)
            BY <2>3, <6>1
          <6> QED
            BY <2>2, <4>1, <4>3, <6>1, <6>2
        <5> QED
          BY <5>1, <5>2
      <4> HIDE DEF inside
      <4> QED
        BY <2>2, <4>1, <4>3, <4>4
    <3> QED
      BY <3>1, <3>2
  <2>5. InHand("stdout") \in Nat
    BY DEF InHand
  <2> HIDE DEF inside
  <2>6. made["stdout"] - Len(inside) = n
    BY <2>2, <2>3, <2>4, <2>5 DEF Last, q
  <2>7. inside = [i \in 1..Len(inside) |-> n + i]
    BY <2>4
  <2> QED
    BY <2>3, <2>6, <2>7 DEF StdoutConservation, inside, q
<1> QED
  BY <1>1, AllInvariance, PTL

(* While the process runs and the receiver serves it, nothing the client   *)
(* sent for its stdin is lost, repeated or reordered.                      *)
THEOREM StdinIsConserved == Spec => []StdinConservation
<1>1. AllInv => StdinConservation
  BY DEF AllInv, StdinInv
<1> QED
  BY <1>1, AllInvariance, PTL

-----------------------------------------------------------------------------
(***************************************************************************)
(* ServerSession implements SessionProtocol: a step of the session is a    *)
(* step of the protocol, or changes neither the wire nor the process.      *)
(***************************************************************************)
LEMMA FateSteps ==
  ASSUME TypeOK, WInv, [Next]_vars, proc' # proc
  PROVE  /\ wire' = wire
         /\ \/ proc = "none" /\ proc' = "running" /\ wire = <<>>
            \/ proc = "running" /\ proc' \in {"exit0", "exitN", "killed"}
<1>1. StartProcess \/ WatchKills \/ ProcessExits
  BY DEF Next, Main, StartProcess, SendStartErr, SendStartOk, ReceiverFirst, ReceiverFirstNil,
         SenderFirst, JoinReceiver, JoinStdout, JoinStderr, Join, WaitReturns,
         SendExitMessage, CloseWebsocket, Return, Receiver, ReceiveFrame, ReceiveFails, WriteStdin,
         SenderStdout, SenderStderr, ReadOutput, ReadClosed, SendStdout, SendStderr,
         Helpers, CloseReadEnd, Exec, Copiers, StdinCopierEnds, OutputCopierEnds,
         WaitDelayExpires, Environment, ProcessReads, ProcessWrites, PeerSendsBinary,
         PeerSendsOther, PeerSends, PeerVanishes, Signal, vars, procVars
<1> QED
  BY <1>1 DEF StartProcess, WatchKills, ProcessExits, netVars, WInv, Started

(* Main sends what the protocol allows.                                    *)
LEMMA MainRefines ==
  ASSUME IInv, AllInv, Main, proc' = proc, wire' # wire
  PROVE  Protocol!Next
<1> USE DEF AllInv, WInv
<1>0. waitRes \in {"none", "nil", "code", "killed", "other"} /\ desired \in Statuses \cup {"nil"}
  BY DEF IInv, TypeOK, MainTypeOK
<1>1. CASE SendStartErr
  <2>1. wire = <<>> /\ proc = "none" /\ wire' = Append(wire, StartErr)
    BY <1>1, WriteEffect DEF SendStartErr, Started
  <2> QED
    BY <2>1 DEF Protocol!Next, Protocol!SendStart, Protocol!Send, Protocol!StartErr, StartErr,
                Protocol!Frame, Frame
<1>2. CASE SendStartOk
  <2>1. wire = <<>> /\ proc # "none" /\ wire' = Append(wire, StartOk)
    BY <1>2, WriteEffect DEF SendStartOk, Started
  <2> QED
    BY <2>1 DEF Protocol!Next, Protocol!SendStart, Protocol!Send, Protocol!StartOk, StartOk,
                Protocol!Frame, Frame
<1>3. CASE SendExitMessage
  <2>1. /\ main = "exitMsg" /\ wire' = Append(wire, Exited(ExitReport)) /\ Listening
        /\ waitRes # "none"
    BY <1>3, WriteEffect DEF SendExitMessage, IInv, Joined
  <2>2. NoFinal /\ wire # <<>> /\ wire[1] = StartOk
    BY <2>1 DEF Ending, Started, IInv, Joined, AllDone, Streams
  <2>3. Protocol!Serving
    BY <2>2 DEF Protocol!Serving, Protocol!Final, NoFinal, Protocol!StartOk, StartOk,
                Protocol!Frame, Frame
  <2>4. ExitReport \in Protocol!Reports /\ Protocol!Truthful(ExitReport)
    BY <1>0, <2>1 DEF Truth, ExitReport, Protocol!Truthful, Protocol!Reports
  <2>5. Protocol!SendExit(ExitReport)
    BY <2>1, <2>3, <2>4
       DEF Protocol!SendExit, Protocol!Send, Protocol!Exited, Exited, Protocol!Frame, Frame
  <2> QED
    BY <2>4, <2>5 DEF Protocol!Next
<1>4. CASE CloseWebsocket
  <2>1. /\ main = "closing" /\ wire' = Append(wire, Close(desired)) /\ desired \in Statuses
    BY <1>0, <1>4 DEF CloseWebsocket
  <2>2. \A i \in 1..Len(wire) : wire[i].kind # "close"
    BY <2>1 DEF Ending
  <2>3. ASSUME desired = "normal"
        PROVE  proc = "exit0" /\ ~Protocol!Sent(StartErr) /\ ~Protocol!Sent(Exited("error"))
    <3>1. waitRes = "nil" /\ proc = "exit0"
      BY <2>1, <2>3 DEF IInv, CleanClosure
    <3>2. ExitReport = "code0"
      BY <3>1 DEF ExitReport
    <3>3. \A i \in 1..Len(wire) : wire[i].kind = "server_exited" => wire[i].tag = "code0"
      BY <3>2 DEF Truth
    <3>4. \A i \in 1..Len(wire) : wire[i].kind # "start_err"
      BY <2>3 DEF Truth
    <3>5. /\ StartErr.kind = "start_err" /\ Exited("error").kind = "server_exited"
          /\ Exited("error").tag = "error"
      BY DEF StartErr, Exited, Frame
    <3> QED
      BY <3>1, <3>3, <3>4, <3>5 DEF Protocol!Sent
  <2>4. Protocol!SendClose(desired)
    BY <2>1, <2>2, <2>3
       DEF Protocol!SendClose, Protocol!Send, Protocol!Close, Close, Protocol!Frame, Frame,
           Protocol!StartErr, StartErr, Protocol!Exited, Exited
  <2> QED
    BY <2>1, <2>4 DEF Protocol!Next, Protocol!Statuses, Statuses
<1> QED
  BY <1>1, <1>2, <1>3, <1>4
     DEF Main, StartProcess, ReceiverFirst, ReceiverFirstNil, SenderFirst, JoinReceiver,
         JoinStdout, JoinStderr, Join, WaitReturns, Return, netVars

(* A chunk goes out after the one before it.                               *)
LEMMA StdoutRefines ==
  ASSUME IInv, AllInv, SendStdout, proc' = proc, wire' # wire
  PROVE  Protocol!Next
<1> DEFINE h == held["stdout"]
<1>1. worker["stdout"] = "writing" /\ Listening /\ wire' = Append(wire, Binary(h))
  BY WriteEffect DEF SendStdout
<1>2. NoFinal /\ wire # <<>> /\ wire[1] = StartOk
  BY <1>1, SenderFinds DEF AllInv, WInv, OutStreams
<1>3. Protocol!Serving
  BY <1>2 DEF Protocol!Serving, Protocol!Final, NoFinal, Protocol!StartOk, StartOk,
              Protocol!Frame, Frame
<1>4. PICK n \in Nat : StdoutFlow(n)
  BY DEF AllInv, StdoutInv
<1>5. h # 0 /\ h = n + 1 /\ Carry(wire, "bin", 0, n) /\ Last(n) <= made["stdout"]
      /\ InHand("stdout") = 1
  BY <1>1, <1>4 DEF StdoutFlow, AllInv, Work, Streams, InHand
<1>6. made["stdout"] <= MaxOut
  BY DEF AllInv, Work, Limit, Streams
<1>7. h \in 1..MaxOut
  <2>1. Len(queue["stdout"]) \in Nat /\ made["stdout"] \in Nat
    BY DEF IInv, TypeOK, PipeTypeOK, ProcTypeOK, Streams
  <2> HIDE DEF h
  <2> QED
    BY <1>5, <1>6, <2>1, SessionAssumption DEF Last
<1>8. h = 1 \/ Protocol!Sent(Binary(h - 1))
  <2> SUFFICES ASSUME h # 1 PROVE Protocol!Sent(Binary(n))
    BY <1>5
  <2>1. n \in (0 + 1)..n
    BY <1>5
  <2>2. PICK i \in OfKind(wire, "bin") : wire[i].n = n
    BY <1>5, <2>1 DEF Carry
  <2>3. i \in 1..Len(wire) /\ wire[i] = Binary(n)
    BY <2>2 DEF AllInv, Plain, OfKind
  <2> QED
    BY <2>3 DEF Protocol!Sent
<1>9. ~Protocol!Sent(Binary(h))
  <2> SUFFICES ASSUME NEW i \in 1..Len(wire), wire[i] = Binary(h) PROVE FALSE
    BY DEF Protocol!Sent
  <2>0. Binary(h).n = h /\ Binary(h).kind = "bin"
    BY DEF Binary, Frame
  <2>1. wire[i].n = h /\ i \in OfKind(wire, "bin")
    BY <2>0 DEF OfKind
  <2>2. h \in (0 + 1)..n
    BY <1>5, <2>1 DEF Carry
  <2> QED
    BY <1>5, <2>2
<1>10. Protocol!SendChunk(h)
  BY <1>1, <1>3, <1>8, <1>9
     DEF Protocol!SendChunk, Protocol!Send, Protocol!Binary, Binary, Protocol!Frame, Frame
<1> QED
  BY <1>7, <1>10 DEF Protocol!Next

(* A line goes out that is newer than every line sent.                     *)
LEMMA StderrRefines ==
  ASSUME IInv, AllInv, SendStderr, proc' = proc, wire' # wire
  PROVE  Protocol!Next
<1> DEFINE h == held["stderr"]
<1>1. worker["stderr"] = "writing" /\ Listening /\ wire' = Append(wire, Stderr(h))
  BY WriteEffect DEF SendStderr
<1>2. NoFinal /\ wire # <<>> /\ wire[1] = StartOk
  BY <1>1, SenderFinds DEF AllInv, WInv, OutStreams
<1>3. Protocol!Serving
  BY <1>2 DEF Protocol!Serving, Protocol!Final, NoFinal, Protocol!StartOk, StartOk,
              Protocol!Frame, Frame
<1>4. h # 0 /\ h <= made["stderr"] /\ made["stderr"] <= MaxErr
      /\ \A i \in OfKind(wire, "process_stderr") : wire[i].n < h
  BY <1>1 DEF AllInv, Work, StderrInv, Limit, Streams
<1>5. h \in 1..MaxErr /\ wire \in Seq(Frames)
  <2>1. h \in Nat /\ made["stderr"] \in Nat /\ wire \in Seq(Frames)
    BY DEF IInv, TypeOK, WorkTypeOK, ProcTypeOK, NetTypeOK, Streams
  <2> HIDE DEF h
  <2> QED
    BY <1>4, <2>1, SessionAssumption
<1>6. ASSUME NEW m \in h..MaxErr PROVE ~Protocol!Sent(Stderr(m))
  <2> SUFFICES ASSUME NEW i \in 1..Len(wire), wire[i] = Stderr(m) PROVE FALSE
    BY DEF Protocol!Sent
  <2>0. Stderr(m).n = m /\ Stderr(m).kind = "process_stderr"
    BY DEF Stderr, Frame
  <2>1. wire[i].n = m /\ i \in OfKind(wire, "process_stderr")
    BY <2>0 DEF OfKind
  <2>2. m < h
    BY <1>4, <2>1
  <2> QED
    BY <1>5, <2>2
<1>7. Protocol!SendLine(h)
  BY <1>1, <1>3, <1>6
     DEF Protocol!SendLine, Protocol!Send, Protocol!Stderr, Stderr, Protocol!Frame, Frame
<1> QED
  BY <1>5, <1>7 DEF Protocol!Next

LEMMA StepRefines ==
  IInv /\ AllInv /\ [Next]_vars => [Protocol!Next]_<<proc, wire>>
<1> SUFFICES ASSUME IInv, AllInv, [Next]_vars PROVE [Protocol!Next]_<<proc, wire>>
  OBVIOUS
<1>0. TypeOK /\ WInv
  BY DEF IInv, AllInv
<1>1. CASE proc' # proc
  <2>1. /\ wire' = wire
        /\ \/ proc = "none" /\ proc' = "running" /\ wire = <<>>
           \/ proc = "running" /\ proc' \in {"exit0", "exitN", "killed"}
    BY <1>0, <1>1, FateSteps
  <2> QED
    BY <2>1 DEF Protocol!Next, Protocol!ProcessStarts, Protocol!ProcessEnds
<1>2. CASE proc' = proc /\ wire' # wire
  <2>1. Main \/ SendStdout \/ SendStderr
    <3> SUFFICES ASSUME ~Main, ~SendStdout, ~SendStderr PROVE FALSE
      OBVIOUS
    <3>1. Quiet
      BY <1>0, QuietSteps DEF Next, SenderStdout, SenderStderr, OutStreams
    <3> QED
      BY <1>2, <3>1 DEF Quiet
  <2> QED
    BY <1>2, <2>1, MainRefines, StdoutRefines, StderrRefines
<1> QED
  BY <1>1, <1>2

(* What a client receives, and when, is what SessionProtocol allows,       *)
(* whatever runs, fails or is cancelled at the server: ServerSession       *)
(* implements the protocol ClientSession relies on.                        *)
THEOREM SessionImplementsProtocol == Spec => ImplementsProtocol
<1>1. Init => Protocol!Init
  BY DEF Init, Protocol!Init
<1> QED
  BY <1>1, StepRefines, AllInvariance, PTL DEF Spec, ImplementsProtocol, Protocol!Spec
=============================================================================
