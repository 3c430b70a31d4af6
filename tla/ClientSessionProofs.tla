------------------------ MODULE ClientSessionProofs -------------------------
(***************************************************************************)
(* The safety of one run of the client, for any number of chunks and lines *)
(* and any server that keeps SessionProtocol.                              *)
(***************************************************************************)
EXTENDS ClientSessionProperties, TLAPS

(***************************************************************************)
(* The inductive invariant.  What the server's protocol leaves in sent: no *)
(* output before its first message, true reports, a closure at the end,    *)
(* and a normal one only after a process that ended well.                  *)
(***************************************************************************)
SentOK ==
  /\ fate \in {"none", "running", "exit0", "exitN", "killed"}
  /\ sent \in Seq(Frames)
  /\ sent # <<>> => sent[1].kind \notin {"bin", "process_stderr"}
  /\ \A i \in 1..Len(sent) :
       /\ sent[i].kind = "server_exited" =>
            /\ sent[i].tag \in Reports /\ Server!Truthful(sent[i].tag)
            /\ sent[i] = Exited(sent[i].tag)
       /\ sent[i].kind = "close" => i = Len(sent) /\ sent[i] = Close(sent[i].tag)
       /\ sent[i] = Close("normal") =>
            /\ fate = "exit0"
            /\ \A j \in 1..Len(sent) :
                 ~(sent[j].kind = "server_exited" /\ sent[j].tag = "error")

(* The workers run from the greeting on; an answer is a worker's last act. *)
Joins ==
  /\ code # "none" => main = "exited"
  /\ main = "dialing" => conn = "none"
  /\ main \in {"dialing", "greeting"} =>
       read = 0 /\ out = <<>> /\ lost = {} /\ \A w \in Workers : worker[w] = "off"
  /\ \A w \in Workers : answer[w] # "none" => worker[w] = "done"
  /\ main = "joinReceiver" => worker["sender"] = "done"
  /\ worker["sender"] # "off" => conn # "none"
  /\ worker["sender"] \in {"off", "reading", "writing", "done"}
  /\ SenderIsJoined

(* The chunk the receiver writes is the next one for the connection, as    *)
(* long as that is open; only a receiver that is through has sent shutdown.*)
Upstream ==
  /\ conn \in {"none", "open"} =>
       /\ worker["receiver"] \in {"off", "reading", "shutdown"} => Len(up) = typed
       /\ worker["receiver"] = "writing" => Len(up) + 1 = typed
  /\ worker["receiver"] = "shutdown" => input = "eof"
  /\ worker["receiver"] \notin {"waiting", "done"} => \A i \in 1..Len(up) : up[i] = Binary(i)
  /\ UpstreamInOrder

(* The frame that was read last is in senderStdout's hands, or was when it *)
(* ended: what came before it is out.                                      *)
Unwritten ==
  /\ read > 0 /\ item = sent[read] /\ item.kind \in {"bin", "process_stderr"}
  /\ lost \subseteq 1..(read - 1)
  /\ Shown(out, sent, read - 1, lost)

(* What the sender has read is out, but for the lines it lost and the      *)
(* frame it is writing or could not write.                                 *)
Downstream ==
  /\ \A k \in lost : sent[k].kind = "process_stderr"
  /\ worker["sender"] \in {"off", "reading"} => Shown(out, sent, read, lost)
  /\ worker["sender"] = "writing" => Unwritten
  /\ worker["sender"] = "done" => Shown(out, sent, read, lost) \/ Unwritten

(* The client's account of the end comes from what it has read.            *)
Account ==
  /\ info # "none" =>
       \E i \in 1..read : sent[i].kind = "server_exited" /\ sent[i].tag = info
  /\ answer["receiver"] # "normal"
  /\ answer["sender"] = "normal" \/ outcome = "normal" =>
       /\ conn = "closed" /\ worker["sender"] = "done" /\ Shown(out, sent, Len(sent), lost)
       /\ \E i \in 1..Len(sent) : sent[i] = Close("normal")

CInv == TypeOK /\ SentOK /\ Joins /\ Upstream /\ Downstream /\ Account

-----------------------------------------------------------------------------
(* The server's part.                                                      *)

LEMMA FrameTypes ==
  /\ StartOk \in Frames /\ StartErr \in Frames /\ Shutdown \in Frames
  /\ \A n \in Nat : Binary(n) \in Frames /\ Stderr(n) \in Frames
  /\ \A r \in Reports : Exited(r) \in Frames
  /\ \A c \in Statuses : Close(c) \in Frames
BY DEF Frames, Frame, StartOk, StartErr, Shutdown, Binary, Stderr, Exited, Close, Statuses, Reports

LEMMA FrameKinds ==
  /\ StartOk.kind = "start_ok" /\ StartErr.kind = "start_err" /\ Shutdown.kind = "shutdown"
  /\ \A n : /\ Binary(n).kind = "bin" /\ Binary(n).n = n
            /\ Stderr(n).kind = "process_stderr" /\ Stderr(n).n = n
  /\ \A r : Exited(r).kind = "server_exited" /\ Exited(r).tag = r
  /\ \A c : Close(c).kind = "close" /\ Close(c).tag = c
BY DEF Frame, StartOk, StartErr, Shutdown, Binary, Stderr, Exited, Close

(* The protocol's frames are the client's.                                 *)
LEMMA SameFrames ==
  /\ Server!StartOk = StartOk /\ Server!StartErr = StartErr
  /\ \A n : Server!Binary(n) = Binary(n) /\ Server!Stderr(n) = Stderr(n)
  /\ \A r : Server!Exited(r) = Exited(r) /\ Server!Close(r) = Close(r)
  /\ Server!Reports = Reports /\ Server!Statuses = Statuses
BY DEF Server!StartOk, Server!StartErr, Server!Binary, Server!Stderr, Server!Exited, Server!Close,
       Server!Frame, Server!Reports, Server!Statuses,
       StartOk, StartErr, Binary, Stderr, Exited, Close, Frame, Reports, Statuses

(* A step of the server moves the process on or sends one frame: a frame   *)
(* of the session, a true report, or the closure.                          *)
LEMMA ServerSteps ==
  ASSUME Server!Next
  PROVE  \/ /\ sent' = sent
            /\ \/ fate = "none" /\ fate' = "running"
               \/ fate = "running" /\ fate' \in {"exit0", "exitN", "killed"}
         \/ /\ fate' = fate
            /\ \E f \in Frames :
                 /\ sent' = Append(sent, f)
                 /\ \/ sent = <<>> /\ f \in {StartOk, StartErr}
                    \/ Server!Serving /\ f.kind \in {"bin", "process_stderr"}
                    \/ Server!Serving /\ \E r \in Reports : f = Exited(r) /\ Server!Truthful(r)
                    \/ \E c \in Statuses : f = Close(c) /\ Server!SendClose(c)
<1> USE SameFrames, FrameTypes, FrameKinds
<1>1. CASE Server!SendStart
  BY <1>1 DEF Server!SendStart, Server!Send
<1>2. CASE \E n \in 1..MaxOut : Server!SendChunk(n)
  BY <1>2 DEF Server!SendChunk, Server!Send
<1>3. CASE \E n \in 1..MaxErr : Server!SendLine(n)
  BY <1>3 DEF Server!SendLine, Server!Send
<1>4. CASE \E r \in Server!Reports : Server!SendExit(r)
  BY <1>4 DEF Server!SendExit, Server!Send
<1>5. CASE \E c \in Server!Statuses : Server!SendClose(c)
  BY <1>5 DEF Server!SendClose, Server!Send
<1>6. CASE Server!ProcessStarts \/ Server!ProcessEnds
  BY <1>6 DEF Server!ProcessStarts, Server!ProcessEnds
<1> QED
  BY <1>1, <1>2, <1>3, <1>4, <1>5, <1>6 DEF Server!Next

LEMMA ServerKeepsSent ==
  ASSUME SentOK, Server!Next
  PROVE  SentOK' /\ (fate = "exit0" => fate' = "exit0")
<1>1. ASSUME sent' = sent,
             \/ fate = "none" /\ fate' = "running"
             \/ fate = "running" /\ fate' \in {"exit0", "exitN", "killed"}
      PROVE  SentOK'
  <2>1. \A r \in Reports : ~Server!Truthful(r)
    BY <1>1 DEF Server!Truthful
  <2> QED
    BY <1>1, <2>1 DEF SentOK
<1>2. ASSUME NEW f \in Frames, sent' = Append(sent, f), fate' = fate,
             \/ sent = <<>> /\ f \in {StartOk, StartErr}
             \/ Server!Serving /\ f.kind \in {"bin", "process_stderr"}
             \/ Server!Serving /\ \E r \in Reports : f = Exited(r) /\ Server!Truthful(r)
             \/ \E c \in Statuses : f = Close(c) /\ Server!SendClose(c)
      PROVE  SentOK'
  <2> DEFINE n == Len(sent)
  <2>1. /\ n \in Nat /\ Len(sent') = n + 1 /\ sent'[n + 1] = f
        /\ \A i \in 1..n : sent'[i] = sent[i]
        /\ sent' \in Seq(Frames) /\ (sent # <<>> => 1 \in 1..n) /\ (sent = <<>> => n = 0)
    BY <1>2 DEF SentOK
  <2> HIDE DEF n
  <2>2. \A r : Server!Truthful(r)' <=> Server!Truthful(r)
    BY <1>2 DEF Server!Truthful
  <2>3. \A i \in 1..(n + 1) : i \in 1..n \/ i = n + 1
    BY <2>1
  <2>4. \A i \in 1..n : sent[i].kind # "close"
    BY <1>2, FrameKinds, <2>1 DEF Server!Serving, Server!Final, Server!SendClose, n
  <2>5. sent'[1].kind \notin {"bin", "process_stderr"}
    BY <1>2, <2>1, FrameKinds DEF SentOK, Server!Serving
  <2>6. f.kind = "server_exited" =>
          f.tag \in Reports /\ Server!Truthful(f.tag) /\ f = Exited(f.tag)
    BY <1>2, FrameKinds
  <2>8. f.kind = "close" => f = Close(f.tag)
    BY <1>2, FrameKinds
  <2>7. f = Close("normal") =>
          /\ fate = "exit0"
          /\ \A j \in 1..n : ~(sent[j].kind = "server_exited" /\ sent[j].tag = "error")
    <3> SUFFICES ASSUME f = Close("normal")
                 PROVE  /\ fate = "exit0"
                        /\ \A j \in 1..n : ~(sent[j].kind = "server_exited" /\ sent[j].tag = "error")
      OBVIOUS
    <3>1. Server!SendClose("normal")
      BY <1>2, FrameKinds
    <3>2. fate = "exit0" /\ \A j \in 1..n : sent[j] # Exited("error")
      BY <3>1, SameFrames DEF Server!SendClose, Server!Sent, n
    <3>3. \A j \in 1..n : sent[j].kind = "server_exited" => sent[j] = Exited(sent[j].tag)
      BY DEF SentOK, n
    <3> QED
      BY <3>2, <3>3
  <2> QED
    BY <1>2, <2>1, <2>2, <2>3, <2>4, <2>5, <2>6, <2>7, <2>8, FrameKinds DEF SentOK, n
<1>3. CASE fate' = fate /\ ~(sent' = sent)
  <2>1. PICK f \in Frames :
          /\ sent' = Append(sent, f)
          /\ \/ sent = <<>> /\ f \in {StartOk, StartErr}
             \/ Server!Serving /\ f.kind \in {"bin", "process_stderr"}
             \/ Server!Serving /\ \E r \in Reports : f = Exited(r) /\ Server!Truthful(r)
             \/ \E c \in Statuses : f = Close(c) /\ Server!SendClose(c)
    BY <1>3, ServerSteps
  <2>2. SentOK'
    BY <1>2, <1>3, <2>1
  <2> QED
    BY <1>3, <2>2
<1>4. CASE fate' # fate
  <2>1. sent' = sent /\ (\/ fate = "none" /\ fate' = "running"
                         \/ fate = "running" /\ fate' \in {"exit0", "exitN", "killed"})
    BY <1>4, ServerSteps
  <2>2. SentOK'
    BY <1>1, <2>1
  <2> QED
    BY <2>1, <2>2
<1>5. CASE fate' = fate /\ sent' = sent
  <2>1. SentOK'
    BY <1>5 DEF SentOK, Server!Truthful
  <2> QED
    BY <1>5, <2>1
<1> QED
  BY <1>3, <1>4, <1>5

-----------------------------------------------------------------------------
(* What is out, when a frame is read and when more frames are sent.        *)

LEMMA ShownStays ==
  ASSUME NEW o, NEW frames, NEW more, NEW n \in Nat, NEW missing,
         \A k \in 1..n : more[k] = frames[k], Shown(o, frames, n, missing)
  PROVE  Shown(o, more, n, missing)
<1>1. OutputAt(more, n) = OutputAt(frames, n)
  BY DEF OutputAt
<1>2. PICK at \in [1..Len(o) -> 1..n] :
        /\ {at[i] : i \in 1..Len(o)} = OutputAt(frames, n) \ missing
        /\ \A i, j \in 1..Len(o) : i < j => at[i] < at[j]
        /\ \A i \in 1..Len(o) : o[i] = frames[at[i]]
  BY DEF Shown
<1>3. \A i \in 1..Len(o) : o[i] = more[at[i]]
  BY <1>2
<1> QED
  BY <1>1, <1>2, <1>3 DEF Shown

LEMMA ShownNothing ==
  ASSUME NEW frames
  PROVE  Shown(<<>>, frames, 0, {})
<1> DEFINE at == [i \in 1..0 |-> 0]
<1>1. at \in [1..Len(<<>>) -> 1..0] /\ {at[i] : i \in 1..Len(<<>>)} = {}
  OBVIOUS
<1>2. OutputAt(frames, 0) \ {} = {}
  BY DEF OutputAt
<1>3. \A i \in 1..Len(<<>>) : FALSE
  OBVIOUS
<1> HIDE DEF at
<1>4. /\ {at[i] : i \in 1..Len(<<>>)} = OutputAt(frames, 0) \ {}
      /\ \A i, j \in 1..Len(<<>>) : i < j => at[i] < at[j]
      /\ \A i \in 1..Len(<<>>) : <<>>[i] = frames[at[i]]
  BY <1>1, <1>2, <1>3
<1> QED
  BY <1>1, <1>4, Zenon DEF Shown

(* One frame more that is not to be shown: it is none of the outputs, or   *)
(* it is missing from now on.                                              *)
LEMMA ShownBut ==
  ASSUME NEW o, NEW frames, NEW n \in Nat, NEW before, NEW missing,
         before \subseteq 1..n,
         \/ missing = before /\ frames[n + 1].kind \notin {"bin", "process_stderr"}
         \/ missing = before \cup {n + 1},
         Shown(o, frames, n, before)
  PROVE  Shown(o, frames, n + 1, missing)
<1>1. PICK at \in [1..Len(o) -> 1..n] :
        /\ {at[i] : i \in 1..Len(o)} = OutputAt(frames, n) \ before
        /\ \A i, j \in 1..Len(o) : i < j => at[i] < at[j]
        /\ \A i \in 1..Len(o) : o[i] = frames[at[i]]
  BY DEF Shown
<1>2. OutputAt(frames, n + 1) \ missing = OutputAt(frames, n) \ before
  <2>1. 1..(n + 1) = 1..n \cup {n + 1} /\ n + 1 \notin 1..n
    OBVIOUS
  <2> QED
    BY <2>1 DEF OutputAt
<1>3. at \in [1..Len(o) -> 1..(n + 1)]
  BY <1>1
<1> QED
  BY <1>1, <1>2, <1>3 DEF Shown

(* One output more.                                                        *)
LEMMA ShownOn ==
  ASSUME NEW o \in Seq(Frames), NEW frames, NEW n \in Nat, NEW f \in Frames, f = frames[n + 1],
         f.kind \in {"bin", "process_stderr"}, NEW missing, missing \subseteq 1..n,
         Shown(o, frames, n, missing)
  PROVE  Shown(Append(o, f), frames, n + 1, missing)
<1> DEFINE L == Len(o)
<1>0. /\ L \in Nat /\ Len(Append(o, f)) = L + 1 /\ Append(o, f)[L + 1] = f
      /\ \A i \in 1..L : Append(o, f)[i] = o[i]
  OBVIOUS
<1>1. PICK at \in [1..L -> 1..n] :
        /\ {at[i] : i \in 1..L} = OutputAt(frames, n) \ missing
        /\ \A i, j \in 1..L : i < j => at[i] < at[j]
        /\ \A i \in 1..L : o[i] = frames[at[i]]
  BY DEF Shown
<1> HIDE DEF L
<1> DEFINE more == [i \in 1..(L + 1) |-> IF i = L + 1 THEN n + 1 ELSE at[i]]
<1>2. /\ more \in [1..(L + 1) -> 1..(n + 1)] /\ more[L + 1] = n + 1
      /\ \A i \in 1..L : more[i] = at[i] /\ at[i] \in 1..n
  BY <1>0, <1>1
<1> HIDE DEF more
<1>3. OutputAt(frames, n + 1) \ missing = (OutputAt(frames, n) \ missing) \cup {n + 1}
  <2>1. 1..(n + 1) = 1..n \cup {n + 1} /\ n + 1 \notin missing
    OBVIOUS
  <2> QED
    BY <2>1 DEF OutputAt
<1>4. \A i \in 1..(L + 1) : i \in 1..L \/ i = L + 1
  BY <1>0
<1>5. {more[i] : i \in 1..(L + 1)} = {at[i] : i \in 1..L} \cup {n + 1}
  <2>1. L + 1 \in 1..(L + 1) /\ 1..L \subseteq 1..(L + 1)
    BY <1>0
  <2> QED
    BY <1>2, <1>4, <2>1
<1>6. ASSUME NEW i \in 1..(L + 1), NEW j \in 1..(L + 1), i < j PROVE more[i] < more[j]
  <2>1. i \in 1..L
    BY <1>0, <1>6
  <2>2. CASE j \in 1..L
    BY <1>1, <1>2, <1>6, <2>1, <2>2
  <2>3. CASE j = L + 1
    BY <1>2, <2>1, <2>3
  <2> QED
    BY <1>4, <2>2, <2>3
<1>7. \A i \in 1..(L + 1) : Append(o, f)[i] = frames[more[i]]
  BY <1>0, <1>1, <1>2, <1>4
<1>8. {more[i] : i \in 1..(L + 1)} = OutputAt(frames, n + 1) \ missing
  BY <1>1, <1>3, <1>5
<1>9. 1..Len(Append(o, f)) = 1..(L + 1)
  BY <1>0
<1>10. /\ more \in [1..Len(Append(o, f)) -> 1..(n + 1)]
       /\ {more[i] : i \in 1..Len(Append(o, f))} = OutputAt(frames, n + 1) \ missing
       /\ \A i, j \in 1..Len(Append(o, f)) : i < j => more[i] < more[j]
       /\ \A i \in 1..Len(Append(o, f)) : Append(o, f)[i] = frames[more[i]]
  BY <1>2, <1>6, <1>7, <1>8, <1>9, Zenon
<1> QED
  BY <1>10, Zenon DEF Shown

-----------------------------------------------------------------------------
(* Types.                                                                  *)

MainType ==
  /\ main \in {"dialing", "greeting", "select", "joinSender", "joinReceiver",
              "returning", "closing", "exited"}
  /\ ctx \subseteq {"running"} \cup Workers
  /\ outcome \in Answers \cup {"none", "dial", "greeting"}
  /\ code \in {"none", "2", "3", "sigpipe"}

WorkType ==
  /\ worker \in [Workers -> {"off", "reading", "writing", "shutdown", "waiting", "done"}]
  /\ answer \in [Workers -> Answers \cup {"none", "taken"}]
  /\ info \in Reports \cup {"none"}
  /\ item \in Frames

AppType ==
  /\ typed \in Nat
  /\ input \in {"open", "eof"}
  /\ app \in {"reading", "gone"}
  /\ out \in Seq(Frames)

ConnType ==
  /\ conn \in {"none", "open", "broken", "closed"}
  /\ up \in Seq(Frames)
  /\ read \in Nat /\ read <= Len(sent)

LostType == lost \subseteq 1..read

LEMMA TypeParts ==
  /\ TypeOK => MainType /\ WorkType /\ AppType /\ ConnType /\ LostType
  /\ MainType /\ WorkType /\ AppType /\ ConnType /\ LostType => TypeOK
  /\ MainType' /\ WorkType' /\ AppType' /\ ConnType' /\ LostType' => TypeOK'
BY DEF TypeOK, MainType, WorkType, AppType, ConnType, LostType

LEMMA Same ==
  /\ MainType /\ UNCHANGED mainVars => MainType'
  /\ WorkType /\ UNCHANGED workVars => WorkType'
  /\ AppType /\ UNCHANGED appVars => AppType'
  /\ ConnType /\ UNCHANGED connVars /\ UNCHANGED serverVars => ConnType'
  /\ ConnType /\ LostType /\ UNCHANGED lost /\ read' \in {read, read + 1} => LostType'
BY DEF MainType, WorkType, AppType, ConnType, LostType, mainVars, workVars, appVars, connVars, serverVars

LEMMA InitTypes == Init => TypeOK /\ SentOK
<1> SUFFICES ASSUME Init PROVE TypeOK /\ SentOK
  OBVIOUS
<1> DEFINE Empty == <<>>
<1>1. Empty \in Seq(Frames) /\ Len(Empty) = 0
  OBVIOUS
<1>2. sent = Empty /\ out = Empty /\ up = Empty /\ fate = "none"
  BY DEF Init, Server!Init
<1>3. MainType
  BY DEF Init, MainType
<1>4. WorkType
  BY FrameTypes DEF Init, WorkType
<1>5. AppType
  BY <1>1, <1>2 DEF Init, AppType
<1>6. ConnType
  BY <1>1, <1>2 DEF Init, ConnType
<1>8. LostType
  BY DEF Init, LostType
<1>7. SentOK
  BY <1>1, <1>2 DEF SentOK
<1> QED
  BY <1>3, <1>4, <1>5, <1>6, <1>7, <1>8, TypeParts

(* The frame the client reads next.                                        *)
LEMMA Arriving ==
  ASSUME ConnType, SentOK, Arrived
  PROVE  /\ read + 1 \in 1..Len(sent) /\ read + 1 <= Len(sent) /\ Incoming \in Frames
         /\ conn # "closed" /\ conn # "none"
BY DEF ConnType, SentOK, Arrived, Incoming

(* A write leaves the connection as it was, or longer, or closed.          *)
LEMMA WriteUp ==
  ASSUME ConnType, NEW w, NEW frame \in Frames, NEW ok \in BOOLEAN, WsWrite(w, frame, ok)
  PROVE  /\ read' = read /\ up' \in Seq(Frames)
         /\ conn' \in {"open", "broken", "closed"}
         /\ conn = "closed" => conn' = "closed"
         /\ conn' = "open" => conn = "open"
         /\ \/ up' = up /\ (ok => conn' # "open")
            \/ conn = "open" /\ up' = Append(up, frame) /\ (ok \/ conn' = "closed")
BY DEF ConnType, WsWrite

LEMMA MainTypes ==
  ASSUME TypeOK, SentOK, Joins, Main
  PROVE  TypeOK'
<1> USE TypeParts, Same
<1>0. LostType'
  <2>1. lost' = lost /\ read' \in {read, read + 1}
    BY DEF Joins, Main, Dial, Greet, GreetFails, ReceiverFirst, SenderFirst, First, JoinSender,
       JoinReceiver, ProxyReturns, Exit, appVars, connVars
  <2> QED
    BY <2>1
<1>1. CASE Dial
  <2>1. MainType' /\ ConnType'
    BY <1>1 DEF Dial, MainType, ConnType, serverVars
  <2> QED
    BY <1>0, <1>1, <2>1 DEF Dial
<1>2. CASE Greet
  <2>1. read' \in Nat /\ read' <= Len(sent')
    BY <1>2, Arriving DEF Greet, ConnType, serverVars
  <2>2. ConnType'
    BY <1>2, <2>1 DEF Greet, ConnType
  <2>3. MainType' /\ WorkType'
    BY <1>2 DEF Greet, MainType, WorkType
  <2> QED
    BY <1>0, <1>2, <2>2, <2>3 DEF Greet
<1>3. CASE GreetFails \/ Exit
  <2>1. MainType' /\ ConnType'
    BY <1>3 DEF GreetFails, Exit, MainType, ConnType, serverVars
  <2> QED
    BY <1>0, <1>3, <2>1 DEF GreetFails, Exit
<1>4. CASE ReceiverFirst \/ SenderFirst \/ JoinSender \/ JoinReceiver
  <2>1. MainType' /\ WorkType'
    BY <1>4 DEF ReceiverFirst, SenderFirst, First, JoinSender, JoinReceiver, MainType, WorkType,
         Workers, Answered
  <2> QED
    BY <1>0, <1>4, <2>1 DEF ReceiverFirst, SenderFirst, First, JoinSender, JoinReceiver
<1>5. CASE ProxyReturns
  <2>1. MainType'
    BY <1>5 DEF ProxyReturns, MainType
  <2> QED
    BY <1>0, <1>5, <2>1 DEF ProxyReturns
<1> QED
  BY <1>1, <1>2, <1>3, <1>4, <1>5 DEF Main

LEMMA ReceiverTypes ==
  ASSUME TypeOK, Receiver
  PROVE  TypeOK'
<1> USE TypeParts, Same
<1>0. "receiver" \in Workers /\ {"failed", "cancelled"} \subseteq Answers
  BY DEF Workers, Answers
<1>1. WorkType'
  BY <1>0 DEF Receiver, ReadStdin, ReadEof, ReadStdinFails, SendStdin, SendShutdown, AwaitCancel,
       Goto, Finish, WorkType
<1>2. LostType'
  <2>1. lost' = lost /\ read' = read
    BY DEF Receiver, ReadStdin, ReadEof, ReadStdinFails, SendStdin, SendShutdown, AwaitCancel,
       WsWrite, appVars, connVars
  <2> QED
    BY <2>1
<1>3. CASE ReadStdin
  <2>1. AppType'
    BY <1>3 DEF ReadStdin, AppType
  <2> QED
    BY <1>1, <1>2, <1>3, <2>1 DEF ReadStdin
<1>4. CASE ReadEof \/ ReadStdinFails \/ AwaitCancel
  BY <1>1, <1>2, <1>4 DEF ReadEof, ReadStdinFails, AwaitCancel
<1>5. CASE SendStdin \/ SendShutdown
  <2>1. Binary(typed) \in Frames /\ Shutdown \in Frames
    BY FrameTypes DEF AppType
  <2>2. ConnType'
    <3>1. read' = read /\ up' \in Seq(Frames) /\ conn' \in {"open", "broken", "closed"}
      BY <1>5, <2>1, WriteUp DEF SendStdin, SendShutdown
    <3> QED
      BY <1>5, <3>1 DEF SendStdin, SendShutdown, ConnType, serverVars
  <2> QED
    BY <1>1, <1>2, <1>5, <2>2 DEF SendStdin, SendShutdown
<1> QED
  BY <1>3, <1>4, <1>5 DEF Receiver

LEMMA HandleTypes ==
  ASSUME WorkType, ConnType, NEW f \in Frames, Handle(f),
         f.kind = "server_exited" => f.tag \in Reports
  PROVE  /\ WorkType' /\ conn' \in {"none", "open", "broken", "closed"}
         /\ f.kind = "server_exited" => info' = f.tag
<1>0. "sender" \in Workers /\ {"normal", "abnormal"} \subseteq Answers
  BY DEF Workers, Answers
<1>1. CASE f.kind = "close"
  BY <1>0, <1>1 DEF Handle, Finish, CloseAnswer, WorkType
<1>2. CASE f.kind \in {"bin", "process_stderr"}
  BY <1>0, <1>2 DEF Handle, Goto, WorkType, ConnType
<1>3. CASE f.kind = "server_exited"
  <2>1. ExitInfo(ExitPayload(f.tag)) = f.tag
    <3> DEFINE report == ExitPayload(f.tag)
    <3>1. /\ report.exit_code = (CASE f.tag = "code0" -> {0} [] f.tag = "codeN" -> {1} [] OTHER -> {})
          /\ report.killed = (f.tag = "killed")
      BY DEF ExitPayload
    <3> SUFFICES ExitInfo(report) = f.tag
      OBVIOUS
    <3> HIDE DEF report
    <3>2. {0} # {1} /\ {1} # {} /\ {0} # {}
      <4>1. 0 \in {0} /\ 0 \notin {1} /\ 1 \in {1}
        OBVIOUS
      <4> QED
        BY <4>1
    <3>3. f.tag \in {"code0", "codeN", "killed", "error"}
      BY <1>3 DEF Reports
    <3>4. CASE f.tag = "code0"
      <4>1. report.exit_code = {0}
        BY <3>1, <3>4
      <4> QED
        BY <3>4, <4>1 DEF ExitInfo
    <3>5. CASE f.tag = "codeN"
      <4>1. report.exit_code = {1}
        BY <3>1, <3>5
      <4> QED
        BY <3>2, <3>5, <4>1 DEF ExitInfo
    <3>6. CASE f.tag \in {"killed", "error"}
      <4>1. report.exit_code = {} /\ (report.killed <=> f.tag = "killed")
        BY <3>1, <3>6
      <4> QED
        BY <3>2, <3>6, <4>1 DEF ExitInfo
    <3> QED
      BY <3>3, <3>4, <3>5, <3>6
  <2>2. info' = f.tag /\ UNCHANGED <<worker, answer, item, conn>>
    BY <1>3, <2>1 DEF Handle, HandleExit
  <2> QED
    BY <1>3, <2>2 DEF WorkType, ConnType
<1>4. CASE f.kind \notin {"close", "bin", "process_stderr", "server_exited"}
  BY <1>4 DEF Handle, WorkType, ConnType, workVars
<1> QED
  BY <1>1, <1>2, <1>3, <1>4

LEMMA SenderTypes ==
  ASSUME TypeOK, SentOK, Downstream, Sender
  PROVE  TypeOK'
<1> USE TypeParts, Same
<1>0. "sender" \in Workers /\ "failed" \in Answers
  BY DEF Workers, Answers
<1>6. LostType'
  <2>1. CASE StderrFails
    <3>1. worker["sender"] = "writing" /\ lost' = lost \cup {read} /\ read' = read /\ read \in Nat
      BY <2>1 DEF StderrFails, ConnType, connVars
    <3>2. read > 0
      BY <3>1 DEF Downstream, Unwritten
    <3> QED
      BY <3>1, <3>2 DEF LostType
  <2>2. CASE ~StderrFails
    <3>1. lost' = lost /\ read' \in {read, read + 1}
      BY <2>2 DEF Sender, ReadFrame, ReadFails, WriteOut, WriteOutFails, BrokenPipe, appVars, connVars
    <3> QED
      BY <3>1
  <2> QED
    BY <2>1, <2>2
<1>1. CASE ReadFrame
  <2>1. /\ Incoming \in Frames /\ Handle(Incoming) /\ read + 1 <= Len(sent) /\ read' = read + 1
        /\ Incoming.kind = "server_exited" => Incoming.tag \in Reports
    BY <1>1, Arriving DEF ReadFrame, SentOK, Incoming
  <2>2. WorkType' /\ conn' \in {"none", "open", "broken", "closed"}
    BY <2>1, HandleTypes
  <2>3. ConnType'
    BY <1>1, <2>1, <2>2 DEF ReadFrame, ConnType, serverVars
  <2> QED
    BY <1>1, <1>6, <2>2, <2>3 DEF ReadFrame
<1>2. CASE ReadFails
  <2>1. WorkType' /\ ConnType'
    BY <1>0, <1>2 DEF ReadFails, Finish, WorkType, ConnType, serverVars
  <2> QED
    BY <1>2, <1>6, <2>1 DEF ReadFails
<1>3. CASE WriteOut \/ StderrFails
  <2>1. WorkType' /\ AppType'
    BY <1>0, <1>3 DEF WriteOut, StderrFails, Goto, WorkType, AppType
  <2> QED
    BY <1>3, <1>6, <2>1 DEF WriteOut, StderrFails
<1>4. CASE WriteOutFails
  <2>1. WorkType'
    BY <1>0, <1>4 DEF WriteOutFails, Finish, WorkType
  <2> QED
    BY <1>4, <1>6, <2>1 DEF WriteOutFails
<1>5. CASE BrokenPipe
  <2>1. MainType' /\ ConnType'
    BY <1>5 DEF BrokenPipe, MainType, ConnType, serverVars
  <2> QED
    BY <1>5, <1>6, <2>1 DEF BrokenPipe
<1> QED
  BY <1>1, <1>2, <1>3, <1>4, <1>5 DEF Sender

(* What has been sent stays.                                               *)
SentGrows ==
  /\ Len(sent) \in Nat /\ Len(sent') \in Nat /\ Len(sent) <= Len(sent')
  /\ \A i \in 1..Len(sent) : sent'[i] = sent[i]

LEMMA ServerGrows ==
  ASSUME SentOK, Server!Next
  PROVE  SentGrows
<1>1. sent' = sent \/ \E f \in Frames : sent' = Append(sent, f)
  BY ServerSteps
<1> QED
  BY <1>1 DEF SentOK, SentGrows

LEMMA EnvironmentTypes ==
  ASSUME TypeOK, SentOK,
         AppClosesStdin \/ AppVanishes \/ Signal \/ ConnectionBreaks \/ ServerActs
           \/ UNCHANGED vars
  PROVE  TypeOK'
<1> USE TypeParts, Same
<1>0. LostType'
  <2>1. lost' = lost /\ read' = read
    BY DEF AppClosesStdin, AppVanishes, Signal, ConnectionBreaks, ServerActs, vars, appVars, connVars
  <2> QED
    BY <2>1
<1>1. CASE AppClosesStdin \/ AppVanishes
  <2>1. AppType'
    BY <1>1 DEF AppClosesStdin, AppVanishes, AppType
  <2> QED
    BY <1>0, <1>1, <2>1 DEF AppClosesStdin, AppVanishes
<1>2. CASE Signal
  <2>1. MainType'
    BY <1>2 DEF Signal, MainType
  <2> QED
    BY <1>0, <1>2, <2>1 DEF Signal
<1>3. CASE ConnectionBreaks
  <2>1. ConnType'
    BY <1>3 DEF ConnectionBreaks, ConnType, serverVars
  <2> QED
    BY <1>0, <1>3, <2>1 DEF ConnectionBreaks
<1>4. CASE ServerActs
  <2>1. SentGrows
    BY <1>4, ServerGrows DEF ServerActs
  <2>2. ConnType'
    BY <1>4, <2>1 DEF ServerActs, SentGrows, ConnType, connVars
  <2> QED
    BY <1>0, <1>4, <2>2 DEF ServerActs
<1>5. CASE UNCHANGED vars
  BY <1>0, <1>5 DEF vars
<1> QED
  BY <1>1, <1>2, <1>3, <1>4, <1>5

LEMMA NextTypes ==
  ASSUME TypeOK, SentOK, Joins, Downstream, [Next]_vars
  PROVE  TypeOK' /\ SentOK'
<1>1. TypeOK'
  BY MainTypes, ReceiverTypes, SenderTypes, EnvironmentTypes DEF Next
<1>2. CASE ServerActs
  BY <1>1, <1>2, ServerKeepsSent DEF ServerActs
<1>3. CASE ~ServerActs
  <2>1. sent' = sent /\ fate' = fate
    BY <1>3 DEF Next, Main, Dial, Greet, GreetFails, ReceiverFirst, SenderFirst, First, JoinSender,
       JoinReceiver, ProxyReturns, Exit, Receiver, ReadStdin, ReadEof, ReadStdinFails, SendStdin,
       SendShutdown, AwaitCancel, Sender, ReadFrame, ReadFails, WriteOut, WriteOutFails,
       StderrFails, BrokenPipe, AppClosesStdin, AppVanishes, Signal, ConnectionBreaks, vars, serverVars
  <2>2. SentOK'
    BY <2>1 DEF SentOK, Server!Truthful
  <2> QED
    BY <1>1, <2>2
<1> QED
  BY <1>2, <1>3

-----------------------------------------------------------------------------
(* Who changes what.                                                       *)

LEMMA ReceiverOnly ==
  ASSUME TypeOK, Receiver
  PROVE  /\ UNCHANGED <<main, ctx, outcome, code, info, item, input, app, out, lost, read, fate, sent>>
         /\ worker["receiver"] \notin {"off", "done"} /\ worker'["receiver"] # "off"
         /\ worker'["sender"] = worker["sender"] /\ answer'["sender"] = answer["sender"]
         /\ \/ answer'["receiver"] = answer["receiver"]
            \/ answer'["receiver"] \in {"failed", "cancelled"} /\ worker'["receiver"] = "done"
         /\ conn = "closed" => conn' = "closed"
         /\ conn # "none" => conn' # "none"
<1>0. WorkType /\ AppType /\ ConnType
  BY TypeParts
<1>1. /\ "receiver" \in Workers /\ "sender" \in Workers
      /\ Binary(typed) \in Frames /\ Shutdown \in Frames
  BY <1>0, FrameTypes DEF Workers, AppType
<1>2. CASE ReadStdin \/ ReadEof \/ ReadStdinFails \/ AwaitCancel
  BY <1>0, <1>1, <1>2 DEF ReadStdin, ReadEof, ReadStdinFails, AwaitCancel, Goto, Finish, WorkType,
       mainVars, appVars, connVars, serverVars
<1>3. CASE SendStdin \/ SendShutdown
  <2>1. read' = read /\ conn' \in {"open", "broken", "closed"} /\ (conn = "closed" => conn' = "closed")
    BY <1>0, <1>1, <1>3, WriteUp DEF SendStdin, SendShutdown
  <2> QED
    BY <1>0, <1>1, <1>3, <2>1 DEF SendStdin, SendShutdown, Goto, Finish, WorkType,
       mainVars, appVars, serverVars
<1> QED
  BY <1>2, <1>3 DEF Receiver

LEMMA SenderOnly ==
  ASSUME TypeOK, SentOK, Sender
  PROVE  /\ UNCHANGED <<ctx, outcome, typed, input, app, up, fate, sent>>
         /\ worker'["receiver"] = worker["receiver"] /\ answer'["receiver"] = answer["receiver"]
         /\ worker["sender"] \in {"reading", "writing"}
         /\ worker'["sender"] \in {"reading", "writing", "done"}
         /\ answer'["sender"] = answer["sender"] \/ worker'["sender"] = "done"
         /\ \/ main' = main /\ code' = code
            \/ main' = "exited" /\ code' = "sigpipe"
         /\ conn' \in {conn, "closed"}
<1>0. WorkType
  BY TypeParts
<1>1. "receiver" \in Workers /\ "sender" \in Workers
  BY DEF Workers
<1>2. CASE ReadFrame
  <2>1. Handle(Incoming) /\ worker["sender"] = "reading"
        /\ UNCHANGED <<main, ctx, outcome, code, typed, input, app, up, fate, sent>>
    BY <1>2 DEF ReadFrame, mainVars, appVars, serverVars
  <2> QED
    BY <1>0, <1>1, <2>1 DEF Handle, HandleExit, Goto, Finish, WorkType, workVars
<1>3. CASE ReadFails \/ WriteOut \/ WriteOutFails \/ StderrFails
  BY <1>0, <1>1, <1>3 DEF ReadFails, WriteOut, WriteOutFails, StderrFails, Goto, Finish, WorkType,
       mainVars, appVars, connVars, serverVars
<1>4. CASE BrokenPipe
  BY <1>0, <1>1, <1>4 DEF BrokenPipe, workVars, appVars, serverVars
<1> QED
  BY <1>2, <1>3, <1>4 DEF Sender

Environment == AppClosesStdin \/ AppVanishes \/ Signal \/ ConnectionBreaks \/ ServerActs

LEMMA EnvironmentOnly ==
  ASSUME TypeOK, SentOK, Environment \/ UNCHANGED vars
  PROVE  /\ UNCHANGED <<main, outcome, code, worker, answer, info, item, typed, out, lost, up, read>>
         /\ input' = input \/ input' = "eof"
         /\ conn' = conn \/ (conn = "open" /\ conn' = "broken")
         /\ SentGrows /\ (conn = "closed" => UNCHANGED <<fate, sent>>)
<1>1. CASE ServerActs
  <2>1. SentGrows
    BY <1>1, ServerGrows DEF ServerActs
  <2> QED
    BY <1>1, <2>1 DEF ServerActs, mainVars, workVars, appVars, connVars
<1>2. CASE AppClosesStdin \/ AppVanishes \/ Signal \/ ConnectionBreaks \/ UNCHANGED vars
  <2>1. UNCHANGED <<fate, sent>>
    BY <1>2 DEF AppClosesStdin, AppVanishes, Signal, ConnectionBreaks, vars, serverVars
  <2>2. SentGrows
    BY <2>1 DEF SentOK, SentGrows
  <2> QED
    BY <1>2, <2>1, <2>2 DEF AppClosesStdin, AppVanishes, Signal, ConnectionBreaks, vars,
       mainVars, workVars, appVars, connVars, serverVars
<1> QED
  BY <1>1, <1>2 DEF Environment

LEMMA MainOnly ==
  ASSUME TypeOK, SentOK, Joins, Main
  PROVE  /\ UNCHANGED <<info, item, typed, input, app, out, lost, up, fate, sent>>
         /\ \/ worker' = worker /\ read' = read
            \/ main = "greeting" /\ Arrived /\ read' = 1 /\ Greet
         /\ conn = "closed" => conn' = "closed"
         /\ conn' \in {"none", "open"} => conn' = conn \/ main = "dialing"
BY Arriving, TypeParts
   DEF Main, Dial, Greet, GreetFails, ReceiverFirst, SenderFirst, First, JoinSender, JoinReceiver,
       ProxyReturns, Exit, workVars, appVars, connVars, serverVars, Joins

LEMMA FourActors ==
  [Next]_vars => \/ main # "exited" /\ (Main \/ Receiver \/ Sender)
                 \/ Environment \/ UNCHANGED vars
BY DEF Next, Environment

-----------------------------------------------------------------------------
(* The sender is joined.                                                   *)

LEMMA JoinsKept ==
  ASSUME TypeOK, SentOK, Joins, [Next]_vars
  PROVE  Joins'
<1> USE DEF Joins, SenderIsJoined
<1>0. WorkType /\ "receiver" \in Workers /\ "sender" \in Workers
      /\ \A w \in Workers : w = "receiver" \/ w = "sender"
  BY TypeParts DEF Workers
<1>1. CASE main # "exited" /\ Main
  <2>1. CASE Dial
    BY <1>0, <2>1 DEF Dial, workVars, appVars
  <2>2. CASE Greet
    <3>1. conn # "none" /\ conn' # "none" /\ main = "greeting" /\ code' = code
      BY <2>2, Arriving, TypeParts DEF Greet
    <3>2. \/ worker' = worker /\ main' = "returning" /\ UNCHANGED answer
          \/ /\ worker' = [w \in Workers |-> "reading"]
             /\ main' = "select" /\ UNCHANGED answer
      BY <2>2 DEF Greet
    <3>3. \A w \in Workers : worker[w] = "off" /\ answer[w] = "none"
      BY <1>0, <2>2 DEF Greet, WorkType
    <3> QED
      BY <1>0, <3>1, <3>2, <3>3
  <2>3. CASE GreetFails
    BY <1>0, <2>3 DEF GreetFails, workVars
  <2>4. CASE ReceiverFirst
    BY <1>0, <2>4 DEF ReceiverFirst, First, Answered, Answers, WorkType, connVars
  <2>5. CASE SenderFirst
    BY <1>0, <2>5 DEF SenderFirst, First, Answered, Answers, WorkType, connVars
  <2>6. CASE JoinSender
    BY <1>0, <2>6 DEF JoinSender, Answered, Answers, WorkType, connVars
  <2>7. CASE JoinReceiver
    BY <1>0, <2>7 DEF JoinReceiver, Answered, Answers, WorkType, connVars
  <2>8. CASE ProxyReturns
    BY <2>8 DEF ProxyReturns, workVars, connVars
  <2>9. CASE Exit
    BY <2>9 DEF Exit, workVars
  <2> QED
    BY <1>1, <2>1, <2>2, <2>3, <2>4, <2>5, <2>6, <2>7, <2>8, <2>9 DEF Main
<1>2. CASE Receiver
  BY <1>0, <1>2, ReceiverOnly
<1>3. CASE main # "exited" /\ Sender
  <2>1. main \notin {"dialing", "greeting", "joinReceiver"}
    BY <1>0, <1>3, SenderOnly
  <2> QED
    BY <1>0, <1>3, <2>1, SenderOnly
<1>4. CASE Environment \/ UNCHANGED vars
  BY <1>4, EnvironmentOnly
<1> QED
  BY <1>1, <1>2, <1>3, <1>4, FourActors

-----------------------------------------------------------------------------
(* What the server is given.                                               *)

LEMMA UpstreamKept ==
  ASSUME TypeOK, SentOK, Joins, Upstream, [Next]_vars
  PROVE  Upstream'
<1>0. WorkType /\ AppType /\ ConnType /\ "receiver" \in Workers
  BY TypeParts DEF Workers
<1>1. ASSUME UNCHANGED <<up, typed>>, input' = input \/ input' = "eof",
             worker'["receiver"] = worker["receiver"],
             conn' \in {"none", "open"} => conn \in {"none", "open"}
      PROVE  Upstream'
  BY <1>1 DEF Upstream, UpstreamInOrder
<1>2. CASE Main
  <2>1. CASE worker' = worker
    BY <1>1, <1>2, <2>1, MainOnly DEF Joins
  <2>2. CASE worker' # worker
    <3>1. Greet /\ worker["receiver"] = "off"
      BY <1>0, <1>2, <2>2, MainOnly DEF Joins
    <3>2. /\ worker'["receiver"] = "reading" /\ UNCHANGED <<typed, input, up>>
          /\ conn' = conn \/ conn' = "closed"
      BY <1>0, <2>2, <3>1 DEF Greet, appVars
    <3> QED
      BY <3>1, <3>2 DEF Upstream, UpstreamInOrder
  <2> QED
    BY <2>1, <2>2
<1>3. CASE Receiver
  <2>1. CASE ReadStdin
    <3>1. /\ worker["receiver"] = "reading" /\ worker'["receiver"] = "writing"
          /\ typed' = typed + 1 /\ UNCHANGED <<up, conn, input>>
      BY <1>0, <2>1 DEF ReadStdin, Goto, WorkType, connVars
    <3> QED
      BY <1>0, <3>1 DEF Upstream, UpstreamInOrder, AppType, ConnType
  <2>2. CASE ReadEof
    <3>1. /\ worker["receiver"] = "reading" /\ worker'["receiver"] = "shutdown"
          /\ input = "eof" /\ UNCHANGED <<up, conn, input, typed>>
      BY <1>0, <2>2 DEF ReadEof, Goto, WorkType, connVars, appVars
    <3> QED
      BY <3>1 DEF Upstream, UpstreamInOrder
  <2>3. CASE ReadStdinFails \/ AwaitCancel
    <3>1. worker'["receiver"] = "done" /\ UNCHANGED <<up, conn, input, typed>>
      BY <1>0, <2>3 DEF ReadStdinFails, AwaitCancel, Finish, WorkType, connVars, appVars
    <3> QED
      BY <3>1 DEF Upstream, UpstreamInOrder
  <2>4. ASSUME NEW ok \in BOOLEAN, NEW frame \in Frames, WsWrite("receiver", frame, ok),
               UNCHANGED <<input, typed>>,
               worker'["receiver"] = IF ok THEN worker'["receiver"] ELSE "done",
               \/ /\ worker["receiver"] = "writing" /\ frame = Binary(typed)
                  /\ ok => worker'["receiver"] = "reading"
               \/ /\ worker["receiver"] = "shutdown" /\ frame = Shutdown
                  /\ ok => worker'["receiver"] = "waiting"
        PROVE  Upstream'
    <3>1. /\ conn' \in {"open", "broken", "closed"} /\ (conn' = "open" => conn = "open")
          /\ \/ up' = up /\ (ok => conn' # "open")
             \/ conn = "open" /\ up' = Append(up, frame) /\ (ok \/ conn' = "closed")
      BY <1>0, <2>4, WriteUp
    <3>2. CASE up' = up
      BY <2>4, <3>1, <3>2 DEF Upstream, UpstreamInOrder
    <3>3. CASE conn = "open" /\ up' = Append(up, frame) /\ (ok \/ conn' = "closed")
      <4>1. /\ Len(up') = Len(up) + 1 /\ up'[Len(up) + 1] = frame /\ Len(up) \in Nat
            /\ \A i \in 1..Len(up) : up'[i] = up[i]
            /\ \A i \in 1..(Len(up) + 1) : i \in 1..Len(up) \/ i = Len(up) + 1
        BY <1>0, <2>4, <3>3 DEF ConnType
      <4>2. \A i \in 1..Len(up) : up'[i] = Binary(i)
        BY <2>4, <4>1 DEF Upstream
      <4>3. CASE worker["receiver"] = "writing"
        <5>1. /\ frame = Binary(Len(up) + 1) /\ Len(up') = typed'
              /\ worker'["receiver"] = "reading" \/ (worker'["receiver"] = "done" /\ conn' = "closed")
          BY <2>4, <3>3, <4>1, <4>3 DEF Upstream
        <5>2. \A i \in 1..Len(up') : up'[i] = Binary(i)
          BY <4>1, <4>2, <5>1
        <5> QED
          BY <5>1, <5>2 DEF Upstream, UpstreamInOrder
      <4>4. CASE worker["receiver"] = "shutdown"
        <5>1. /\ frame = Shutdown /\ worker'["receiver"] \in {"waiting", "done"} /\ Len(up) = typed'
              /\ input' = "eof" /\ (worker'["receiver"] = "waiting" \/ conn' = "closed")
          BY <2>4, <3>3, <4>4 DEF Upstream
        <5>2. UpstreamInOrder'
          BY <4>1, <4>2, <5>1 DEF UpstreamInOrder
        <5> QED
          BY <5>1, <5>2 DEF Upstream
      <4> QED
        BY <2>4, <4>3, <4>4
    <3> QED
      BY <3>1, <3>2, <3>3
  <2>5. CASE SendStdin
    <3>1. PICK ok \in BOOLEAN :
            /\ WsWrite("receiver", Binary(typed), ok)
            /\ IF ok THEN Goto("receiver", "reading") ELSE Finish("receiver", "failed")
      BY <2>5 DEF SendStdin
    <3>2. /\ worker["receiver"] = "writing" /\ UNCHANGED <<input, typed>>
          /\ IF ok THEN worker'["receiver"] = "reading" ELSE worker'["receiver"] = "done"
      BY <1>0, <2>5, <3>1 DEF SendStdin, Goto, Finish, WorkType, appVars
    <3>3. Binary(typed) \in Frames
      BY <1>0, FrameTypes DEF AppType
    <3> QED
      BY <2>4, <3>1, <3>2, <3>3
  <2>6. CASE SendShutdown
    <3>1. PICK ok \in BOOLEAN :
            /\ WsWrite("receiver", Shutdown, ok)
            /\ IF ok THEN Goto("receiver", "waiting") ELSE Finish("receiver", "failed")
      BY <2>6 DEF SendShutdown
    <3>2. /\ worker["receiver"] = "shutdown" /\ UNCHANGED <<input, typed>>
          /\ IF ok THEN worker'["receiver"] = "waiting" ELSE worker'["receiver"] = "done"
      BY <1>0, <2>6, <3>1 DEF SendShutdown, Goto, Finish, WorkType, appVars
    <3> QED
      BY <2>4, <3>1, <3>2, FrameTypes
  <2> QED
    BY <1>3, <2>1, <2>2, <2>3, <2>5, <2>6 DEF Receiver
<1>4. CASE Sender
  BY <1>1, <1>4, SenderOnly
<1>5. CASE Environment \/ UNCHANGED vars
  BY <1>1, <1>5, EnvironmentOnly
<1> QED
  BY <1>2, <1>3, <1>4, <1>5, FourActors

-----------------------------------------------------------------------------
(* What the application is given.                                          *)

LEMMA DownstreamKept ==
  ASSUME TypeOK, SentOK, Joins, Downstream, [Next]_vars
  PROVE  Downstream'
<1>0. /\ WorkType /\ AppType /\ ConnType /\ "sender" \in Workers
      /\ read \in Nat /\ read <= Len(sent) /\ out \in Seq(Frames) /\ Len(sent) \in Nat
      /\ lost \subseteq 1..read
  BY TypeParts DEF Workers, AppType, ConnType, LostType, SentOK
<1>1. ASSUME UNCHANGED <<out, lost, item, read>>, worker'["sender"] = worker["sender"], SentGrows
      PROVE  Downstream'
  <2>1. \A k \in 1..read : sent'[k] = sent[k]
    BY <1>0, <1>1 DEF SentGrows
  <2>2. Shown(out, sent, read, lost) => Shown(out, sent', read, lost)
    BY <1>0, <2>1, ShownStays
  <2>3. Unwritten => Unwritten'
    <3> SUFFICES ASSUME Unwritten PROVE Unwritten'
      OBVIOUS
    <3>1. read - 1 \in Nat /\ read \in 1..read /\ \A k \in 1..(read - 1) : k \in 1..read
      BY <1>0 DEF Unwritten
    <3>2. Shown(out, sent', read - 1, lost)
      BY <2>1, <3>1, ShownStays DEF Unwritten
    <3> QED
      BY <1>1, <2>1, <3>1, <3>2 DEF Unwritten
  <2>4. \A k \in lost : sent'[k].kind = "process_stderr"
    BY <1>0, <2>1 DEF Downstream
  <2> QED
    BY <1>1, <2>2, <2>3, <2>4 DEF Downstream
<1>2. ASSUME UNCHANGED sent PROVE SentGrows
  BY <1>0, <1>2 DEF SentGrows
<1>3. CASE Main
  <2>1. CASE worker' = worker /\ read' = read
    BY <1>1, <1>2, <1>3, <2>1, MainOnly
  <2>2. CASE Greet /\ Arrived
    <3>1. /\ read = 0 /\ out = <<>> /\ lost = {} /\ read' = 1 /\ UNCHANGED <<out, lost, sent>>
          /\ worker'["sender"] \in {"off", "reading"}
      BY <1>0, <2>2 DEF Greet, Joins, appVars, serverVars
    <3>2. /\ sent[0 + 1] \in Frames /\ sent[0 + 1].kind \notin {"bin", "process_stderr"}
          /\ <<>> \in Seq(Frames)
      BY <1>0, <2>2, <3>1 DEF Arrived, SentOK
    <3>3. Shown(<<>>, sent, 0 + 1, {})
      BY <3>2, ShownNothing, ShownBut
    <3> QED
      BY <3>1, <3>3 DEF Downstream
  <2> QED
    BY <1>3, <2>1, <2>2, MainOnly
<1>4. CASE Receiver
  BY <1>1, <1>2, <1>4, ReceiverOnly
<1>5. CASE Sender
  <2>1. CASE ReadFrame
    <3> DEFINE f == Incoming
    <3>1. /\ f \in Frames /\ f = sent[read + 1] /\ worker["sender"] = "reading"
          /\ read' = read + 1 /\ Handle(f) /\ UNCHANGED <<out, lost, sent>>
      BY <1>0, <2>1, Arriving DEF ReadFrame, appVars, serverVars, Incoming
    <3> HIDE DEF f
    <3>2. Shown(out, sent, read, lost) /\ \A k \in lost : sent[k].kind = "process_stderr"
      BY <3>1 DEF Downstream
    <3>3. CASE f.kind \in {"bin", "process_stderr"}
      <4>1. worker'["sender"] = "writing" /\ item' = f
        BY <1>0, <3>1, <3>3 DEF Handle, Goto, WorkType
      <4>2. read' > 0 /\ read' - 1 = read
        BY <1>0, <3>1
      <4>3. Unwritten'
        BY <1>0, <3>1, <3>2, <3>3, <4>1, <4>2 DEF Unwritten
      <4> QED
        BY <3>1, <3>2, <4>1, <4>3 DEF Downstream
    <3>4. CASE f.kind \notin {"bin", "process_stderr"}
      <4>1. worker'["sender"] \in {"reading", "done"}
        BY <1>0, <3>1, <3>4 DEF Handle, HandleExit, Finish, WorkType, workVars
      <4>2. Shown(out, sent, read + 1, lost)
        BY <1>0, <3>1, <3>2, <3>4, ShownBut
      <4> QED
        BY <3>1, <3>2, <4>1, <4>2 DEF Downstream
    <3> QED
      BY <3>3, <3>4
  <2>2. CASE ReadFails \/ WriteOutFails
    <3>1. /\ worker["sender"] \in {"reading", "writing"} /\ worker'["sender"] = "done"
          /\ UNCHANGED <<out, lost, item, read, sent>>
      BY <1>0, <2>2 DEF ReadFails, WriteOutFails, Finish, WorkType, appVars, connVars, serverVars
    <3> QED
      BY <3>1 DEF Downstream, Unwritten
  <2>3. ASSUME worker["sender"] = "writing", worker'["sender"] = "reading", UNCHANGED <<read, sent>>,
               Shown(out', sent, read, lost'), lost' \subseteq lost \cup {read},
               read \in lost' => item.kind = "process_stderr"
        PROVE  Downstream'
    <3>1. read \in lost' => sent[read].kind = "process_stderr"
      BY <2>3 DEF Downstream, Unwritten
    <3>2. \A k \in lost' : sent[k].kind = "process_stderr"
      BY <2>3, <3>1 DEF Downstream
    <3> QED
      BY <2>3, <3>2 DEF Downstream
  <2>5. CASE WriteOut
    <3>1. /\ worker["sender"] = "writing" /\ worker'["sender"] = "reading"
          /\ out' = Append(out, item) /\ UNCHANGED <<lost, read, sent>>
      BY <1>0, <2>5 DEF WriteOut, Goto, WorkType, connVars, serverVars
    <3>2. /\ Unwritten /\ read - 1 \in Nat /\ (read - 1) + 1 = read /\ item \in Frames
          /\ read \notin lost
      BY <1>0, <3>1 DEF Downstream, Unwritten, WorkType
    <3>3. Shown(out', sent, read, lost)
      BY <1>0, <3>1, <3>2, ShownOn DEF Unwritten
    <3> QED
      BY <2>3, <3>1, <3>2, <3>3
  <2>6. CASE StderrFails
    <3>1. /\ worker["sender"] = "writing" /\ worker'["sender"] = "reading"
          /\ item.kind = "process_stderr" /\ lost' = lost \cup {read} /\ UNCHANGED <<out, read, sent>>
      BY <1>0, <2>6 DEF StderrFails, Goto, WorkType, connVars, serverVars
    <3>2. Unwritten /\ read - 1 \in Nat /\ (read - 1) + 1 = read
      BY <1>0, <3>1 DEF Downstream, Unwritten
    <3>3. Shown(out, sent, read, lost')
      BY <3>1, <3>2, ShownBut DEF Unwritten
    <3> QED
      BY <2>3, <3>1, <3>3
  <2>4. CASE BrokenPipe
    BY <1>1, <1>2, <2>4 DEF BrokenPipe, workVars, appVars, serverVars
  <2> QED
    BY <1>5, <2>1, <2>2, <2>4, <2>5, <2>6 DEF Sender
<1>6. CASE Environment \/ UNCHANGED vars
  BY <1>1, <1>6, EnvironmentOnly
<1> QED
  BY <1>3, <1>4, <1>5, <1>6, FourActors

-----------------------------------------------------------------------------
(* The client's account.                                                   *)

(* What the client was told stays where it read it.                        *)
LEMMA InfoStays ==
  ASSUME ConnType, ConnType', SentGrows, read <= read', UNCHANGED info,
         info # "none" =>
           \E i \in 1..read : sent[i].kind = "server_exited" /\ sent[i].tag = info
  PROVE  info' # "none" =>
           \E i \in 1..read' : sent'[i].kind = "server_exited" /\ sent'[i].tag = info'
<1> SUFFICES ASSUME info # "none"
             PROVE  \E i \in 1..read' : sent'[i].kind = "server_exited" /\ sent'[i].tag = info
  OBVIOUS
<1>1. PICK i \in 1..read : sent[i].kind = "server_exited" /\ sent[i].tag = info
  OBVIOUS
<1>2. i \in 1..read' /\ i \in 1..Len(sent)
  BY DEF ConnType, SentGrows
<1> QED
  BY <1>1, <1>2 DEF SentGrows

LEMMA AccountKept ==
  ASSUME TypeOK, TypeOK', SentOK, Joins, Downstream, Account, [Next]_vars
  PROVE  Account'
<1>0. /\ WorkType /\ AppType /\ LostType /\ ConnType /\ ConnType' /\ "sender" \in Workers
      /\ "receiver" \in Workers /\ read \in Nat /\ Len(sent) \in Nat
  BY TypeParts DEF Workers, ConnType, SentOK, TypeOK
<1> DEFINE Told == info # "none" =>
             \E i \in 1..read : sent[i].kind = "server_exited" /\ sent[i].tag = info
           Normal == answer["sender"] = "normal" \/ outcome = "normal"
           Whole == /\ conn = "closed" /\ worker["sender"] = "done" /\ Shown(out, sent, Len(sent), lost)
                    /\ \E i \in 1..Len(sent) : sent[i] = Close("normal")
<1>1. Told /\ answer["receiver"] # "normal" /\ (Normal => Whole)
  BY DEF Account
<1>2. ASSUME Told', answer'["receiver"] # "normal", Normal' => Whole'
      PROVE  Account'
  BY <1>2 DEF Account
<1>3. ASSUME SentGrows, read <= read', info' = info PROVE Told'
  BY <1>0, <1>1, <1>3, InfoStays
<1>4. ASSUME UNCHANGED sent PROVE SentGrows
  BY <1>0, <1>4 DEF SentGrows
<1>5. ASSUME UNCHANGED <<sent, out, lost>>, Whole,
             conn = "closed" => conn' = "closed", worker'["sender"] = worker["sender"]
      PROVE  Whole'
  BY <1>5
<1> HIDE DEF Told, Normal, Whole
<1>6. CASE Main
  <2>1. Told'
    <3>1. info' = info /\ sent' = sent /\ (read' = read \/ (read = 0 /\ read' = 1))
      BY <1>6, MainOnly DEF Joins
    <3> QED
      BY <1>0, <1>3, <1>4, <3>1
  <2>2. answer'["receiver"] # "normal"
    BY <1>0, <1>1, <1>6 DEF Main, Dial, Greet, GreetFails, ReceiverFirst, SenderFirst, First,
       JoinSender, JoinReceiver, ProxyReturns, Exit, workVars, WorkType
  <2>3. ASSUME Normal' PROVE Normal
    BY <1>0, <1>1, <1>6, <2>3 DEF Normal, Main, Dial, Greet, GreetFails, ReceiverFirst, SenderFirst,
       First, JoinSender, JoinReceiver, ProxyReturns, Exit, workVars, WorkType
  <2>4. ASSUME Normal PROVE Whole'
    <3>1. Whole /\ worker["sender"] = "done" /\ conn = "closed"
      BY <1>1, <2>4 DEF Whole
    <3>2. worker' = worker /\ UNCHANGED <<sent, out, lost>> /\ conn' = "closed"
      BY <1>0, <1>6, <3>1, MainOnly DEF Joins
    <3> QED
      BY <1>5, <3>1, <3>2
  <2> QED
    BY <1>2, <2>1, <2>2, <2>3, <2>4
<1>7. CASE Receiver
  <2>1. Told' /\ answer'["receiver"] # "normal"
    BY <1>0, <1>1, <1>3, <1>4, <1>7, ReceiverOnly
  <2>2. Normal' => Whole'
    BY <1>1, <1>5, <1>7, ReceiverOnly DEF Normal
  <2> QED
    BY <1>2, <2>1, <2>2
<1>8. CASE Sender
  <2>1. ~Normal
    BY <1>1, <1>8, SenderOnly DEF Whole
  <2>2. outcome' # "normal" /\ answer'["receiver"] # "normal"
    BY <1>1, <1>8, <2>1, SenderOnly DEF Normal
  <2>3. CASE ReadFrame
    <3> DEFINE f == Incoming
               i == read + 1
    <3>1. /\ f \in Frames /\ f = sent[i] /\ i \in 1..Len(sent) /\ worker["sender"] = "reading"
          /\ read' = i /\ Handle(f) /\ UNCHANGED <<out, lost, sent>> /\ i \in 1..i
      BY <1>0, <2>3, Arriving DEF ReadFrame, appVars, serverVars, Incoming
    <3>2. f.kind = "server_exited" => f.tag \in Reports
      BY <3>1 DEF SentOK
    <3> HIDE DEF f
    <3>3. Told'
      <4>1. CASE f.kind = "server_exited"
        <5>1. info' = f.tag
          BY <1>0, <3>1, <3>2, <4>1, HandleTypes
        <5> QED
          BY <3>1, <4>1, <5>1 DEF Told
      <4>2. CASE f.kind # "server_exited"
        <5>1. info' = info
          BY <3>1, <4>2 DEF Handle, workVars
        <5> QED
          BY <1>0, <1>3, <1>4, <3>1, <5>1
      <4> QED
        BY <4>1, <4>2
    <3>4. ASSUME Normal' PROVE Whole'
      <4>1. answer'["sender"] = "normal"
        BY <2>2, <3>4 DEF Normal
      <4>2. answer["sender"] # "normal"
        BY <2>1 DEF Normal
      <4>3. f.kind = "close" /\ f.tag = "normal"
        BY <1>0, <3>1, <4>1, <4>2 DEF Handle, HandleExit, Goto, Finish, CloseAnswer, WorkType, workVars
      <4>4. conn' = "closed" /\ worker'["sender"] = "done"
        BY <1>0, <3>1, <4>3 DEF Handle, Finish, WorkType
      <4>5. i = Len(sent) /\ f = Close("normal")
        BY <3>1, <4>3 DEF SentOK
      <4>6. Shown(out, sent, i, lost)
        <5>1. Shown(out, sent, read, lost) /\ lost \subseteq 1..read
          BY <1>0, <3>1 DEF Downstream, LostType
        <5> QED
          BY <1>0, <3>1, <4>3, <5>1, ShownBut
      <4> QED
        BY <3>1, <4>4, <4>5, <4>6 DEF Whole
    <3> QED
      BY <1>2, <2>2, <3>3, <3>4
  <2>4. CASE ~ReadFrame
    <3>1. /\ UNCHANGED <<read, info, sent>>
          /\ answer'["sender"] \in {answer["sender"], "failed"}
      BY <1>0, <1>8, <2>4 DEF Sender, ReadFails, WriteOut, WriteOutFails, StderrFails, BrokenPipe, Goto, Finish,
         WorkType, workVars, connVars, serverVars
    <3>2. ~Normal' /\ Told'
      BY <1>0, <1>3, <1>4, <2>1, <2>2, <3>1 DEF Normal
    <3> QED
      BY <1>2, <2>2, <3>2
  <2> QED
    BY <2>3, <2>4
<1>9. CASE Environment \/ UNCHANGED vars
  <2>1. Told' /\ answer'["receiver"] # "normal"
    BY <1>0, <1>1, <1>3, <1>9, EnvironmentOnly
  <2>2. ASSUME Normal' PROVE Whole'
    <3>1. Whole /\ conn = "closed"
      BY <1>1, <1>9, <2>2, EnvironmentOnly DEF Normal, Whole
    <3> QED
      BY <1>5, <1>9, <3>1, EnvironmentOnly
  <2> QED
    BY <1>2, <2>1, <2>2
<1> QED
  BY <1>6, <1>7, <1>8, <1>9, FourActors

-----------------------------------------------------------------------------
(* The theorems.                                                           *)

LEMMA InitCInv == Init => CInv
<1> SUFFICES ASSUME Init PROVE CInv
  OBVIOUS
<1>1. TypeOK /\ SentOK
  BY InitTypes
<1>2. /\ main = "dialing" /\ conn = "none" /\ read = 0 /\ out = <<>> /\ lost = {} /\ up = <<>> /\ code = "none"
      /\ outcome = "none" /\ info = "none" /\ typed = 0 /\ input = "open"
      /\ \A w \in Workers : worker[w] = "off" /\ answer[w] = "none"
      /\ "receiver" \in Workers /\ "sender" \in Workers
  BY DEF Init, Workers
<1>3. Len(up) = 0
  BY <1>2
<1>4. Joins
  BY <1>2 DEF Joins, SenderIsJoined
<1>5. Upstream
  BY <1>2, <1>3 DEF Upstream, UpstreamInOrder
<1>6. Downstream
  BY <1>2, ShownNothing DEF Downstream
<1>7. Account
  BY <1>2 DEF Account
<1> QED
  BY <1>1, <1>4, <1>5, <1>6, <1>7 DEF CInv

LEMMA NextCInv == CInv /\ [Next]_vars => CInv'
<1> SUFFICES ASSUME CInv, [Next]_vars PROVE CInv'
  OBVIOUS
<1>1. TypeOK' /\ SentOK'
  BY NextTypes DEF CInv
<1>2. Joins' /\ Upstream' /\ Downstream'
  BY JoinsKept, UpstreamKept, DownstreamKept DEF CInv
<1>3. Account'
  BY <1>1, AccountKept DEF CInv
<1> QED
  BY <1>1, <1>2, <1>3 DEF CInv

LEMMA Invariant == Spec => []CInv
BY InitCInv, NextCInv, PTL DEF Spec

(* Every variable of client/proxy.go's run keeps its type; in particular   *)
(* the client never reads past what the server has sent.                   *)
THEOREM TypeCorrect == Spec => []TypeOK
<1>1. CInv => TypeOK
  BY DEF CInv
<1> QED
  BY <1>1, Invariant, PTL

(* senderStdout gives the application the server's chunks and lines in the *)
(* order they were sent.  Missing are at most the lines whose write to     *)
(* stderr failed and the last frame that was read.                         *)
THEOREM OutputIsInOrder == Spec => []OutputInOrder
<1>1. CInv => OutputInOrder
  <2> SUFFICES ASSUME CInv PROVE OutputInOrder
    OBVIOUS
  <2>1. /\ worker["sender"] \in {"off", "reading", "writing", "done"}
        /\ worker["sender"] = "done" => conn # "none"
    BY DEF CInv, Joins
  <2> QED
    BY <2>1 DEF CInv, Downstream, Unwritten, OutputInOrder
<1> QED
  BY <1>1, Invariant, PTL

(* When proxy returns with the normal closure, the process ended with 0    *)
(* and all the server sent before is out, but for lines of stderr that     *)
(* could not be written.                                                   *)
THEOREM NormalEndHasAll == Spec => []NormalEndIsComplete
<1>1. CInv => NormalEndIsComplete
  BY DEF CInv, SentOK, Account, NormalEndIsComplete
<1> QED
  BY <1>1, Invariant, PTL

(* exitInfo, as the switch of senderStdout sets it, is how the process     *)
(* ended, and no failure is remembered beside a normal closure.            *)
THEOREM ExitInfoIsTrue == Spec => []ExitInfoTruthful
<1>1. CInv => ExitInfoTruthful
  <2> SUFFICES ASSUME CInv PROVE ExitInfoTruthful
    OBVIOUS
  <2>1. CASE info = "none"
    BY <2>1 DEF ExitInfoTruthful
  <2>2. CASE info # "none"
    <3>1. PICK i \in 1..read : sent[i].kind = "server_exited" /\ sent[i].tag = info
      BY <2>2 DEF CInv, Account
    <3>2. i \in 1..Len(sent)
      BY <3>1, TypeParts DEF CInv, ConnType, SentOK
    <3>3. info \in Reports /\ Server!Truthful(info)
      BY <3>1, <3>2 DEF CInv, SentOK
    <3>4. outcome = "normal" => fate = "exit0" /\ info # "error"
      BY <3>1, <3>2 DEF CInv, SentOK, Account
    <3> QED
      BY <3>3, <3>4 DEF ExitInfoTruthful, Server!Truthful, Reports
  <2> QED
    BY <2>1, <2>2
<1> QED
  BY <1>1, Invariant, PTL

(* receiverStdin sends the chunks of stdin once and in order, shutdown     *)
(* after the last of them and nothing after shutdown.                      *)
THEOREM UpstreamIsInOrder == Spec => []UpstreamInOrder
<1>1. CInv => UpstreamInOrder
  BY DEF CInv, Upstream
<1> QED
  BY <1>1, Invariant, PTL

(* proxy returns only after senderStdout has ended, or before it started.  *)
THEOREM SenderAlwaysJoined == Spec => []SenderIsJoined
<1>1. CInv => SenderIsJoined
  BY DEF CInv, Joins
<1> QED
  BY <1>1, Invariant, PTL
=============================================================================
