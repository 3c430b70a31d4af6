---------------------- MODULE ClientSessionProperties ----------------------
(***************************************************************************)
(* What a run of the proxy client promises the application that launched   *)
(* it and the server it talks to.                                          *)
(***************************************************************************)
EXTENDS ClientSession

(* Every variable holds a value of its type.                               *)
TypeOK ==
  /\ main \in {"dialing", "greeting", "select", "joinSender", "joinReceiver",
              "returning", "closing", "exited"}
  /\ ctx \subseteq {"running"} \cup Workers
  /\ outcome \in Answers \cup {"none", "dial", "greeting"}
  /\ code \in {"none", "2", "3", "sigpipe"}
  /\ worker \in [Workers -> {"off", "reading", "writing", "shutdown", "waiting", "done"}]
  /\ answer \in [Workers -> Answers \cup {"none", "taken"}]
  /\ info \in Reports \cup {"none"}
  /\ item \in Frames
  /\ typed \in Nat
  /\ input \in {"open", "eof"}
  /\ app \in {"reading", "gone"}
  /\ out \in Seq(Frames)
  /\ conn \in {"none", "open", "broken", "closed"}
  /\ up \in Seq(Frames)
  /\ read \in Nat /\ read <= Len(sent)
  /\ lost \subseteq 1..read

(* Of the first n frames those for local stdout or stderr.                 *)
OutputAt(frames, n) == {k \in 1..n : frames[k].kind \in {"bin", "process_stderr"}}

(* The frames o are exactly these without the missing ones, in order.      *)
Shown(o, frames, n, missing) ==
  \E at \in [1..Len(o) -> 1..n] :
    /\ {at[i] : i \in 1..Len(o)} = OutputAt(frames, n) \ missing
    /\ \A i, j \in 1..Len(o) : i < j => at[i] < at[j]
    /\ \A i \in 1..Len(o) : o[i] = frames[at[i]]

(* What the application reads is what the server sent, from the first      *)
(* frame on and in order.  Every chunk of stdout the client has read is    *)
(* there, and every line of stderr but those whose own write to stderr     *)
(* failed; only the last frame the client read may be outstanding, while   *)
(* senderStdout is still writing it or because it ended over it.           *)
OutputInOrder ==
  LET pending == worker["sender"] = "writing" \/ (worker["sender"] = "done" /\ conn # "none")
  IN  /\ \A k \in lost : sent[k].kind = "process_stderr"
      /\ \/ Shown(out, sent, read, lost)
         \/ pending /\ read > 0 /\ Shown(out, sent, read - 1, lost)

(* When proxy reports a normal closure the process exited with 0, and the  *)
(* application has been given every frame the server sent before it: all   *)
(* of stdout, and every line of stderr that could be written.              *)
NormalEndIsComplete ==
  outcome = "normal" => fate = "exit0" /\ Shown(out, sent, Len(sent), lost)

(* exitInfo, which the message of the client quotes, tells how the process *)
(* ended: null is neither 0 nor an exit code, killed is not an error.      *)
ExitInfoTruthful ==
  /\ info = "code0"  => fate = "exit0"
  /\ info = "codeN"  => fate = "exitN"
  /\ info = "killed" => fate = "killed"
  /\ info = "error"  => fate = "exit0"
  /\ outcome = "normal" => info \in {"none", "code0"}

(* What the server may count on: the chunks of stdin arrive once and in    *)
(* order, shutdown follows the last one that was read, and nothing follows *)
(* shutdown.                                                               *)
UpstreamInOrder ==
  \A i \in 1..Len(up) :
    \/ up[i] = Binary(i)
    \/ up[i] = Shutdown /\ i = Len(up) /\ i = typed + 1 /\ input = "eof"

(* Nothing is written to stdout once proxy has returned: the sender is     *)
(* always joined, whichever worker came first.                             *)
SenderIsJoined ==
  main \in {"returning", "closing", "exited"} /\ code # "sigpipe" =>
    worker["sender"] \in {"off", "done"}

-----------------------------------------------------------------------------
(* Liveness.                                                               *)

ClientExited == main = "exited"

(* A signal ends the client wherever it is, also when stdin gives nothing  *)
(* and the server does not read; so does the loss or the closure of the    *)
(* connection.                                                             *)
SignalOrLossEndsClient ==
  ("running" \in ctx \/ conn \in {"broken", "closed"}) ~> ClientExited

(* The end of stdin ends the client once it is connected, by the server's  *)
(* answer to shutdown.                                                     *)
EofEndsClient ==
  AttentiveServer =>
    ((input = "eof" /\ main = "select") ~> ClientExited)
=============================================================================
