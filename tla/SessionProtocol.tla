-------------------------- MODULE SessionProtocol --------------------------
(***************************************************************************)
(* What the proxy server promises a client about one connection: the       *)
(* frames it may receive, in which order, and that they agree with the     *)
(* fate of the process.  ServerSession implements it, ClientSession relies *)
(* on it.                                                                  *)
(***************************************************************************)
EXTENDS WireFrames

CONSTANTS
  MaxOut,  (* bound: chunks of the process's stdout                        *)
  MaxErr   (* bound: lines of its stderr                                   *)

VARIABLES
  fate,  (* what has become of the process                                 *)
  sent   (* the frames for the client                                      *)

Sent(f) == \E i \in 1..Len(sent) : sent[i] = f

(* Only a closure may follow these.                                        *)
Final == {"start_err", "server_exited", "close"}

Serving ==
  /\ sent # <<>> /\ sent[1] = StartOk
  /\ \A i \in 1..Len(sent) : sent[i].kind \notin Final

Init == fate = "none" /\ sent = <<>>

Send(f) == sent' = Append(sent, f) /\ UNCHANGED fate

(* The first message tells whether there is a process.                     *)
SendStart ==
  /\ sent = <<>>
  /\ \/ fate # "none" /\ Send(StartOk)
     \/ fate = "none" /\ Send(StartErr)

(* Stdout: every chunk once, after the one before.                         *)
SendChunk(n) ==
  /\ Serving
  /\ n = 1 \/ Sent(Binary(n - 1))
  /\ ~Sent(Binary(n))
  /\ Send(Binary(n))

(* Stderr: lines may be dropped, not repeated or reordered.                *)
SendLine(n) ==
  /\ Serving
  /\ \A m \in n..MaxErr : ~Sent(Stderr(m))
  /\ Send(Stderr(n))

(* The report is true: "error" is a clean exit with output lost.           *)
Truthful(r) ==
  CASE r = "codeN"  -> fate = "exitN"
    [] r = "killed" -> fate = "killed"
    [] OTHER        -> fate = "exit0"

SendExit(r) == Serving /\ Truthful(r) /\ Send(Exited(r))

(* One closure; a normal one only for a process that ended well, and never *)
(* after another report.                                                   *)
SendClose(c) ==
  /\ \A i \in 1..Len(sent) : sent[i].kind # "close"
  /\ c = "normal" => fate = "exit0" /\ ~Sent(StartErr) /\ ~Sent(Exited("error"))
  /\ Send(Close(c))

ProcessStarts ==
  /\ fate = "none" /\ sent = <<>>
  /\ fate' = "running"
  /\ UNCHANGED sent

ProcessEnds ==
  /\ fate = "running"
  /\ fate' \in {"exit0", "exitN", "killed"}
  /\ UNCHANGED sent

Next ==
  \/ SendStart
  \/ \E n \in 1..MaxOut : SendChunk(n)
  \/ \E n \in 1..MaxErr : SendLine(n)
  \/ \E r \in Reports : SendExit(r)
  \/ \E c \in Statuses : SendClose(c)
  \/ ProcessStarts \/ ProcessEnds

Spec == Init /\ [][Next]_<<fate, sent>>
=============================================================================
