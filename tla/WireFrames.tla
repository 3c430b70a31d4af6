----------------------------- MODULE WireFrames ----------------------------
(***************************************************************************)
(* What crosses the websocket: binary frames with the chunks of a stream,  *)
(* text frames with the out-of-band messages of protocol/oob.go, and the   *)
(* close frame.  A chunk or a line is its number in its stream.            *)
(***************************************************************************)
EXTENDS Naturals, Sequences

(* Close statuses, and what server_exited tells about the process.         *)
Statuses == {"normal", "internal", "unsupported"}
Reports  == {"code0", "codeN", "killed", "error"}

Frame(kind, n, tag) == [kind |-> kind, n |-> n, tag |-> tag]

StartOk     == Frame("start_ok", 0, "")
StartErr    == Frame("start_err", 0, "")
Binary(n)   == Frame("bin", n, "")
Stderr(n)   == Frame("process_stderr", n, "")
Exited(r)   == Frame("server_exited", 0, r)
Shutdown    == Frame("shutdown", 0, "")
Close(code) == Frame("close", 0, code)

Frames == [kind : {"start_ok", "start_err", "bin", "process_stderr", "server_exited",
                   "close", "shutdown", "bad"},
           n : Nat, tag : {""} \cup Reports \cup Statuses]

(* The JSON of server_exited.  A pointer is a set of at most one value:    *)
(* null and 0 are different exit codes.                                    *)
ExitPayload(r) ==
  [exit_code |-> CASE r = "code0" -> {0} [] r = "codeN" -> {1} [] OTHER -> {},
   killed    |-> r = "killed",
   error     |-> r # "code0"]

(* ReadWebSocketOoBMessage returns the payload of a text frame when it     *)
(* knows the type; on any other text frame ("bad") it returns an error.    *)
Decodes(f) ==
  f.kind \in {"start_ok", "start_err", "shutdown", "server_exited", "process_stderr"}

Undecodable(f) == f.kind \notin {"bin", "close"} /\ ~Decodes(f)

=============================================================================
