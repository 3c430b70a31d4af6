-------------------------- MODULE MCServerSession --------------------------
(***************************************************************************)
(* Model values for checking ServerSession with TLC.                       *)
(***************************************************************************)
EXTENDS ServerSessionProperties

(* What the mcptp client sends beside stdin data; messages the server's    *)
(* receiver ignores; and every way a client can end the receiver.          *)
McptpClient  == {"shutdown", "close"}
OobClient    == {"start_ok", "close"}
EndingClient == {"shutdown", "bad", "close"}

(* A process whose stdout lines are all JSON-RPC responses, and one that   *)
(* also writes notifications or requests.                                  *)
OnlyResponses == {"ok"}
AnyLines      == {"ok", "error"}
=============================================================================
