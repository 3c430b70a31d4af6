--------------------------- MODULE MCAccumulator ---------------------------
(***************************************************************************)
(* Model values for checking Accumulator with TLC.                         *)
(***************************************************************************)
EXTENDS Accumulator

Message(json, version, method, result, error) ==
  [json |-> json, version |-> version, method |-> method, result |-> result, error |-> error]

(* What MCP peers write on a line, a response with result and error, one   *)
(* of another version, and a line that is no JSON.                         *)
Lines == {Message(TRUE, TRUE, TRUE, FALSE, FALSE),    \* request or notification
          Message(TRUE, TRUE, FALSE, TRUE, FALSE),    \* result
          Message(TRUE, TRUE, FALSE, FALSE, TRUE),    \* error
          Message(TRUE, TRUE, FALSE, TRUE, TRUE),     \* both
          Message(TRUE, FALSE, FALSE, TRUE, FALSE),   \* not 2.0
          Message(FALSE, FALSE, FALSE, FALSE, FALSE)} \* diagnostics
=============================================================================
