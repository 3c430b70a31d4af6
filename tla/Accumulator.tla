---------------------------- MODULE Accumulator ----------------------------
(***************************************************************************)
(* protocol/jsonrpcv2: how the bytes of a stream become the JSON-RPC       *)
(* messages the server logs.  receiverStdin feeds one accumulator with the *)
(* chunks of stdin, senderStdout another with the chunks of stdout, which  *)
(* end wherever the reads end.  A byte is its line's number, its place in  *)
(* the line and whether it is the newline.                                 *)
(***************************************************************************)
EXTENDS Naturals, Sequences

CONSTANTS
  Messages,  (* the lines a peer may write                                 *)
  MaxLines,  (* bound: lines of the stream                                 *)
  MaxLength  (* bound: bytes of a line, newline included                   *)

(* What the parser and Valid tell of a line: it is JSON of the right       *)
(* types, has version 2.0, a method, a result, an error that is not null.  *)
ASSUME MessagesAssumption ==
  /\ Messages \subseteq [json : BOOLEAN, version : BOOLEAN, method : BOOLEAN,
                         result : BOOLEAN, error : BOOLEAN]
  /\ MaxLines \in Nat /\ MaxLength \in Nat \ {0}

VARIABLES
  side,     (* AccumulateRequest or AccumulateResponse                      *)
  lines,    (* the lines of the stream, a message and a length each         *)
  pending,  (* bytes of the lines so far that no read has returned yet      *)
  fed,      (* history: the bytes handed to the accumulator                 *)
  buffer,   (* commandBuffer                                                *)
  calls,    (* history: what each call got and returned                     *)
  stopped   (* the goroutine that feeds this accumulator has given up       *)

vars == <<side, lines, pending, fed, buffer, calls, stopped>>

Init ==
  /\ side \in {"request", "response"}
  /\ lines = <<>> /\ pending = <<>> /\ fed = <<>>
  /\ buffer = <<>> /\ calls = <<>> /\ stopped = FALSE

(* The position of the first newline, 0 when there is none.                *)
IndexByte(bytes) ==
  LET newlines == {i \in 1..Len(bytes) : bytes[i].newline}
  IN  IF newlines = {} THEN 0 ELSE CHOOSE i \in newlines : \A j \in newlines : i <= j

After(bytes, n) == SubSeq(bytes, n + 1, Len(bytes))

(* Mutant: one extra line is drained, not all of them.                     *)
DrainOne(bytes) == After(bytes, IndexByte(bytes))

(* The loop that throws away every further complete line: at[n] is where   *)
(* it stops when n bytes are gone.                                         *)
Drain(bytes) ==
  LET at[n \in 0..Len(bytes)] ==
        LET idx == IndexByte(After(bytes, n))
        IN  IF idx = 0 THEN n ELSE at[n + idx]
  IN  After(bytes, at[0])

(* Mutant: the drain starts from the chunk, not from the whole buffer.     *)
ReadLineOfChunk(data) ==
  LET idx == IndexByte(data)
  IN  IF idx = 0
      THEN [line |-> <<>>, rest |-> buffer \o data]
      ELSE [line |-> SubSeq(data, 1, idx), rest |-> Drain(After(data, idx))]

(* readCompleteLine: the first complete line of the buffer and what stays  *)
(* in it.  A bytes.Buffer never fails to write, nor to read what it holds. *)
ReadCompleteLine(data) ==
  LET whole == buffer \o data
      idx   == IndexByte(whole)
  IN  IF idx = 0
      THEN [line |-> <<>>, rest |-> whole]
      ELSE [line |-> SubSeq(whole, 1, idx), rest |-> Drain(After(whole, idx))]

RequestValid(m)  == m.version /\ m.method

ResponseValid(m) == m.version /\ (m.result # m.error)

Valid(m) == m.json /\ IF side = "request" THEN RequestValid(m) ELSE ResponseValid(m)

(* Mutant: a third outcome for a line that is only a newline.              *)
ParseBlank(line) ==
  CASE line = <<>> -> "nothing"
    [] Len(line) = 1 -> "blank"
    [] Len(line) > 1 /\ Valid(lines[line[1].line].message) -> "message"
    [] OTHER -> "error"

(* What the call returns: nothing yet, a message or an error.              *)
Parse(line) ==
  CASE line = <<>> -> "nothing"
    [] line # <<>> /\ Valid(lines[line[1].line].message) -> "message"
    [] OTHER -> "error"

(* senderStdout takes the error for a failed read and ends the session;    *)
(* receiverStdin logs it and goes on.                                      *)
Stops(outcome) == side = "response" /\ outcome = "error"

(* A read returned the first n bytes that were pending.                    *)
Accumulate(n) ==
  /\ ~stopped /\ n \in 1..Len(pending)
  /\ LET data    == SubSeq(pending, 1, n)
         got     == ReadCompleteLine(data)
         outcome == Parse(got.line)
     IN  /\ buffer' = got.rest
         /\ fed' = fed \o data
         /\ calls' = Append(calls, [data |-> data, line |-> got.line, outcome |-> outcome])
         /\ stopped' = Stops(outcome)
  /\ pending' = After(pending, n)
  /\ UNCHANGED <<side, lines>>

(* The peer writes one more line; one of a single byte is only its newline *)
(* and no JSON.                                                            *)
WriteLine(m, length) ==
  /\ Len(lines) < MaxLines
  /\ m.json => length > 1
  /\ lines' = Append(lines, [message |-> m, length |-> length])
  /\ pending' = pending \o [i \in 1..length |->
                   [line |-> Len(lines) + 1, place |-> i, newline |-> i = length]]
  /\ UNCHANGED <<side, fed, buffer, calls, stopped>>

Next ==
  \/ \E n \in 1..Len(pending) : Accumulate(n)
  \/ \E m \in Messages, length \in 1..MaxLength : WriteLine(m, length)

Spec == Init /\ [][Next]_vars

-----------------------------------------------------------------------------
(* The bytes of the lines, one per place.                                  *)
Bytes == [line : 1..MaxLines, place : 1..MaxLength, newline : BOOLEAN]

(* Every variable holds a value of its type.                               *)
TypeOK ==
  /\ side \in {"request", "response"}
  /\ lines \in Seq([message : Messages, length : 1..MaxLength])
  /\ pending \in Seq(Bytes) /\ fed \in Seq(Bytes) /\ buffer \in Seq(Bytes)
  /\ calls \in Seq([data : Seq(Bytes), line : Seq(Bytes),
                    outcome : {"nothing", "message", "error"}])
  /\ stopped \in BOOLEAN

Ends(bytes) == {i \in 1..Len(bytes) : bytes[i].newline}

(* However the stream was cut, the buffer is the line that is still open:  *)
(* every byte fed since the last newline and no other.                     *)
BufferIsOpenLine ==
  \E n \in {0} \cup Ends(fed) :
    /\ \A i \in Ends(fed) : i <= n
    /\ buffer = After(fed, n)

(* A call that completes lines answers with the first of them, whole from  *)
(* its first byte to its newline; a call that completes none answers       *)
(* nothing.  A line is lost only to an earlier one of the same chunk.      *)
AnswersFirstLine ==
  \A c \in {calls[i] : i \in 1..Len(calls)} :
    IF Ends(c.data) = {}
    THEN c.outcome = "nothing"
    ELSE LET k == c.data[IndexByte(c.data)].line IN
         c.line = [i \in 1..lines[k].length |->
                     [line |-> k, place |-> i, newline |-> i = lines[k].length]]

(* JSON-RPC's own notion of a message: a request, a notification, or a     *)
(* response with either a result or an error.                              *)
WellFormed(m) ==
  m.json /\ m.version /\ IF m.method THEN ~m.result /\ ~m.error ELSE m.result # m.error

(* README.md:25, "All MCP messages flow bidirectionally between client and *)
(* server through the proxies", and protocol/jsonrpcv2/jsonrpcv2.go:6,     *)
(* "The types exist solely to enable structured logging": the stream is    *)
(* given up, if at all, for a line that is no message.                     *)
AllMessagesFlow ==
  stopped =>
    \E i \in 1..Len(calls) :
      LET l == calls[i].line IN l # <<>> /\ ~WellFormed(lines[l[1].line].message)
=============================================================================
