# A verification development for mcptp

mcptp ("MCP Teleport") lets an MCP client that only speaks stdio use an MCP
server on another machine. `mcptp server` accepts websocket connections and
spawns one MCP server process per connection; `mcptp client` is spawned by the
MCP client and connects its own stdin and stdout to such a websocket. Binary
frames carry stdin and stdout, text frames carry out-of-band (OoB) messages:
`start_ok`, `start_err`, `process_stderr` and `server_exited` to the client,
`shutdown` to the server.

This directory holds TLA+ models of the program, TLC configurations that check
them on small instances, and proofs checked by TLAPS. Line numbers refer to the
sources under `src/`.

## 1. Inventory

| Component | State | Operations | Modelled by |
|---|---|---|---|
| Session (`server/proxy.go`, `proxy` and its workers) | handler goroutine, three workers, three answer channels, the contexts, three `io.Pipe`s, the process, `desiredClose` | start, the first-answer `select`, joins, `Wait`, exit message, close; receive, send, forward stderr; close a pipe when a context ends | `ServerSession` |
| Admission and shutdown (`server/proxy.go` `handleConnection`, `server/command.go` `Action`, `cleanShutdown`) | `nbConn`, `inflight` (WaitGroup), listener, signal context | enter, count, refuse or admit, upgrade, run a session, leave; signal, `Shutdown`, `Serve` returns, `requests.Wait` | `Admission` |
| Session protocol (`server/proxy.go`, `protocol/oob.go`) | what was sent, what became of the process | start message, chunk, line, exit report, closure | `SessionProtocol`, `WireFrames` |
| Client (`client/proxy.go`, `client/command.go`) | main goroutine, two workers, their answers, contexts, exit information, connection | dial, wait for the start message, copy stdin and stdout, shutdown message, joins, exit | `ClientSession` |
| OoB messages (`protocol/oob.go`) | none | encode and decode an envelope | `WireFrames`: kinds, what is decoded, the optional fields of `server_exited` |
| JSON-RPC accumulator (`protocol/jsonrpcv2`) | line buffer | append a chunk, cut the first line, drop the other complete lines, parse, validate | `Accumulator`; its outcome in `ServerSession` |
| Certificates (`mtls/command.go`) | five files | generate, truncate and write one after the other | `MtlsBundle` |
| mTLS configuration (`protocol/mtls.go`, the `Before` of both commands) | the loaded configuration | check the flags, load certificate, key and CA, verify in the handshake | `MtlsBundle` |
| Other flags, logger, constants, `main.go` | none the system reads later | validation, formatting, signal context | the signal context only |

How they interact. The handler goroutine of a connection calls `proxy`, which
starts `receiverStdin` (websocket to process), `senderStdout` and `senderStderr`
(process to websocket) and two helpers that close a pipe's read end when a
context ends. `os/exec` adds a copying goroutine per stream, a goroutine that
kills the process when its context ends, and the `WaitDelay` timer. Workers
answer on buffered channels, and whichever of the first two answers first decides
the way the session is taken apart. All sessions share one counter, one
WaitGroup and the context that a signal ends.

What is hard here:

* *Interleaving*: either worker, or both, may answer first; each branch joins the
  rest in a different order, with `Wait` in the middle of one and at the end of
  the other.
* *Deadlock*: `Wait` needs the copying goroutines to end, these need the workers
  to read or the pipes to be closed, and main does that only before or after
  `Wait`. `io.Pipe` is synchronous, so a writer without a reader waits for ever.
* *Ordering and truth of messages*: data, stderr lines, `server_exited` and the
  closure come from different goroutines over one connection; the exit message
  and the close status are built from an error that can be an exit code, a
  signal, an expired delay, a failed copy or an ended context.
* *Failure*: a client disappears at any moment, a write under an ended context
  closes the connection all workers share, a process dies with a chunk in its pipe.
* *Shutdown*: the signal races with everything, and requests accepted before the
  listener closed reach their handlers while `requests.Wait` runs. The client
  can interrupt neither its read of stdin nor its write to stdout.
* *Files*: a bundle of certificates is rewritten file by file while servers and
  clients load it file by file.

What makes each component correct: of a session, that bytes are neither lost,
repeated nor reordered while it is served, that frames come in the order the
client relies on, that what the client is told of the process is true, and that
the handler ends and leaves nothing behind; of admission, that the limit holds,
that no slot leaks and that the program ends when and only when its handlers
have; of the client, that what it reports agrees with what the server told,
that stdout is complete before a normal end, that shutdown follows the last byte
of stdin and that it always ends; of the OoB
messages, that what is decoded is what was encoded and unknown types are refused;
of the accumulator, that a line split over chunks is put together once and an
error leaves it in step with the stream; of the certificates, that a directory
never mixes two generations unnoticed. The complete list of hazards, with lines and properties, is in
`PROJECT.json`.

## 2. The modules

| Module | Contents |
|---|---|
| `WireFrames` | the frames and what is decoded of them, shared by both ends |
| `SessionProtocol` | abstract specification: what a server promises about one connection |
| `ServerSession` | one connection: state, actions, `Spec`, `FairSpec`, `CooperativeSpec` |
| `ServerSessionProperties` | type invariant, safety, liveness, the refinement of `SessionProtocol`, and what comments and documents say that the code does not do |
| `MCServerSession` | kinds of clients and processes for TLC |
| `ServerSessionProofs` | theorems about `ServerSession`: types, the way a session is taken apart |
| `SessionWireProofs` | theorems about what it puts on the wire, and that it implements `SessionProtocol` |
| `Admission` | the server around its sessions, with its properties |
| `MCAdmission` | requests for TLC |
| `AdmissionProofs` | theorems about `Admission` |
| `ClientSession`, `ClientSessionProperties`, `MCClientSession` | one run of the client, composed with `SessionProtocol` |
| `ClientSessionProofs` | theorems about `ClientSession` |
| `Accumulator`, `MCAccumulator` | chunks to lines to messages, and who stops for an error |
| `AccumulatorProofs` | theorems about `Accumulator` |
| `MtlsBundle`, `MCMtlsBundle` | the bundle of certificates, its two loaders and the handshake |
| `MtlsBundleProofs` | theorems about `MtlsBundle` |

Operators commented as mutants are plausible mistakes in the definition that
follows them. Nothing refers to them; put in its place, each of them makes a
property fail, which shows that the property says something about the code.

### ServerSession

`main` is where the handler goroutine stands in `proxy`, with one action per blocking
call: `StartProcess`, `SendStartErr` or `SendStartOk`, then the `select`
(`ReceiverFirst`, `ReceiverFirstNil`, `SenderFirst`), then

    receiver first:  waitR, joinStdout, joinStderrR, exitMsg
    sender first:    joinReceiver, joinStderrS, waitS, exitMsg

and `CloseWebsocket` and `Return` for the deferred calls. `desired` is
`desiredClose`, `waitRes` the error of `Wait`, `ctx` the set of contexts whose
cancel function was called (`Done` adds the parents). `result[s]` is the answer
channel of the worker of stream `s`, `held[s]` the chunk it is writing.

`queue[s]` is the OS pipe of stream `s` together with the chunk its copying
goroutine has in hand. The `io.Pipe` behind it holds nothing: `WriteStdin` is the
meeting of the receiver with the copier, `ReadOutput` the meeting of a sender with
the copier. `closed` are the read ends that a worker or a helper closed. `wsIn`
is what the client sent, `wire` the history of what it receives.

A chunk is its number in its stream. A frame is a kind with a number or a tag.

Coarsening, and why it hides nothing the properties tell apart:

* A worker's answer and its deferred `Close` of the pipe are one step (`Finish`).
  Main may go on between the two in the code, but each way on has to pass
  through the same pipe being closed, and after its answer the worker only closes.
* What main does between two blocking calls without touching shared state is one
  step with the call it follows. Main's cancel calls belong to the step that
  received the answer or returned from `Wait`; a helper's reaction is its own step.
* Chunks are not split. `io.Pipe` may cut a write into several reads; the order
  of the bytes is unaffected.
* stderr lines that are already in the `bufio.Reader` when the pipe is closed are
  still read and sent by the code; the model leaves them in the pipe, where they
  are dropped. Both are outcomes of the same race, and any line may fail to be sent.
* A frame above `SetReadLimit`, for which the library closes the connection with
  1009, does not occur: the client sends at most `BinaryFrameMaxSize` bytes
  (`client/proxy.go:88`), which is the limit (`server/proxy.go:295`).
* `ReceiveFrame` with a message that is none of its business (`start_ok` stands
  for all of them) stays in its loop, as the code does after the warning.

The environment is assumed from how the code uses it, and marked external in the
map. `os/exec`: `Wait` reports the exit status first, then a failed copy, an
expired delay or an ended context; the stdin copier swallows a broken pipe and
stops, without closing the read end of the `io.Pipe`; `WaitDelay` starts when
the process is dead (or its context has ended) and closes the OS pipes. The websocket
library: writes are atomic, a write or read under an ended context closes the
connection (possibly after it succeeded, for a write), `Close` sends a close
frame and ends the connection. The process reads, writes, exits or
dies of a signal of its own as it likes, and may leave its pipes to a descendant (`HeldPipes`). The client sends frames
only after `start_ok`, none after `shutdown` or a close frame, and may vanish.

### Admission

`handler[r]` follows `handleConnection` for request `r` from the accepted TCP
connection ("dialed") to the end of its deferred calls; `action` is the main
goroutine: `serving`, `waiting` (before `requests.Wait`), `blocked` in it,
`released` (woken, not yet running), `returned`, or `failed` and `panicked`. A
session is reduced to what it does to its slot and its process: it ends after
its process was reaped, or leaves it behind when `start_ok` could not be sent or
`proxy` panicked (`SessionAbandons`), or hangs (`SessionHangs`). These are the outcomes
of `ServerSession`: `ReturnedIsQuiescent` for the first, `StuckStdinWrite` for
the last. Both failures may happen at any time and nothing forces them. When
`Action` has returned or panicked the program is gone and nothing moves.

Two branches of `Action` are one in the model: `Serve` over TLS and
`ListenAndServe` return for the same reasons.

### SessionProtocol

Two variables: `fate`, what has become of the process, and `sent`, the frames a
client receives. One action per kind of frame says when it may be sent:
`start_ok` first and only with a process, chunks of stdout each once and in
order, lines of stderr in order but possibly dropped, at most one true exit
report that ends the data, at most one closure, a "normal" one only after
exit code 0 and no contrary report. `ServerSession` implements it with
`fate <- proc` and `sent <- wire` (`ImplementsProtocol`); `ClientSession` is
checked against every server that keeps it. Together they say what a client
can rely on without checking the product of both ends, which TLC could not.

### ClientSession

`main` is the main goroutine in `Action` and `proxy` (dialing, greeting, the
select, one join per branch, the deferred calls, exited), `outcome` the error
`proxy` came to, `code` how the program ended. The two workers keep the names
their code gives them by direction: `receiver` is `receiverStdin` (stdin to
websocket), `sender` is `senderStdout`. `answer[w]` is the channel of worker
`w`, with the kind of error in place of its text: "normal" and "abnormal" for a close
frame, "cancelled" for the receiver that waited, "failed" for the rest. `up` and `out` are
the histories of what goes to the server and to the application; `sent` and
`fate` belong to the protocol. The 100 ms are a choice: `JoinReceiver` may go
on with or without the answer. A stdout nobody holds any more kills the program
(`BrokenPipe`), as the Go runtime does for descriptors 1 and 2. Any other failing
write of stdout ends the sender (`WriteOutFails`); one of a remote line to stderr is
ignored by the code, and the loop goes on without the line (`StderrFails`, which
remembers it in the history `lost`). A stderr message above the read limit (`LongLines`) makes `Read` fail. The other half of the
composition is `UpstreamInOrder`: it is what `ServerSession` assumes of a client.
The texts the client prints itself, on stderr, are left out.

### Accumulator

A byte is its line, its place in the line and whether it is the newline, so
"whole" and "in order" can be said of lines that are cut into chunks anywhere.
`side` is fixed at the start: `AccumulateRequest` fed by `receiverStdin`, which
logs an error and goes on, or `AccumulateResponse` fed by `senderStdout`, which
stops (`Stops`, and `AllMessagesFlow` for what the documents say instead). A line is what the parser can tell of it (JSON, version, method, result,
error); `"result": null` counts as a result and `"error": null` does not, and
a missing `id` is accepted although the comment at
`protocol/jsonrpcv2/jsonrpcv2.go:79` says that it must be present.

### MtlsBundle

`files` is the output directory. `Generate`, then `OpenOutput` (which truncates)
and `Encode` for each file, with `Abort` at any point for an error or a kill.
`party["server"]` and `party["client"]` follow the start of the commands:
the flags, then the reads of certificate, key and CA as three steps, each with
its check. A certificate or key is its owner and the run that made it; keys are
fresh in each run and the CA key is kept nowhere, so the run also says which CA signed.
`Verifies`, `PairMatches` are what `crypto/x509` and `crypto/tls` promise.
A `Stranger` is a TLS endpoint of another CA, so that each side's verification
is needed: between two configurations that loaded, one of the two would do.
One mtls command runs at a time.

## 3. What TLC checks

| Run | Constants | Properties |
|---|---|---|
| `session_outcomes` | 0, 2, 1, mcptp client, any lines, no | `WireOrder`, `WaitCanFinish`, `ExitReportTruthful`, `NormalCloseIsClean`, `StdoutConservation`, `StdoutPrefix`, `ImplementsProtocol` |
| `session_signal` | 2, 0, 0, OoB client, responses, yes | `TypeOK`, `StdinConservation`, `ReturnedIsQuiescent`, `SignalEndsSession` |
| `session_disconnect` | 0, 1, 0, ending client, any lines, yes | `DisconnectEndsSession`, `ProcessEventuallyDies`, `SignalEndsSession` |
| `admission` | three requests, two slots | `TypeOK`, `ServedWithinMax`, `CountersExact`, `ReturnIsDrained`, `SignalStopsServer` |
| `client_session` | one chunk each way, one stderr line, long lines | `TypeOK`, `OutputInOrder`, `NormalEndIsComplete`, `ExitInfoTruthful`, `UpstreamInOrder`, `SenderIsJoined`, `SignalOrLossEndsClient`, `EofEndsClient` |
| `accumulator` | three lines of six kinds, up to two bytes each | `TypeOK`, `BufferIsOpenLine`, `AnswersFirstLine` |
| `mtls_bundle` | two runs of the command, six choices of flags | `TypeOK`, `LoadedIsOneGeneration`, `LinkIsMutual`, `RotationOrder`, `LoadIsCurrent` |

For the sessions the constants are MaxIn, MaxOut, MaxErr, the client, the lines
and HeldPipes. `StdinCap` is 1 in every run: one chunk in the copier's hand is
already a pipe that is full. Signals, vanishing clients, failing writes and
process exits are possible at every moment of every run.

Why the bounds are enough. One chunk per stream lets every worker be in each of
its states while every other is in each of its own; a second one makes "repeated",
"skipped" and "reordered" possible; two stdin chunks are what it takes to be stuck
in a write (one in the dead pipe, one in the hand). `session_outcomes` has no
stdin data because the outcome of a session does not depend on it, and adds what
only matters to outcomes: lines that are no responses, and a stderr line beside stdout.
`session_signal` looks at a signal from the side of stdin, with the receiver reading
or writing, and `session_disconnect` at every end from the side of the output, with a
chunk before, in or behind the sender; both sides at once are beyond TLC. These two
have descendants that hold the pipes, since only `WaitDelay` ends a `Wait` whose
pipes a descendant keeps; the invariants of `session_outcomes` are proved with them.
The kinds of clients are what `mcptp client` sends, frames the receiver ignores, and
frames that end it, the text frame that is no message included.
Three requests for two slots have a full house
and a refusal, and a slot that is given back and taken again. In the client
the chunk and the line share one connection and one worker, so their order is
already an order of two frames, and stdin has a chunk and the shutdown that follows it.
Three lines of two bytes have a chunk that ends one line, completes another and
opens a third. Two runs of the mtls command are what it takes to mix generations;
a third adds names only.

Deadlock is not checked: a session and the program end, and an ended one has no
step left. What must not be a deadlock is stated as liveness and `WaitCanFinish`.

### Fairness

`ServerFairness` asks that goroutines run and calls that can return do: weak fairness
of main, of each worker, of each helper, of the copiers, of the goroutine
that kills, and of the timer. Strong fairness is needed in one place: a `Read`
whose context ended fails even if frames keep coming, because the library closes
the connection from another goroutine, while in the model each frame read disables and
re-enables that failure. Nothing is asked of the client, the signals or the
process. `CooperativeSpec` adds a process that reads its stdin and exits at its
end, which is what MCP asks of a server; only `session_disconnect` uses it.

`ClientFairness` asks for the goroutines and the timer of the client, with strong
fairness for the failing `Read` as above, and for an application that takes the
client's output: without that the client hangs in its write to stdout, signal or
not, as the code does. `Dial` has no timeout of its own and is only asked to
return after a signal. Writes to the server are not asked to return, except in
`EofEndsClient`, whose premise `AttentiveServer` is a server that reads
and ends the session after `shutdown`; that it does is `DisconnectEndsSession`.

`Admission` asks for the same of handlers, of the killing of processes and of
shutdown. It does not ask that a listening server stops, nor that sessions fail.

### What the code does not do

Five runs each check a sentence of a comment or document, and TLC finds a behaviour
of the code against it.

* `nil_close` - when the client sends a close frame the receiver answers `nil`,
  and the log call at `server/proxy.go:171` dereferences it: `proxy` panics.
  `net/http` recovers the panic; no `server_exited` is sent and the process is
  killed but not reaped by `Wait`.
* `exit_noticed` - nobody closes the write end of the `io.Pipe` that `os/exec`
  copies stdout into, so `io.EOF` (`server/proxy.go:443`) never comes. A process
  that exits under an idle client is not noticed.
* `clean_close` - after a clean exit the stdout sender is cancelled at once
  (`server/proxy.go:191`). A chunk it holds or would read next is lost, and the client is
  still told that all went well.
* `signal_completes` - a receiver in `processStdin.Write` after the copier
  stopped has no reader and no context to end it (`server/proxy.go:322`).
  The handler, and with it `requests.Wait`, never ends.
* `messages_flow` (`Accumulator`) - `AccumulateResponse` stores its error in the variable
  the loop tests next as the error of the read (`server/proxy.go:419`, `:433`), so one
  stdout line that is not a response, a notification or a request of the MCP server
  included, ends the session; but "all MCP messages flow" and the types "exist solely
  to enable structured logging". `ParseOutcomes` brings this into `ServerSession`.

The models show more behaviours that a reader of the code should know, and that no run is
spent on:

* A request accepted before the listener closed may call `inflight.Add(1)` between
  the last `Done` and the wake-up of `requests.Wait`, which then panics
  (`server/command.go:184`; `action = "panicked"` in `Admission`).
* A refused request counts until its handler returns, so that a slot can be free and
  still be denied (`server/proxy.go:41`; `Refuse` in `Admission`).
* A remote stderr line that the client cannot write is lost without a word
  (`client/proxy.go:159`; `StderrFails` in `ClientSession`).
* Without a cooperative process `Wait` is not bounded by `WaitDelay` after a
  `shutdown` or a lost client (hence `CooperativeSpec`).
* A stderr line written under an ended context may close the whole connection (`WsWrite`).
* A session that cannot send `start_ok` returns while its process still runs (hence
  "eventually" in `ProcessEventuallyDies` and "abandoned" in `Admission`).
* Every end of a connected client has exit code 3, the normal closure of a session
  whose process exited with 0 included: `client/command.go:134` wraps what `proxy`
  returns, and `proxy` always returns an error (`Exit` in `ClientSession`).
* A stderr line whose message exceeds 64 KiB ends the client; its library then sends a
  close frame, which is the case of `nil_close` at the server.
* After a signal that follows the end of stdin the client's `select` may take the
  receiver's "cancelled", which the comment at `client/proxy.go:110` expects to be discarded.
* A rotation aborted between the server's and the client's files leaves a server that
  starts and clients that do not (`RotationOrder`).
* `ErrorCode.String` tests the range of server errors with its ends swapped
  (`protocol/jsonrpcv2/jsonrpcv2.go:131`).

## 4. What is proved

Every invariant and action property that a passing run checks, and the refinement of `SessionProtocol`, for
every value of the constants that the assumptions of the modules allow: any
number of chunks and lines, any pipe capacity, any client; any finite set of
requests and any limit; any server that keeps the protocol; any lines of any
length, cut into reads anywhere; any number of runs of the mtls command and any
flags. A run shows the same property on a small instance, and the inductive
invariants below were model-checked on the instances of the runs before they
were proved.

`ServerSessionProofs`

* `TypeCorrect` - `TypeOK`. Proved group by group (`MainTypeOK`, `ProcTypeOK`, ...),
  with one step per action under each group it disturbs.
* `NormalCloseAfterCleanExit` - `NormalCloseIsClean`. A closure is only written
  by `CloseWebsocket`, with the status main decided on; that status is
  "normal" only on the way through `WaitReturns` and `AdaptedClose`, and a
  `Wait` without an error means exit code 0. The strengthening (`CleanClosure`) says
  so of main's state before the frame exists.
* `ReturnIsQuiescent` - `ReturnedIsQuiescent`. The strengthening (`Joined`) lists which
  workers main has joined at each place, and `AnswersAreLast` says that a
  worker whose answer exists is done and stays so.
* `WaitIsNotSelfBlocked` - `WaitCanFinish`, from the same strengthening: on one
  way into `Wait` the senders still serve, on the other their pipes are closed.

`AdmissionProofs`

* `TypeCorrect`, `CountersAreExact` - `TypeOK` and `CountersExact` are inductive
  together: a counter can only be decremented by a handler it counts, so it
  never becomes negative.
* `MaxIsRespected` - `ServedWithinMax`. The number of connections served is not
  inductive: several handlers may have counted themselves and not yet been
  tested. The set that never outgrows the limit is `Granted`, the counted
  handlers whose own addition gave at most the limit. When one joins it, the
  counter, which is exact, was below the limit, and `Granted` is part of what it counts.
* `ReturnDrains` - `ReturnIsDrained`, from `ReturnIsQuiet` (no handler runs once
  `Action` returned, since `Wait` only returns at 0) and `ProcessHeld` (only
  a session has a running process).

`SessionWireProofs` has one more inductive invariant, `AllInv`, beside that of
`ServerSessionProofs`, because each of these properties needs to know what is
about to be sent and not only what was:

* `WireIsOrdered` - `WireOrder`. `Started` says what exists before the workers
  run, `Ending` that what ends the data waits for main to decide on the closure;
  that no worker is left to write then is `Joined` of `ServerSessionProofs`.
* `ExitReportIsTrue` - `ExitReportTruthful`, from `Truth`: the error of `Wait` is
  how the process died, a dead process stays as it died, and a report on the wire
  is the one that `Wait`'s error gives.
* `StdoutIsPrefix`, `StdoutIsConserved` - `StdoutPrefix` and
  `StdoutConservation`, from `StdoutFlow(n)`: n chunks are with the client, the
  next is in the sender's hand or first in the pipe, the others follow. Neither property
  is inductive: the first forgets what is inside, the second is silent as soon as
  somebody stops serving.
* `StdinIsConserved` - `StdinConservation`, inductive once it is known that no
  stdin exists before the workers run.
* `SessionImplementsProtocol` - `ImplementsProtocol`. A step that changes the
  process maps to `ProcessStarts` or `ProcessEnds`; a step of main to the start message, the
  report or the closure; a write of a sender to `SendChunk` or `SendLine`; every
  other step stutters. Lines of stderr need `StderrInv`: what is in hand or in the
  pipe is newer than all that was sent, dropped lines or not.

`ClientSessionProofs`. The server is the `Next` of `SessionProtocol`, of which
`SentOK` says what it leaves in `sent`; nothing else is assumed of it.

* `TypeCorrect` - `TypeOK`.
* `OutputIsInOrder` - `OutputInOrder`, from `Downstream`, which says for each
  place of `senderStdout` whether the frame in `item` is already out, lost, or to
  come. The lemmas
  `ShownStays` and `ShownOn` say how the map from output to frames grows.
* `NormalEndHasAll`, `ExitInfoIsTrue` - `NormalEndIsComplete` and
  `ExitInfoTruthful`, from `Account`: exit information is a report that was read,
  and a normal answer comes from the normal closure, which is the last frame there
  will ever be and leaves the connection closed.
* `UpstreamIsInOrder` - `UpstreamInOrder`. Not inductive: `Upstream` adds that the
  chunk in the receiver's hand is the next one for the connection, but only
  while that is open. On a broken connection a chunk can be lost, and then
  nothing may be written any more.
* `SenderAlwaysJoined` - `SenderIsJoined`, from `Joins`: answers are last acts, and
  main passes through one of the joins.

`AccumulatorProofs`. The drain is a recursive function. That it has a value, and which, is
the lemma `DrainsToLast`: its equation is solved by the function that stops behind
the last newline, and two solutions would have a last place where they differ,
of which there is none. So no induction over data is needed.

* `BufferHoldsOpenLine` - `BufferIsOpenLine`, by `RestIsOpenLine`.
* `FirstLineIsAnswered` - `AnswersFirstLine`. `Placed` says of the whole stream,
  read or not, that its bytes lie in the order of the lines; `LineIsFirst` then finds the
  first line of a chunk in the buffer and the chunk together.
* `TypeCorrect` - `TypeOK`.

`MtlsBundleProofs`. The invariant `Directory` orders the five files: a file holds
what its run put there or is empty, the current run has written those before
`writer` and no other, and a file as new as the CA has everything before it as
new. `AllChecked` says what each party has verified of what it has read.

* `LoadedOfOneGeneration`, `LinksAreMutual` - from `AllChecked` alone: the checks
  are enough, whatever a rotation does between two reads.
* `RotationKeepsOrder` - from `Directory` alone: the order of the writes is enough,
  whatever was aborted.
* `LoadsAreCurrent` - `LoadIsCurrent`, from `AllFresh`: what a party has read is what the
  directory holds or has been replaced, and then, because the CA is written before
  everything else, the CA that is read last is of a later run and the check of
  the certificate fails.
* `TypeCorrect` - `TypeOK`.

Some properties are stated so that they can be reasoned about: conservation and
output order by what a sequence carries (`Carry`) and by an order-preserving map
onto the output (`Shown`), not by filtering sequences. `ExitInfo` of
`ClientSession` is a chain of IFs for the first case of a Go switch that holds: the cases
overlap, and a CASE of TLA+ does not say which of them it takes.

What stays with TLC: everything with fairness (`SignalEndsSession`,
`DisconnectEndsSession`, `ProcessEventuallyDies`, `SignalStopsServer`,
`SignalOrLossEndsClient`, `EofEndsClient`), since the installed provers reason neither
about ENABLED nor about leads-to. What can be said of progress without fairness is
proved: `WaitIsNotSelfBlocked`, `ReturnIsQuiescent`, `SenderAlwaysJoined`.

## 5. Not modelled

Byte counts and their limits (`BinaryFrameMaxSize`, the length of a stderr line;
only "too long" exists), the text of reasons and errors, the JSON encoding of the
envelope, logging (`server/logger.go`), compression and with it
`isLoopbackHost`, which chooses nothing else, cryptography and the expiry of
certificates, the parsing of flags and the lookup of the command to spawn, and the parts
of `protocol/jsonrpcv2` the program never calls (batches, notifications,
reserved methods). The data race of two goroutines is not among the
abstractions: each variable of `proxy` belongs to one goroutine, and what is
shared goes through channels, atomics and the libraries.

## 6. Plan

The safety of every component is proved. What is left is to state more of it
abstractly: the admission of connections as a bounded counter that `Admission`
implements, and what a client sends as a protocol of its own, of which
`UpstreamInOrder` is the invariant.
