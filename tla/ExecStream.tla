----------------------------- MODULE ExecStream -----------------------------
(***************************************************************************)
(* One call that runs a command in a container and reads its output: POST  *)
(* /exec (ExecService.run), POST /exec/stream (run_stream), the MCP tool   *)
(* exec_ with a progress token, and the log stream of a process.           *)
(*                                                                         *)
(* Docker's output is read in a thread.  For a stream the thread hands     *)
(* events to the event loop through an unbounded queue that it closes with *)
(* a sentinel; the loop caps what it keeps, forwards chunks to the client  *)
(* and records the call in the audit log.  The client of an SSE stream may *)
(* disconnect at any time, and the container may be stopped or removed     *)
(* under the command (SessionLifecycle says by whom).  precheck and the    *)
(* look-up of the session have succeeded when a call starts.               *)
(*                                                                         *)
(* A byte is named by its position in its stream; 0 stands for the         *)
(* "truncated" event among the bytes that were sent.                       *)
(***************************************************************************)
EXTENDS SequencesExt, Naturals

CONSTANTS
  Cap,       \* OUTPUT_CAP_BYTES
  MaxChunk,  \* bound on the size of a chunk
  MaxOut,    \* bound on the bytes of a stream
  Calls      \* the kinds of call that are made

Streams == {"stdout", "stderr"}

CallKinds == {"exec", "stream", "mcp", "logs"}

ASSUME ExecAssumption ==
  /\ Cap \in Nat \ {0}
  /\ MaxChunk \in Nat \ {0}
  /\ MaxOut \in Nat
  /\ Calls \subseteq CallKinds

VARIABLES
  kind,       \* the kind of the call
  pc,         \* the handler, on the event loop
  container,  \* whether the container is up
  cmd,        \* the command: "none", "running" or "ended"
  code,       \* how it ended: exit code 0, another one, 124 or 137
  out,        \* the bytes of each stream that Docker has delivered
  thread,     \* the thread that reads Docker's stream
  queue,      \* events from the thread to the loop
  buf,        \* what is kept of each stream
  truncated,  \* streams that have lost bytes
  announced,  \* streams whose truncation the client was told
  exit,       \* exit_code, as the handler knows it
  inspected,  \* what exec_inspect answered: "no" (not asked), "code" or "none"
  sent,       \* the bytes, and the notice, sent to the client per stream
  failed,     \* whether an error event was sent
  result,     \* the exit code in the response or the result event
  record,     \* the result field of the call's audit record
  bumped      \* whether the call has counted as activity

callVars   == <<kind, pc>>
dockerVars == <<container, cmd, code, out>>
threadVars == <<thread, queue, inspected>>
keptVars   == <<buf, truncated, announced, exit>>
clientVars == <<sent, failed, result>>
auditVars  == <<record, bumped>>
vars == <<kind, pc, container, cmd, code, out, thread, queue, buf, truncated,
          announced, exit, inspected, sent, failed, result, record, bumped>>

Codes == {"ok", "error", "timeout", "killed"}

ChunkEvent(k, bytes) == [ev |-> "chunk", stream |-> k, bytes |-> bytes]
ExitEvent(c)         == [ev |-> "exit", code |-> c]
ErrorEvent           == [ev |-> "error"]
Sentinel             == [ev |-> "sentinel"]

\* The first n bytes of a stream.
FirstBytes(n) == [i \in 1 .. n |-> i]

Smaller(m, n) == IF m <= n THEN m ELSE n

Over == {"done", "gone", "raised"}

-----------------------------------------------------------------------------
(* The cap *)

\* Mutants of AppendCapped: no cap, and a chunk that is cut does not mark the stream.
AppendUncapped(k, bytes) ==
  /\ buf' = [buf EXCEPT ![k] = @ \o bytes]
  /\ UNCHANGED truncated

AppendMarkedLate(k, bytes) ==
  /\ buf' = [buf EXCEPT ![k] = @ \o SubSeq(bytes, 1, Smaller(Len(bytes), Cap - Len(@)))]
  /\ truncated' = IF Len(buf[k]) = Cap THEN truncated \cup {k} ELSE truncated

\* _append_capped: keep what fits; a chunk that does not fit marks the stream.
AppendCapped(k, bytes) ==
  /\ buf' = [buf EXCEPT ![k] = @ \o SubSeq(bytes, 1, Smaller(Len(bytes), Cap - Len(@)))]
  /\ truncated' = IF Len(buf[k]) + Len(bytes) > Cap THEN truncated \cup {k} ELSE truncated

-----------------------------------------------------------------------------
(* The command *)

\* A call arrives.  A stream counts as activity when it starts.
Start(kd) ==
  /\ pc = "new"
  /\ kind' = kd
  /\ pc' = "open"
  /\ thread' = "starting"
  /\ bumped' = (kd # "exec")
  /\ UNCHANGED <<dockerVars, queue, inspected, keptVars, clientVars, record>>

\* exec_create and exec_start.
Spawn ==
  /\ thread = "starting"
  /\ container = "up"
  /\ thread' = "reading"
  /\ cmd' = "running"
  /\ UNCHANGED <<callVars, container, code, out, queue, inspected, keptVars, clientVars, auditVars>>

\* The command exits, or coreutils' timeout ends it.  tail -F does neither.
CommandEnds ==
  /\ cmd = "running"
  /\ kind # "logs"
  /\ cmd' = "ended"
  /\ code' \in {"ok", "error", "timeout"}
  /\ UNCHANGED <<callVars, container, out, threadVars, keptVars, clientVars, auditVars>>

\* The container is stopped or removed, and the command with it.
ContainerDown ==
  /\ container = "up"
  /\ container' = "down"
  /\ IF cmd = "running" THEN cmd' = "ended" /\ code' = "killed" ELSE UNCHANGED <<cmd, code>>
  /\ UNCHANGED <<callVars, out, threadVars, keptVars, clientVars, auditVars>>

-----------------------------------------------------------------------------
(* The thread *)

\* Docker delivers a chunk: exec keeps it, a stream puts it on the queue.
Deliver(k, n) ==
  LET bytes == [i \in 1 .. n |-> out[k] + i] IN
  /\ thread = "reading"
  /\ out[k] + n <= MaxOut
  /\ kind = "logs" => k = "stdout"
  /\ out' = [out EXCEPT ![k] = @ + n]
  /\ IF kind = "exec"
     THEN AppendCapped(k, bytes) /\ UNCHANGED queue
     ELSE queue' = Append(queue, ChunkEvent(k, bytes)) /\ UNCHANGED <<buf, truncated>>
  /\ UNCHANGED <<callVars, container, cmd, code, thread, inspected, announced, exit,
                 clientVars, auditVars>>

\* The stream is over; exec_inspect answers with the code, or with none when
\* it does not have one: then the code takes it for 0.  tail -F is not asked.
Inspect ==
  /\ thread = "reading"
  /\ cmd = "ended"
  /\ \/ /\ kind = "logs"
        /\ thread' = "closing"
        /\ UNCHANGED <<queue, inspected, exit>>
     \/ /\ kind # "logs"
        /\ inspected' \in {"code", "none"}
        /\ LET c == IF inspected' = "code" THEN code ELSE "ok" IN
           IF kind = "exec"
           THEN exit' = c /\ thread' = "ended" /\ UNCHANGED queue
           ELSE queue' = Append(queue, ExitEvent(c)) /\ thread' = "closing" /\ UNCHANGED exit
  /\ UNCHANGED <<callVars, dockerVars, buf, truncated, announced, clientVars, auditVars>>

\* Mutants of ThreadFails: no sentinel after the error, and no error event.
ThreadStops ==
  /\ thread \in {"starting", "reading"}
  /\ thread' = IF kind = "exec" THEN "failed" ELSE "ended"
  /\ queue' = IF kind \in {"stream", "mcp"} THEN Append(queue, ErrorEvent) ELSE queue
  /\ UNCHANGED <<callVars, dockerVars, inspected, keptVars, clientVars, auditVars>>

ThreadFailsSilently ==
  /\ thread \in {"starting", "reading"}
  /\ thread' = IF kind = "exec" THEN "failed" ELSE "closing"
  /\ UNCHANGED <<callVars, dockerVars, queue, inspected, keptVars, clientVars, auditVars>>

\* A call of Docker raises: an error event for a stream, a log line for logs.
ThreadFails ==
  /\ thread \in {"starting", "reading"}
  /\ thread' = IF kind = "exec" THEN "failed" ELSE "closing"
  /\ queue' = IF kind \in {"stream", "mcp"} THEN Append(queue, ErrorEvent) ELSE queue
  /\ UNCHANGED <<callVars, dockerVars, inspected, keptVars, clientVars, auditVars>>

\* finally: the sentinel.
ThreadCloses ==
  /\ thread = "closing"
  /\ thread' = "ended"
  /\ queue' = Append(queue, Sentinel)
  /\ UNCHANGED <<callVars, dockerVars, inspected, keptVars, clientVars, auditVars>>

-----------------------------------------------------------------------------
(* The event loop *)

\* queue.get() returns an event of kind e.
TakeEvent(e) ==
  /\ pc = "open"
  /\ queue # <<>>
  /\ Head(queue).ev = e
  /\ queue' = Tail(queue)

\* Mutants of TakeChunk: a chunk is forwarded whether or not the cap is reached,
\* and the set of truncated streams is read after the chunk was kept.
TakeAnyChunk ==
  LET k     == Head(queue).stream
      bytes == Head(queue).bytes
  IN
  /\ TakeEvent("chunk")
  /\ kind # "logs"
  /\ AppendCapped(k, bytes)
  /\ announced' = announced \cup truncated'
  /\ sent' = [sent EXCEPT ![k] = @ \o bytes \o (IF k \in truncated' \ announced THEN <<0>> ELSE <<>>)]
  /\ UNCHANGED <<callVars, dockerVars, thread, inspected, exit, failed, result, auditVars>>

TakeFittingChunk ==
  LET k     == Head(queue).stream
      bytes == Head(queue).bytes
  IN
  /\ TakeEvent("chunk")
  /\ kind # "logs"
  /\ AppendCapped(k, bytes)
  /\ announced' = announced \cup truncated'
  /\ sent' = [sent EXCEPT ![k] = @
                \o (IF k \in truncated' THEN <<>> ELSE bytes)
                \o (IF k \in truncated' \ announced THEN <<0>> ELSE <<>>)]
  /\ UNCHANGED <<callVars, dockerVars, thread, inspected, exit, failed, result, auditVars>>

\* A chunk is kept as far as the cap allows and forwarded whole, unless its
\* stream was truncated before; the first time it is, the client is told.
TakeChunk ==
  LET k     == Head(queue).stream
      bytes == Head(queue).bytes
  IN
  /\ TakeEvent("chunk")
  /\ kind # "logs"
  /\ AppendCapped(k, bytes)
  /\ announced' = announced \cup truncated'
  /\ sent' = [sent EXCEPT ![k] = @
                \o (IF k \in truncated THEN <<>> ELSE bytes)
                \o (IF k \in truncated' \ announced THEN <<0>> ELSE <<>>)]
  /\ UNCHANGED <<callVars, dockerVars, thread, inspected, exit, failed, result, auditVars>>

\* A log chunk is forwarded and not kept.
TakeLog ==
  /\ TakeEvent("chunk")
  /\ kind = "logs"
  /\ sent' = [sent EXCEPT ![Head(queue).stream] = @ \o Head(queue).bytes]
  /\ UNCHANGED <<callVars, dockerVars, thread, inspected, keptVars, failed, result, auditVars>>

TakeExit ==
  /\ TakeEvent("exit")
  /\ exit' = Head(queue).code
  /\ UNCHANGED <<callVars, dockerVars, thread, inspected, buf, truncated, announced,
                 clientVars, auditVars>>

\* The SSE client is told; the MCP tool raises and drops the generator.
TakeError ==
  /\ TakeEvent("error")
  /\ failed' = TRUE
  /\ pc' = IF kind = "mcp" THEN "raised" ELSE pc
  /\ UNCHANGED <<kind, dockerVars, thread, inspected, keptVars, sent, result, auditVars>>

RecordOf(c) == IF c = "timeout" THEN "timeout" ELSE "ok"

\* Mutant of TakeSentinel: the result is yielded before the call is recorded.
TakeSentinelUnrecorded ==
  /\ TakeEvent("sentinel")
  /\ pc' = IF kind = "logs" THEN "done" ELSE "result"
  /\ UNCHANGED <<kind, dockerVars, thread, inspected, keptVars, clientVars, auditVars>>

\* The thread is done: the call is recorded, then the result is yielded.
TakeSentinel ==
  /\ TakeEvent("sentinel")
  /\ \/ kind = "logs" /\ pc' = "done" /\ UNCHANGED record
     \/ kind # "logs" /\ pc' = "result" /\ record' = RecordOf(exit)
  /\ UNCHANGED <<kind, dockerVars, thread, inspected, keptVars, clientVars, bumped>>

SendResult ==
  /\ pc = "result"
  /\ pc' = "done"
  /\ result' = exit
  /\ UNCHANGED <<kind, dockerVars, threadVars, keptVars, sent, failed, auditVars>>

\* POST /exec: the thread has returned or raised.
RunReturns ==
  /\ pc = "open"
  /\ kind = "exec"
  /\ \/ /\ thread = "ended"
        /\ pc' = "done"
        /\ result' = exit
        /\ record' = RecordOf(exit)
        /\ bumped' = TRUE
     \/ /\ thread = "failed"
        /\ pc' = "raised"
        /\ UNCHANGED <<result, auditVars>>
  /\ UNCHANGED <<kind, dockerVars, threadVars, keptVars, sent, failed>>

\* The client of an SSE stream leaves: the generator is cancelled at its await
\* or dropped at its yield.  Nothing tells the thread.
Disconnect ==
  /\ pc \in {"open", "result"}
  /\ kind \in {"stream", "logs"}
  /\ pc' = "gone"
  /\ UNCHANGED <<kind, dockerVars, threadVars, keptVars, clientVars, auditVars>>

Init ==
  /\ kind = "exec"
  /\ pc = "new"
  /\ container = "up"
  /\ cmd = "none"
  /\ code = "ok"
  /\ out = [k \in Streams |-> 0]
  /\ thread = "none"
  /\ queue = <<>>
  /\ buf = [k \in Streams |-> <<>>]
  /\ truncated = {}
  /\ announced = {}
  /\ exit = "ok"
  /\ inspected = "no"
  /\ sent = [k \in Streams |-> <<>>]
  /\ failed = FALSE
  /\ result = "none"
  /\ record = "none"
  /\ bumped = FALSE

\* What the thread cannot avoid doing: no command starts in a container that is down.
ThreadProceeds ==
  Spawn \/ Inspect \/ ThreadCloses \/ (thread = "starting" /\ container = "down" /\ ThreadFails)

Loop == TakeChunk \/ TakeLog \/ TakeExit \/ TakeError \/ TakeSentinel \/ SendResult \/ RunReturns

Next ==
  \/ \E kd \in Calls : Start(kd)
  \/ \E k \in Streams, n \in 1 .. MaxChunk : Deliver(k, n)
  \/ Spawn \/ Inspect \/ ThreadFails \/ ThreadCloses
  \/ Loop
  \/ CommandEnds \/ ContainerDown \/ Disconnect

Spec == Init /\ [][Next]_vars

\* Threads and the loop are scheduled, and a command ends: timeout sends it
\* SIGTERM when its time is over.
FairSpec == Spec /\ WF_vars(ThreadProceeds) /\ WF_vars(Loop) /\ WF_vars(CommandEnds)

-----------------------------------------------------------------------------
(* Properties *)

Event ==
  [ev : {"chunk"}, stream : Streams, bytes : Seq(Nat)]
    \cup [ev : {"exit"}, code : Codes] \cup {ErrorEvent, Sentinel}

\* The variables have their types, and nothing is kept beyond the cap.
TypeOK ==
  /\ kind \in CallKinds
  /\ pc \in {"new", "open", "result"} \cup Over
  /\ container \in {"up", "down"}
  /\ cmd \in {"none", "running", "ended"}
  /\ code \in Codes
  /\ out \in [Streams -> Nat]
  /\ thread \in {"none", "starting", "reading", "closing", "ended", "failed"}
  /\ queue \in Seq(Event)
  /\ buf \in [Streams -> Seq(Nat)] /\ \A k \in Streams : Len(buf[k]) <= Cap
  /\ truncated \subseteq Streams
  /\ announced \subseteq Streams
  /\ exit \in Codes
  /\ inspected \in {"no", "code", "none"}
  /\ sent \in [Streams -> Seq(Nat)]
  /\ failed \in BOOLEAN
  /\ result \in Codes \cup {"none"}
  /\ record \in {"none", "ok", "timeout"}
  /\ bumped \in BOOLEAN

\* SPEC-203: the response of a command holds, of each stream, all that Docker
\* delivered up to the cap, and lists exactly the streams that lost bytes: one
\* that ends at the cap is not truncated.
KeptIsPrefix ==
  result # "none" =>
    \A k \in Streams :
      /\ buf[k] = FirstBytes(Smaller(out[k], Cap))
      /\ k \in truncated <=> out[k] > Cap

\* What the client of a stream received is the stream from its first byte,
\* without gap or repetition, and after the one "truncated" event nothing more
\* of that stream.
ChunksThenNotice ==
  \A k \in Streams :
    \E m \in 0 .. out[k] : sent[k] \in {FirstBytes(m), Append(FirstBytes(m), 0)}

\* The result of a stream repeats what its client has seen, also at the cap:
\* nothing is kept that was not sent in a chunk before, and a stream counts as
\* truncated exactly when its client has had the "truncated" event.
KeptWasSent ==
  pc \in {"open", "result", "done"} /\ kind \in {"stream", "mcp"} =>
    \A k \in Streams :
      /\ IsPrefix(buf[k], sent[k])
      /\ k \in truncated <=> 0 \in Range(sent[k])

\* "Once the per-stream 8 MiB cap is hit, no further chunks of that stream are
\* emitted" (server.py:650, SPEC-203): when the cap is reached, what may still be
\* sent of the stream is the notice.
NoChunkPastCap ==
  [][\A k \in Streams : Len(buf[k]) = Cap => sent'[k] \in {sent[k], Append(sent[k], 0)}]_vars

\* A client that is told exit code 0, and of no error, had a command that ended
\* with 0, whether or not the container was stopped under it; the exception
\* is a command whose exit code Docker did not have.
ResultIsHonest ==
  result = "ok" /\ ~failed => (cmd = "ended" /\ code = "ok") \/ inspected = "none"

\* A call whose result the client has is recorded, with the same outcome, and
\* has counted as activity.
AnsweredIsRecorded ==
  result # "none" => record = RecordOf(result) /\ bumped

\* Every command's call ends, and so does its thread, also when the thread fails
\* or the client has left.
CallEnds ==
  (pc # "new" /\ kind # "logs") ~> (pc \in Over /\ thread \in {"ended", "failed"})

=============================================================================
