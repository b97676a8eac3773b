--------------------------- MODULE ExecStreamProofs ---------------------------
(***************************************************************************)
(* ExecStream, for any cap, any chunks and any order of thread, event      *)
(* loop, container and client: the types with the cap on what is kept,     *)
(* that what is answered has been recorded, that an exit code 0 is the     *)
(* command's own, and that what is kept and what is sent of a stream are   *)
(* its first bytes and agree at the cap.                                   *)
(***************************************************************************)
EXTENDS ExecStream, SequenceTheorems, TLAPS

(* Types *)

\* The events of the thread are events, and what they carry is typed.
LEMMA EventsTyped ==
  /\ \A k \in Streams, b \in Seq(Nat) : ChunkEvent(k, b) \in Event
  /\ \A c \in Codes : ExitEvent(c) \in Event
  /\ ErrorEvent \in Event /\ Sentinel \in Event
  /\ \A e \in Event : /\ e.ev = "chunk" => e.stream \in Streams /\ e.bytes \in Seq(Nat)
                      /\ e.ev = "exit" => e.code \in Codes
  BY DEF Event, ChunkEvent, ExitEvent, ErrorEvent, Sentinel

\* _append_capped keeps sequences of bytes that are not longer than the cap.
LEMMA CapKept ==
  ASSUME TypeOK, NEW k \in Streams, NEW bytes \in Seq(Nat), AppendCapped(k, bytes)
  PROVE  /\ buf' \in [Streams -> Seq(Nat)]
         /\ \A x \in Streams : Len(buf'[x]) <= Cap
         /\ truncated' \subseteq Streams
  <1> DEFINE n == Smaller(Len(bytes), Cap - Len(buf[k]))
             part == SubSeq(bytes, 1, n)
  <1>1. Cap \in Nat /\ buf[k] \in Seq(Nat) /\ Len(buf[k]) \in Nat /\ Len(buf[k]) <= Cap /\ Len(bytes) \in Nat
    BY ExecAssumption, LenProperties DEF TypeOK
  <1>2. n \in Nat /\ n <= Len(bytes) /\ n <= Cap - Len(buf[k])
    <2> DEFINE a == Len(bytes)
               b == Cap - Len(buf[k])
    <2>1. a \in Nat /\ b \in Nat
      BY <1>1
    <2>2. n = IF a <= b THEN a ELSE b
      BY DEF Smaller
    <2> HIDE DEF a, b, n
    <2>3. n \in Nat /\ n <= a /\ n <= b
      BY <2>1, <2>2
    <2> QED
      BY <2>3 DEF a, b
  <1>3. part \in Seq(Nat) /\ Len(part) = n
    <2> HIDE DEF n
    <2>1. \A i \in 1 .. n : bytes[i] \in Nat
      BY <1>1, <1>2, LenProperties
    <2> QED
      BY <1>2, <2>1, SubSeqProperties
  <1>4. buf[k] \o part \in Seq(Nat) /\ Len(buf[k] \o part) = Len(buf[k]) + Len(part)
    <2> HIDE DEF part
    <2> QED
      BY <1>1, <1>3, ConcatProperties
  <1>5. buf' = [buf EXCEPT ![k] = buf[k] \o part]
    BY DEF AppendCapped, TypeOK
  <1>6. Len(buf[k] \o part) <= Cap
    <2> HIDE DEF part, n
    <2> QED
      BY <1>1, <1>2, <1>3, <1>4
  <1> HIDE DEF part, n
  <1>7. buf' \in [Streams -> Seq(Nat)] /\ \A x \in Streams : Len(buf'[x]) <= Cap
    BY <1>4, <1>5, <1>6 DEF TypeOK
  <1> QED
    BY <1>7 DEF AppendCapped, TypeOK

\* Initially the variables have their types.
LEMMA InitTyped == Init => TypeOK
  <1> SUFFICES ASSUME Init PROVE TypeOK
    OBVIOUS
  <1>1. buf \in [Streams -> Seq(Nat)] /\ sent \in [Streams -> Seq(Nat)] /\ out \in [Streams -> Nat]
    BY DEF Init
  <1>2. \A k \in Streams : Len(buf[k]) <= Cap
    BY ExecAssumption DEF Init
  <1>3. queue \in Seq(Event)
    BY DEF Init
  <1> QED
    BY <1>1, <1>2, <1>3 DEF Init, TypeOK, CallKinds, Codes, Over

\* The call, the command and its container keep the types.
LEMMA CommandTyped ==
  ASSUME TypeOK, (\E kd \in Calls : Start(kd)) \/ Spawn \/ CommandEnds \/ ContainerDown \/ Disconnect
  PROVE  TypeOK'
  <1> USE DEF TypeOK, callVars, dockerVars, threadVars, keptVars, clientVars, auditVars
  <1>1. ASSUME NEW kd \in Calls, Start(kd) PROVE TypeOK'
    BY <1>1, ExecAssumption DEF Start
  <1>2. CASE Spawn
    BY <1>2 DEF Spawn
  <1>3. CASE CommandEnds
    BY <1>3 DEF CommandEnds, Codes
  <1>4. CASE ContainerDown
    BY <1>4 DEF ContainerDown, Codes
  <1>5. CASE Disconnect
    BY <1>5 DEF Disconnect, Over
  <1> QED
    BY <1>1, <1>2, <1>3, <1>4, <1>5

\* The thread keeps the types.
LEMMA ThreadTyped ==
  ASSUME TypeOK,
         \/ \E k \in Streams, n \in 1 .. MaxChunk : Deliver(k, n)
         \/ Inspect \/ ThreadFails \/ ThreadCloses
  PROVE  TypeOK'
  <1>a. \A e \in Event : Append(queue, e) \in Seq(Event)
    BY AppendProperties DEF TypeOK
  <1>1. ASSUME NEW k \in Streams, NEW n \in 1 .. MaxChunk, Deliver(k, n) PROVE TypeOK'
    <2> DEFINE bytes == [i \in 1 .. n |-> out[k] + i]
    <2>1. out[k] \in Nat /\ n \in Nat
      BY ExecAssumption DEF TypeOK
    <2>2. bytes \in Seq(Nat)
      BY <2>1
    <2>3. out' \in [Streams -> Nat]
      BY <1>1, <2>1 DEF Deliver, TypeOK
    <2> HIDE DEF bytes
    <2>4. \/ AppendCapped(k, bytes) /\ UNCHANGED queue
          \/ queue' = Append(queue, ChunkEvent(k, bytes)) /\ UNCHANGED <<buf, truncated>>
      BY <1>1 DEF Deliver, bytes
    <2>5. UNCHANGED <<callVars, container, cmd, code, thread, inspected, announced, exit,
                      clientVars, auditVars>>
      BY <1>1 DEF Deliver
    <2>6. CASE AppendCapped(k, bytes) /\ UNCHANGED queue
      <3>1. /\ buf' \in [Streams -> Seq(Nat)] /\ \A x \in Streams : Len(buf'[x]) <= Cap
            /\ truncated' \subseteq Streams
        BY <2>2, <2>6, CapKept
      <3> QED
        BY <2>3, <2>5, <2>6, <3>1 DEF TypeOK, callVars, clientVars, auditVars
    <2>7. CASE queue' = Append(queue, ChunkEvent(k, bytes)) /\ UNCHANGED <<buf, truncated>>
      <3>1. queue' \in Seq(Event)
        BY <1>a, <2>2, <2>7, EventsTyped
      <3> QED
        BY <2>3, <2>5, <2>7, <3>1 DEF TypeOK, callVars, clientVars, auditVars
    <2> QED
      BY <2>4, <2>6, <2>7
  <1> USE DEF TypeOK, callVars, dockerVars, keptVars, clientVars, auditVars
  <1>2. CASE Inspect
    <2>1. \A c \in Codes : Append(queue, ExitEvent(c)) \in Seq(Event)
      BY <1>a, EventsTyped
    <2>2. ASSUME NEW c \in Codes,
                 \/ exit' = c /\ thread' = "ended" /\ UNCHANGED queue
                 \/ queue' = Append(queue, ExitEvent(c)) /\ thread' = "closing" /\ UNCHANGED exit
          PROVE  exit' \in Codes /\ queue' \in Seq(Event) /\ thread' \in {"ended", "closing"}
      BY <2>1, <2>2
    <2>3. /\ exit' \in Codes /\ queue' \in Seq(Event) /\ thread' \in {"ended", "closing"}
          /\ inspected' \in {"no", "code", "none"}
      <3>1. CASE kind = "logs"
        BY <1>2, <3>1 DEF Inspect
      <3>2. CASE kind # "logs"
        <4> DEFINE c == IF inspected' = "code" THEN code ELSE "ok"
        <4>1. c \in Codes
          BY DEF Codes
        <4>2. /\ \/ exit' = c /\ thread' = "ended" /\ UNCHANGED queue
                 \/ queue' = Append(queue, ExitEvent(c)) /\ thread' = "closing" /\ UNCHANGED exit
              /\ inspected' \in {"code", "none"}
          BY <1>2, <3>2 DEF Inspect
        <4> HIDE DEF c
        <4> QED
          BY <2>2, <4>1, <4>2
      <3> QED
        BY <3>1, <3>2
    <2> QED
      BY <1>2, <2>3 DEF Inspect
  <1>3. CASE ThreadFails
    BY <1>3, <1>a, EventsTyped DEF ThreadFails
  <1>4. CASE ThreadCloses
    BY <1>4, <1>a, EventsTyped DEF ThreadCloses
  <1> QED
    BY <1>1, <1>2, <1>3, <1>4

\* An event that is taken is a typed one, and the rest of the queue stays.
LEMMA TakeTyped ==
  ASSUME TypeOK, NEW e, TakeEvent(e)
  PROVE  /\ Head(queue) \in Event /\ Head(queue).ev = e
         /\ queue' \in Seq(Event)
  BY HeadTailProperties DEF TakeEvent, TypeOK

\* The event loop keeps the types.
LEMMA LoopTyped ==
  ASSUME TypeOK, Loop
  PROVE  TypeOK'
  <1>1. CASE TakeChunk
    <2> DEFINE k == Head(queue).stream
               bytes == Head(queue).bytes
               sends == (IF k \in truncated THEN <<>> ELSE bytes)
               notice == (IF k \in truncated' \ announced THEN <<0>> ELSE <<>>)
    <2>1. k \in Streams /\ bytes \in Seq(Nat) /\ queue' \in Seq(Event)
      BY <1>1, TakeTyped, EventsTyped DEF TakeChunk
    <2>2. /\ AppendCapped(k, bytes) /\ announced' = announced \cup truncated'
          /\ sent' = [sent EXCEPT ![k] = (@ \o sends) \o notice]
          /\ UNCHANGED <<callVars, dockerVars, thread, inspected, exit, failed, result, auditVars>>
      BY <1>1 DEF TakeChunk
    <2> HIDE DEF k, bytes
    <2>3. sends \in Seq(Nat) /\ notice \in Seq(Nat)
      BY <2>1
    <2> HIDE DEF sends, notice
    <2>4. /\ buf' \in [Streams -> Seq(Nat)] /\ \A x \in Streams : Len(buf'[x]) <= Cap
          /\ truncated' \subseteq Streams
      BY <2>1, <2>2, CapKept
    <2>5. (sent[k] \o sends) \o notice \in Seq(Nat)
      BY <2>1, <2>3, ConcatProperties DEF TypeOK
    <2>6. sent' \in [Streams -> Seq(Nat)]
      BY <2>1, <2>2, <2>5 DEF TypeOK
    <2> QED
      BY <2>1, <2>2, <2>4, <2>6 DEF TypeOK, callVars, dockerVars, auditVars
  <1>2. CASE TakeLog
    <2>1. Head(queue).stream \in Streams /\ Head(queue).bytes \in Seq(Nat) /\ queue' \in Seq(Event)
      BY <1>2, TakeTyped, EventsTyped DEF TakeLog
    <2>2. sent[Head(queue).stream] \o Head(queue).bytes \in Seq(Nat)
      BY <2>1, ConcatProperties DEF TypeOK
    <2>3. sent' \in [Streams -> Seq(Nat)]
      BY <1>2, <2>1, <2>2 DEF TakeLog, TypeOK
    <2> QED
      BY <1>2, <2>1, <2>3 DEF TakeLog, TypeOK, callVars, dockerVars, keptVars, auditVars
  <1> USE DEF TypeOK, callVars, dockerVars, threadVars, keptVars, clientVars, auditVars
  <1>3. CASE TakeExit
    <2>1. Head(queue).code \in Codes /\ queue' \in Seq(Event)
      BY <1>3, TakeTyped, EventsTyped DEF TakeExit
    <2> QED
      BY <1>3, <2>1 DEF TakeExit
  <1>4. CASE TakeError
    <2>1. queue' \in Seq(Event)
      BY <1>4, TakeTyped DEF TakeError
    <2> QED
      BY <1>4, <2>1 DEF TakeError, Over
  <1>5. CASE TakeSentinel
    <2>1. queue' \in Seq(Event)
      BY <1>5, TakeTyped DEF TakeSentinel
    <2> QED
      BY <1>5, <2>1 DEF TakeSentinel, RecordOf, Over
  <1>6. CASE SendResult
    BY <1>6 DEF SendResult, Over
  <1>7. CASE RunReturns
    BY <1>7 DEF RunReturns, RecordOf, Over
  <1> QED
    BY <1>1, <1>2, <1>3, <1>4, <1>5, <1>6, <1>7 DEF Loop

\* Every reachable state is well typed and keeps no more of a stream than the cap.
THEOREM TypeCorrect == Spec => []TypeOK
  <1>1. TypeOK /\ [Next]_vars => TypeOK'
    <2> SUFFICES ASSUME TypeOK, [Next]_vars PROVE TypeOK'
      OBVIOUS
    <2>1. CASE UNCHANGED vars
      BY <2>1 DEF vars, TypeOK
    <2> QED
      BY <2>1, CommandTyped, ThreadTyped, LoopTyped DEF Next
  <1> QED
    BY InitTyped, <1>1, PTL DEF Spec

-----------------------------------------------------------------------------
(* The record *)

\* How far the call is: the queue is a stream's, the answer comes last, and a
\* stream that is about to answer has its record.
ControlInv ==
  /\ pc = "new" => thread = "none" /\ queue = <<>> /\ kind = "exec" /\ record = "none"
  /\ kind = "exec" => queue = <<>> /\ thread # "closing" /\ pc # "result"
  /\ kind # "exec" => bumped
  /\ pc \in {"new", "open", "result"} => result = "none"
  /\ pc = "result" => record = RecordOf(exit)
  /\ AnsweredIsRecorded


\* No step answers before the record, and none changes a record or an answer.
LEMMA ControlKept ==
  ASSUME TypeOK, ControlInv, [Next]_vars
  PROVE  ControlInv'
  <1> USE DEF ControlInv, AnsweredIsRecorded, RecordOf, callVars, dockerVars, threadVars,
              keptVars, clientVars, auditVars
  <1>1. CASE UNCHANGED vars
    BY <1>1 DEF vars
  <1>2. ASSUME NEW kd \in Calls, Start(kd) PROVE ControlInv'
    BY <1>2 DEF Start
  <1>3. ASSUME NEW k \in Streams, NEW n \in 1 .. MaxChunk, Deliver(k, n) PROVE ControlInv'
    BY <1>3 DEF Deliver
  <1>4. CASE Spawn
    BY <1>4 DEF Spawn
  <1>5. CASE Inspect
    BY <1>5 DEF Inspect
  <1>6. CASE ThreadFails
    BY <1>6 DEF ThreadFails
  <1>7. CASE ThreadCloses
    BY <1>7 DEF ThreadCloses
  <1>8. CASE TakeChunk
    BY <1>8 DEF TakeChunk, TakeEvent
  <1>9. CASE TakeLog
    BY <1>9 DEF TakeLog, TakeEvent
  <1>10. CASE TakeExit
    BY <1>10 DEF TakeExit, TakeEvent
  <1>11. CASE TakeError
    BY <1>11 DEF TakeError, TakeEvent
  <1>12. CASE TakeSentinel
    BY <1>12 DEF TakeSentinel, TakeEvent
  <1>13. CASE SendResult
    BY <1>13 DEF SendResult
  <1>14. CASE RunReturns
    BY <1>14 DEF RunReturns
  <1>15. CASE CommandEnds \/ ContainerDown \/ Disconnect
    BY <1>15 DEF CommandEnds, ContainerDown, Disconnect
  <1> QED
    BY <1>1, <1>2, <1>3, <1>4, <1>5, <1>6, <1>7, <1>8, <1>9, <1>10, <1>11, <1>12, <1>13,
       <1>14, <1>15 DEF Next, Loop

\* The control of a call is as said in every reachable state.
THEOREM ControlHolds == Spec => []ControlInv
  <1>1. Init => ControlInv
    BY DEF Init, ControlInv, AnsweredIsRecorded
  <1> QED
    BY <1>1, ControlKept, TypeCorrect, PTL DEF Spec

\* A result that the client has is in the audit log with the same outcome, and the
\* call has counted as activity, for any output and in any order of events.
THEOREM AnswersAreRecorded == Spec => []AnsweredIsRecorded
  <1>1. ControlInv => AnsweredIsRecorded
    BY DEF ControlInv
  <1> QED
    BY <1>1, ControlHolds, PTL

-----------------------------------------------------------------------------
(* The exit code *)

\* An exit code 0 is the command's, or Docker had none.
Honest(c) == c = "ok" => (cmd = "ended" /\ code = "ok") \/ inspected = "none"

\* The same, of a value that is known before the step, after it.
HonestNext(c) == c = "ok" => (cmd' = "ended" /\ code' = "ok") \/ inspected' = "none"

\* The queue holds an outcome that the handler has not seen yet.
Pending == \E i \in DOMAIN queue : queue[i].ev \in {"exit", "error"}

QueueInv ==
  \A i \in DOMAIN queue :
    /\ queue[i].ev = "sentinel" => i = Len(queue) /\ thread = "ended"
    /\ queue[i].ev = "exit" => Honest(queue[i].code)

\* The initial exit code is answered only with an error: when the thread is done,
\* an outcome is known or on its way, before the sentinel.
HonestInv ==
  /\ thread \in {"none", "starting"} => cmd = "none"
  /\ inspected # "no" => thread \in {"closing", "ended"}
  /\ QueueInv
  /\ kind \in {"stream", "mcp"} /\ thread \in {"closing", "ended"} => failed \/ Honest(exit) \/ Pending
  /\ kind = "exec" /\ thread = "ended" => Honest(exit)
  /\ pc = "result" => failed \/ Honest(exit)
  /\ result # "none" => failed \/ Honest(result)

\* What Append does to the queue.
LEMMA QueueAppend ==
  ASSUME TypeOK, NEW e \in Event, queue' = Append(queue, e)
  PROVE  /\ Len(queue) \in Nat /\ Len(queue') = Len(queue) + 1
         /\ DOMAIN queue = 1 .. Len(queue) /\ DOMAIN queue' = 1 .. Len(queue) + 1
         /\ \A i \in 1 .. Len(queue) : queue'[i] = queue[i]
         /\ queue'[Len(queue) + 1] = e
  BY AppendProperties, LenProperties DEF TypeOK

\* What taking an event does to the queue.
LEMMA QueueTail ==
  ASSUME TypeOK, NEW e, TakeEvent(e)
  PROVE  /\ Len(queue) \in Nat \ {0} /\ Len(queue') = Len(queue) - 1
         /\ DOMAIN queue = 1 .. Len(queue) /\ DOMAIN queue' = 1 .. Len(queue) - 1
         /\ \A i \in DOMAIN queue' : i + 1 \in DOMAIN queue /\ queue'[i] = queue[i + 1]
         /\ queue[1].ev = e /\ Head(queue) = queue[1]
  <1>1. queue \in Seq(Event) /\ queue # <<>> /\ queue' = Tail(queue) /\ Head(queue).ev = e
    BY DEF TakeEvent, TypeOK
  <1>2. Head(queue) = queue[1]
    BY <1>1
  <1>3. Len(queue) \in Nat \ {0} /\ DOMAIN queue = 1 .. Len(queue)
    BY <1>1, LenProperties
  <1>4. queue' \in Seq(Event) /\ Len(queue') = Len(queue) - 1
    BY <1>1, HeadTailProperties
  <1>5. DOMAIN queue' = 1 .. Len(queue) - 1
    BY <1>4, LenProperties
  <1>6. \A i \in 1 .. Len(queue') : queue'[i] = queue[i + 1]
    BY <1>1, HeadTailProperties
  <1> QED
    BY <1>1, <1>2, <1>3, <1>4, <1>5, <1>6

\* A code that is honest stays so: the command does not run again, and Docker is
\* asked once.
LEMMA HonestStays ==
  ASSUME TypeOK, HonestInv, [Next]_vars, NEW c, Honest(c)
  PROVE  HonestNext(c)
  <1> USE DEF Honest, HonestNext, HonestInv, callVars, dockerVars, threadVars, keptVars, clientVars, auditVars
  <1>1. CASE Spawn
    BY <1>1 DEF Spawn
  <1>2. CASE Inspect
    BY <1>2 DEF Inspect
  <1>3. CASE CommandEnds
    BY <1>3 DEF CommandEnds
  <1>4. CASE ContainerDown
    BY <1>4 DEF ContainerDown
  <1>5. CASE UNCHANGED <<cmd, code, inspected>>
    BY <1>5
  <1>6. CASE \/ \E kd \in Calls : Start(kd)
             \/ \E k \in Streams, n \in 1 .. MaxChunk : Deliver(k, n)
             \/ ThreadFails \/ ThreadCloses \/ Loop \/ Disconnect \/ UNCHANGED vars
    BY <1>5, <1>6 DEF Start, Deliver, ThreadFails, ThreadCloses, Loop, TakeChunk, TakeLog, TakeExit,
       TakeError, TakeSentinel, SendResult, RunReturns, Disconnect, vars
  <1> QED
    BY <1>1, <1>2, <1>3, <1>4, <1>6 DEF Next

\* The steps that leave the queue alone, or put an event on it.
LEMMA ThreadHonest ==
  ASSUME TypeOK, ControlInv, HonestInv,
         \/ \E k \in Streams, n \in 1 .. MaxChunk : Deliver(k, n)
         \/ Spawn \/ Inspect \/ ThreadFails \/ ThreadCloses
  PROVE  HonestInv'
  <1>h. \A c : Honest(c) => HonestNext(c)
    BY HonestStays DEF Next
  <1>n. /\ Honest(exit)' <=> HonestNext(exit')
        /\ Honest(result)' <=> HonestNext(result')
        /\ (\A i \in DOMAIN queue' :
              /\ queue'[i].ev = "sentinel" => i = Len(queue') /\ thread' = "ended"
              /\ queue'[i].ev = "exit" => HonestNext(queue'[i].code)) => QueueInv'
    BY DEF Honest, HonestNext, QueueInv
  <1>a. ASSUME NEW e \in Event, queue' = Append(queue, e),
               e.ev = "sentinel" => thread' = "ended",
               e.ev = "exit" => HonestNext(e.code),
               thread # "ended"
        PROVE  QueueInv' /\ (Pending => Pending') /\ (e.ev \in {"exit", "error"} => Pending')
    <2>1. /\ Len(queue) \in Nat /\ Len(queue') = Len(queue) + 1
          /\ DOMAIN queue = 1 .. Len(queue) /\ DOMAIN queue' = 1 .. Len(queue) + 1
          /\ \A i \in 1 .. Len(queue) : queue'[i] = queue[i]
          /\ queue'[Len(queue) + 1] = e
      BY <1>a, QueueAppend
    <2>2. Pending => Pending'
      BY <2>1 DEF Pending
    <2>3. e.ev \in {"exit", "error"} => Pending'
      BY <2>1 DEF Pending
    <2>4. ASSUME NEW i \in DOMAIN queue'
          PROVE  /\ queue'[i].ev = "sentinel" => i = Len(queue') /\ thread' = "ended"
                 /\ queue'[i].ev = "exit" => HonestNext(queue'[i].code)
      <3>1. CASE i = Len(queue) + 1
        BY <1>a, <2>1, <3>1
      <3>2. CASE i \in 1 .. Len(queue)
        BY <1>a, <1>h, <1>n, <2>1, <3>2 DEF HonestInv, QueueInv
      <3> QED
        BY <2>1, <3>1, <3>2
    <2> QED
      BY <1>n, <2>2, <2>3, <2>4
  <1>q. ASSUME UNCHANGED queue, thread = "ended" => thread' = "ended"
        PROVE  QueueInv' /\ (Pending => Pending')
    BY <1>q, <1>h, <1>n DEF HonestInv, QueueInv, Pending
  <1>1. ASSUME NEW k \in Streams, NEW n \in 1 .. MaxChunk, Deliver(k, n) PROVE HonestInv'
    <2> DEFINE bytes == [i \in 1 .. n |-> out[k] + i]
    <2>1. bytes \in Seq(Nat)
      BY ExecAssumption DEF TypeOK
    <2>2. QueueInv'
      <3>1. CASE UNCHANGED queue
        BY <1>1, <1>q, <3>1 DEF Deliver
      <3>2. CASE queue' = Append(queue, ChunkEvent(k, bytes))
        <4>1. ChunkEvent(k, bytes) \in Event /\ ChunkEvent(k, bytes).ev = "chunk"
          BY <2>1, EventsTyped DEF ChunkEvent
        <4>2. thread # "ended"
          BY <1>1 DEF Deliver
        <4> HIDE DEF bytes
        <4> QED
          BY <1>a, <3>2, <4>1, <4>2
      <3> QED
        BY <1>1, <3>1, <3>2 DEF Deliver
    <2> QED
      BY <1>1, <1>h, <1>n, <2>2 DEF Deliver, HonestInv, callVars, clientVars
  <1> USE DEF callVars, dockerVars, threadVars, keptVars, clientVars, auditVars
  <1>2. CASE Spawn
    BY <1>2, <1>h, <1>n, <1>q DEF Spawn, HonestInv
  <1>3. CASE Inspect
    <2>1. thread = "reading" /\ cmd = "ended" /\ UNCHANGED <<kind, pc, cmd, code, failed, result>>
      BY <1>3 DEF Inspect
    <2>2. CASE kind = "logs"
      BY <1>3, <1>h, <1>n, <1>q, <2>1, <2>2 DEF Inspect, HonestInv
    <2>3. CASE kind # "logs"
      <3> DEFINE c == IF inspected' = "code" THEN code ELSE "ok"
      <3>1. /\ inspected' \in {"code", "none"}
            /\ IF kind = "exec"
               THEN exit' = c /\ thread' = "ended" /\ UNCHANGED queue
               ELSE queue' = Append(queue, ExitEvent(c)) /\ thread' = "closing" /\ UNCHANGED exit
        BY <1>3, <2>3 DEF Inspect
      <3>2. HonestNext(c) /\ c \in Codes
        BY <2>1, <3>1 DEF HonestNext, TypeOK, Codes
      <3> HIDE DEF c
      <3>3. CASE kind = "exec"
        BY <1>h, <1>n, <1>q, <2>1, <3>1, <3>2, <3>3 DEF HonestInv, ControlInv
      <3>4. CASE kind # "exec"
        <4>1. ExitEvent(c) \in Event /\ ExitEvent(c).ev = "exit" /\ ExitEvent(c).code = c
          BY <3>2, EventsTyped DEF ExitEvent
        <4>2. QueueInv' /\ Pending'
          BY <1>a, <2>1, <3>1, <3>2, <3>4, <4>1
        <4> QED
          BY <1>h, <1>n, <2>1, <3>1, <3>4, <4>2 DEF HonestInv
      <3> QED
        BY <3>3, <3>4
    <2> QED
      BY <2>2, <2>3
  <1>4. CASE ThreadFails
    <2>1. CASE kind \in {"stream", "mcp"}
      <3>1. ErrorEvent \in Event /\ ErrorEvent.ev = "error"
        BY EventsTyped DEF ErrorEvent
      <3>2. QueueInv' /\ Pending'
        BY <1>4, <1>a, <2>1, <3>1 DEF ThreadFails
      <3> QED
        BY <1>4, <1>h, <1>n, <2>1, <3>2 DEF ThreadFails, HonestInv
    <2>2. CASE kind \notin {"stream", "mcp"}
      BY <1>4, <1>h, <1>n, <1>q, <2>2 DEF ThreadFails, HonestInv
    <2> QED
      BY <2>1, <2>2
  <1>5. CASE ThreadCloses
    <2>1. Sentinel \in Event /\ Sentinel.ev = "sentinel"
      BY EventsTyped DEF Sentinel
    <2>2. QueueInv' /\ (Pending => Pending')
      BY <1>5, <1>a, <2>1 DEF ThreadCloses
    <2> QED
      BY <1>5, <1>h, <1>n, <2>2 DEF ThreadCloses, HonestInv, ControlInv
  <1> QED
    BY <1>1, <1>2, <1>3, <1>4, <1>5

\* The event loop: when it meets the sentinel nothing else is in the queue, so the
\* outcome is known.
LEMMA LoopHonest ==
  ASSUME TypeOK, ControlInv, HonestInv, Loop
  PROVE  HonestInv'
  <1>h. \A c : Honest(c) => HonestNext(c)
    BY HonestStays DEF Next
  <1>n. /\ Honest(exit)' <=> HonestNext(exit')
        /\ Honest(result)' <=> HonestNext(result')
        /\ (\A i \in DOMAIN queue' :
              /\ queue'[i].ev = "sentinel" => i = Len(queue') /\ thread' = "ended"
              /\ queue'[i].ev = "exit" => HonestNext(queue'[i].code)) => QueueInv'
    BY DEF Honest, HonestNext, QueueInv
  <1> USE DEF callVars, dockerVars, threadVars, keptVars, clientVars, auditVars
  <1>u. UNCHANGED <<kind, thread, cmd, inspected>>
    BY DEF Loop, TakeChunk, TakeLog, TakeExit, TakeError, TakeSentinel, SendResult, RunReturns
  <1>t. ASSUME NEW e, TakeEvent(e)
        PROVE  /\ QueueInv'
               /\ e \notin {"exit", "error"} /\ Pending => Pending'
               /\ e = "exit" => HonestNext(Head(queue).code)
               /\ e = "sentinel" => ~Pending
    <2>1. /\ Len(queue) \in Nat \ {0} /\ Len(queue') = Len(queue) - 1
          /\ DOMAIN queue = 1 .. Len(queue) /\ DOMAIN queue' = 1 .. Len(queue) - 1
          /\ \A i \in DOMAIN queue' : i + 1 \in DOMAIN queue /\ queue'[i] = queue[i + 1]
          /\ queue[1].ev = e /\ Head(queue) = queue[1]
      BY <1>t, QueueTail
    <2>2. ASSUME NEW i \in DOMAIN queue'
          PROVE  /\ queue'[i].ev = "sentinel" => i = Len(queue') /\ thread' = "ended"
                 /\ queue'[i].ev = "exit" => HonestNext(queue'[i].code)
      BY <1>h, <1>n, <1>u, <2>1, <2>2 DEF HonestInv, QueueInv
    <2>3. ASSUME e \notin {"exit", "error"}, Pending PROVE Pending'
      <3>1. PICK j \in DOMAIN queue : queue[j].ev \in {"exit", "error"}
        BY <2>3 DEF Pending
      <3>2. j # 1
        BY <2>1, <2>3, <3>1
      <3>3. j - 1 \in DOMAIN queue' /\ queue'[j - 1] = queue[j]
        BY <2>1, <3>2
      <3> QED
        BY <3>1, <3>3 DEF Pending
    <2>4. e = "exit" => HonestNext(Head(queue).code)
      BY <1>h, <1>n, <2>1 DEF HonestInv, QueueInv
    <2>5. e = "sentinel" => ~Pending
      BY <2>1 DEF HonestInv, QueueInv, Pending
    <2> QED
      BY <1>n, <2>2, <2>3, <2>4, <2>5
  <1>1. CASE TakeChunk
    <2>1. QueueInv' /\ (Pending => Pending')
      BY <1>1, <1>t DEF TakeChunk
    <2> QED
      BY <1>1, <1>h, <1>n, <1>u, <2>1 DEF TakeChunk, HonestInv
  <1>2. CASE TakeLog
    <2>1. QueueInv' /\ (Pending => Pending')
      BY <1>2, <1>t DEF TakeLog
    <2> QED
      BY <1>2, <1>h, <1>n, <1>u, <2>1 DEF TakeLog, HonestInv
  <1>3. CASE TakeExit
    <2>1. QueueInv' /\ HonestNext(exit')
      BY <1>3, <1>t DEF TakeExit
    <2>2. kind # "exec" /\ pc # "result"
      BY <1>3 DEF TakeExit, TakeEvent, ControlInv
    <2> QED
      BY <1>3, <1>h, <1>n, <1>u, <2>1, <2>2 DEF TakeExit, HonestInv
  <1>4. CASE TakeError
    <2>1. QueueInv'
      BY <1>4, <1>t DEF TakeError
    <2>2. kind # "exec"
      BY <1>4 DEF TakeError, TakeEvent, ControlInv
    <2> QED
      BY <1>4, <1>h, <1>n, <1>u, <2>1, <2>2 DEF TakeError, HonestInv
  <1>5. CASE TakeSentinel
    <2>1. QueueInv' /\ ~Pending
      BY <1>5, <1>t DEF TakeSentinel
    <2>2. thread = "ended" /\ kind # "exec"
      <3>1. queue[1].ev = "sentinel" /\ 1 \in DOMAIN queue
        BY <1>5, QueueTail DEF TakeSentinel
      <3> QED
        BY <1>5, <3>1 DEF TakeSentinel, TakeEvent, ControlInv, HonestInv, QueueInv
    <2>3. kind \in {"stream", "mcp"} => failed \/ Honest(exit)
      BY <2>1, <2>2 DEF HonestInv
    <2>4. kind \in {"stream", "mcp", "logs"}
      BY <2>2 DEF TypeOK, CallKinds
    <2> QED
      BY <1>5, <1>h, <1>n, <1>u, <2>1, <2>2, <2>3, <2>4 DEF TakeSentinel, HonestInv
  <1>6. CASE SendResult
    <2>1. QueueInv' /\ (Pending => Pending')
      BY <1>6, <1>h, <1>n DEF SendResult, HonestInv, QueueInv, Pending
    <2> QED
      BY <1>6, <1>h, <1>n, <1>u, <2>1 DEF SendResult, HonestInv
  <1>7. CASE RunReturns
    <2>1. QueueInv' /\ (Pending => Pending')
      BY <1>7, <1>h, <1>n DEF RunReturns, HonestInv, QueueInv, Pending
    <2> QED
      BY <1>7, <1>h, <1>n, <1>u, <2>1 DEF RunReturns, HonestInv
  <1> QED
    BY <1>1, <1>2, <1>3, <1>4, <1>5, <1>6, <1>7 DEF Loop

\* The call's arrival, the command, its container and a client that leaves.
LEMMA OutsideHonest ==
  ASSUME TypeOK, ControlInv, HonestInv,
         (\E kd \in Calls : Start(kd)) \/ CommandEnds \/ ContainerDown \/ Disconnect \/ UNCHANGED vars
  PROVE  HonestInv'
  <1>h. \A c : Honest(c) => HonestNext(c)
    BY HonestStays DEF Next
  <1>n. /\ Honest(exit)' <=> HonestNext(exit')
        /\ Honest(result)' <=> HonestNext(result')
        /\ (\A i \in DOMAIN queue' :
              /\ queue'[i].ev = "sentinel" => i = Len(queue') /\ thread' = "ended"
              /\ queue'[i].ev = "exit" => HonestNext(queue'[i].code)) => QueueInv'
    BY DEF Honest, HonestNext, QueueInv
  <1> USE DEF callVars, dockerVars, threadVars, keptVars, clientVars, auditVars, vars
  <1>q. queue' = queue /\ exit' = exit /\ result' = result /\ failed' = failed /\ inspected' = inspected
    BY DEF Start, CommandEnds, ContainerDown, Disconnect
  <1>1. CASE \E kd \in Calls : Start(kd)
    BY <1>1, <1>h, <1>n, <1>q DEF Start, ControlInv, HonestInv, QueueInv
  <1>2. CASE CommandEnds \/ ContainerDown \/ Disconnect \/ UNCHANGED vars
    <2>1. /\ UNCHANGED <<kind, thread>> /\ (pc' = pc \/ pc' = "gone")
          /\ cmd = "none" => cmd' = "none"
      BY <1>2 DEF CommandEnds, ContainerDown, Disconnect
    <2>2. QueueInv' /\ (Pending => Pending')
      BY <1>h, <1>n, <1>q, <2>1 DEF HonestInv, QueueInv, Pending
    <2> QED
      BY <1>h, <1>n, <1>q, <2>1, <2>2 DEF HonestInv
  <1> QED
    BY <1>1, <1>2

\* The outcome comes before the sentinel, and the sentinel is last, in every state.
LEMMA HonestHolds == Spec => []HonestInv
  <1>1. Init => HonestInv
    BY DEF Init, HonestInv, QueueInv
  <1>2. TypeOK /\ ControlInv /\ HonestInv /\ [Next]_vars => HonestInv'
    BY ThreadHonest, LoopHonest, OutsideHonest DEF Next
  <1> QED
    BY <1>1, <1>2, TypeCorrect, ControlHolds, PTL DEF Spec

\* An exit code 0 without an error event is the command's own, whatever happens to
\* the container, the thread or the client in between.
THEOREM ResultsAreHonest == Spec => []ResultIsHonest
  <1>1. HonestInv => ResultIsHonest
    BY DEF HonestInv, Honest, ResultIsHonest
  <1> QED
    BY <1>1, HonestHolds, PTL

-----------------------------------------------------------------------------
(* Bytes *)

\* The first bytes of a stream, as a sequence.
LEMMA FirstBytesProperties ==
  ASSUME NEW n \in Nat
  PROVE  /\ FirstBytes(n) \in Seq(Nat) /\ Len(FirstBytes(n)) = n
         /\ DOMAIN FirstBytes(n) = 1 .. n /\ \A i \in 1 .. n : FirstBytes(n)[i] = i
  BY DEF FirstBytes

\* A sequence of that form is the first bytes of a stream.
LEMMA FirstBytesUnique ==
  ASSUME NEW s \in Seq(Nat), NEW n \in Nat, Len(s) = n, \A i \in 1 .. n : s[i] = i
  PROVE  s = FirstBytes(n)
  BY SeqEqual, FirstBytesProperties

\* The bytes that come next extend the first bytes.
LEMMA FirstBytesExtend ==
  ASSUME NEW n \in Nat, NEW s \in Seq(Nat), \A j \in 1 .. Len(s) : s[j] = n + j
  PROVE  FirstBytes(n) \o s = FirstBytes(n + Len(s))
  <1> DEFINE f == FirstBytes(n)
             m == Len(s)
  <1>1. f \in Seq(Nat) /\ Len(f) = n /\ \A i \in 1 .. n : f[i] = i
    BY FirstBytesProperties
  <1>2. m \in Nat
    OBVIOUS
  <1> HIDE DEF f
  <1>3. /\ f \o s \in Seq(Nat) /\ Len(f \o s) = n + m
        /\ \A i \in 1 .. n : (f \o s)[i] = f[i]
        /\ \A i \in 1 .. n + m : i > n => (f \o s)[i] = s[i - n]
    <2>1. /\ f \o s \in Seq(Nat) /\ Len(f \o s) = Len(f) + Len(s)
          /\ \A i \in 1 .. Len(f) + Len(s) :
               (f \o s)[i] = IF i <= Len(f) THEN f[i] ELSE s[i - Len(f)]
      BY <1>1, ConcatProperties
    <2>2. /\ f \o s \in Seq(Nat) /\ Len(f \o s) = n + m
          /\ \A i \in 1 .. n + m : (f \o s)[i] = IF i <= n THEN f[i] ELSE s[i - n]
      BY <1>1, <2>1
    <2> HIDE DEF m
    <2> QED
      BY <1>2, <2>2
  <1>4. \A i \in 1 .. n + m : i > n => s[i - n] = i
    <2>1. SUFFICES ASSUME NEW i \in 1 .. n + m, i > n PROVE s[i - n] = i
      OBVIOUS
    <2>2. i - n \in 1 .. Len(s) /\ n + (i - n) = i
      BY <1>2, <2>1
    <2>3. QED
      BY <2>2
  <1>5. \A i \in 1 .. n + m : (f \o s)[i] = i
    BY <1>1, <1>2, <1>3, <1>4
  <1>6. n + m \in Nat
    BY <1>2
  <1>7. f \o s = FirstBytes(n + m)
    BY <1>3, <1>5, <1>6, FirstBytesUnique
  <1> QED
    BY <1>7 DEF f

\* _append_capped, when the chunk is what comes next in its stream, or the cap is
\* reached already: what is kept is the stream up to the cap.
LEMMA CapStep ==
  ASSUME TypeOK, NEW k \in Streams, NEW bytes \in Seq(Nat), AppendCapped(k, bytes),
         NEW n \in Nat, n <= Cap, buf[k] = FirstBytes(n),
         n = Cap \/ \A j \in 1 .. Len(bytes) : bytes[j] = n + j
  PROVE  /\ buf' = [buf EXCEPT ![k] = FirstBytes(Smaller(n + Len(bytes), Cap))]
         /\ truncated' = IF n + Len(bytes) > Cap THEN truncated \cup {k} ELSE truncated
  <1> DEFINE b == Len(bytes)
             m == Smaller(b, Cap - n)
             part == SubSeq(bytes, 1, m)
  <1>1. Cap \in Nat /\ b \in Nat /\ Len(buf[k]) = n
    BY ExecAssumption, FirstBytesProperties
  <1>2. buf' = [buf EXCEPT ![k] = buf[k] \o part]
    BY <1>1 DEF AppendCapped, TypeOK
  <1>3. truncated' = IF n + b > Cap THEN truncated \cup {k} ELSE truncated
    BY <1>1 DEF AppendCapped
  <1>b. b = Len(bytes)
    OBVIOUS
  <1> HIDE DEF b
  <1>4. m \in Nat /\ m <= b /\ n + m = Smaller(n + b, Cap) /\ (n = Cap => m = 0)
    BY <1>1 DEF Smaller
  <1> HIDE DEF m
  <1>5. /\ part \in Seq(Nat) /\ Len(part) = m
        /\ \A j \in 1 .. m : part[j] = bytes[j] /\ j \in 1 .. b
    BY <1>1, <1>4, <1>b
  <1>6. \A j \in 1 .. m : part[j] = n + j
    BY <1>1, <1>4, <1>5, <1>b
  <1> HIDE DEF part
  <1>7. buf[k] \o part = FirstBytes(n + m)
    BY <1>5, <1>6, FirstBytesExtend
  <1> QED
    BY <1>2, <1>3, <1>4, <1>7, <1>b

\* Fewer first bytes are a prefix of more, with or without a notice behind them.
LEMMA PrefixBeforeNotice ==
  ASSUME NEW m \in Nat, NEW n \in Nat, n <= m
  PROVE  IsPrefix(FirstBytes(n), FirstBytes(m)) /\ IsPrefix(FirstBytes(n), Append(FirstBytes(m), 0))
  <1> DEFINE f == FirstBytes(n)
             g == FirstBytes(m)
             h == Append(g, 0)
  <1>1. f \in Seq(Nat) /\ Len(f) = n /\ \A i \in 1 .. n : f[i] = i
    BY FirstBytesProperties
  <1>2. g \in Seq(Nat) /\ Len(g) = m /\ \A i \in 1 .. m : g[i] = i
    BY FirstBytesProperties
  <1> HIDE DEF f, g
  <1>3. h \in Seq(Nat) /\ Len(h) = m + 1 /\ \A i \in 1 .. m : h[i] = i
    BY <1>2, AppendProperties
  <1> HIDE DEF h
  <1>4. ASSUME NEW t \in Seq(Nat), n <= Len(t), \A i \in 1 .. n : t[i] = i
        PROVE  IsPrefix(f, t)
    <2>1. /\ SubSeq(f, 1, n) \in Seq(Nat) /\ Len(SubSeq(f, 1, n)) = n
          /\ \A i \in 1 .. n : SubSeq(f, 1, n)[i] = i
      BY <1>1
    <2>2. /\ SubSeq(t, 1, n) \in Seq(Nat) /\ Len(SubSeq(t, 1, n)) = n
          /\ \A i \in 1 .. n : SubSeq(t, 1, n)[i] = i
      BY <1>4
    <2>3. SubSeq(f, 1, n) = SubSeq(t, 1, n)
      BY <2>1, <2>2, FirstBytesUnique
    <2> QED
      BY <1>1, <1>4, <2>3 DEF IsPrefix
  <1>5. IsPrefix(f, g) /\ IsPrefix(f, h)
    BY <1>2, <1>3, <1>4
  <1> QED
    BY <1>5 DEF f, g, h

\* The notice is no byte of a stream.
LEMMA NoticeSeen ==
  ASSUME NEW n \in Nat
  PROVE  0 \notin Range(FirstBytes(n)) /\ 0 \in Range(Append(FirstBytes(n), 0))
  <1> DEFINE f == FirstBytes(n)
             h == Append(f, 0)
  <1>1. f \in Seq(Nat) /\ Len(f) = n /\ DOMAIN f = 1 .. n /\ \A i \in 1 .. n : f[i] = i
    BY FirstBytesProperties
  <1> HIDE DEF f
  <1>2. n + 1 \in DOMAIN h /\ h[n + 1] = 0
    BY <1>1, AppendProperties
  <1> HIDE DEF h
  <1>3. 0 \notin Range(f)
    BY <1>1 DEF Range
  <1>4. 0 \in Range(h)
    BY <1>2 DEF Range
  <1> QED
    BY <1>3, <1>4 DEF f, h

-----------------------------------------------------------------------------
(* What the queue carries *)

IsChunk(e, k) == e.ev = "chunk" /\ e.stream = k

\* p[i] is the position in stream k before the i-th event of q: the chunks of k in
\* q follow each other without a gap, up to position n.
Chain(p, q, k, n) ==
  /\ p \in [1 .. Len(q) + 1 -> 0 .. n]
  /\ p[Len(q) + 1] = n
  /\ \A i \in 1 .. Len(q) :
       IF IsChunk(q[i], k)
       THEN /\ Len(q[i].bytes) \in 1 .. MaxChunk
            /\ p[i + 1] = p[i] + Len(q[i].bytes)
            /\ \A j \in 1 .. Len(q[i].bytes) : q[i].bytes[j] = p[i] + j
       ELSE p[i + 1] = p[i]

\* The chunks of k in q carry the bytes of the stream after position x up to n.
Carries(q, k, x, n) == \E p : Chain(p, q, k, n) /\ p[1] = x

\* An empty queue carries nothing.
LEMMA CarriesNothing ==
  ASSUME NEW n \in Nat, NEW k
  PROVE  Carries(<<>>, k, n, n) /\ \A x : Carries(<<>>, k, x, n) => x = n
  <1> DEFINE p == [i \in 1 .. 1 |-> n]
  <1>1. Chain(p, <<>>, k, n) /\ p[1] = n
    BY DEF Chain
  <1>2. ASSUME NEW x, NEW q, Chain(q, <<>>, k, n), q[1] = x PROVE x = n
    BY <1>2 DEF Chain
  <1> HIDE DEF p
  <1> QED
    BY <1>1, <1>2 DEF Carries

\* The position is one of the stream.
LEMMA CarriesFrom ==
  ASSUME NEW q \in Seq(Event), NEW k, NEW n \in Nat, NEW x, Carries(q, k, x, n)
  PROVE  x \in 0 .. n
  <1>1. PICK p : Chain(p, q, k, n) /\ p[1] = x
    BY DEF Carries
  <1>2. Len(q) \in Nat /\ 1 \in 1 .. Len(q) + 1
    OBVIOUS
  <1> QED
    BY <1>1, <1>2 DEF Chain

\* The thread puts the next bytes of k, or something else, at the end.
LEMMA CarriesMore ==
  ASSUME NEW q \in Seq(Event), NEW k, NEW n \in Nat, NEW x, Carries(q, k, x, n),
         NEW e \in Event, NEW m \in Nat,
         IF IsChunk(e, k)
         THEN /\ Len(e.bytes) \in 1 .. MaxChunk /\ m = n + Len(e.bytes)
              /\ \A j \in 1 .. Len(e.bytes) : e.bytes[j] = n + j
         ELSE m = n
  PROVE  Carries(Append(q, e), k, x, m)
  <1> DEFINE len == Len(q)
             r == Append(q, e)
  <1>1. PICK p : Chain(p, q, k, n) /\ p[1] = x
    BY DEF Carries
  <1> DEFINE s == [i \in 1 .. len + 2 |-> IF i <= len + 1 THEN p[i] ELSE m]
  <1>2. len \in Nat /\ Len(r) = len + 1 /\ (\A i \in 1 .. len : r[i] = q[i]) /\ r[len + 1] = e
    BY AppendProperties
  <1>3. n <= m
    BY ExecAssumption
  <1>4. p \in [1 .. len + 1 -> 0 .. n] /\ p[len + 1] = n /\ p[1] = x
    BY <1>1 DEF Chain
  <1>5. \A i \in 1 .. len :
          IF IsChunk(q[i], k)
          THEN /\ Len(q[i].bytes) \in 1 .. MaxChunk
               /\ p[i + 1] = p[i] + Len(q[i].bytes)
               /\ \A j \in 1 .. Len(q[i].bytes) : q[i].bytes[j] = p[i] + j
          ELSE p[i + 1] = p[i]
    BY <1>1 DEF Chain
  <1> HIDE DEF len, r
  <1>6. s \in [1 .. len + 2 -> 0 .. m] /\ s[len + 2] = m /\ s[1] = x
    BY <1>2, <1>3, <1>4
  <1>7. (\A i \in 1 .. len : s[i] = p[i] /\ s[i + 1] = p[i + 1]) /\ s[len + 1] = n
    BY <1>2, <1>4
  <1> HIDE DEF s
  <1>8. ASSUME NEW i \in 1 .. len + 1
        PROVE  IF IsChunk(r[i], k)
               THEN /\ Len(r[i].bytes) \in 1 .. MaxChunk
                    /\ s[i + 1] = s[i] + Len(r[i].bytes)
                    /\ \A j \in 1 .. Len(r[i].bytes) : r[i].bytes[j] = s[i] + j
               ELSE s[i + 1] = s[i]
    <2>1. CASE i = len + 1
      <3>1. i + 1 = len + 2 /\ r[i] = e /\ s[i] = n /\ s[i + 1] = m
        BY <1>2, <1>6, <1>7, <2>1
      <3> QED
        BY <3>1
    <2>2. CASE i \in 1 .. len
      BY <1>2, <1>5, <1>7, <2>2
    <2> QED
      BY <1>2, <2>1, <2>2
  <1>9. Chain(s, r, k, m)
    <2>1. Len(r) + 1 = len + 2
      BY <1>2
    <2> QED
      BY <1>2, <1>6, <1>8, <2>1 DEF Chain
  <1> QED
    BY <1>6, <1>9 DEF Carries, r

\* The loop takes the event at the head: the next bytes of k, or something else.
LEMMA CarriesLess ==
  ASSUME NEW q \in Seq(Event), q # <<>>, NEW k, NEW n \in Nat, NEW x, Carries(q, k, x, n)
  PROVE  IF IsChunk(Head(q), k)
         THEN /\ Len(Head(q).bytes) \in 1 .. MaxChunk
              /\ \A j \in 1 .. Len(Head(q).bytes) : Head(q).bytes[j] = x + j
              /\ Carries(Tail(q), k, x + Len(Head(q).bytes), n)
         ELSE Carries(Tail(q), k, x, n)
  <1> DEFINE len == Len(q)
             r == Tail(q)
  <1>1. PICK p : Chain(p, q, k, n) /\ p[1] = x
    BY DEF Carries
  <1> DEFINE s == [i \in 1 .. len |-> p[i + 1]]
  <1>2. len \in Nat \ {0} /\ Len(r) = len - 1 /\ (\A i \in 1 .. len - 1 : r[i] = q[i + 1]) /\ Head(q) = q[1]
    <2>1. Head(q) = q[1] /\ Len(q) \in Nat \ {0}
      OBVIOUS
    <2>2. Len(r) = len - 1 /\ (\A i \in 1 .. Len(r) : r[i] = q[i + 1])
      BY HeadTailProperties
    <2> QED
      BY <2>1, <2>2
  <1>3. p \in [1 .. len + 1 -> 0 .. n] /\ p[len + 1] = n /\ p[1] = x
    BY <1>1 DEF Chain
  <1>4. \A i \in 1 .. len :
          IF IsChunk(q[i], k)
          THEN /\ Len(q[i].bytes) \in 1 .. MaxChunk
               /\ p[i + 1] = p[i] + Len(q[i].bytes)
               /\ \A j \in 1 .. Len(q[i].bytes) : q[i].bytes[j] = p[i] + j
          ELSE p[i + 1] = p[i]
    BY <1>1 DEF Chain
  <1> HIDE DEF len, r
  <1>5. s \in [1 .. len -> 0 .. n] /\ s[len] = n /\ s[1] = p[2] /\ \A i \in 1 .. len : s[i] = p[i + 1]
    BY <1>2, <1>3
  <1> HIDE DEF s
  <1>6. ASSUME NEW i \in 1 .. len - 1
        PROVE  IF IsChunk(r[i], k)
               THEN /\ Len(r[i].bytes) \in 1 .. MaxChunk
                    /\ s[i + 1] = s[i] + Len(r[i].bytes)
                    /\ \A j \in 1 .. Len(r[i].bytes) : r[i].bytes[j] = s[i] + j
               ELSE s[i + 1] = s[i]
    <2>1. i + 1 \in 1 .. len /\ r[i] = q[i + 1] /\ s[i] = p[i + 1] /\ s[i + 1] = p[(i + 1) + 1]
      BY <1>2, <1>5
    <2> QED
      BY <1>4, <2>1
  <1>7. Chain(s, r, k, n)
    <2>1. Len(r) + 1 = len /\ Len(r) = len - 1
      BY <1>2
    <2> QED
      BY <1>5, <1>6, <2>1 DEF Chain
  <1>8. Carries(r, k, p[2], n)
    BY <1>5, <1>7 DEF Carries
  <1>9. 1 \in 1 .. len /\ 1 + 1 = 2
    BY <1>2
  <1>10. IF IsChunk(q[1], k)
         THEN /\ Len(q[1].bytes) \in 1 .. MaxChunk
              /\ p[2] = x + Len(q[1].bytes)
              /\ \A j \in 1 .. Len(q[1].bytes) : q[1].bytes[j] = x + j
         ELSE p[2] = x
    BY <1>3, <1>4, <1>9
  <1> QED
    BY <1>2, <1>8, <1>10 DEF r

-----------------------------------------------------------------------------
(* The output *)

\* A stream whose handler is done has taken everything from the queue; only a
\* command's call that is done has a result.
EndInv ==
  /\ kind # "exec" /\ pc \in {"result", "done"} => queue = <<>> /\ thread = "ended"
  /\ result # "none" => pc = "done"
  /\ kind = "logs" => pc # "result" /\ result = "none"
  /\ pc = "new" => announced = {} /\ \A k \in Streams : out[k] = 0

\* POST /exec keeps the output as Docker delivers it.
ExecInv ==
  kind = "exec" =>
    \A k \in Streams :
      /\ buf[k] = FirstBytes(Smaller(out[k], Cap))
      /\ k \in truncated <=> out[k] > Cap
      /\ sent[k] = <<>>

\* How far the loop is in a stream.
Position(k) == IF kind = "logs" THEN Len(sent[k]) ELSE Len(buf[k])

\* What a stream has kept and what is in its queue make up what Docker delivered.
StreamInv ==
  kind # "exec" =>
    \A k \in Streams :
      /\ buf[k] = FirstBytes(Len(buf[k]))
      /\ k \in truncated => Len(buf[k]) = Cap /\ out[k] > Cap
      /\ \E x : Carries(queue, k, x, out[k]) /\ (k \notin truncated => x = Position(k))

\* What was sent: of a log everything so far; of a command what is kept, or, with
\* the notice at the end, the chunk that did not fit as a whole.
SentInv ==
  /\ kind = "logs" =>
       truncated = {} /\ \A k \in Streams : buf[k] = <<>> /\ sent[k] = FirstBytes(Len(sent[k]))
  /\ kind \in {"stream", "mcp"} =>
       /\ announced = truncated
       /\ \A k \in Streams :
            IF k \in truncated
            THEN \E m \in Cap + 1 .. Cap + MaxChunk : m <= out[k] /\ sent[k] = Append(FirstBytes(m), 0)
            ELSE sent[k] = buf[k]

DataInv == ExecInv /\ StreamInv /\ SentInv

\* The sentinel is the last event, so the queue is empty when the call ends.
LEMMA EndKept ==
  ASSUME TypeOK, ControlInv, HonestInv, EndInv, [Next]_vars
  PROVE  EndInv'
  <1> USE DEF EndInv, callVars, dockerVars, threadVars, keptVars, clientVars, auditVars
  <1>1. CASE UNCHANGED vars
    BY <1>1 DEF vars
  <1>2. ASSUME NEW kd \in Calls, Start(kd) PROVE EndInv'
    BY <1>2 DEF Start
  <1>3. ASSUME NEW k \in Streams, NEW n \in 1 .. MaxChunk, Deliver(k, n) PROVE EndInv'
    BY <1>3 DEF Deliver, ControlInv
  <1>4. CASE Spawn
    BY <1>4 DEF Spawn
  <1>5. CASE Inspect
    BY <1>5 DEF Inspect
  <1>6. CASE ThreadFails
    BY <1>6 DEF ThreadFails
  <1>7. CASE ThreadCloses
    BY <1>7 DEF ThreadCloses
  <1>8. CASE TakeChunk
    BY <1>8 DEF TakeChunk, TakeEvent
  <1>9. CASE TakeLog
    BY <1>9 DEF TakeLog, TakeEvent
  <1>10. CASE TakeExit
    BY <1>10 DEF TakeExit, TakeEvent
  <1>11. CASE TakeError
    BY <1>11 DEF TakeError, TakeEvent
  <1>12. CASE TakeSentinel
    <2>1. TakeEvent("sentinel")
      BY <1>12 DEF TakeSentinel
    <2>2. /\ Len(queue') = Len(queue) - 1 /\ 1 \in DOMAIN queue /\ queue[1].ev = "sentinel"
          /\ queue' \in Seq(Event)
      BY <2>1, QueueTail, TakeTyped
    <2>3. Len(queue) = 1 /\ thread = "ended"
      BY <2>2 DEF HonestInv, QueueInv
    <2>4. queue' = <<>>
      BY <2>2, <2>3, EmptySeq
    <2>5. result = "none"
      BY <2>1 DEF TakeEvent, ControlInv
    <2> QED
      BY <1>12, <2>3, <2>4, <2>5 DEF TakeSentinel
  <1>13. CASE SendResult
    BY <1>13 DEF SendResult
  <1>14. CASE RunReturns
    BY <1>14 DEF RunReturns
  <1>15. CASE CommandEnds \/ ContainerDown
    BY <1>15 DEF CommandEnds, ContainerDown
  <1>16. CASE Disconnect
    BY <1>16 DEF Disconnect, ControlInv
  <1> QED
    BY <1>1, <1>2, <1>3, <1>4, <1>5, <1>6, <1>7, <1>8, <1>9, <1>10, <1>11, <1>12, <1>13,
       <1>14, <1>15, <1>16 DEF Next, Loop

\* A call starts with no output and nothing in its queue.
LEMMA StartData ==
  ASSUME TypeOK, ControlInv, EndInv, DataInv, NEW kd \in Calls, Start(kd)
  PROVE  DataInv'
  <1>1. kind' = kd /\ UNCHANGED <<out, queue, buf, truncated, announced, sent>>
    BY DEF Start, dockerVars, keptVars, clientVars
  <1>2. /\ kind = "exec" /\ queue = <<>> /\ announced = {}
        /\ \A k \in Streams : out[k] = 0
    BY DEF Start, ControlInv, EndInv
  <1>3. Cap \in Nat /\ 0 <= Cap /\ ~(0 > Cap)
    BY ExecAssumption
  <1>4. truncated = {} /\ \A k \in Streams : sent[k] = <<>> /\ buf[k] = FirstBytes(0)
    BY <1>2, <1>3 DEF DataInv, ExecInv, Smaller, TypeOK
  <1>5. FirstBytes(0) = <<>> /\ Len(FirstBytes(0)) = 0
    BY FirstBytesProperties, EmptySeq
  <1>6. ExecInv'
    BY <1>1, <1>2, <1>4, <1>3 DEF ExecInv, Smaller
  <1>7. \A k \in Streams : Position(k)' = 0 /\ Carries(queue', k, 0, out'[k])
    BY <1>1, <1>2, <1>4, <1>5, CarriesNothing DEF Position
  <1>8. StreamInv'
    BY <1>1, <1>4, <1>5, <1>7 DEF StreamInv
  <1>9. SentInv'
    BY <1>1, <1>2, <1>4, <1>5 DEF SentInv
  <1> QED
    BY <1>6, <1>8, <1>9 DEF DataInv

\* Docker delivers the next bytes.
LEMMA DeliverData ==
  ASSUME TypeOK, ControlInv, DataInv, NEW c \in Streams, NEW n \in 1 .. MaxChunk, Deliver(c, n)
  PROVE  DataInv'
  <1>1. PICK bytes : bytes = [i \in 1 .. n |-> out[c] + i]
    OBVIOUS
  <1>2. n \in Nat \ {0} /\ out[c] \in Nat /\ Cap \in Nat /\ out \in [Streams -> Nat]
    BY ExecAssumption DEF TypeOK
  <1>3. bytes \in Seq(Nat) /\ Len(bytes) = n /\ \A j \in 1 .. n : bytes[j] = out[c] + j
    BY <1>1, <1>2
  <1>4. out' = [out EXCEPT ![c] = out[c] + n] /\ UNCHANGED <<kind, announced, sent>>
    BY <1>2 DEF Deliver, callVars, clientVars
  <1>5. out'[c] = out[c] + n /\ \A k \in Streams : k # c => out'[k] = out[k]
    BY <1>2, <1>4
  <1>6. CASE kind = "exec"
    <2>1. AppendCapped(c, bytes)
      BY <1>1, <1>6 DEF Deliver
    <2>2. buf[c] = FirstBytes(Smaller(out[c], Cap)) /\ (c \in truncated <=> out[c] > Cap)
      BY <1>6 DEF DataInv, ExecInv
    <2>3. PICK m \in Nat : /\ m = Smaller(out[c], Cap) /\ m <= Cap
                           /\ m = Cap \/ m = out[c]
                           /\ Smaller(m + n, Cap) = Smaller(out[c] + n, Cap)
                           /\ (m + n > Cap <=> out[c] + n > Cap)
      BY <1>2 DEF Smaller
    <2>4. m = Cap \/ \A j \in 1 .. Len(bytes) : bytes[j] = m + j
      BY <1>3, <2>3
    <2>5. /\ buf' = [buf EXCEPT ![c] = FirstBytes(Smaller(m + Len(bytes), Cap))]
          /\ truncated' = IF m + Len(bytes) > Cap THEN truncated \cup {c} ELSE truncated
      BY <1>3, <2>1, <2>2, <2>3, <2>4, CapStep
    <2>6. buf'[c] = FirstBytes(Smaller(out'[c], Cap)) /\ (c \in truncated' <=> out'[c] > Cap)
      <3>1. out[c] > Cap => out[c] + n > Cap
        BY <1>2
      <3> QED
        BY <1>3, <1>5, <2>2, <2>3, <2>5, <3>1 DEF TypeOK
    <2>7. \A k \in Streams : k # c => buf'[k] = buf[k] /\ (k \in truncated' <=> k \in truncated)
      BY <2>5 DEF TypeOK
    <2> QED
      BY <1>4, <1>5, <1>6, <2>6, <2>7 DEF DataInv, ExecInv, StreamInv, SentInv
  <1>7. CASE kind # "exec"
    <2>1. queue' = Append(queue, ChunkEvent(c, bytes)) /\ UNCHANGED <<buf, truncated>>
      BY <1>1, <1>7 DEF Deliver
    <2>2. /\ ChunkEvent(c, bytes) \in Event
          /\ \A k \in Streams : IsChunk(ChunkEvent(c, bytes), k) <=> k = c
          /\ ChunkEvent(c, bytes).bytes = bytes
      BY <1>3, EventsTyped DEF IsChunk, ChunkEvent
    <2>3. queue \in Seq(Event)
      BY DEF TypeOK
    <2>4. ASSUME NEW k \in Streams
          PROVE  /\ buf'[k] = FirstBytes(Len(buf'[k]))
                 /\ k \in truncated' => Len(buf'[k]) = Cap /\ out'[k] > Cap
                 /\ \E x : Carries(queue', k, x, out'[k]) /\ (k \notin truncated' => x = Position(k)')
      <3>1. /\ buf[k] = FirstBytes(Len(buf[k]))
            /\ k \in truncated => Len(buf[k]) = Cap /\ out[k] > Cap
        BY <1>7 DEF DataInv, StreamInv
      <3>2. PICK x : Carries(queue, k, x, out[k]) /\ (k \notin truncated => x = Position(k))
        BY <1>7 DEF DataInv, StreamInv
      <3>3. out'[k] \in Nat /\ out[k] \in Nat /\ out[k] <= out'[k]
        BY <1>2, <1>5
      <3>4. Carries(queue', k, x, out'[k])
        <4>1. CASE k = c
          BY <1>2, <1>3, <1>5, <2>1, <2>2, <2>3, <3>2, <3>3, <4>1, CarriesMore
        <4>2. CASE k # c
          BY <1>5, <2>1, <2>2, <2>3, <3>2, <3>3, <4>2, CarriesMore
        <4> QED
          BY <4>1, <4>2
      <3>5. Position(k)' = Position(k)
        BY <1>4, <2>1 DEF Position
      <3>6. k \in truncated' => Len(buf'[k]) = Cap /\ out'[k] > Cap
        BY <1>2, <2>1, <3>1, <3>3
      <3> QED
        BY <2>1, <3>1, <3>2, <3>4, <3>5, <3>6
    <2>5. ASSUME NEW k \in Streams, NEW m \in Cap + 1 .. Cap + MaxChunk, m <= out[k]
          PROVE  m <= out'[k]
      BY <1>2, <1>5, <2>5, ExecAssumption
    <2>6. SentInv'
      BY <1>4, <2>1, <2>5 DEF DataInv, SentInv
    <2> QED
      BY <1>4, <1>7, <2>4, <2>6 DEF DataInv, ExecInv, StreamInv
  <1> QED
    BY <1>6, <1>7

\* The steps that leave the output alone and put no chunk on the queue, nor take one.
LEMMA OtherData ==
  ASSUME TypeOK, DataInv, UNCHANGED <<kind, out, buf, truncated, announced, sent>>,
         \/ UNCHANGED queue
         \/ \E e \in Event : e.ev # "chunk" /\ queue' = Append(queue, e)
         \/ \E e : e # "chunk" /\ TakeEvent(e)
  PROVE  DataInv'
  <1>1. ASSUME NEW k \in Streams, NEW x, Carries(queue, k, x, out[k])
        PROVE  Carries(queue', k, x, out[k])
    <2>1. queue \in Seq(Event) /\ out[k] \in Nat
      BY DEF TypeOK
    <2>2. ASSUME NEW e \in Event, e.ev # "chunk", queue' = Append(queue, e)
          PROVE  Carries(queue', k, x, out[k])
      BY <1>1, <2>1, <2>2, CarriesMore DEF IsChunk
    <2>3. ASSUME NEW e, e # "chunk", TakeEvent(e)
          PROVE  Carries(queue', k, x, out[k])
      BY <1>1, <2>1, <2>3, CarriesLess DEF IsChunk, TakeEvent
    <2> QED
      BY <1>1, <2>2, <2>3
  <1>2. \A k \in Streams : Position(k)' = Position(k)
    BY DEF Position
  <1>3. StreamInv'
    <2>1. SUFFICES ASSUME kind # "exec", NEW k \in Streams
                   PROVE  /\ buf[k] = FirstBytes(Len(buf[k]))
                          /\ k \in truncated => Len(buf[k]) = Cap /\ out[k] > Cap
                          /\ \E x : Carries(queue', k, x, out[k]) /\ (k \notin truncated => x = Position(k))
      BY <1>2 DEF StreamInv
    <2>2. PICK x : Carries(queue, k, x, out[k]) /\ (k \notin truncated => x = Position(k))
      BY <2>1 DEF DataInv, StreamInv
    <2> QED
      BY <1>1, <2>1, <2>2 DEF DataInv, StreamInv
  <1>4. ExecInv' /\ SentInv'
    BY DEF DataInv, ExecInv, SentInv
  <1> QED
    BY <1>3, <1>4 DEF DataInv

\* The loop takes a chunk of a log: it is what comes next and is sent.
LEMMA LogData ==
  ASSUME TypeOK, DataInv, TakeLog
  PROVE  DataInv'
  <1>1. TakeEvent("chunk") /\ kind = "logs" /\ queue \in Seq(Event) /\ queue # <<>> /\ queue' = Tail(queue)
    BY DEF TakeLog, TakeEvent, TypeOK
  <1>2. PICK c \in Streams, bytes \in Seq(Nat) :
          c = Head(queue).stream /\ bytes = Head(queue).bytes /\ Head(queue).ev = "chunk"
    BY <1>1, TakeTyped, EventsTyped
  <1>3. /\ sent' = [sent EXCEPT ![c] = sent[c] \o bytes] /\ sent \in [Streams -> Seq(Nat)]
        /\ UNCHANGED <<kind, out, buf, truncated, announced>> /\ out \in [Streams -> Nat]
    BY <1>2 DEF TakeLog, TypeOK, callVars, dockerVars, keptVars
  <1>4. truncated = {} /\ \A k \in Streams : buf[k] = <<>> /\ sent[k] = FirstBytes(Len(sent[k]))
    BY <1>1 DEF DataInv, SentInv
  <1>5. ASSUME NEW k \in Streams
        PROVE  sent'[k] = FirstBytes(Len(sent'[k])) /\ Carries(queue', k, Len(sent'[k]), out[k])
    <2>1. Carries(queue, k, Len(sent[k]), out[k]) /\ Len(sent[k]) \in Nat /\ out[k] \in Nat
      BY <1>1, <1>3, <1>4 DEF DataInv, StreamInv, Position
    <2>2. CASE k = c
      <3>1. IsChunk(Head(queue), k)
        BY <1>2, <2>2 DEF IsChunk
      <3>2. /\ \A j \in 1 .. Len(bytes) : bytes[j] = Len(sent[k]) + j
            /\ Carries(queue', k, Len(sent[k]) + Len(bytes), out[k])
        BY <1>1, <1>2, <2>1, <3>1, CarriesLess
      <3>3. FirstBytes(Len(sent[k])) \o bytes = FirstBytes(Len(sent[k]) + Len(bytes))
        BY <1>2, <2>1, <3>2, FirstBytesExtend
      <3>4. sent'[k] = FirstBytes(Len(sent[k]) + Len(bytes))
        BY <1>3, <1>4, <2>2, <3>3
      <3>5. Len(sent[k]) + Len(bytes) \in Nat
        <4>1. Len(bytes) \in Nat
          BY <1>2, LenProperties
        <4> QED
          BY <2>1, <4>1
      <3>6. Len(sent'[k]) = Len(sent[k]) + Len(bytes)
        BY <3>4, <3>5, FirstBytesProperties
      <3> QED
        BY <3>2, <3>4, <3>6
    <2>3. CASE k # c
      <3>1. ~IsChunk(Head(queue), k)
        BY <1>2, <2>3 DEF IsChunk
      <3>2. Carries(queue', k, Len(sent[k]), out[k])
        BY <1>1, <2>1, <3>1, CarriesLess
      <3>3. sent'[k] = sent[k]
        BY <1>3, <2>3
      <3> QED
        BY <1>4, <3>2, <3>3
    <2> QED
      BY <2>2, <2>3
  <1>6. \A k \in Streams : Position(k)' = Len(sent'[k])
    BY <1>1, <1>3 DEF Position
  <1>7. StreamInv'
    BY <1>1, <1>3, <1>5, <1>6 DEF DataInv, StreamInv
  <1>8. SentInv' /\ ExecInv'
    BY <1>1, <1>3, <1>4, <1>5 DEF SentInv, ExecInv
  <1> QED
    BY <1>7, <1>8 DEF DataInv

\* The event at the head of the queue is a chunk.
AtHead(k, bytes) == Head(queue).ev = "chunk" /\ Head(queue).stream = k /\ Head(queue).bytes = bytes

\* What taking a chunk of k does to what is kept and sent of k: it fits, it is the
\* one that does not fit, or the stream was truncated before.
LEMMA ChunkTaken ==
  ASSUME TypeOK, DataInv, TakeChunk, kind \in {"stream", "mcp"},
         NEW c \in Streams, NEW bytes \in Seq(Nat), AtHead(c, bytes)
  PROVE  /\ UNCHANGED <<kind, out>> /\ announced' = truncated'
         /\ \A k \in Streams :
              k # c => buf'[k] = buf[k] /\ sent'[k] = sent[k] /\ (k \in truncated' <=> k \in truncated)
         /\ \E x : /\ Carries(queue', c, x, out[c])
                   /\ \/ /\ c \notin truncated' /\ x \in Nat
                         /\ buf'[c] = FirstBytes(x) /\ sent'[c] = FirstBytes(x)
                      \/ /\ c \in truncated' /\ out[c] > Cap /\ buf'[c] = FirstBytes(Cap)
                         /\ \E m \in Cap + 1 .. Cap + MaxChunk :
                              m <= out[c] /\ sent'[c] = Append(FirstBytes(m), 0)
  <1>n. PICK n \in Nat, b \in Nat : n = Len(buf[c]) /\ b = Len(bytes)
    BY LenProperties DEF TypeOK
  <1>1. /\ TakeEvent("chunk") /\ queue \in Seq(Event) /\ queue # <<>> /\ queue' = Tail(queue)
        /\ UNCHANGED <<kind, out>>
    BY DEF TakeChunk, TakeEvent, TypeOK, callVars, dockerVars
  <1>2. /\ AppendCapped(c, bytes) /\ announced' = announced \cup truncated'
        /\ sent' = [sent EXCEPT ![c] = (sent[c]
                      \o (IF c \in truncated THEN <<>> ELSE bytes))
                      \o (IF c \in truncated' \ announced THEN <<0>> ELSE <<>>)]
    BY DEF TakeChunk, TypeOK, AtHead
  <1>3. /\ b \in Nat /\ n \in Nat /\ n <= Cap /\ Cap \in Nat \ {0} /\ MaxChunk \in Nat /\ out[c] \in Nat
        /\ sent \in [Streams -> Seq(Nat)] /\ truncated \subseteq Streams
    BY <1>n, ExecAssumption DEF TypeOK
  <1>4. /\ announced = truncated /\ buf[c] = FirstBytes(n)
        /\ c \in truncated => n = Cap /\ out[c] > Cap
        /\ \A k \in Streams :
             IF k \in truncated
             THEN \E m \in Cap + 1 .. Cap + MaxChunk : m <= out[k] /\ sent[k] = Append(FirstBytes(m), 0)
             ELSE sent[k] = buf[k]
    BY <1>n DEF DataInv, StreamInv, SentInv
  <1>5. PICK y : Carries(queue, c, y, out[c]) /\ (c \notin truncated => y = n)
    BY <1>n DEF DataInv, StreamInv, Position
  <1>6. /\ b \in 1 .. MaxChunk /\ \A j \in 1 .. b : bytes[j] = y + j
        /\ Carries(queue', c, y + b, out[c])
    <2>1. IsChunk(Head(queue), c)
      BY DEF IsChunk, AtHead
    <2> QED
      BY <1>n, <1>1, <1>3, <1>5, <2>1, CarriesLess DEF AtHead
  <1>7. y + b \in 0 .. out[c]
    <2>1. queue' \in Seq(Event)
      BY <1>1, TakeTyped
    <2> QED
      BY <1>3, <1>6, <2>1, CarriesFrom
  <1>8. /\ buf' = [buf EXCEPT ![c] = FirstBytes(Smaller(n + b, Cap))]
        /\ truncated' = IF n + b > Cap THEN truncated \cup {c} ELSE truncated
    <2>1. n = Cap \/ \A j \in 1 .. Len(bytes) : bytes[j] = n + j
      BY <1>n, <1>4, <1>5, <1>6
    <2>2. /\ buf' = [buf EXCEPT ![c] = FirstBytes(Smaller(n + Len(bytes), Cap))]
          /\ truncated' = IF n + Len(bytes) > Cap THEN truncated \cup {c} ELSE truncated
      <3>1. n <= Cap /\ buf[c] = FirstBytes(n)
        BY <1>3, <1>4
      <3>2. AppendCapped(c, bytes)
        BY <1>2
      <3> QED
        BY <2>1, <3>1, <3>2, CapStep
    <2> QED
      BY <1>n, <2>2
  <1>9. announced' = truncated' /\ buf'[c] = FirstBytes(Smaller(n + b, Cap))
    BY <1>2, <1>4, <1>8 DEF TypeOK
  <1>10. \A k \in Streams :
           k # c => buf'[k] = buf[k] /\ sent'[k] = sent[k] /\ (k \in truncated' <=> k \in truncated)
    BY <1>2, <1>3, <1>8 DEF TypeOK
  <1>11. \/ /\ c \notin truncated' /\ y + b \in Nat
            /\ buf'[c] = FirstBytes(y + b) /\ sent'[c] = FirstBytes(y + b)
         \/ /\ c \in truncated' /\ out[c] > Cap /\ buf'[c] = FirstBytes(Cap)
            /\ \E m \in Cap + 1 .. Cap + MaxChunk :
                 m <= out[c] /\ sent'[c] = Append(FirstBytes(m), 0)
    <2>1. CASE c \in truncated
      <3>1. n = Cap /\ Smaller(n + b, Cap) = Cap /\ c \in truncated'
        BY <1>3, <1>4, <1>6, <1>8, <2>1 DEF Smaller
      <3>2. sent'[c] = (sent[c] \o <<>>) \o <<>>
        BY <1>2, <1>3, <1>4, <2>1
      <3>3. sent'[c] = sent[c]
        BY <1>3, <3>2
      <3> QED
        BY <1>4, <1>9, <2>1, <3>1, <3>3
    <2>2. CASE c \notin truncated
      <3>1. y = n /\ sent[c] = FirstBytes(n)
        BY <1>4, <1>5, <2>2
      <3>2. FirstBytes(n) \o bytes = FirstBytes(n + b)
        BY <1>n, <1>6, <3>1, FirstBytesExtend
      <3>3. sent'[c] = FirstBytes(n + b) \o (IF c \in truncated' THEN <<0>> ELSE <<>>)
        BY <1>2, <1>3, <1>4, <2>2, <3>1, <3>2
      <3>4. n + b \in Nat /\ FirstBytes(n + b) \in Seq(Nat)
        <4>1. n + b \in Nat
          BY <1>3
        <4> QED
          BY <4>1, FirstBytesProperties
      <3>5. CASE n + b > Cap
        <4>1. c \in truncated' /\ Smaller(n + b, Cap) = Cap
          BY <1>3, <1>8, <3>5 DEF Smaller
        <4>2. sent'[c] = Append(FirstBytes(n + b), 0)
          BY <3>3, <3>4, <4>1
        <4>3. n + b \in Cap + 1 .. Cap + MaxChunk /\ n + b <= out[c] /\ out[c] > Cap
          BY <1>3, <1>6, <1>7, <3>1, <3>5
        <4> QED
          BY <1>9, <4>1, <4>2, <4>3
      <3>6. CASE ~(n + b > Cap)
        <4>1. c \notin truncated' /\ Smaller(n + b, Cap) = n + b
          <5>1. c \notin truncated'
            BY <1>8, <2>2, <3>6
          <5>2. n + b <= Cap
            BY <1>3, <3>6
          <5> QED
            BY <5>1, <5>2 DEF Smaller
        <4>2. sent'[c] = FirstBytes(n + b)
          BY <3>3, <3>4, <4>1
        <4> QED
          BY <1>9, <3>1, <3>4, <4>1, <4>2
      <3> QED
        BY <3>5, <3>6
    <2> QED
      BY <2>1, <2>2
  <1> QED
    BY <1>1, <1>6, <1>9, <1>10, <1>11

\* The loop takes a chunk of a command's stream.
LEMMA ChunkData ==
  ASSUME TypeOK, ControlInv, DataInv, TakeChunk
  PROVE  DataInv'
  <1>1. TakeEvent("chunk") /\ kind \in {"stream", "mcp"} /\ queue \in Seq(Event) /\ queue # <<>>
        /\ queue' = Tail(queue)
    BY DEF TakeChunk, TakeEvent, TypeOK, ControlInv, CallKinds
  <1>2. PICK c \in Streams, bytes \in Seq(Nat) : AtHead(c, bytes)
    BY <1>1, TakeTyped, EventsTyped DEF AtHead
  <1>3. /\ UNCHANGED <<kind, out>> /\ announced' = truncated'
        /\ \A k \in Streams :
             k # c => buf'[k] = buf[k] /\ sent'[k] = sent[k] /\ (k \in truncated' <=> k \in truncated)
        /\ \E x : /\ Carries(queue', c, x, out[c])
                  /\ \/ /\ c \notin truncated' /\ x \in Nat
                        /\ buf'[c] = FirstBytes(x) /\ sent'[c] = FirstBytes(x)
                     \/ /\ c \in truncated' /\ out[c] > Cap /\ buf'[c] = FirstBytes(Cap)
                        /\ \E m \in Cap + 1 .. Cap + MaxChunk :
                             m <= out[c] /\ sent'[c] = Append(FirstBytes(m), 0)
    BY <1>1, <1>2, ChunkTaken
  <1>4. Cap \in Nat
    BY ExecAssumption
  <1>5. \A n \in Nat : Len(FirstBytes(n)) = n
    BY FirstBytesProperties
  <1>6. \A k \in Streams : Position(k)' = Len(buf'[k]) /\ Position(k) = Len(buf[k])
    BY <1>1, <1>3 DEF Position
  <1>7. ASSUME NEW k \in Streams
        PROVE  /\ buf'[k] = FirstBytes(Len(buf'[k]))
               /\ k \in truncated' => Len(buf'[k]) = Cap /\ out[k] > Cap
               /\ \E x : Carries(queue', k, x, out[k]) /\ (k \notin truncated' => x = Len(buf'[k]))
               /\ IF k \in truncated'
                  THEN \E m \in Cap + 1 .. Cap + MaxChunk :
                         m <= out[k] /\ sent'[k] = Append(FirstBytes(m), 0)
                  ELSE sent'[k] = buf'[k]
    <2>1. CASE k = c
      BY <1>3, <1>4, <1>5, <2>1
    <2>2. CASE k # c
      <3>1. ~IsChunk(Head(queue), k)
        BY <1>2, <2>2 DEF IsChunk, AtHead
      <3>2. PICK x : Carries(queue, k, x, out[k]) /\ (k \notin truncated => x = Len(buf[k]))
        BY <1>1, <1>6 DEF DataInv, StreamInv
      <3>3. Carries(queue', k, x, out[k])
        <4>1. out[k] \in Nat
          BY DEF TypeOK
        <4> QED
          BY <1>1, <3>1, <3>2, <4>1, CarriesLess
      <3>4. /\ buf[k] = FirstBytes(Len(buf[k]))
            /\ k \in truncated => Len(buf[k]) = Cap /\ out[k] > Cap
            /\ IF k \in truncated
               THEN \E m \in Cap + 1 .. Cap + MaxChunk :
                      m <= out[k] /\ sent[k] = Append(FirstBytes(m), 0)
               ELSE sent[k] = buf[k]
        BY <1>1 DEF DataInv, StreamInv, SentInv
      <3>5. buf'[k] = buf[k] /\ sent'[k] = sent[k] /\ (k \in truncated' <=> k \in truncated)
        BY <1>3, <2>2
      <3> QED
        BY <3>2, <3>3, <3>4, <3>5
    <2> QED
      BY <2>1, <2>2
  <1>8. StreamInv'
    BY <1>3, <1>6, <1>7 DEF StreamInv
  <1>9. SentInv'
    BY <1>1, <1>3, <1>7 DEF SentInv
  <1>10. ExecInv'
    BY <1>1, <1>3 DEF ExecInv
  <1> QED
    BY <1>8, <1>9, <1>10 DEF DataInv

\* Every step keeps what is kept, sent and queued in agreement.
LEMMA DataKept ==
  ASSUME TypeOK, ControlInv, EndInv, DataInv, [Next]_vars
  PROVE  DataInv'
  <1> USE DEF callVars, dockerVars, threadVars, keptVars, clientVars, auditVars
  <1>1. CASE \E kd \in Calls : Start(kd)
    BY <1>1, StartData
  <1>2. CASE \E k \in Streams, n \in 1 .. MaxChunk : Deliver(k, n)
    BY <1>2, DeliverData
  <1>3. CASE Spawn \/ CommandEnds \/ ContainerDown \/ Disconnect \/ SendResult \/ RunReturns
    BY <1>3, OtherData DEF Spawn, CommandEnds, ContainerDown, Disconnect, SendResult, RunReturns
  <1>4. CASE Inspect
    <2>1. UNCHANGED <<kind, out, buf, truncated, announced, sent>>
      BY <1>4 DEF Inspect
    <2>2. UNCHANGED queue \/ \E e \in Event : e.ev # "chunk" /\ queue' = Append(queue, e)
      <3>1. UNCHANGED queue \/ \E c \in Codes : queue' = Append(queue, ExitEvent(c))
        BY <1>4 DEF Inspect, TypeOK, Codes
      <3>2. \A c \in Codes : ExitEvent(c) \in Event /\ ExitEvent(c).ev # "chunk"
        BY EventsTyped DEF ExitEvent
      <3> QED
        BY <3>1, <3>2
    <2> QED
      BY <2>1, <2>2, OtherData
  <1>5. CASE ThreadFails \/ ThreadCloses
    <2>1. ErrorEvent.ev # "chunk" /\ Sentinel.ev # "chunk"
      BY DEF ErrorEvent, Sentinel
    <2> QED
      BY <1>5, <2>1, EventsTyped, OtherData DEF ThreadFails, ThreadCloses
  <1>6. CASE TakeChunk
    BY <1>6, ChunkData
  <1>7. CASE TakeLog
    BY <1>7, LogData
  <1>8. CASE TakeExit \/ TakeError \/ TakeSentinel
    BY <1>8, OtherData DEF TakeExit, TakeError, TakeSentinel
  <1>9. CASE UNCHANGED vars
    BY <1>9, OtherData DEF vars
  <1> QED
    BY <1>1, <1>2, <1>3, <1>4, <1>5, <1>6, <1>7, <1>8, <1>9 DEF Next, Loop

\* Kept, sent and queued output agree in every reachable state.
LEMMA DataHolds == Spec => [](EndInv /\ DataInv)
  <1>1. Init => EndInv /\ DataInv
    <2> SUFFICES ASSUME Init PROVE EndInv /\ DataInv
      OBVIOUS
    <2>1. Cap \in Nat /\ 0 <= Cap /\ ~(0 > Cap)
      BY ExecAssumption
    <2>2. FirstBytes(0) = <<>>
      BY FirstBytesProperties, EmptySeq
    <2>3. ExecInv
      BY <2>1, <2>2 DEF Init, ExecInv, Smaller
    <2> QED
      BY <2>3 DEF Init, EndInv, DataInv, StreamInv, SentInv
  <1>2. TypeOK /\ ControlInv /\ HonestInv /\ (EndInv /\ DataInv) /\ [Next]_vars => (EndInv /\ DataInv)'
    BY EndKept, DataKept
  <1> QED
    BY <1>1, <1>2, TypeCorrect, ControlHolds, HonestHolds, PTL DEF Spec

\* The response of a command holds the first bytes of each stream up to the cap and
\* names exactly the streams that lost bytes, for any cap, any chunks and any order
\* of thread and loop: the queue is empty when the result is sent.
THEOREM KeptOutputIsPrefix == Spec => []KeptIsPrefix
  <1>1. TypeOK /\ EndInv /\ DataInv => KeptIsPrefix
    <2> SUFFICES ASSUME TypeOK, EndInv, DataInv, result # "none", NEW k \in Streams
                 PROVE  /\ buf[k] = FirstBytes(Smaller(out[k], Cap))
                        /\ k \in truncated <=> out[k] > Cap
      BY DEF KeptIsPrefix
    <2>1. CASE kind = "exec"
      BY <2>1 DEF DataInv, ExecInv
    <2>2. CASE kind # "exec"
      <3>1. queue = <<>> /\ kind # "logs"
        BY <2>2 DEF EndInv
      <3>2. PICK x : Carries(queue, k, x, out[k]) /\ (k \notin truncated => x = Len(buf[k]))
        BY <2>2, <3>1 DEF DataInv, StreamInv, Position
      <3>3. out[k] \in Nat /\ Cap \in Nat /\ Len(buf[k]) <= Cap
        BY ExecAssumption DEF TypeOK
      <3>4. x = out[k]
        BY <3>1, <3>2, <3>3, CarriesNothing
      <3>5. buf[k] = FirstBytes(Len(buf[k])) /\ (k \in truncated => Len(buf[k]) = Cap /\ out[k] > Cap)
        BY <2>2 DEF DataInv, StreamInv
      <3>6. CASE k \in truncated
        <4>1. Smaller(out[k], Cap) = Cap
          BY <3>3, <3>5, <3>6 DEF Smaller
        <4> QED
          BY <3>5, <3>6, <4>1
      <3>7. CASE k \notin truncated
        <4>1. out[k] = Len(buf[k]) /\ out[k] <= Cap /\ ~(out[k] > Cap)
          BY <3>2, <3>3, <3>4, <3>7
        <4>2. Smaller(out[k], Cap) = out[k]
          BY <4>1 DEF Smaller
        <4> QED
          BY <3>5, <3>7, <4>1, <4>2
      <3> QED
        BY <3>6, <3>7
    <2> QED
      BY <2>1, <2>2
  <1> QED
    BY <1>1, TypeCorrect, DataHolds, PTL

\* A client receives each stream from its first byte without gap or repetition, and
\* nothing of it after the one notice of truncation, whatever is lost by failures of
\* the thread, the container or the client.
THEOREM ChunksComeInOrder == Spec => []ChunksThenNotice
  <1>1. TypeOK /\ DataInv => ChunksThenNotice
    <2> SUFFICES ASSUME TypeOK, DataInv, NEW k \in Streams
                 PROVE  \E m \in 0 .. out[k] : sent[k] \in {FirstBytes(m), Append(FirstBytes(m), 0)}
      BY DEF ChunksThenNotice
    <2>1. out[k] \in Nat /\ Cap \in Nat /\ MaxChunk \in Nat /\ queue \in Seq(Event)
      BY ExecAssumption DEF TypeOK
    <2>2. CASE kind = "exec"
      <3>1. sent[k] = FirstBytes(0)
        BY <2>2, FirstBytesProperties, EmptySeq DEF DataInv, ExecInv
      <3> QED
        BY <2>1, <3>1
    <2>3. CASE kind # "exec"
      <3>1. PICK x : Carries(queue, k, x, out[k]) /\ (k \notin truncated => x = Position(k))
        BY <2>3 DEF DataInv, StreamInv
      <3>2. x \in 0 .. out[k]
        BY <2>1, <3>1, CarriesFrom
      <3>3. buf[k] = FirstBytes(Len(buf[k]))
        BY <2>3 DEF DataInv, StreamInv
      <3>4. CASE kind = "logs"
        BY <3>1, <3>2, <3>4 DEF DataInv, SentInv, Position
      <3>5. CASE kind # "logs" /\ k \notin truncated
        <4>1. sent[k] = FirstBytes(x)
          BY <2>3, <3>1, <3>3, <3>5 DEF DataInv, SentInv, Position, TypeOK, CallKinds
        <4> QED
          BY <3>2, <4>1
      <3>6. CASE kind # "logs" /\ k \in truncated
        <4>1. PICK m \in Cap + 1 .. Cap + MaxChunk : m <= out[k] /\ sent[k] = Append(FirstBytes(m), 0)
          BY <2>3, <3>6 DEF DataInv, SentInv, TypeOK, CallKinds
        <4>2. m \in 0 .. out[k]
          BY <2>1, <4>1
        <4> QED
          BY <4>1, <4>2
      <3> QED
        BY <3>4, <3>5, <3>6
    <2> QED
      BY <2>2, <2>3
  <1> QED
    BY <1>1, TypeCorrect, DataHolds, PTL

\* Wherever the cap falls in a chunk, what a stream keeps was sent to its client
\* before, and the client knows of the truncation exactly when the result lists it.
THEOREM KeptOutputWasSent == Spec => []KeptWasSent
  <1>1. TypeOK /\ DataInv => KeptWasSent
    <2> SUFFICES ASSUME TypeOK, DataInv, kind \in {"stream", "mcp"}, NEW k \in Streams
                 PROVE  /\ IsPrefix(buf[k], sent[k])
                        /\ k \in truncated <=> 0 \in Range(sent[k])
      BY DEF KeptWasSent
    <2>1. /\ buf[k] = FirstBytes(Len(buf[k])) /\ Len(buf[k]) \in Nat
          /\ k \in truncated => Len(buf[k]) = Cap
          /\ IF k \in truncated
             THEN \E m \in Cap + 1 .. Cap + MaxChunk : m <= out[k] /\ sent[k] = Append(FirstBytes(m), 0)
             ELSE sent[k] = buf[k]
      BY DEF DataInv, StreamInv, SentInv, TypeOK
    <2>2. CASE k \in truncated
      <3>1. PICK m \in Cap + 1 .. Cap + MaxChunk : sent[k] = Append(FirstBytes(m), 0)
        BY <2>1, <2>2
      <3>2. m \in Nat /\ Cap \in Nat /\ Cap <= m
        BY ExecAssumption
      <3>3. buf[k] = FirstBytes(Cap)
        BY <2>1, <2>2
      <3>4. IsPrefix(FirstBytes(Cap), Append(FirstBytes(m), 0))
        BY <3>2, PrefixBeforeNotice
      <3>5. 0 \in Range(Append(FirstBytes(m), 0))
        BY <3>2, NoticeSeen
      <3> QED
        BY <2>2, <3>1, <3>3, <3>4, <3>5
    <2>3. CASE k \notin truncated
      <3>1. IsPrefix(FirstBytes(Len(buf[k])), FirstBytes(Len(buf[k])))
        BY <2>1, PrefixBeforeNotice
      <3>2. 0 \notin Range(FirstBytes(Len(buf[k])))
        BY <2>1, NoticeSeen
      <3> QED
        BY <2>1, <2>3, <3>1, <3>2
    <2> QED
      BY <2>2, <2>3
  <1> QED
    BY <1>1, TypeCorrect, DataHolds, PTL

=============================================================================
