--------------------------- MODULE ProcessesProofs ---------------------------
(***************************************************************************)
(* Processes, for any processes, pids and requests, any cap, with Docker   *)
(* failures, restarts of the container and crashes: the types, that an     *)
(* exit is recorded once and with the process's own code, and that no      *)
(* process which lives is written off.                                     *)
(*                                                                         *)
(* A step is described once by what it does to the requests, the rows and  *)
(* the processes (ReqEffects, RowEffects, OsEffects); the invariants are   *)
(* proved from these descriptions.                                         *)
(***************************************************************************)
EXTENDS Processes, TLAPS

(* Types *)

Starting == {"resume", "count", "spawn", "pid", "insert"}

\* What is known of a request by where it is.
ShapeOK(x) ==
  /\ x.pc = "idle" => x = Idle
  /\ x.pc # "idle" => x.p \in Procs
  /\ x.op = "get" => x.pc \in {"probe", "exit", "mark"}
  /\ x.pc \notin Starting \cup {"idle", "drop"} => x.pid # None
  /\ x.pc \in Starting => x.code = "null"

ShapeInv == \A t \in Requests : ShapeOK(req[t])

\* The idle request has its type.
LEMMA IdleTyped == Idle \in Request /\ ShapeOK(Idle) /\ Idle.pc = "idle" /\ Idle.p = None
  BY DEF Idle, Request, Steps, Codes, ShapeOK, Starting

\* One of the steps a request takes: it ends, or goes on with what it is about.
Proceeds(t) ==
  LET x == req[t]
      y == req'[t]
  IN
  /\ \A u \in Requests \ {t} : req'[u] = req[u]
  /\ x.pc # "idle" /\ y.pc # "idle" /\ y.op = x.op /\ y.p = x.p
  /\ y.pid = x.pid \/ y.pc = "insert"
  /\ \/ y.code = x.code
     \/ x.pc = "exit" /\ y.pc = "mark" /\ (y.code = "own" => os[x.p].exit = "written")
  /\ y.pc \in Starting <=> x.pc \in Starting
  /\ y.pc = "insert" => x.pc = "pid" /\ y.pid \in {os[x.p].pid, None}
  /\ y.pc = "mark" => x.pc = "exit"
  /\ y.pc = "exit" => x.pc = "probe" /\ Living(x.pid) = {}
  /\ y.pc = "drop" => x.pc \in {"probe", "mark"} /\ x.op = "delete"
  /\ y.pc = "probe" => \/ x.pc = "poll" /\ Living(x.pid) = {} /\ UNCHANGED os
                       \/ x.pc = "kill" /\ os' = Signalled(x.pid)

\* A request ends.
Ends(t) ==
  /\ \A u \in Requests \ {t} : req'[u] = req[u]
  /\ req'[t] = Idle

\* What a step of a request leaves.
Leaves(t) ==
  /\ req' \in [Requests -> Request] /\ ShapeInv'
  /\ Ends(t) \/ Proceeds(t)

\* To finish is to end.
LEMMA FinishLeaves ==
  ASSUME TypeOK, ShapeInv, NEW t \in Requests, Finish(t)
  PROVE  Leaves(t) /\ Ends(t)
  BY IdleTyped DEF Finish, Leaves, Ends, TypeOK, ShapeInv, ShapeOK

\* A step of one request that leaves it a record of the right shape.
LEMMA OneStep ==
  ASSUME TypeOK, ShapeInv, NEW t \in Requests, NEW y \in Request, ShapeOK(y),
         req' = [req EXCEPT ![t] = y]
  PROVE  /\ req' \in [Requests -> Request] /\ ShapeInv'
         /\ req'[t] = y /\ \A u \in Requests \ {t} : req'[u] = req[u]
  BY DEF TypeOK, ShapeInv, ShapeOK

\* To go to another step of the same operation.
LEMMA GoLeaves ==
  ASSUME TypeOK, ShapeInv, NEW t \in Requests, NEW pc \in Steps, Go(t, pc),
         pc # "idle", req[t].pc # "idle",
         pc \in Starting <=> req[t].pc \in Starting,
         req[t].op = "get" => pc \in {"probe", "exit", "mark"},
         req[t].pc # "drop", pc \notin {"insert", "mark"},
         pc = "exit" => req[t].pc = "probe" /\ Living(req[t].pid) = {},
         pc = "drop" => req[t].pc \in {"probe", "mark"} /\ req[t].op = "delete",
         pc = "probe" => \/ req[t].pc = "poll" /\ Living(req[t].pid) = {} /\ UNCHANGED os
                         \/ req[t].pc = "kill" /\ os' = Signalled(req[t].pid)
  PROVE  Leaves(t)
  <1> DEFINE y == [req[t] EXCEPT !.pc = pc]
  <1>p. req[t] \in Request /\ ShapeOK(req[t])
    BY DEF TypeOK, ShapeInv
  <1>1. y \in Request /\ ShapeOK(y)
    BY <1>p DEF Request, ShapeOK, Starting
  <1>2. req' = [req EXCEPT ![t] = y]
    BY DEF Go, TypeOK
  <1>3. /\ y.pc = pc /\ y.op = req[t].op /\ y.p = req[t].p /\ y.pid = req[t].pid
        /\ y.code = req[t].code
    BY <1>p DEF Request
  <1> HIDE DEF y
  <1>4. /\ req' \in [Requests -> Request] /\ ShapeInv'
        /\ req'[t] = y /\ \A u \in Requests \ {t} : req'[u] = req[u]
    BY <1>1, <1>2, OneStep
  <1>5. Proceeds(t)
    BY <1>3, <1>4 DEF Proceeds
  <1> QED
    BY <1>4, <1>5 DEF Leaves

\* Every step of a request is of this kind.
LEMMA ServeLeaves ==
  ASSUME TypeOK, ShapeInv, NEW t \in Requests, Serve(t)
  PROVE  Leaves(t)
  <1>p. req[t] \in Request /\ ShapeOK(req[t])
    BY DEF TypeOK, ShapeInv
  <1> USE DEF Steps, Starting
  <1>n. ASSUME NoAnswer(t) PROVE Leaves(t)
    BY <1>n, FinishLeaves DEF NoAnswer
  <1>a. ASSUME AfterStop(t), req[t].pc \in {"probe", "mark"} PROVE Leaves(t)
    <2>1. CASE req[t].op = "delete"
      BY <1>a, <2>1, GoLeaves DEF AfterStop
    <2>2. CASE req[t].op # "delete"
      BY <1>a, <2>2, FinishLeaves DEF AfterStop
    <2> QED
      BY <2>1, <2>2
  <1>g. req[t].pc \notin {"idle", "probe", "exit", "mark"} => req[t].op # "get"
    BY <1>p DEF ShapeOK
  <1>1. CASE Resume(t)
    BY <1>1, <1>g, GoLeaves, FinishLeaves DEF Resume
  <1>2. CASE Count(t)
    BY <1>2, <1>g, GoLeaves, FinishLeaves DEF Count
  <1>3. CASE Spawn(t)
    BY <1>3, <1>g, <1>n, GoLeaves DEF Spawn
  <1>4. CASE ReadPid(t)
    <2>1. ASSUME NEW pid \in {os[req[t].p].pid, None},
                 req[t].pc = "pid",
                 req' = [req EXCEPT ![t].pc = "insert", ![t].pid = pid]
          PROVE  Leaves(t)
      <3> DEFINE y == [req[t] EXCEPT !.pc = "insert", !.pid = pid]
      <3>0. pid \in Pids \cup {None}
        BY <1>p, <2>1 DEF TypeOK, Os, ShapeOK
      <3>1. y \in Request /\ ShapeOK(y)
        BY <1>p, <1>g, <2>1, <3>0 DEF Request, ShapeOK
      <3>2. req' = [req EXCEPT ![t] = y]
        BY <2>1 DEF TypeOK
      <3>3. /\ y.pc = "insert" /\ y.op = req[t].op /\ y.p = req[t].p /\ y.pid = pid
            /\ y.code = req[t].code
        BY <1>p DEF Request
      <3> HIDE DEF y
      <3>4. /\ req' \in [Requests -> Request] /\ ShapeInv'
            /\ req'[t] = y /\ \A u \in Requests \ {t} : req'[u] = req[u]
        BY <3>1, <3>2, OneStep
      <3> QED
        BY <2>1, <3>3, <3>4 DEF Leaves, Proceeds
    <2> QED
      BY <1>4, <1>n, <2>1 DEF ReadPid
  <1>5. CASE Insert(t)
    BY <1>5, FinishLeaves DEF Insert
  <1>6. CASE Term(t)
    BY <1>6, <1>g, <1>n, GoLeaves DEF Term
  <1>7. CASE Poll(t)
    BY <1>7, <1>g, <1>n, GoLeaves DEF Poll
  <1>8. CASE Kill(t)
    BY <1>8, <1>g, <1>n, GoLeaves DEF Kill
  <1>9. CASE Probe(t)
    BY <1>9, <1>n, <1>a, GoLeaves, FinishLeaves DEF Probe
  <1>10. CASE ReadExit(t)
    <2> DEFINE c == IF os[req[t].p].exit = "written" THEN "own" ELSE "null"
    <2>1. ASSUME req[t].pc = "exit",
                 req' = [req EXCEPT ![t].pc = "mark", ![t].code = c]
          PROVE  Leaves(t)
      <3> DEFINE y == [req[t] EXCEPT !.pc = "mark", !.code = c]
      <3>1. y \in Request /\ ShapeOK(y)
        BY <1>p, <2>1 DEF Request, ShapeOK, Codes
      <3>2. req' = [req EXCEPT ![t] = y]
        BY <2>1 DEF TypeOK
      <3>3. /\ y.pc = "mark" /\ y.op = req[t].op /\ y.p = req[t].p /\ y.pid = req[t].pid
            /\ y.code = "own" => os[req[t].p].exit = "written"
        BY <1>p DEF Request
      <3> HIDE DEF y
      <3>4. /\ req' \in [Requests -> Request] /\ ShapeInv'
            /\ req'[t] = y /\ \A u \in Requests \ {t} : req'[u] = req[u]
        BY <3>1, <3>2, OneStep
      <3> QED
        BY <2>1, <3>3, <3>4 DEF Leaves, Proceeds
    <2> QED
      BY <1>10, <1>n, <2>1 DEF ReadExit
  <1>11. CASE Mark(t)
    BY <1>11, <1>a DEF Mark
  <1>12. CASE Drop(t)
    BY <1>12, FinishLeaves DEF Drop
  <1> QED
    BY <1>1, <1>2, <1>3, <1>4, <1>5, <1>6, <1>7, <1>8, <1>9, <1>10, <1>11, <1>12 DEF Serve

\* A request to start a process that nobody knows of yet.
Starts(t) ==
  /\ \A u \in Requests \ {t} : req'[u] = req[u]
  /\ req[t].pc = "idle" /\ req'[t].pc \in {"resume", "count"}
  /\ req'[t].p \in Procs /\ row[req'[t].p] = NoRow
  /\ \A u \in Requests : req[u].p # req'[t].p
  /\ req'[t].pid = None /\ req'[t].code = "null"
  /\ UNCHANGED <<row, os>>

\* A request about a process that has a row.
Reads(t) ==
  LET y == req'[t] IN
  /\ \A u \in Requests \ {t} : req'[u] = req[u]
  /\ req[t].pc = "idle" /\ y.p \in Procs
  /\ row[y.p].state \in {"RUNNING", "EXITED"} /\ y.pid = row[y.p].pid /\ y.code = "null"
  /\ y.pc \in {"drop", "probe", "term"}
  /\ y.pc = "drop" => row[y.p].state = "EXITED" \/ row[y.p].pid = None
  /\ y.pc = "probe" => y.op = "get"
  /\ UNCHANGED <<row, os>>

\* Start and Begin are of these kinds.
LEMMA ArriveEffects ==
  ASSUME TypeOK, ShapeInv, NEW t \in Requests, NEW p \in Procs
  PROVE  /\ Start(t, p) => req' \in [Requests -> Request] /\ ShapeInv' /\ Starts(t)
         /\ \A op \in {"get", "stop", "delete"} :
              Begin(t, op, p) => req' \in [Requests -> Request] /\ ShapeInv' /\ Reads(t)
  <1>1. ASSUME Start(t, p)
        PROVE  req' \in [Requests -> Request] /\ ShapeInv' /\ Starts(t)
    <2> DEFINE y == [Idle EXCEPT !.op = "start",
                       !.pc = IF session = "running" THEN "count" ELSE "resume", !.p = p]
    <2>1. y \in Request /\ ShapeOK(y)
      BY DEF Idle, Request, ShapeOK, Steps, Codes, Starting
    <2>2. y.pc \in {"resume", "count"} /\ y.p = p /\ y.pid = None /\ y.code = "null"
      BY DEF Idle
    <2>3. req' = [req EXCEPT ![t] = y]
      BY <1>1 DEF Start
    <2> HIDE DEF y
    <2> QED
      BY <1>1, <2>1, <2>2, <2>3, OneStep DEF Start, Starts
  <1>2. ASSUME NEW op \in {"get", "stop", "delete"}, Begin(t, op, p)
        PROVE  req' \in [Requests -> Request] /\ ShapeInv' /\ Reads(t)
    <2> DEFINE maybeAlive == row[p].state = "RUNNING" /\ row[p].pid # None
               pc == IF ~maybeAlive THEN "drop" ELSE IF op = "get" THEN "probe" ELSE "term"
               y == [op |-> op, pc |-> pc, p |-> p, pid |-> row[p].pid, code |-> "null"]
    <2>0. row[p] \in Row /\ (op = "get" => maybeAlive)
      BY <1>2 DEF Begin, TypeOK
    <2>1. y \in Request
      BY <2>0 DEF Row, Request, Steps, Codes
    <2>2. ShapeOK(y)
      BY <2>0 DEF ShapeOK, Starting
    <2>3. req' = [req EXCEPT ![t] = y]
      BY <1>2 DEF Begin
    <2>4. req' \in [Requests -> Request] /\ ShapeInv' /\ req'[t] = y
            /\ \A u \in Requests \ {t} : req'[u] = req[u]
      <3> HIDE DEF y
      <3> QED
        BY <2>1, <2>2, <2>3, OneStep
    <2> QED
      BY <1>2, <2>4 DEF Begin, Reads
  <1> QED
    BY <1>1, <1>2

\* What a step does to a request.
ReqEffects(t) ==
  \/ req'[t] = req[t]
  \/ req'[t] = Idle
  \/ Proceeds(t)
  \/ Starts(t)
  \/ Reads(t)

\* Every step does one of these to each request, and keeps their shapes.
LEMMA StepReq ==
  ASSUME TypeOK, ShapeInv, Next
  PROVE  /\ req' \in [Requests -> Request] /\ ShapeInv'
         /\ \A t \in Requests : ReqEffects(t)
  <1>1. ASSUME NEW t \in Requests, NEW p \in Procs,
               Start(t, p) \/ \E op \in {"get", "stop", "delete"} : Begin(t, op, p)
        PROVE  /\ req' \in [Requests -> Request] /\ ShapeInv'
               /\ \A u \in Requests : ReqEffects(u)
    BY <1>1, ArriveEffects DEF ReqEffects, Starts, Reads
  <1>2. ASSUME NEW t \in Requests, Serve(t)
        PROVE  /\ req' \in [Requests -> Request] /\ ShapeInv'
               /\ \A u \in Requests : ReqEffects(u)
    BY <1>2, ServeLeaves DEF Leaves, Ends, Proceeds, ReqEffects
  <1>3. CASE Crash
    BY <1>3, IdleTyped DEF Crash, ReqEffects, ShapeInv, ShapeOK
  <1>4. CASE UNCHANGED req
    BY <1>4 DEF TypeOK, ShapeInv, ReqEffects
  <1> QED
    BY <1>1, <1>2, <1>3, <1>4 DEF Next, Exit, Supervise, ReapKill, StopSession, ResumeSession,
         BeginDestroy, ReapList, ReapMark, RemoveContainer

\* What a step does to a row: it is made by a start, marked once by a request or
\* a destroy, and dropped by a delete.
RowEffects(p) ==
  \/ row'[p] = row[p]
  \/ /\ row'[p].state = "RUNNING" /\ row'[p].code = "null"
     /\ \E t \in Requests : /\ req[t].pc = "insert" /\ req[t].p = p /\ req'[t] = Idle
                            /\ row'[p].pid = req[t].pid
  \/ /\ row[p].state = "RUNNING" /\ row'[p].state = "EXITED" /\ row'[p].pid = row[p].pid
     /\ \/ reap.at = p /\ row'[p].code = "137"
        \/ \E t \in Requests : req[t].pc = "mark" /\ req[t].p = p /\ row'[p].code = req[t].code
  \/ /\ row'[p].state = "deleted" /\ row'[p].pid = row[p].pid /\ row'[p].code = row[p].code
     /\ \E t \in Requests : req[t].pc = "drop" /\ req[t].p = p

\* Every step does one of these to each row.
LEMMA StepRow ==
  ASSUME TypeOK, ShapeInv, Next
  PROVE  row' \in [Procs -> Row] /\ \A p \in Procs : RowEffects(p)
  <1>0. ASSUME UNCHANGED row PROVE row' \in [Procs -> Row] /\ \A p \in Procs : RowEffects(p)
    BY <1>0 DEF RowEffects, TypeOK
  <1>1. ASSUME NEW t \in Requests, Serve(t)
        PROVE  row' \in [Procs -> Row] /\ \A p \in Procs : RowEffects(p)
    <2>p. req[t] \in Request /\ ShapeOK(req[t])
      BY DEF TypeOK, ShapeInv
    <2>1. CASE Insert(t)
      <3>1. req[t].p \in Procs /\ req[t].pc = "insert" /\ req[t].pid \in Pids \cup {None}
        BY <2>1, <2>p DEF Insert, ShapeOK, Request
      <3>2. req'[t] = Idle
        BY <2>1, FinishLeaves DEF Insert, Ends
      <3> DEFINE new == [state |-> "RUNNING", code |-> "null", pid |-> req[t].pid]
      <3>3. new \in Row
        BY <3>1 DEF Row, Codes
      <3>4. row' = [row EXCEPT ![req[t].p] = new]
        BY <2>1 DEF Insert
      <3> QED
        BY <3>1, <3>2, <3>3, <3>4 DEF TypeOK, RowEffects
    <2>2. CASE Mark(t)
      <3>1. req[t].p \in Procs /\ req[t].pc = "mark" /\ req[t].code \in Codes
        BY <2>2, <2>p DEF Mark, ShapeOK, Request
      <3>2. CASE row[req[t].p].state = "RUNNING"
        <4> DEFINE new == [row[req[t].p] EXCEPT !.state = "EXITED", !.code = req[t].code]
        <4>1. /\ new \in Row
              /\ new.state = "EXITED" /\ new.code = req[t].code /\ new.pid = row[req[t].p].pid
          <5>1. row[req[t].p] \in Row
            BY <3>1 DEF TypeOK
          <5> QED
            BY <3>1, <5>1 DEF Row
        <4>2. row' = [row EXCEPT ![req[t].p] = new]
          BY <2>2, <3>2 DEF Mark, MarkExited, TypeOK
        <4> HIDE DEF new
        <4> QED
          BY <3>1, <3>2, <4>1, <4>2 DEF TypeOK, RowEffects
      <3>3. CASE row[req[t].p].state # "RUNNING"
        BY <1>0, <2>2, <3>3 DEF Mark, MarkExited
      <3> QED
        BY <3>2, <3>3
    <2>3. CASE Drop(t)
      <3>1. req[t].p \in Procs /\ req[t].pc = "drop"
        BY <2>3, <2>p DEF Drop, ShapeOK
      <3> DEFINE new == [row[req[t].p] EXCEPT !.state = "deleted"]
      <3>2. /\ new \in Row
            /\ new.state = "deleted" /\ new.code = row[req[t].p].code
            /\ new.pid = row[req[t].p].pid
        BY <3>1 DEF TypeOK, Row
      <3>3. row' = [row EXCEPT ![req[t].p] = new]
        BY <2>3 DEF Drop, TypeOK
      <3> HIDE DEF new
      <3> QED
        BY <3>1, <3>2, <3>3 DEF TypeOK, RowEffects
    <2>4. CASE UNCHANGED row
      BY <1>0, <2>4
    <2> QED
      BY <1>1, <2>1, <2>2, <2>3, <2>4 DEF Serve, Resume, Count, Spawn, ReadPid, Term, Poll, Kill,
                                          Probe, ReadExit
  <1>2. CASE ReapMark
    <2>1. reap.at \in Procs
      BY <1>2 DEF ReapMark, TypeOK
    <2>2. CASE row[reap.at].state = "RUNNING"
      <3> DEFINE new == [row[reap.at] EXCEPT !.state = "EXITED", !.code = "137"]
      <3>1. /\ new \in Row
            /\ new.state = "EXITED" /\ new.code = "137" /\ new.pid = row[reap.at].pid
        BY <2>1 DEF TypeOK, Row, Codes
      <3>2. row' = [row EXCEPT ![reap.at] = new]
        BY <1>2, <2>2 DEF ReapMark, MarkExited, TypeOK
      <3> HIDE DEF new
      <3> QED
        BY <2>1, <2>2, <3>1, <3>2 DEF TypeOK, RowEffects
    <2>3. CASE row[reap.at].state # "RUNNING"
      BY <1>0, <1>2, <2>3 DEF ReapMark, MarkExited
    <2> QED
      BY <2>2, <2>3
  <1>3. CASE UNCHANGED row
    BY <1>0, <1>3
  <1> QED
    BY <1>1, <1>2, <1>3 DEF Next, Start, Begin, Exit, Supervise, ReapKill, StopSession,
         ResumeSession, BeginDestroy, ReapList, RemoveContainer, Crash

\* A process keeps its pid, does not come back to life, and its exit file stays.
Ages(o, n) ==
  /\ n.pid = o.pid
  /\ n.alive => n = o
  /\ o.exit = "written" /\ ~o.alive => n.exit = "written"

\* What a step does to a process: it ages, or a start has just made it.
OsEffects(p) ==
  \/ Ages(os[p], os'[p])
  \/ /\ os'[p].exit = "none" /\ os'[p].pid \in Pids /\ up /\ UNCHANGED up
     /\ \E t \in Requests : req[t].pc = "spawn" /\ req[t].p = p

\* A process that lives has written no exit file.
AliveInv == \A p \in Procs : os[p].alive => os[p].exit = "none"

\* Signals and the end of the container age the processes.
LEMMA SignalAges ==
  ASSUME TypeOK
  PROVE  /\ \A pid : Signalled(pid) \in [Procs -> Os]
         /\ \A pid : \A p \in Procs : Ages(os[p], Signalled(pid)[p])
         /\ Halted \in [Procs -> Os]
         /\ \A p \in Procs : Ages(os[p], Halted[p]) /\ ~Halted[p].alive
  <1>1. ASSUME NEW p \in Procs
        PROVE  /\ Dead(os[p]) \in Os
               /\ os[p].alive => Ages(os[p], Dead(os[p]))
               /\ Ages(os[p], os[p])
               /\ Halted[p] \in Os /\ Ages(os[p], Halted[p]) /\ ~Halted[p].alive
    <2>1. os[p] \in Os
      BY DEF TypeOK
    <2> QED
      BY <2>1 DEF Dead, Halted, Ages, Os
  <1>2. ASSUME NEW pid, NEW p \in Procs
        PROVE  Signalled(pid)[p] \in Os /\ Ages(os[p], Signalled(pid)[p])
    <2>1. os[p] \in Os
      BY DEF TypeOK
    <2> QED
      BY <1>1, <2>1 DEF Signalled, Living
  <1> QED
    BY <1>1, <1>2 DEF Signalled, Halted

\* Every step does one of these to each process.
LEMMA StepOs ==
  ASSUME TypeOK, ShapeInv, AliveInv, Next
  PROVE  os' \in [Procs -> Os] /\ \A p \in Procs : OsEffects(p)
  <1>0. ASSUME UNCHANGED os PROVE os' \in [Procs -> Os] /\ \A p \in Procs : OsEffects(p)
    BY <1>0 DEF OsEffects, Ages, TypeOK
  <1>s. ASSUME NEW pid, os' = Signalled(pid)
        PROVE  os' \in [Procs -> Os] /\ \A p \in Procs : OsEffects(p)
    BY <1>s, SignalAges DEF OsEffects
  <1>h. ASSUME os' = Halted PROVE os' \in [Procs -> Os] /\ \A p \in Procs : OsEffects(p)
    BY <1>h, SignalAges DEF OsEffects
  <1>1. ASSUME NEW t \in Requests, Spawn(t)
        PROVE  os' \in [Procs -> Os] /\ \A p \in Procs : OsEffects(p)
    <2>1. req[t].p \in Procs /\ req[t].pc = "spawn"
      BY <1>1 DEF Spawn, ShapeInv, ShapeOK
    <2>2. ASSUME up, UNCHANGED up, NEW pid \in Pids,
                 os' = [os EXCEPT ![req[t].p] = [pid |-> pid, alive |-> TRUE, exit |-> "none"]]
          PROVE  os' \in [Procs -> Os] /\ \A p \in Procs : OsEffects(p)
      BY <2>1, <2>2 DEF TypeOK, OsEffects, Ages, Os
    <2> QED
      BY <1>0, <1>1, <2>2 DEF Spawn, NoAnswer, place
  <1>2. ASSUME NEW t \in Requests, Serve(t), ~Spawn(t)
        PROVE  os' \in [Procs -> Os] /\ \A p \in Procs : OsEffects(p)
    BY <1>0, <1>s, <1>2 DEF Serve, Resume, Count, ReadPid, Insert, Term, Poll, Kill, Probe,
                            ReadExit, Mark, Drop, NoAnswer
  <1>3. ASSUME NEW p \in Procs, Exit(p) \/ Supervise(p)
        PROVE  os' \in [Procs -> Os] /\ \A q \in Procs : OsEffects(q)
    <2>0. os[p] \in Os /\ (os[p].alive => os[p].exit = "none")
      BY DEF TypeOK, AliveInv
    <2>1. PICK n \in Os : os' = [os EXCEPT ![p] = n] /\ Ages(os[p], n)
      <3>1. CASE Exit(p)
        BY <2>0, <3>1 DEF Exit, Dead, Ages, Os, TypeOK
      <3>2. CASE Supervise(p)
        <4>1. os' = [os EXCEPT ![p] = [os[p] EXCEPT !.exit = "written"]] /\ ~os[p].alive
          BY <2>0, <3>2 DEF Supervise, TypeOK
        <4> QED
          BY <2>0, <4>1 DEF Ages, Os
      <3> QED
        BY <1>3, <3>1, <3>2
    <2> QED
      BY <2>1 DEF OsEffects, Ages, TypeOK
  <1>4. ASSUME NEW p \in Procs, ReapKill(p)
        PROVE  os' \in [Procs -> Os] /\ \A q \in Procs : OsEffects(q)
    BY <1>0, <1>s, <1>4 DEF ReapKill
  <1>5. CASE StopSession \/ RemoveContainer \/ Crash
    BY <1>0, <1>h, <1>5 DEF StopSession, RemoveContainer, Crash
  <1>6. CASE UNCHANGED os
    BY <1>0, <1>6
  <1> QED
    BY <1>1, <1>2, <1>3, <1>4, <1>5, <1>6 DEF Next, Start, Begin, ResumeSession, BeginDestroy,
         ReapList, ReapMark

\* What is left: the session, the container, the pids it has handed out and the
\* list of a destroy keep their types.
LEMMA StepPlace ==
  ASSUME TypeOK, Next
  PROVE  /\ session' \in {"running", "stopped", "destroying", "reaping", "gone"}
         /\ up' \in BOOLEAN /\ used' \subseteq Pids
         /\ reap' \in [todo : SUBSET Procs, at : Procs \cup {None}]
  <1>0. ASSUME UNCHANGED <<session, up, used, reap>>
        PROVE  /\ session' \in {"running", "stopped", "destroying", "reaping", "gone"}
               /\ up' \in BOOLEAN /\ used' \subseteq Pids
               /\ reap' \in [todo : SUBSET Procs, at : Procs \cup {None}]
    BY <1>0 DEF TypeOK
  <1>1. ASSUME NEW t \in Requests, Serve(t)
        PROVE  /\ session' \in {session, "running"}
               /\ up' \in {up, TRUE} /\ used' \subseteq Pids /\ UNCHANGED reap
    BY <1>1 DEF Serve, Resume, Count, Spawn, ReadPid, Insert, Term, Poll, Kill, Probe, ReadExit,
                Mark, Drop, StartContainer, place, TypeOK
  <1>2. ASSUME NEW p \in Procs, Exit(p) \/ Supervise(p) \/ ReapKill(p)
        PROVE  UNCHANGED <<session, up, used>>
               /\ reap' \in [todo : SUBSET Procs, at : Procs \cup {None}]
    BY <1>2 DEF Exit, Supervise, ReapKill, place, TypeOK
  <1>3. CASE StopSession \/ ResumeSession \/ BeginDestroy \/ ReapList \/ ReapMark
               \/ RemoveContainer \/ Crash
    <2> USE DEF TypeOK, place
    <2>1. CASE StopSession \/ ResumeSession \/ BeginDestroy
      BY <2>1 DEF StopSession, ResumeSession, BeginDestroy, StartContainer
    <2>2. CASE ReapList
      BY <2>2 DEF ReapList, Running
    <2>3. CASE ReapMark
      BY <2>3 DEF ReapMark
    <2>4. CASE RemoveContainer
      BY <2>4 DEF RemoveContainer
    <2>5. CASE Crash
      BY <2>5 DEF Crash
    <2> QED
      BY <1>3, <2>1, <2>2, <2>3, <2>4, <2>5
  <1>4. ASSUME NEW t \in Requests, NEW p \in Procs,
               Start(t, p) \/ \E op \in {"get", "stop", "delete"} : Begin(t, op, p)
        PROVE  UNCHANGED <<session, up, used, reap>>
    BY <1>4 DEF Start, Begin, place
  <1> QED
    <2>1. CASE \E t \in Requests : Serve(t)
      BY <1>1, <2>1 DEF TypeOK
    <2>2. CASE \E p \in Procs : Exit(p) \/ Supervise(p) \/ ReapKill(p)
      BY <1>2, <2>2 DEF TypeOK
    <2> QED
      BY <1>0, <1>3, <1>4, <2>1, <2>2 DEF Next

\* Whatever requests, the container and a destroy do, the variables keep their
\* types, and a process that lives has written no exit file.
THEOREM TypeCorrect == Spec => [](TypeOK /\ ShapeInv /\ AliveInv)
  <1>1. Init => TypeOK /\ ShapeInv /\ AliveInv
    BY IdleTyped DEF Init, TypeOK, ShapeInv, AliveInv, Row, NoRow, Os, Codes
  <1>2. ASSUME TypeOK, ShapeInv, AliveInv, [Next]_vars
        PROVE  TypeOK' /\ ShapeInv' /\ AliveInv'
    <2>1. CASE UNCHANGED vars
      BY <1>2, <2>1 DEF vars, TypeOK, ShapeInv, ShapeOK, AliveInv
    <2>2. CASE Next
      <3>1. TypeOK' /\ ShapeInv'
        BY <1>2, <2>2, StepReq, StepRow, StepOs, StepPlace DEF TypeOK
      <3>2. AliveInv'
        BY <1>2, <2>2, StepOs DEF AliveInv, OsEffects, Ages
      <3> QED
        BY <3>1, <3>2
    <2> QED
      BY <1>2, <2>1, <2>2
  <1> QED
    BY <1>1, <1>2, PTL DEF Spec

(* Rows, pids and codes *)

\* The request that starts a process is the only one that knows of it.
AloneInv ==
  \A t \in Requests : req[t].pc \in Starting =>
    /\ row[req[t].p] = NoRow
    /\ \A u \in Requests \ {t} : req[u].p # req[t].p

\* A pid in a row, or in the hands of a request, is the process's.
PidInv ==
  /\ \A p \in Procs : row[p].pid # None => row[p].pid = os[p].pid
  /\ \A t \in Requests :
       req[t].pc = "insert" => req[t].pid \in {None, os[req[t].p].pid}
  /\ \A t \in Requests : req[t].pc \notin Starting \cup {"idle"} =>
       row[req[t].p].state # "absent" /\ row[req[t].p].pid = req[t].pid

\* A code that a request has read is in the exit file.
CodeInv ==
  /\ CodeIsOwn
  /\ \A t \in Requests : req[t].code = "own" => os[req[t].p].exit = "written"

\* A request in the middle of a start: nothing but its own insert touches its row.
LEMMA StartedRow ==
  ASSUME TypeOK, ShapeInv, AloneInv, Next,
         NEW t \in Requests, req[t].pc \in Starting
  PROVE  /\ row[req[t].p] = NoRow
         /\ row'[req[t].p] = NoRow \/ (req[t].pc = "insert" /\ req'[t] = Idle)
  <1>1. req[t].p \in Procs /\ row[req[t].p] = NoRow
    BY DEF AloneInv, ShapeInv, ShapeOK, Starting
  <1>2. RowEffects(req[t].p)
    BY <1>1, StepRow
  <1>3. \A u \in Requests : req[u].p = req[t].p => u = t
    BY DEF AloneInv
  <1>4. NoRow.state = "absent"
    BY DEF NoRow
  <1>5. ASSUME NEW u \in Requests, req[u].p = req[t].p
        PROVE  req[u].pc \notin {"mark", "drop"} /\ u = t
    BY <1>3, <1>5 DEF Starting
  <1> QED
    BY <1>1, <1>2, <1>4, <1>5 DEF RowEffects

\* A start stays the only one that knows of its process.
LEMMA StepAlone ==
  ASSUME TypeOK, ShapeInv, AloneInv, Next
  PROVE  AloneInv'
  <1> SUFFICES ASSUME NEW t \in Requests, req'[t].pc \in Starting
               PROVE  /\ row'[req'[t].p] = NoRow
                      /\ \A u \in Requests \ {t} : req'[u].p # req'[t].p
    BY DEF AloneInv
  <1>e. \A u \in Requests : ReqEffects(u)
    BY StepReq
  <1>1. CASE Starts(t)
    BY <1>1 DEF Starts
  <1>2. CASE ~Starts(t)
    <2>1. req[t].pc \in Starting /\ req'[t].p = req[t].p /\ req'[t] # Idle
      BY <1>2, <1>e, IdleTyped DEF ReqEffects, Proceeds, Reads, Starting
    <2>2. row[req[t].p] = NoRow /\ row'[req[t].p] = NoRow
      BY <2>1, StartedRow
    <2>3. req[t].p \in Procs /\ req[t].p # None
      BY <2>1, ProcessesAssumption DEF ShapeInv, ShapeOK, Starting
    <2>4. ASSUME NEW u \in Requests \ {t} PROVE req'[u].p # req[t].p
      <3>1. req[u].p # req[t].p
        BY <2>1 DEF AloneInv
      <3>2. ReqEffects(u)
        BY <1>e
      <3> QED
        BY <2>2, <2>3, <3>1, <3>2, IdleTyped DEF ReqEffects, Proceeds, Starts, Reads, NoRow
    <2> QED
      BY <2>1, <2>2, <2>4
  <1> QED
    BY <1>1, <1>2

\* A process that somebody knows of, but for the request that starts it, ages.
LEMMA KnownAges ==
  ASSUME TypeOK, ShapeInv, AliveInv, AloneInv, Next, NEW p \in Procs,
         row[p] # NoRow \/ \E t \in Requests : req[t].p = p /\ req[t].pc # "spawn"
  PROVE  Ages(os[p], os'[p])
  <1>1. ASSUME NEW t \in Requests, req[t].pc = "spawn", req[t].p = p PROVE FALSE
    BY <1>1 DEF AloneInv, Starting
  <1> QED
    BY <1>1, StepOs DEF OsEffects

\* Pids stay with their processes.
LEMMA StepPids ==
  ASSUME TypeOK, ShapeInv, AliveInv, AloneInv, PidInv, Next
  PROVE  PidInv'
  <1>a. NoRow.pid = None /\ NoRow.state = "absent"
    BY DEF NoRow
  <1>r. \A p \in Procs : row[p] \in Row
    BY DEF TypeOK
  <1>1. ASSUME NEW p \in Procs, row'[p].pid # None PROVE row'[p].pid = os'[p].pid
    <2>1. RowEffects(p)
      BY StepRow
    <2>2. CASE row[p].pid # None
      <3>1. Ages(os[p], os'[p])
        BY <1>a, <2>2, KnownAges
      <3>2. ASSUME NEW t \in Requests, req[t].pc = "insert", req[t].p = p PROVE FALSE
        BY <1>a, <2>2, <3>2 DEF AloneInv, Starting
      <3>3. row'[p].pid = row[p].pid
        BY <1>r, <2>1, <3>2 DEF RowEffects, Row
      <3> QED
        BY <2>2, <3>1, <3>3 DEF PidInv, Ages
    <2>3. CASE row[p].pid = None
      <3>1. PICK t \in Requests : /\ req[t].pc = "insert" /\ req[t].p = p
                                  /\ row'[p].pid = req[t].pid
        BY <1>1, <2>1, <2>3 DEF RowEffects
      <3>2. Ages(os[p], os'[p])
        BY <3>1, KnownAges
      <3> QED
        BY <1>1, <3>1, <3>2 DEF PidInv, Ages
    <2> QED
      BY <2>2, <2>3
  <1>2. ASSUME NEW t \in Requests, req'[t].pc = "insert"
        PROVE  req'[t].pid \in {None, os'[req'[t].p].pid}
    <2>1. ReqEffects(t)
      BY StepReq
    <2>2. /\ req[t].pc \in {"pid", "insert"} /\ req'[t].p = req[t].p /\ req[t].p \in Procs
      BY <1>2, <2>1, IdleTyped DEF ReqEffects, Proceeds, Starts, Reads, ShapeInv, ShapeOK
    <2>3. os'[req[t].p].pid = os[req[t].p].pid
      BY <2>2, KnownAges DEF Ages
    <2>4. req'[t] = req[t] \/ Proceeds(t)
      BY <1>2, <2>1, IdleTyped DEF ReqEffects, Starts, Reads
    <2>5. req'[t].pid \in {None, os[req[t].p].pid}
      <3>1. CASE req[t].pc = "insert"
        BY <1>2, <2>4, <3>1 DEF PidInv, Proceeds
      <3>2. CASE req[t].pc = "pid"
        BY <1>2, <2>4, <3>2 DEF Proceeds
      <3> QED
        BY <2>2, <3>1, <3>2
    <2> QED
      BY <2>2, <2>3, <2>5
  <1>3. ASSUME NEW t \in Requests, req'[t].pc \notin Starting \cup {"idle"}
        PROVE  row'[req'[t].p].state # "absent" /\ row'[req'[t].p].pid = req'[t].pid
    <2>1. ReqEffects(t)
      BY StepReq
    <2>2. CASE Reads(t)
      BY <1>r, <2>2 DEF Reads
    <2>3. CASE ~Reads(t)
      <3>1. /\ req[t].pc \notin Starting \cup {"idle"} /\ req'[t].p = req[t].p
            /\ req'[t].pid = req[t].pid /\ req[t].p \in Procs
        BY <1>3, <2>1, <2>3, IdleTyped DEF ReqEffects, Proceeds, Starts, ShapeInv, ShapeOK, Starting
      <3>2. row[req[t].p].state # "absent" /\ row[req[t].p].pid = req[t].pid
        BY <3>1 DEF PidInv
      <3>3. RowEffects(req[t].p)
        BY <3>1, StepRow
      <3>4. ASSUME NEW u \in Requests, req[u].pc = "insert", req[u].p = req[t].p PROVE FALSE
        BY <1>a, <3>2, <3>4 DEF AloneInv, Starting
      <3> QED
        BY <1>r, <3>1, <3>2, <3>3, <3>4 DEF RowEffects, Row
    <2> QED
      BY <2>2, <2>3
  <1> QED
    BY <1>1, <1>2, <1>3 DEF PidInv

\* Codes stay those of the exit files.
LEMMA StepCodes ==
  ASSUME TypeOK, ShapeInv, AliveInv, AloneInv, CodeInv, Next
  PROVE  CodeInv'
  <1>w. ASSUME NEW p \in Procs, os[p].exit = "written", Ages(os[p], os'[p])
        PROVE  os'[p].exit = "written"
    BY <1>w DEF AliveInv, Ages
  <1>1. ASSUME NEW p \in Procs, row'[p].code = "own" PROVE os'[p].exit = "written"
    <2>1. RowEffects(p) /\ row[p] \in Row
      BY StepRow DEF TypeOK
    <2>2. \/ row[p].code = "own"
          \/ \E t \in Requests : req[t].pc = "mark" /\ req[t].p = p /\ req[t].code = "own"
      BY <1>1, <2>1 DEF RowEffects, Row
    <2>3. os[p].exit = "written"
      BY <2>2 DEF CodeInv, CodeIsOwn
    <2>4. Ages(os[p], os'[p])
      BY <2>2, KnownAges DEF NoRow
    <2> QED
      BY <1>w, <2>3, <2>4
  <1>2. ASSUME NEW t \in Requests, req'[t].code = "own" PROVE os'[req'[t].p].exit = "written"
    <2>1. ReqEffects(t) /\ ShapeInv'
      BY StepReq
    <2>2. /\ req'[t].p = req[t].p /\ req[t].p \in Procs /\ req[t].pc # "spawn"
          /\ os[req[t].p].exit = "written"
      BY <1>2, <2>1 DEF ReqEffects, Proceeds, Starts, Reads, CodeInv, ShapeInv, ShapeOK, Idle, Starting
    <2>3. Ages(os[req[t].p], os'[req[t].p])
      BY <2>2, KnownAges
    <2> QED
      BY <1>w, <2>2, <2>3
  <1> QED
    BY <1>1, <1>2 DEF CodeInv, CodeIsOwn

\* The inductive invariant of rows, pids and codes.
LEMMA RowsInvariant == Spec => [](AloneInv /\ PidInv /\ CodeInv)
  <1>1. Init => AloneInv /\ PidInv /\ CodeInv
    BY DEF Init, AloneInv, PidInv, CodeInv, CodeIsOwn, NoRow, Idle, Starting
  <1>2. ASSUME TypeOK, ShapeInv, AliveInv, AloneInv, PidInv, CodeInv, [Next]_vars
        PROVE  AloneInv' /\ PidInv' /\ CodeInv'
    <2>1. CASE UNCHANGED vars
      BY <1>2, <2>1 DEF vars, AloneInv, PidInv, CodeInv, CodeIsOwn
    <2>2. CASE Next
      BY <1>2, <2>2, StepAlone, StepPids, StepCodes
    <2> QED
      BY <1>2, <2>1, <2>2
  <1> QED
    BY <1>1, <1>2, TypeCorrect, PTL DEF Spec

\* An exit code that is not the one of a destroy is what the supervisor wrote:
\* no request reads it from a process that is alive, and no start reuses a
\* process id whose exit file is there.
THEOREM CodesAreOwn == Spec => []CodeIsOwn
  <1>1. CodeInv => CodeIsOwn
    BY DEF CodeInv
  <1> QED
    BY <1>1, RowsInvariant, PTL

\* The code of an EXITED row is written once, whoever else finds the process
\* dead afterwards.
THEOREM ExitsAreFinal == Spec => ExitIsFinal
  <1>1. ASSUME TypeOK, ShapeInv, AloneInv, [Next]_vars
        PROVE  [\A p \in Procs :
                  row[p].state = "EXITED" =>
                    row'[p].state \in {"EXITED", "deleted"} /\ row'[p].code = row[p].code]_vars
    <2>1. CASE UNCHANGED vars
      BY <2>1
    <2>2. CASE Next
      <3>1. ASSUME NEW p \in Procs, row[p].state = "EXITED"
            PROVE  row'[p].state \in {"EXITED", "deleted"} /\ row'[p].code = row[p].code
        <4>1. RowEffects(p) /\ row[p] \in Row
          BY <1>1, <2>2, StepRow DEF TypeOK
        <4>2. ASSUME NEW t \in Requests, req[t].pc = "insert", req[t].p = p PROVE FALSE
          BY <1>1, <3>1, <4>2 DEF AloneInv, Starting, NoRow
        <4> QED
          BY <3>1, <4>1, <4>2 DEF RowEffects, Row
      <3> QED
        BY <3>1
    <2> QED
      BY <1>1, <2>1, <2>2
  <1> QED
    BY <1>1, TypeCorrect, RowsInvariant, PTL DEF Spec, ExitIsFinal

(* Processes that are written off *)

\* The destroy that could not signal a process has yet to remove the container.
Spared == session \in {"reaping", "gone"} /\ up

\* A request that goes on without looking again has seen the process dead.
DeadInv ==
  /\ ~up => \A p \in Procs : ~os[p].alive
  /\ reap.at # None => session = "reaping"
  /\ \A t \in Requests :
       req[t].pc \in {"exit", "mark"} \/ (req[t].pc = "probe" /\ req[t].op # "get")
         => ~os[req[t].p].alive
  /\ \A t \in Requests :
       req[t].pc = "drop" => req[t].pid = None \/ ~os[req[t].p].alive \/ Spared
  /\ \A p \in Procs :
       row[p].state \in {"EXITED", "deleted"} => row[p].pid = None \/ ~os[p].alive \/ Spared

\* The container goes down with all its processes, comes up only for a session
\* that is not being destroyed, and a destroy is at a row only while it reaps.
LEMMA StepUp ==
  ASSUME TypeOK, DeadInv, Next
  PROVE  /\ up /\ ~up' => \A p \in Procs : ~os'[p].alive
         /\ ~up /\ up' => session = "stopped"
         /\ session \in {"reaping", "gone"} => session' \in {"reaping", "gone"}
         /\ reap'.at # None => session' = "reaping"
  <1> USE DEF place
  <1>1. ASSUME NEW t \in Requests, NEW p \in Procs,
               Start(t, p) \/ \E op \in {"get", "stop", "delete"} : Begin(t, op, p)
        PROVE  UNCHANGED <<session, up, reap>>
    BY <1>1 DEF Start, Begin
  <1>2. ASSUME NEW t \in Requests, Serve(t)
        PROVE  /\ UNCHANGED reap
               /\ \/ UNCHANGED <<session, up>>
                  \/ session = "stopped" /\ session' = "running" /\ up'
    BY <1>2 DEF Serve, Resume, Count, Spawn, ReadPid, Insert, Term, Poll, Kill, Probe, ReadExit,
                Mark, Drop, StartContainer
  <1>3. ASSUME NEW p \in Procs, Exit(p) \/ Supervise(p) \/ ReapKill(p)
        PROVE  UNCHANGED <<session, up>> /\ (reap' = reap \/ session = "reaping")
    BY <1>3 DEF Exit, Supervise, ReapKill
  <1>h. ASSUME os' = Halted PROVE \A p \in Procs : ~os'[p].alive
    BY <1>h, SignalAges
  <1>4. CASE StopSession \/ ResumeSession \/ BeginDestroy
    BY <1>4, <1>h DEF StopSession, ResumeSession, BeginDestroy, StartContainer, DeadInv
  <1>5. CASE ReapList
    BY <1>5 DEF ReapList
  <1>6. CASE ReapMark
    BY <1>6 DEF ReapMark, DeadInv
  <1>7. CASE RemoveContainer
    BY <1>7, <1>h DEF RemoveContainer
  <1>8. CASE Crash
    BY <1>8, <1>h DEF Crash
  <1> QED
    <2>1. CASE \E t \in Requests : Serve(t)
      BY <1>2, <2>1 DEF DeadInv
    <2>2. CASE \E p \in Procs : Exit(p) \/ Supervise(p) \/ ReapKill(p)
      BY <1>3, <2>2 DEF DeadInv
    <2>3. CASE UNCHANGED <<session, up, reap>>
      BY <2>3 DEF DeadInv
    <2> QED
      BY <1>1, <1>4, <1>5, <1>6, <1>7, <1>8, <2>1, <2>2, <2>3 DEF Next

\* The processes are dead when the container is down.
LEMMA StepDown ==
  ASSUME TypeOK, ShapeInv, AliveInv, DeadInv, Next, ~up'
  PROVE  \A p \in Procs : ~os'[p].alive
  <1>1. CASE up
    BY <1>1, StepUp
  <1>2. CASE ~up
    <2> SUFFICES ASSUME NEW p \in Procs PROVE ~os'[p].alive
      OBVIOUS
    <2>1. ~os[p].alive
      BY <1>2 DEF DeadInv
    <2>2. Ages(os[p], os'[p])
      BY <1>2, StepOs DEF OsEffects
    <2> QED
      BY <2>1, <2>2 DEF Ages
  <1> QED
    BY <1>1, <1>2

\* What was excused is excused, or the process is dead.
LEMMA StepSpared ==
  ASSUME TypeOK, ShapeInv, AliveInv, DeadInv, Next, Spared, NEW p \in Procs
  PROVE  ~os'[p].alive \/ Spared'
  BY StepDown, StepUp DEF Spared

\* A process that somebody has seen dead stays dead.
LEMMA StaysDead ==
  ASSUME TypeOK, ShapeInv, AliveInv, AloneInv, Next, NEW p \in Procs, ~os[p].alive,
         row[p] # NoRow \/ \E t \in Requests : req[t].p = p /\ req[t].pc # "spawn"
  PROVE  ~os'[p].alive
  BY KnownAges DEF Ages

\* A process whose pid nobody has any more is dead.
LEMMA NotLiving ==
  ASSUME TypeOK, PidInv, NEW t \in Requests, req[t].p \in Procs,
         req[t].pc \notin Starting \cup {"idle"}, req[t].pid # None
  PROVE  /\ os[req[t].p].pid = req[t].pid
         /\ Living(req[t].pid) = {} => ~os[req[t].p].alive
         /\ ~Signalled(req[t].pid)[req[t].p].alive
  <1>1. os[req[t].p].pid = req[t].pid /\ os[req[t].p] \in Os
    BY DEF PidInv, TypeOK
  <1> QED
    BY <1>1 DEF Living, Signalled, Dead, Os

\* Whoever goes on without looking again has seen the process dead.
LEMMA StepDead ==
  ASSUME TypeOK, ShapeInv, AliveInv, AloneInv, PidInv, DeadInv, Next
  PROVE  DeadInv'
  <1>0. /\ ~up' => \A p \in Procs : ~os'[p].alive
        /\ reap'.at # None => session' = "reaping"
    BY StepDown, StepUp
  <1>1. ASSUME NEW t \in Requests,
               req'[t].pc \in {"exit", "mark"} \/ (req'[t].pc = "probe" /\ req'[t].op # "get")
        PROVE  ~os'[req'[t].p].alive
    <2>1. ReqEffects(t) /\ ShapeOK(req[t])
      BY StepReq DEF ShapeInv
    <2>2. CASE req'[t] = req[t]
      <3>1. ~os[req[t].p].alive /\ req[t].p \in Procs /\ req[t].pc # "spawn"
        BY <1>1, <2>1, <2>2 DEF DeadInv, ShapeOK
      <3> QED
        BY <2>2, <3>1, StaysDead
    <2>3. CASE Proceeds(t)
      <3>1. /\ req'[t].p = req[t].p /\ req[t].p \in Procs
            /\ req[t].pc \notin Starting \cup {"idle", "drop"}
        BY <1>1, <2>1, <2>3 DEF Proceeds, ShapeOK, Starting
      <3>2. req[t].pid # None
        BY <2>1, <3>1 DEF ShapeOK
      <3>3. \/ ~os[req[t].p].alive
            \/ req[t].pc = "kill" /\ os' = Signalled(req[t].pid)
        BY <1>1, <2>3, <3>1, <3>2, NotLiving DEF Proceeds, DeadInv
      <3>4. CASE ~os[req[t].p].alive
        BY <3>1, <3>4, StaysDead DEF Starting
      <3>5. CASE os' = Signalled(req[t].pid)
        BY <3>1, <3>2, <3>5, NotLiving
      <3> QED
        BY <3>3, <3>4, <3>5
    <2> QED
      BY <1>1, <2>1, <2>2, <2>3, IdleTyped DEF ReqEffects, Starts, Reads
  <1>2. ASSUME NEW t \in Requests, req'[t].pc = "drop"
        PROVE  req'[t].pid = None \/ ~os'[req'[t].p].alive \/ Spared'
    <2>1. ReqEffects(t) /\ ShapeOK(req[t])
      BY StepReq DEF ShapeInv
    <2>2. CASE req'[t] = req[t]
      <3>1. req[t].p \in Procs /\ req[t].pc # "spawn"
        BY <1>2, <2>1, <2>2 DEF ShapeOK
      <3>2. req[t].pid = None \/ ~os[req[t].p].alive \/ Spared
        BY <1>2, <2>2 DEF DeadInv
      <3> QED
        BY <2>2, <3>1, <3>2, StaysDead, StepSpared
    <2>3. CASE Proceeds(t)
      <3>1. /\ req'[t].p = req[t].p /\ req[t].p \in Procs
            /\ req[t].pc \in {"probe", "mark"} /\ req[t].op = "delete"
        BY <1>2, <2>1, <2>3 DEF Proceeds, ShapeOK
      <3>2. ~os[req[t].p].alive
        BY <3>1 DEF DeadInv
      <3> QED
        BY <3>1, <3>2, StaysDead
    <2>4. CASE Reads(t)
      <3>1. /\ req'[t].p \in Procs /\ req'[t].pid = row[req'[t].p].pid
            /\ row[req'[t].p].state = "EXITED" \/ row[req'[t].p].pid = None
            /\ row[req'[t].p].state \in {"RUNNING", "EXITED"}
        BY <1>2, <2>4 DEF Reads
      <3>2. row[req'[t].p] # NoRow
        BY <3>1 DEF NoRow
      <3>3. req'[t].pid = None \/ ~os[req'[t].p].alive \/ Spared
        BY <3>1 DEF DeadInv
      <3> QED
        BY <3>1, <3>2, <3>3, StaysDead, StepSpared
    <2> QED
      BY <1>2, <2>1, <2>2, <2>3, <2>4, IdleTyped DEF ReqEffects, Starts
  <1>3. ASSUME NEW p \in Procs, row'[p].state \in {"EXITED", "deleted"}, row'[p].pid # None
        PROVE  ~os'[p].alive \/ Spared'
    <2>1. RowEffects(p) /\ row[p] \in Row
      BY StepRow DEF TypeOK
    <2>2. /\ row'[p].pid = row[p].pid
          /\ \/ row[p].state \in {"EXITED", "deleted"}
             \/ \E t \in Requests : req[t].p = p /\ req[t].pc \in {"mark", "drop"}
             \/ reap.at = p
      BY <1>3, <2>1 DEF RowEffects, Row
    <2>3. row[p] # NoRow
      BY <1>3, <2>2 DEF NoRow
    <2>4. ASSUME NEW t \in Requests, req[t].p = p, req[t].pc = "drop"
          PROVE  ~os[p].alive \/ Spared
      <3>1. req[t].pid = row[p].pid
        BY <2>4 DEF PidInv, Starting
      <3> QED
        BY <1>3, <2>2, <2>4, <3>1 DEF DeadInv
    <2>5. ASSUME reap.at = p PROVE ~os[p].alive \/ Spared
      <3>1. session = "reaping"
        BY <2>5, ProcessesAssumption DEF DeadInv
      <3> QED
        BY <3>1 DEF DeadInv, Spared
    <2>6. ~os[p].alive \/ Spared
      BY <1>3, <2>2, <2>4, <2>5 DEF DeadInv
    <2> QED
      BY <2>3, <2>6, StaysDead, StepSpared
  <1> QED
    BY <1>0, <1>1, <1>2, <1>3 DEF DeadInv

\* A row that says EXITED, or that was deleted, is of a dead process: however
\* requests, failed Docker calls, restarts of the container, reused pids and
\* a crash of the control plane interleave, with the two exceptions the property
\* names.
THEOREM NoLiveProcessIsWrittenOff == Spec => []NoLiveProcessWrittenOff
  <1>1. Init => DeadInv
    BY DEF Init, DeadInv, NoRow, Idle
  <1>2. ASSUME TypeOK, ShapeInv, AliveInv, AloneInv, PidInv, DeadInv, [Next]_vars
        PROVE  DeadInv'
    <2>1. CASE UNCHANGED vars
      BY <1>2, <2>1 DEF vars, DeadInv, Spared
    <2>2. CASE Next
      BY <1>2, <2>2, StepDead
    <2> QED
      BY <1>2, <2>1, <2>2
  <1>3. DeadInv => NoLiveProcessWrittenOff
    BY DEF DeadInv, Spared, NoLiveProcessWrittenOff
  <1> QED
    BY <1>1, <1>2, <1>3, TypeCorrect, RowsInvariant, PTL DEF Spec

=============================================================================
