------------------------------ MODULE Processes ------------------------------
(***************************************************************************)
(* ProcessService: the background processes of one session.  The service   *)
(* learns about a process only by looking: it keeps a row with the pid and *)
(* asks the container when a client asks for the row.                      *)
(*                                                                         *)
(* The session is reduced to what its operations (SessionLifecycle) do to  *)
(* the processes: a stop ends them all, a destroy kills those it has rows  *)
(* of and then removes the container.  An action is what a request does    *)
(* from one await to the next.  What happens inside the container is       *)
(* external.                                                               *)
(***************************************************************************)
EXTENDS FiniteSets, Naturals

CONSTANTS
  Procs,        \* process ids (ULIDs, never reused)
  Pids,         \* the pids the container hands out
  Requests,     \* requests in flight at once
  None,         \* no process, no pid
  Cap,          \* min(limits.max_processes, tenant_max_processes)
  DockerFails,  \* whether a Docker call may raise for a reason of its own
  CanCrash      \* whether the control plane may crash

ASSUME ProcessesAssumption ==
  /\ None \notin Procs \cup Pids
  /\ Cap \in Nat \ {0}
  /\ DockerFails \in BOOLEAN
  /\ CanCrash \in BOOLEAN

VARIABLES
  session,  \* the session: "running", "stopped", two phases of a destroy, "gone"
  up,       \* its container is running
  row,      \* registry: the row of each process
  os,       \* the container: each process's pid, whether it lives, its exit file
  used,     \* pids handed out since the container was started
  req,      \* what each request is doing
  reap      \* a destroy: the rows still to visit, and the one it is at

place == <<session, up>>
vars == <<session, up, row, os, used, req, reap>>

Codes == {"null", "own", "137"}   \* not known, what the process returned, killed by a destroy

NoRow == [state |-> "absent", code |-> "null", pid |-> None]

Row == [state : {"absent", "RUNNING", "EXITED", "deleted"},
        code  : Codes,
        pid   : Pids \cup {None}]

Os == [pid : Pids \cup {None}, alive : BOOLEAN, exit : {"none", "due", "written"}]

Steps == {"idle", "resume", "count", "spawn", "pid", "insert", "term", "poll", "kill",
          "probe", "exit", "mark", "drop"}

Idle == [op |-> "none", pc |-> "idle", p |-> None, pid |-> None, code |-> "null"]

Request == [op   : {"none", "start", "get", "stop", "delete"},
            pc   : Steps,
            p    : Procs \cup {None},
            pid  : Pids \cup {None},  \* the pid it has read
            code : Codes]             \* the exit code it has read

Go(t, pc) == req' = [req EXCEPT ![t].pc = pc]

Finish(t) == req' = [req EXCEPT ![t] = Idle]

\* An exec of the service in the container raises: Docker runs a command in a
\* running container only.
NoAnswer(t) ==
  /\ ~up \/ DockerFails
  /\ Finish(t)
  /\ UNCHANGED os

Living(pid) == {q \in Procs : os[q].alive /\ os[q].pid = pid}

Running == {p \in Procs : row[p].state = "RUNNING"}

-----------------------------------------------------------------------------
(* Inside the container *)

Dead(o) == [o EXCEPT !.alive = FALSE, !.exit = "due"]

Exit(p) ==
  /\ os[p].alive
  /\ os' = [os EXCEPT ![p] = Dead(@)]
  /\ UNCHANGED <<place, row, used, req, reap>>

\* The supervisor writes the exit file a moment after its child has ended.
Supervise(p) ==
  /\ os[p].exit = "due"
  /\ os' = [os EXCEPT ![p].exit = "written"]
  /\ UNCHANGED <<place, row, used, req, reap>>

\* The container goes down, the supervisors with it.
Halted == [p \in Procs |->
             [os[p] EXCEPT !.alive = FALSE,
                           !.exit = IF @ = "written" THEN @ ELSE "none"]]

\* It comes up empty, and its pids start over.
StartContainer == session' = "running" /\ up' = TRUE /\ used' = {}

-----------------------------------------------------------------------------
(* start *)

\* A request for a session that is being destroyed is refused.
Start(t, p) ==
  /\ req[t].pc = "idle"
  /\ row[p] = NoRow /\ os[p].pid = None
  /\ \A u \in Requests : req[u].p # p
  /\ session \in {"running", "stopped"}
  /\ req' = [req EXCEPT ![t] =
       [Idle EXCEPT !.op = "start",
                    !.pc = IF session = "running" THEN "count" ELSE "resume",
                    !.p = p]]
  /\ UNCHANGED <<place, row, os, used, reap>>

\* A stopped session is resumed first; it raises when someone else was faster.
Resume(t) ==
  /\ req[t].pc = "resume"
  /\ \/ session = "stopped" /\ StartContainer /\ Go(t, "count")
     \/ session # "stopped" /\ Finish(t) /\ UNCHANGED <<place, used>>
  /\ UNCHANGED <<row, os, reap>>

Count(t) ==
  /\ req[t].pc = "count"
  /\ IF Cardinality(Running) < Cap THEN Go(t, "spawn") ELSE Finish(t)
  /\ UNCHANGED <<place, row, os, used, reap>>

\* The container hands out a pid it has not used since it was started.
Spawn(t) ==
  /\ req[t].pc = "spawn"
  /\ \/ /\ up
        /\ \E pid \in Pids \ used :
             /\ os' = [os EXCEPT ![req[t].p] = [pid |-> pid, alive |-> TRUE, exit |-> "none"]]
             /\ used' = used \cup {pid}
        /\ Go(t, "pid")
     \/ NoAnswer(t) /\ UNCHANGED used
  /\ UNCHANGED <<place, row, reap>>

\* The pid file is read for a second; the start goes on without a pid.
ReadPid(t) ==
  /\ req[t].pc = "pid"
  /\ \/ /\ up
        /\ \E pid \in {os[req[t].p].pid, None} :
             req' = [req EXCEPT ![t].pc = "insert", ![t].pid = pid]
        /\ UNCHANGED os
     \/ NoAnswer(t)
  /\ UNCHANGED <<place, row, used, reap>>

\* Mutant of Insert: a row with a state of its own.
InsertStarting(t) ==
  /\ req[t].pc = "insert"
  /\ row' = [row EXCEPT ![req[t].p] = [state |-> "STARTING", code |-> "null", pid |-> req[t].pid]]
  /\ Finish(t)
  /\ UNCHANGED <<place, os, used, reap>>

\* The session is not looked at again.
Insert(t) ==
  /\ req[t].pc = "insert"
  /\ row' = [row EXCEPT ![req[t].p] = [state |-> "RUNNING", code |-> "null", pid |-> req[t].pid]]
  /\ Finish(t)
  /\ UNCHANGED <<place, os, used, reap>>

-----------------------------------------------------------------------------
(* get, list, stop, delete *)

\* get, list, stop and delete read the row.  One that has exited or has no pid
\* is left as it is, but delete drops it.
Begin(t, op, p) ==
  LET maybeAlive == row[p].state = "RUNNING" /\ row[p].pid # None IN
  /\ req[t].pc = "idle"
  /\ session # "gone" /\ row[p].state \in {"RUNNING", "EXITED"}
  /\ maybeAlive \/ op = "delete"
  /\ req' = [req EXCEPT ![t] =
       [op |-> op,
        pc |-> IF ~maybeAlive THEN "drop" ELSE IF op = "get" THEN "probe" ELSE "term",
        p |-> p, pid |-> row[p].pid, code |-> "null"]]
  /\ UNCHANGED <<place, row, os, used, reap>>

\* What a request does when stop returns.
AfterStop(t) == IF req[t].op = "delete" THEN Go(t, "drop") ELSE Finish(t)

\* A signal reaches whoever has the pid now.
Signalled(pid) == [q \in Procs |-> IF q \in Living(pid) THEN Dead(os[q]) ELSE os[q]]

\* SIGTERM: the process may ignore it.
Term(t) ==
  /\ req[t].pc = "term"
  /\ \/ up /\ os' \in {os, Signalled(req[t].pid)} /\ Go(t, "poll")
     \/ NoAnswer(t)
  /\ UNCHANGED <<place, row, used, reap>>

\* Mutant of Poll: the end of the grace period is the end of the process.
PollGivesUp(t) ==
  /\ req[t].pc = "poll"
  /\ Go(t, "mark")
  /\ UNCHANGED <<place, row, os, used, reap>>

\* pid_alive until the process is gone or the grace period is over.
Poll(t) ==
  /\ req[t].pc = "poll"
  /\ \/ up /\ Living(req[t].pid) = {} /\ Go(t, "probe") /\ UNCHANGED os
     \/ up /\ Living(req[t].pid) # {} /\ Go(t, "kill") /\ UNCHANGED os
     \/ NoAnswer(t)
  /\ UNCHANGED <<place, row, used, reap>>

Kill(t) ==
  /\ req[t].pc = "kill"
  /\ \/ up /\ os' = Signalled(req[t].pid) /\ Go(t, "probe")
     \/ NoAnswer(t)
  /\ UNCHANGED <<place, row, used, reap>>

\* _maybe_refresh with its pid_alive.  list may skip it (it was polled lately).
Probe(t) ==
  /\ req[t].pc = "probe"
  /\ \/ up /\ Living(req[t].pid) # {} /\ AfterStop(t) /\ UNCHANGED os
     \/ up /\ Living(req[t].pid) = {} /\ Go(t, "exit") /\ UNCHANGED os
     \/ req[t].op = "get" /\ Finish(t) /\ UNCHANGED os
     \/ NoAnswer(t)
  /\ UNCHANGED <<place, row, used, reap>>

\* Mutant of ReadExit: no exit file reads as a code.
ReadExitAnyway(t) ==
  /\ req[t].pc = "exit"
  /\ req' = [req EXCEPT ![t].pc = "mark", ![t].code = "own"]
  /\ UNCHANGED <<place, row, os, used, reap>>

\* The exit file is read up to five times.
ReadExit(t) ==
  /\ req[t].pc = "exit"
  /\ \/ /\ up
        /\ req' = [req EXCEPT ![t].pc = "mark",
                              ![t].code = IF os[req[t].p].exit = "written" THEN "own" ELSE "null"]
        /\ UNCHANGED os
     \/ NoAnswer(t)
  /\ UNCHANGED <<place, row, used, reap>>

\* Mutant of MarkExited: an UPDATE without AND state = 'RUNNING'.
MarkAny(p, code) ==
  row' = IF row[p].state \in {"RUNNING", "EXITED"}
           THEN [row EXCEPT ![p].state = "EXITED", ![p].code = code]
           ELSE row

\* mark_process_exited: only the first one counts.
MarkExited(p, code) ==
  row' = IF row[p].state = "RUNNING"
           THEN [row EXCEPT ![p].state = "EXITED", ![p].code = code]
           ELSE row

Mark(t) ==
  /\ req[t].pc = "mark"
  /\ MarkExited(req[t].p, req[t].code)
  /\ AfterStop(t)
  /\ UNCHANGED <<place, os, used, reap>>

Drop(t) ==
  /\ req[t].pc = "drop"
  /\ row' = [row EXCEPT ![req[t].p].state = "deleted"]
  /\ Finish(t)
  /\ UNCHANGED <<place, os, used, reap>>

-----------------------------------------------------------------------------
(* The session *)

StopSession ==
  /\ session = "running"
  /\ session' = "stopped" /\ up' = FALSE
  /\ os' = Halted
  /\ UNCHANGED <<row, used, req, reap>>

\* resume by a client, or the transparent one of exec and the file operations.
ResumeSession ==
  /\ session = "stopped"
  /\ StartContainer
  /\ UNCHANGED <<row, os, req, reap>>

BeginDestroy ==
  /\ session \in {"running", "stopped"}
  /\ session' = "destroying"
  /\ UNCHANGED <<up, row, os, used, req, reap>>

\* reap_session_processes: the rows, then a SIGKILL and a mark for each.
ReapList ==
  /\ session = "destroying"
  /\ session' = "reaping"
  /\ reap' = [todo |-> Running, at |-> None]
  /\ UNCHANGED <<up, row, os, used, req>>

\* A signal that raises is logged.
ReapKill(p) ==
  /\ session = "reaping"
  /\ p \in reap.todo /\ reap.at = None
  /\ reap' = [todo |-> reap.todo \ {p}, at |-> p]
  /\ \/ up /\ row[p].pid # None /\ os' = Signalled(row[p].pid)
     \/ (~up \/ DockerFails \/ row[p].pid = None) /\ UNCHANGED os
  /\ UNCHANGED <<place, row, used, req>>

ReapMark ==
  /\ reap.at # None
  /\ MarkExited(reap.at, "137")
  /\ reap' = [reap EXCEPT !.at = None]
  /\ UNCHANGED <<place, os, used, req>>

\* The row is DESTROYED also when the removal raises.
RemoveContainer ==
  /\ session = "reaping"
  /\ reap = [todo |-> {}, at |-> None]
  /\ session' = "gone"
  /\ \/ up' = FALSE /\ os' = Halted
     \/ DockerFails /\ UNCHANGED <<up, os>>
  /\ UNCHANGED <<row, used, req, reap>>

\* Startup finishes a destroy that was under way, without the processes.
Crash ==
  /\ CanCrash
  /\ req' = [t \in Requests |-> Idle]
  /\ reap' = [todo |-> {}, at |-> None]
  /\ IF session \in {"destroying", "reaping"}
       THEN session' = "gone" /\ up' = FALSE /\ os' = Halted
       ELSE UNCHANGED <<place, os>>
  /\ UNCHANGED <<row, used>>

-----------------------------------------------------------------------------

Init ==
  /\ session = "running" /\ up = TRUE
  /\ row = [p \in Procs |-> NoRow]
  /\ os = [p \in Procs |-> [pid |-> None, alive |-> FALSE, exit |-> "none"]]
  /\ used = {}
  /\ req = [t \in Requests |-> Idle]
  /\ reap = [todo |-> {}, at |-> None]

Serve(t) ==
  \/ Resume(t) \/ Count(t) \/ Spawn(t) \/ ReadPid(t) \/ Insert(t)
  \/ Term(t) \/ Poll(t) \/ Kill(t) \/ Probe(t) \/ ReadExit(t)
  \/ Mark(t) \/ Drop(t)

Next ==
  \/ \E t \in Requests, p \in Procs :
       \/ Start(t, p)
       \/ \E op \in {"get", "stop", "delete"} : Begin(t, op, p)
  \/ \E t \in Requests : Serve(t)
  \/ \E p \in Procs : Exit(p) \/ Supervise(p) \/ ReapKill(p)
  \/ StopSession \/ ResumeSession \/ BeginDestroy \/ ReapList \/ ReapMark \/ RemoveContainer
  \/ Crash

Spec == Init /\ [][Next]_vars

-----------------------------------------------------------------------------
(* Properties *)

\* Every state that is written to a row is one of the registry's.
TypeOK ==
  /\ session \in {"running", "stopped", "destroying", "reaping", "gone"}
  /\ up \in BOOLEAN
  /\ row \in [Procs -> Row]
  /\ os \in [Procs -> Os]
  /\ used \subseteq Pids
  /\ req \in [Requests -> Request]
  /\ reap \in [todo : SUBSET Procs, at : Procs \cup {None}]

\* A row that says EXITED, or that a delete has removed, is of a process that
\* is dead, however requests, restarts of the container and reused pids
\* interleave.  It is not so for a process whose pid was never read (nobody can
\* signal it), nor for one whose SIGKILL by a destroy raised, until the container
\* is removed.
NoLiveProcessWrittenOff ==
  \A p \in Procs :
    /\ row[p].state \in {"EXITED", "deleted"}
    /\ row[p].pid # None
    /\ session \in {"reaping", "gone"} => ~up
    => ~os[p].alive

\* The code of an EXITED row is written once: of two requests, or a request
\* and a destroy, that find the process dead the second changes nothing.
ExitIsFinal ==
  [][\A p \in Procs :
       row[p].state = "EXITED" =>
         row'[p].state \in {"EXITED", "deleted"} /\ row'[p].code = row[p].code]_vars

\* An exit code that is not the one of a destroy is what the supervisor wrote.
CodeIsOwn ==
  \A p \in Procs : row[p].code = "own" => os[p].exit = "written"

=============================================================================
