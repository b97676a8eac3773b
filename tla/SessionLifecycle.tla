-------------------------- MODULE SessionLifecycle --------------------------
(***************************************************************************)
(* The life of sandbox sessions in the control plane: SessionService, the  *)
(* resume path that ExecService and FileService share, the reaper, the     *)
(* deletion of a tenant, and startup reconciliation after a crash.         *)
(*                                                                         *)
(* The control plane is one asyncio process.  A coroutine ("task") gives   *)
(* up control at every await, so an action is what a task does from one    *)
(* await to the next: one statement on the registry, one call of the       *)
(* Docker daemon (run in a thread), or the acquisition of a session lock.  *)
(* Registry.transition is two statements, a SELECT with the check of       *)
(* TRANSITIONS and an UPDATE that repeats no check; they are two actions.  *)
(* What the daemon does is external: a session's container is created once *)
(* so it is named by its session.                                          *)
(***************************************************************************)
EXTENDS SessionStatus, FiniteSets, Naturals

CONSTANTS
  Sessions,       \* session ids (ULIDs, never reused)
  Tenants,
  Requests,       \* HTTP requests in flight at once, each a task
  Daemon,         \* the task of the lifespan: reconciliation, then the reaper
  Deleter,        \* the task of an administrator's DELETE /v1/tenants/{id}
  None,           \* no session, no tenant, no task
  Ops,            \* the requests that clients issue
  MaxConcurrent,  \* settings.tenant_max_concurrent
  DockerFails,    \* whether a Docker call may raise for a reason of its own
  CanCrash        \* whether the control plane may crash

UseOps == {"exec", "stream", "file"}

ClientOps ==
  {"create", "stop", "resume", "destroy", "delete_tenant"} \cup UseOps

Tasks == Requests \cup {Daemon, Deleter}

ASSUME LifecycleAssumption ==
  /\ Daemon # Deleter
  /\ {Daemon, Deleter} \cap Requests = {}
  /\ None \notin Sessions \cup Tenants \cup Tasks
  /\ Ops \subseteq ClientOps
  /\ MaxConcurrent \in Nat \ {0}
  /\ DockerFails \in BOOLEAN
  /\ CanCrash \in BOOLEAN

VARIABLES
  status,     \* registry: status of the row, "absent" before the insert
  cid,        \* registry: whether the row's container_id is set
  owner,      \* registry: the row's tenant_id
  idle,       \* last_activity_at is older than idle_stop_minutes
  expired,    \* created_at is older than hard_destroy_hours
  volume,     \* Docker: the session's volume exists
  container,  \* Docker: "none", "stopped" or "running"
  lock,       \* SessionService._locks: the task that holds the session's lock
  task,       \* what each task is doing
  daemon,     \* the lifespan's loop: its phase and the rows it still has to visit
  deleter,    \* delete_tenant: its phase, its tenant and the rows still to visit
  known,      \* sessions whose id a create has returned to its client
  tenant      \* registry: "active", "revoked" (its tokens) or "deleted"

rowVars    == <<status, cid, owner>>
clockVars  == <<idle, expired>>
dockerVars == <<volume, container>>
sweepVars  == <<daemon, deleter>>
vars == <<status, cid, owner, idle, expired, volume, container, lock, task,
          daemon, deleter, known, tenant>>

-----------------------------------------------------------------------------
(* Tasks *)

LockedOps == {"stop", "resume", "destroy", "reap_stop", "reap_destroy"}

TaskOps == {"none", "create", "finish"} \cup UseOps \cup LockedOps

PCs == {"idle", "count", "insert", "mk_volume", "mk_container", "set_container",
        "start", "rollback", "get", "lock", "read", "stop", "rm_container",
        "rm_volume", "look", "relook", "exec", "executing", "touch",
        "select", "update"}

NewTask(op, pc, s, tn, c) ==
  [op |-> op, pc |-> pc, on |-> s, tn |-> tn, cid |-> c, to |-> "absent"]

NoTask == NewTask("none", "idle", None, None, FALSE)

TaskRecord ==
  [op  : TaskOps,
   pc  : PCs,
   on  : Sessions \cup {None},     \* the session it works on
   tn  : Tenants \cup {None},      \* the tenant its token belongs to
   cid : BOOLEAN,                  \* container_id in the row it has read
   to  : Statuses \cup {"absent"}] \* the status it is moving the row to

IdleTask(t) == task[t].pc = "idle"

\* Mutant of Visible: the look-up leaves out the tenant.
VisibleToAll(s, tn) == status[s] \in Statuses \ {"DESTROYED"}

\* The rows a request of tenant tn can see: Registry.get hides the rest.
Visible(s, tn) == status[s] \in Statuses \ {"DESTROYED"} /\ owner[s] = tn

Goto(t, pc) ==
  /\ task' = [task EXCEPT ![t] = [@ EXCEPT !.pc = pc]]
  /\ UNCHANGED lock

\* The task calls Registry.transition(session, to).
Aim(t, to) ==
  /\ task' = [task EXCEPT ![t] = [@ EXCEPT !.pc = "select", !.to = to]]
  /\ UNCHANGED lock

\* Mutant of Done: an early exit that does not release the lock.
DoneKeepingLock(t) ==
  /\ task' = [task EXCEPT ![t] = NoTask]
  /\ UNCHANGED lock

\* The task returns or raises; leaving "async with lock" frees the lock.
Done(t) ==
  /\ task' = [task EXCEPT ![t] = NoTask]
  /\ lock' = [s \in Sessions |-> IF lock[s] = t THEN None ELSE lock[s]]

\* Mutant of Raise: a failed destroy ends in a status of its own.
RaiseAsFailed(t) ==
  CASE task[t].op = "create"                      -> Goto(t, "rollback")
    [] task[t].op \in {"destroy", "reap_destroy"} -> Aim(t, "FAILED")
    [] OTHER                                      -> Done(t)

\* A Docker call of the task has raised.
Raise(t) ==
  CASE task[t].op = "create"                      -> Goto(t, "rollback")
    [] task[t].op \in {"destroy", "reap_destroy"} -> Aim(t, "DESTROYED")
    [] OTHER                                      -> Done(t)

serving == daemon.phase \in {"sleep", "idle", "expired"}

-----------------------------------------------------------------------------
(* Requests arrive.  A client can name only a session whose id it was told. *)

Begin(t, op, pc, s, tn) ==
  /\ serving
  /\ IdleTask(t)
  /\ op \in Ops
  /\ tenant[tn] = "active"
  /\ task' = [task EXCEPT ![t] = NewTask(op, pc, s, tn, FALSE)]
  /\ UNCHANGED <<rowVars, clockVars, dockerVars, lock, sweepVars, known, tenant>>

BeginCreate(t, s, tn) ==
  /\ status[s] = "absent"
  /\ \A u \in Tasks : task[u].on # s
  /\ Begin(t, "create", "count", s, tn)

BeginLifecycle(t, op, s, tn) ==
  /\ s \in known
  /\ Begin(t, op, "lock", s, tn)

BeginUse(t, op, s, tn) ==
  /\ s \in known
  /\ Begin(t, op, "look", s, tn)

-----------------------------------------------------------------------------
(* Registry.transition *)

Select(t) ==
  LET s == task[t].on  to == task[t].to IN
  /\ task[t].pc = "select"
  /\ \/ /\ Allowed(status[s], to)
        /\ Goto(t, "update")
     \/ /\ ~Allowed(status[s], to)
        /\ IF task[t].op = "create" /\ to = "RUNNING"
             THEN Goto(t, "rollback")
             ELSE Done(t)
  /\ UNCHANGED <<rowVars, clockVars, dockerVars, sweepVars, known, tenant>>

\* Mutant of Continue: the destroy goes on without its container.
ContinueToVolume(t) ==
  LET op == task[t].op  to == task[t].to IN
  CASE op = "create" /\ to = "RUNNING"         -> Goto(t, "get")
    [] op = "create" /\ to = "DESTROYING"      -> Aim(t, "DESTROYED")
    [] op \in UseOps                           -> Goto(t, "relook")
    [] op \in {"destroy", "reap_destroy"} /\ to = "DESTROYING" -> Goto(t, "rm_volume")
    [] OTHER                                   -> Done(t)

\* What follows the UPDATE in the caller.
Continue(t) ==
  LET op == task[t].op  to == task[t].to IN
  CASE op = "create" /\ to = "RUNNING"         -> Goto(t, "get")
    [] op = "create" /\ to = "DESTROYING"      -> Aim(t, "DESTROYED")
    [] op \in UseOps                           -> Goto(t, "relook")
    [] op \in {"destroy", "reap_destroy"} /\ to = "DESTROYING" ->
         Goto(t, IF task[t].cid THEN "rm_container" ELSE "rm_volume")
    [] OTHER                                   -> Done(t)

Update(t) ==
  /\ task[t].pc = "update"
  /\ status' = [status EXCEPT ![task[t].on] = task[t].to]
  /\ idle' = [idle EXCEPT ![task[t].on] = FALSE]
  /\ Continue(t)
  /\ UNCHANGED <<cid, owner, expired, dockerVars, sweepVars, known, tenant>>

-----------------------------------------------------------------------------
(* SessionService.create, which takes no lock *)

Live(tn) == {s \in Sessions : status[s] \in Statuses \ Terminal /\ owner[s] = tn}

\* Mutant of CountConcurrent: the volume before the row.
CountThenVolume(t) ==
  /\ task[t].pc = "count"
  /\ Goto(t, "mk_volume")
  /\ UNCHANGED <<rowVars, clockVars, dockerVars, sweepVars, known, tenant>>

CountConcurrent(t) ==
  /\ task[t].pc = "count"
  /\ \/ /\ Cardinality(Live(task[t].tn)) < MaxConcurrent
        /\ Goto(t, "insert")
     \/ /\ Cardinality(Live(task[t].tn)) >= MaxConcurrent
        /\ Done(t)
  /\ UNCHANGED <<rowVars, clockVars, dockerVars, sweepVars, known, tenant>>

Insert(t) ==
  LET s == task[t].on IN
  /\ task[t].pc = "insert"
  /\ status' = [status EXCEPT ![s] = "CREATING"]
  /\ owner' = [owner EXCEPT ![s] = task[t].tn]
  /\ Goto(t, "mk_volume")
  /\ UNCHANGED <<cid, clockVars, dockerVars, sweepVars, known, tenant>>

\* The volume, then the operator's quota hook, which may raise as well.
CreateVolume(t) ==
  LET made == [volume EXCEPT ![task[t].on] = TRUE] IN
  /\ task[t].pc = "mk_volume"
  /\ \/ volume' = made /\ Goto(t, "mk_container")
     \/ DockerFails /\ volume' \in {volume, made} /\ Raise(t)
  /\ UNCHANGED <<rowVars, clockVars, container, sweepVars, known, tenant>>

\* Mutant of CreateContainer: the container's id is not recorded.
CreateContainerUnrecorded(t) ==
  /\ task[t].pc = "mk_container"
  /\ container' = [container EXCEPT ![task[t].on] = "stopped"]
  /\ Goto(t, "start")
  /\ UNCHANGED <<rowVars, clockVars, volume, sweepVars, known, tenant>>

\* Docker creates a named volume that a new container mounts and that is missing.
CreateContainer(t) ==
  LET s == task[t].on IN
  /\ task[t].pc = "mk_container"
  /\ \/ /\ container' = [container EXCEPT ![s] = "stopped"]
        /\ volume' = [volume EXCEPT ![s] = TRUE]
        /\ Goto(t, "set_container")
     \/ /\ DockerFails
        /\ \/ UNCHANGED dockerVars
           \/ /\ container' = [container EXCEPT ![s] = "stopped"]
              /\ volume' = [volume EXCEPT ![s] = TRUE]
        /\ Raise(t)
  /\ UNCHANGED <<rowVars, clockVars, sweepVars, known, tenant>>

SetContainer(t) ==
  /\ task[t].pc = "set_container"
  /\ cid' = [cid EXCEPT ![task[t].on] = TRUE]
  /\ task' = [task EXCEPT ![t] = [@ EXCEPT !.pc = "start", !.cid = TRUE]]
  /\ UNCHANGED <<status, owner, clockVars, dockerVars, lock, sweepVars, known,
                 tenant>>

\* The rollback of a failed create: it removes the volume, not the container,
\* and a volume that a container mounts cannot be removed.
Rollback(t) ==
  LET s == task[t].on
      gone == [volume EXCEPT ![s] = FALSE]
      in_use == volume[s] /\ container[s] # "none"
  IN
  /\ task[t].pc = "rollback"
  /\ \/ ~in_use /\ volume' = gone /\ Aim(t, "DESTROYING")
     \/ in_use /\ UNCHANGED volume /\ Done(t)
     \/ DockerFails /\ volume' \in {volume, IF in_use THEN volume ELSE gone} /\ Done(t)
  /\ UNCHANGED <<rowVars, clockVars, container, sweepVars, known, tenant>>

\* create reads its row back: the assertion fails if it is DESTROYED by now.
CreateGet(t) ==
  LET s == task[t].on IN
  /\ task[t].pc = "get"
  /\ known' = IF Visible(s, task[t].tn) THEN known \cup {s} ELSE known
  /\ Done(t)
  /\ UNCHANGED <<rowVars, clockVars, dockerVars, sweepVars, tenant>>

-----------------------------------------------------------------------------
(* The operations under the session's lock *)

\* Mutant of Acquire: the lock is not waited for.
AcquireAtOnce(t) ==
  /\ task[t].pc = "lock"
  /\ lock' = [lock EXCEPT ![task[t].on] = t]
  /\ task' = [task EXCEPT ![t] = [@ EXCEPT !.pc = "read"]]
  /\ UNCHANGED <<rowVars, clockVars, dockerVars, sweepVars, known, tenant>>

Acquire(t) ==
  LET s == task[t].on IN
  /\ task[t].pc = "lock"
  /\ lock[s] = None
  /\ lock' = [lock EXCEPT ![s] = t]
  /\ task' = [task EXCEPT ![t] = [@ EXCEPT !.pc = "read"]]
  /\ UNCHANGED <<rowVars, clockVars, dockerVars, sweepVars, known, tenant>>

\* The row as the operation reads it under the lock lets it proceed.
Admits(t) ==
  LET s == task[t].on IN
  CASE task[t].op = "stop"         -> Visible(s, task[t].tn) /\ status[s] \in Active
    [] task[t].op = "resume"       -> Visible(s, task[t].tn) /\ status[s] \in {"STOPPED", "IDLE"}
    [] task[t].op = "destroy"      -> Visible(s, task[t].tn)
    [] task[t].op = "reap_stop"    -> status[s] \in Active
    [] task[t].op = "reap_destroy" -> status[s] \notin Terminal
    [] OTHER                       -> FALSE

Read(t) ==
  LET s == task[t].on  op == task[t].op IN
  /\ task[t].pc = "read"
  /\ \/ /\ Admits(t)
        /\ op \in {"stop", "reap_stop"} /\ cid[s]
        /\ task' = [task EXCEPT ![t] = [@ EXCEPT !.pc = "stop", !.cid = cid[s]]]
        /\ UNCHANGED lock
     \/ /\ Admits(t)
        /\ op = "resume" /\ cid[s]
        /\ task' = [task EXCEPT ![t] = [@ EXCEPT !.pc = "start", !.cid = cid[s]]]
        /\ UNCHANGED lock
     \/ /\ Admits(t)
        /\ op \in {"destroy", "reap_destroy"}
        /\ task' = [task EXCEPT ![t] = [@ EXCEPT !.pc = "select", !.to = "DESTROYING",
                                                !.cid = cid[s]]]
        /\ UNCHANGED lock
     \/ \* not admitted, or "assert row.container_id is not None" fails
        /\ ~Admits(t) \/ (op \in {"stop", "reap_stop", "resume"} /\ ~cid[s])
        /\ Done(t)
  /\ UNCHANGED <<rowVars, clockVars, dockerVars, sweepVars, known, tenant>>

StopContainer(t) ==
  LET s == task[t].on
      stopped == IF container[s] = "none" THEN container
                                          ELSE [container EXCEPT ![s] = "stopped"]
  IN
  /\ task[t].pc = "stop"
  /\ \/ container' = stopped /\ Aim(t, "STOPPED")
     \/ DockerFails /\ container' \in {container, stopped} /\ Raise(t)
  /\ UNCHANGED <<rowVars, clockVars, volume, sweepVars, known, tenant>>

\* Also the start of create and of the transparent resume.
StartContainer(t) ==
  LET s == task[t].on
      started == [container EXCEPT ![s] = "running"]
  IN
  /\ task[t].pc = "start"
  /\ \/ container[s] # "none" /\ container' = started /\ Aim(t, "RUNNING")
     \/ container[s] = "none" /\ UNCHANGED container /\ Raise(t)
     \/ /\ DockerFails
        /\ container' \in {container, IF container[s] = "none" THEN container ELSE started}
        /\ Raise(t)
  /\ UNCHANGED <<rowVars, clockVars, volume, sweepVars, known, tenant>>

RemoveContainer(t) ==
  LET gone == [container EXCEPT ![task[t].on] = "none"] IN
  /\ task[t].pc = "rm_container"
  /\ \/ container' = gone /\ Goto(t, "rm_volume")
     \/ DockerFails /\ container' \in {container, gone} /\ Raise(t)
  /\ UNCHANGED <<rowVars, clockVars, volume, sweepVars, known, tenant>>

\* The quota teardown hook, then the volume.
RemoveVolume(t) ==
  LET s == task[t].on
      gone == [volume EXCEPT ![s] = FALSE]
      in_use == volume[s] /\ container[s] # "none"
  IN
  /\ task[t].pc = "rm_volume"
  /\ \/ ~in_use /\ volume' = gone /\ Aim(t, "DESTROYED")
     \/ in_use /\ UNCHANGED volume /\ Raise(t)
     \/ DockerFails /\ volume' \in {volume, IF in_use THEN volume ELSE gone} /\ Raise(t)
  /\ UNCHANGED <<rowVars, clockVars, container, sweepVars, known, tenant>>

-----------------------------------------------------------------------------
(* exec, exec/stream and the file operations, which take no lock *)

\* run bumps the activity when the command has ended, run_stream before it.
Command(op) == IF op = "stream" THEN "touch" ELSE "exec"

Look(t) ==
  LET s == task[t].on IN
  /\ task[t].pc = "look"
  /\ \/ /\ Visible(s, task[t].tn) /\ status[s] = "RUNNING" /\ cid[s]
        /\ Goto(t, Command(task[t].op))
     \/ /\ Visible(s, task[t].tn) /\ status[s] \in {"STOPPED", "IDLE"} /\ cid[s]
        /\ Goto(t, "start")
     \/ /\ \/ ~Visible(s, task[t].tn)
           \/ status[s] \notin {"RUNNING", "STOPPED", "IDLE"}
           \/ ~cid[s]
        /\ Done(t)
  /\ UNCHANGED <<rowVars, clockVars, dockerVars, sweepVars, known, tenant>>

\* The resumed row is read again and its status is not.
Relook(t) ==
  /\ task[t].pc = "relook"
  /\ IF Visible(task[t].on, task[t].tn) THEN Goto(t, Command(task[t].op)) ELSE Done(t)
  /\ UNCHANGED <<rowVars, clockVars, dockerVars, sweepVars, known, tenant>>

\* Docker runs a command in a running container only; it copies files in and
\* out of any container.
ExecStart(t) ==
  LET c == container[task[t].on] IN
  /\ task[t].pc = "exec"
  /\ IF c = "running" \/ (task[t].op = "file" /\ c # "none")
       THEN Goto(t, "executing") ELSE Done(t)
  /\ UNCHANGED <<rowVars, clockVars, dockerVars, sweepVars, known, tenant>>

\* The command ends: by itself, by its timeout, or because its container went
\* away.  Of the file operations, list_dir and those that fail bump nothing.
ExecEnd(t) ==
  /\ task[t].pc = "executing"
  /\ \/ /\ task[t].op # "stream" /\ container[task[t].on] # "none"
        /\ Goto(t, "touch")
     \/ /\ task[t].op \in {"stream", "file"} \/ container[task[t].on] = "none"
        /\ Done(t)
  /\ UNCHANGED <<rowVars, clockVars, dockerVars, sweepVars, known, tenant>>

TouchActivity(t) ==
  LET s == task[t].on IN
  /\ task[t].pc = "touch"
  /\ idle' = IF status[s] \in Active THEN [idle EXCEPT ![s] = FALSE] ELSE idle
  /\ IF task[t].op = "stream" THEN Goto(t, "exec") ELSE Done(t)
  /\ UNCHANGED <<rowVars, expired, dockerVars, sweepVars, known, tenant>>

-----------------------------------------------------------------------------
(* The lifespan: Reaper.tick *)

\* A sweep calls an operation of SessionService on one of its rows.
Call(t, op, pc, s) ==
  task' = [task EXCEPT ![t] = NewTask(op, pc, s, None, (op = "finish") /\ cid[s])]

Sweep(phase, todo) == daemon' = [phase |-> phase, todo |-> todo]

DaemonAt(phase) == daemon.phase = phase /\ IdleTask(Daemon)

ReaperTick ==
  /\ DaemonAt("sleep")
  /\ Sweep("idle", {s \in Sessions : status[s] \in Active /\ idle[s]})
  /\ UNCHANGED <<rowVars, clockVars, dockerVars, lock, task, deleter, known, tenant>>

\* A session with running background processes is passed over.
ReapIdle(s) ==
  /\ DaemonAt("idle")
  /\ s \in daemon.todo
  /\ Sweep("idle", daemon.todo \ {s})
  /\ \/ Call(Daemon, "reap_stop", "lock", s)
     \/ UNCHANGED task
  /\ UNCHANGED <<rowVars, clockVars, dockerVars, lock, deleter, known, tenant>>

\* Mutant of ReaperListExpired: the sweep looks at active rows only.
ReaperListActive ==
  /\ DaemonAt("idle")
  /\ daemon.todo = {}
  /\ Sweep("expired", {s \in Sessions : status[s] \in Active /\ expired[s]})
  /\ UNCHANGED <<rowVars, clockVars, dockerVars, lock, task, deleter, known, tenant>>

ReaperListExpired ==
  /\ DaemonAt("idle")
  /\ daemon.todo = {}
  /\ Sweep("expired", {s \in Sessions : status[s] \in Statuses \ Terminal /\ expired[s]})
  /\ UNCHANGED <<rowVars, clockVars, dockerVars, lock, task, deleter, known, tenant>>

ReapExpired(s) ==
  /\ DaemonAt("expired")
  /\ s \in daemon.todo
  /\ Sweep("expired", daemon.todo \ {s})
  /\ Call(Daemon, "reap_destroy", "lock", s)
  /\ UNCHANGED <<rowVars, clockVars, dockerVars, lock, deleter, known, tenant>>

ReaperSleep ==
  /\ DaemonAt("expired")
  /\ daemon.todo = {}
  /\ Sweep("sleep", {})
  /\ UNCHANGED <<rowVars, clockVars, dockerVars, lock, task, deleter, known, tenant>>

-----------------------------------------------------------------------------
(* delete_tenant: revoke the tokens, list the rows, destroy them one by one *)

Purge(phase, tn, todo) == deleter' = [phase |-> phase, tn |-> tn, todo |-> todo]

RevokeTenant(tn) ==
  /\ serving
  /\ "delete_tenant" \in Ops
  /\ deleter.phase = "sleep"
  /\ tenant[tn] # "deleted"
  /\ tenant' = [tenant EXCEPT ![tn] = "revoked"]
  /\ Purge("list", tn, {})
  /\ UNCHANGED <<rowVars, clockVars, dockerVars, lock, task, daemon, known>>

PurgeList ==
  /\ deleter.phase = "list"
  /\ Purge("purge", deleter.tn, Live(deleter.tn))
  /\ UNCHANGED <<rowVars, clockVars, dockerVars, lock, task, daemon, known, tenant>>

PurgeSession(s) ==
  /\ deleter.phase = "purge"
  /\ IdleTask(Deleter)
  /\ s \in deleter.todo
  /\ Purge("purge", deleter.tn, deleter.todo \ {s})
  /\ Call(Deleter, "reap_destroy", "lock", s)
  /\ UNCHANGED <<rowVars, clockVars, dockerVars, lock, daemon, known, tenant>>

PurgeEnd ==
  /\ deleter.phase = "purge"
  /\ IdleTask(Deleter)
  /\ deleter.todo = {}
  /\ Purge("sleep", None, {})
  /\ tenant' = [tenant EXCEPT ![deleter.tn] = "deleted"]
  /\ UNCHANGED <<rowVars, clockVars, dockerVars, lock, task, daemon, known>>

-----------------------------------------------------------------------------
(* The control plane crashes and starts again: lifespan, reconcile_on_startup *)

Crash ==
  /\ CanCrash
  /\ daemon.phase # "down"
  /\ Sweep("down", {})
  /\ Purge("sleep", None, {})
  /\ task' = [t \in Tasks |-> NoTask]
  /\ lock' = [s \in Sessions |-> None]
  /\ UNCHANGED <<rowVars, clockVars, dockerVars, known, tenant>>

\* A reboot of the host or an operator: containers do not restart by themselves.
LoseContainer(s) ==
  /\ daemon.phase = "down"
  /\ container[s] # "none"
  /\ container' \in {[container EXCEPT ![s] = "stopped"], [container EXCEPT ![s] = "none"]}
  /\ UNCHANGED <<rowVars, clockVars, volume, lock, task, sweepVars, known, tenant>>

\* docker.health() is false: no reconciliation until the next start.
StartUnhealthy ==
  /\ daemon.phase = "down"
  /\ Sweep("sleep", {})
  /\ UNCHANGED <<rowVars, clockVars, dockerVars, lock, task, deleter, known, tenant>>

StartReconcile ==
  /\ daemon.phase = "down"
  /\ Sweep("finish", {s \in Sessions : status[s] = "DESTROYING"})
  /\ UNCHANGED <<rowVars, clockVars, dockerVars, lock, task, deleter, known, tenant>>

FinishDestroy(s) ==
  /\ DaemonAt("finish")
  /\ s \in daemon.todo
  /\ Sweep("finish", daemon.todo \ {s})
  /\ Call(Daemon, "finish", IF cid[s] THEN "rm_container" ELSE "rm_volume", s)
  /\ UNCHANGED <<rowVars, clockVars, dockerVars, lock, deleter, known, tenant>>

ReconcileListRows ==
  /\ DaemonAt("finish")
  /\ daemon.todo = {}
  /\ Sweep("orphans", {s \in Sessions : status[s] \in Statuses \ Terminal})
  /\ UNCHANGED <<rowVars, clockVars, dockerVars, lock, task, deleter, known, tenant>>

\* Mutant of MarkOrphan: Docker is not asked for the container.
MarkOrphanByRow(s) ==
  /\ DaemonAt("orphans")
  /\ s \in daemon.todo
  /\ Sweep("orphans", daemon.todo \ {s})
  /\ status' = IF cid[s] THEN status ELSE [status EXCEPT ![s] = "STOPPED"]
  /\ UNCHANGED <<cid, owner, clockVars, dockerVars, lock, task, deleter, known, tenant>>

\* A Docker error counts as "the container is there".
MarkOrphan(s) ==
  /\ DaemonAt("orphans")
  /\ s \in daemon.todo
  /\ Sweep("orphans", daemon.todo \ {s})
  /\ \/ /\ status[s] \notin Terminal \cup {"STOPPED"}
        /\ ~cid[s] \/ container[s] = "none"
        /\ status' = [status EXCEPT ![s] = "STOPPED"]
        /\ idle' = [idle EXCEPT ![s] = FALSE]
     \/ /\ \/ status[s] \in Terminal \cup {"STOPPED"}
           \/ cid[s] /\ (container[s] # "none" \/ DockerFails)
        /\ UNCHANGED <<status, idle>>
  /\ UNCHANGED <<cid, owner, expired, dockerVars, lock, task, deleter, known, tenant>>

StartServing ==
  /\ DaemonAt("orphans")
  /\ daemon.todo = {}
  /\ Sweep("sleep", {})
  /\ UNCHANGED <<rowVars, clockVars, dockerVars, lock, task, deleter, known, tenant>>

-----------------------------------------------------------------------------
(* Time.  A TTL of hours outlives the Docker calls of one create. *)

GrowIdle(s) ==
  /\ status[s] \in Active
  /\ ~idle[s]
  /\ idle' = [idle EXCEPT ![s] = TRUE]
  /\ UNCHANGED <<rowVars, expired, dockerVars, lock, task, sweepVars, known, tenant>>

Expire(s) ==
  /\ status[s] \in Statuses \ Terminal
  /\ ~expired[s]
  /\ \A t \in Tasks : ~(task[t].op = "create" /\ task[t].on = s)
  /\ expired' = [expired EXCEPT ![s] = TRUE]
  /\ UNCHANGED <<rowVars, idle, dockerVars, lock, task, sweepVars, known, tenant>>

-----------------------------------------------------------------------------

Init ==
  /\ status    = [s \in Sessions |-> "absent"]
  /\ cid       = [s \in Sessions |-> FALSE]
  /\ owner     = [s \in Sessions |-> None]
  /\ idle      = [s \in Sessions |-> FALSE]
  /\ expired   = [s \in Sessions |-> FALSE]
  /\ volume    = [s \in Sessions |-> FALSE]
  /\ container = [s \in Sessions |-> "none"]
  /\ lock      = [s \in Sessions |-> None]
  /\ task      = [t \in Tasks |-> NoTask]
  /\ daemon    = [phase |-> "sleep", todo |-> {}]
  /\ deleter   = [phase |-> "sleep", tn |-> None, todo |-> {}]
  /\ known     = {}
  /\ tenant    = [tn \in Tenants |-> "active"]

Arrive(t) ==
  \E s \in Sessions, tn \in Tenants :
    \/ BeginCreate(t, s, tn)
    \/ \E op \in {"stop", "resume", "destroy"} : BeginLifecycle(t, op, s, tn)
    \/ \E op \in UseOps : BeginUse(t, op, s, tn)

\* Every step of a task but the wait for a lock.
Step(t) ==
  \/ Select(t) \/ Update(t)
  \/ CountConcurrent(t) \/ Insert(t) \/ CreateVolume(t) \/ CreateContainer(t)
  \/ SetContainer(t) \/ Rollback(t) \/ CreateGet(t)
  \/ Read(t) \/ StopContainer(t) \/ StartContainer(t) \/ RemoveContainer(t)
  \/ RemoveVolume(t)
  \/ Look(t) \/ Relook(t) \/ ExecStart(t) \/ ExecEnd(t) \/ TouchActivity(t)

Reaping ==
  \/ ReaperTick \/ ReaperListExpired \/ ReaperSleep
  \/ \E s \in Sessions : ReapIdle(s) \/ ReapExpired(s)

Purging ==
  \/ PurgeList \/ PurgeEnd
  \/ \E s \in Sessions : PurgeSession(s)

Starting ==
  \/ StartUnhealthy \/ StartReconcile \/ ReconcileListRows \/ StartServing
  \/ \E s \in Sessions : FinishDestroy(s) \/ MarkOrphan(s)

Next ==
  \/ \E t \in Requests : Arrive(t)
  \/ \E t \in Tasks : Acquire(t) \/ Step(t)
  \/ Reaping
  \/ \E tn \in Tenants : RevokeTenant(tn)
  \/ Purging
  \/ Starting
  \/ Crash
  \/ \E s \in Sessions : GrowIdle(s) \/ Expire(s) \/ LoseContainer(s)

Spec == Init /\ [][Next]_vars

\* The event loop runs every ready coroutine, Docker calls return or time
\* out, asyncio.Lock wakes its waiters in order, and time passes.
Fairness ==
  /\ \A t \in Tasks : WF_vars(Step(t)) /\ SF_vars(Acquire(t))
  /\ WF_vars(Reaping) /\ WF_vars(Purging) /\ WF_vars(Starting)
  /\ \A s \in Sessions : WF_vars(Expire(s))

FairSpec == Spec /\ Fairness


-----------------------------------------------------------------------------
(* Properties *)

\* Every status that any path writes is one of the registry's, and every task
\* is at a step of its operation.
TypeOK ==
  /\ status    \in [Sessions -> Statuses \cup {"absent"}]
  /\ cid       \in [Sessions -> BOOLEAN]
  /\ owner     \in [Sessions -> Tenants \cup {None}]
  /\ idle      \in [Sessions -> BOOLEAN]
  /\ expired   \in [Sessions -> BOOLEAN]
  /\ volume    \in [Sessions -> BOOLEAN]
  /\ container \in [Sessions -> {"none", "stopped", "running"}]
  /\ lock      \in [Sessions -> Tasks \cup {None}]
  /\ task      \in [Tasks -> TaskRecord]
  /\ daemon    \in [phase : {"down", "finish", "orphans", "sleep", "idle", "expired"},
                     todo : SUBSET Sessions]
  /\ deleter   \in [phase : {"sleep", "list", "purge"}, tn : Tenants \cup {None},
                     todo : SUBSET Sessions]
  /\ known     \subseteq Sessions
  /\ tenant    \in [Tenants -> {"active", "revoked", "deleted"}]

\* A task that has work to do has a session to do it on.
WorksOnSession == \A t \in Tasks : task[t].pc # "idle" => task[t].on \in Sessions

CriticalSection(t) == task[t].op \in LockedOps /\ task[t].pc \notin {"idle", "lock"}

\* A session's lock is held by exactly the task that is inside stop, resume,
\* destroy or a reap of that session, and by nobody when there is none: no two
\* of them interleave, and no path out of one keeps the lock.
LockDiscipline ==
  \A s \in Sessions, t \in Tasks :
    lock[s] = t <=> CriticalSection(t) /\ task[t].on = s

\* The assertions "container_id is not None" of stop, reap_stop and exec never
\* fail on a RUNNING or IDLE row, whatever crashed or raced before.
RunningHasContainerId ==
  \A s \in Sessions : status[s] \in Active => cid[s]

\* Docker never holds a volume or a container of a session without a row,
\* which is what the orphan reaper takes for an orphan.
ObjectsHaveRows ==
  \A s \in Sessions : volume[s] \/ container[s] # "none" => status[s] # "absent"

\* A session that is DESTROYED, and whose container_id the registry knew, has
\* no container and no volume.
DestroyedIsClean ==
  \A s \in Sessions :
    status[s] = "DESTROYED" /\ cid[s] => container[s] = "none" /\ ~volume[s]

\* A request past its look-up works on a session of its own tenant.
TenantIsolation ==
  \A t \in Requests :
    task[t].pc \notin {"idle", "count", "insert", "lock", "read", "look"}
      => owner[task[t].on] = task[t].tn

\* The tenant's cap on concurrent sessions is overshot by no more than the
\* requests that passed the check together with the one that took the last slot.
OvershootBounded ==
  \A tn \in Tenants :
    Cardinality(Live(tn))
      + Cardinality({t \in Requests : task[t].pc = "insert" /\ task[t].tn = tn})
      <= MaxConcurrent + Cardinality(Requests) - 1

Row == INSTANCE SessionRow WITH status <- status, serving <- serving, Sessions <- Sessions

\* The rows move as the registry promises (SessionRow): along TRANSITIONS, and
\* never out of DESTROYED.
ImplementsSessionRow == Row!Spec

\* When reconciliation has gone through all rows, no row is RUNNING, IDLE or
\* CREATING without a container that Docker still has, and no destroy of a
\* container that the registry knew is left unfinished.
ReconcileHeals ==
  [][daemon.phase = "orphans" /\ daemon'.phase = "sleep" =>
       \A s \in Sessions :
         /\ status[s] \in {"CREATING", "RUNNING", "IDLE"} => cid[s] /\ container[s] # "none"
         /\ status[s] = "DESTROYING" => ~cid[s]]_vars

\* Destroying a session is irreversible: its row stays DESTROYED.
DestroyedIsFinal ==
  [][\A s \in Sessions : status[s] = "DESTROYED" => status'[s] = "DESTROYED"]_vars

\* A session past its TTL ends DESTROYED for good.
ExpiredIsDestroyed ==
  \A s \in Sessions : expired[s] ~> [](status[s] = "DESTROYED")

\* Every request is answered: no lock is waited for in vain.
RequestsFinish ==
  \A t \in Requests : task[t].pc # "idle" ~> task[t].pc = "idle"

=============================================================================
