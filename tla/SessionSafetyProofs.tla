------------------------- MODULE SessionSafetyProofs -------------------------
(***************************************************************************)
(* The safety invariants of SessionLifecycle, for any sets of sessions,    *)
(* tenants and requests: the discipline of the session locks, what a row   *)
(* says about the Docker objects of its session, which tenant a request    *)
(* works for, what reconciliation leaves, how rows move (SessionRow), how  *)
(* far the cap is overshot, and what a destroyed session leaves behind.    *)
(***************************************************************************)
EXTENDS SessionLifecycleProofs, FiniteSetTheorems

(***************************************************************************)
(* What one step of a task may do to the task itself: it ends, or it goes  *)
(* on with the same operation on the same session for the same tenant.     *)
(* The other conjuncts say where the steps that write to the row or to     *)
(* Docker come from, and what the steps that look a row up have seen.      *)
(***************************************************************************)
Looks == {"insert", "read", "look"}

ReapOps == {"reap_stop", "reap_destroy"}

Moves(t, r) ==
  /\ task' = [task EXCEPT ![t] = r]
  /\ lock' = lock
  /\ r \in TaskRecord
  /\ r.op = task[t].op
  /\ r.on = task[t].on
  /\ r.tn = task[t].tn
  /\ r.pc \notin {"idle", "lock", "count"}
  /\ r.pc = "insert" <=> task[t].pc = "count"
  /\ r.pc = "select" => r.to \in Statuses /\ (r.to \in Active => task[t].pc = "start")
  /\ r.pc = "update" => task[t].pc = "select" /\ r.to = task[t].to
  /\ r.pc = "start" => cid'[task[t].on]
  /\ task[t].pc \in Looks /\ task[t].op \notin ReapOps => owner'[task[t].on] = task[t].tn

Proceeds(t) == Done(t) \/ \E r : Moves(t, r)

\* Going on to another step is a move.
LEMMA GotoMoves ==
  ASSUME TypeOK, NEW t \in Tasks, NEW pc \in PCs, Goto(t, pc),
         pc \notin {"idle", "lock", "count", "select"},
         pc = "insert" <=> task[t].pc = "count",
         pc = "update" => task[t].pc = "select",
         pc = "start" => cid'[task[t].on],
         task[t].pc \in Looks /\ task[t].op \notin ReapOps
           => owner'[task[t].on] = task[t].tn
  PROVE  Proceeds(t)
  <1> DEFINE r == [task[t] EXCEPT !.pc = pc]
  <1>1. /\ r \in TaskRecord /\ r.op = task[t].op /\ r.on = task[t].on /\ r.pc = pc
        /\ r.to = task[t].to /\ r.tn = task[t].tn
    BY DEF TypeOK, TaskRecord
  <1>2. task' = [task EXCEPT ![t] = r] /\ lock' = lock
    BY DEF Goto
  <1> HIDE DEF r
  <1>3. Moves(t, r)
    BY <1>1, <1>2 DEF Moves
  <1>4. QED
    BY <1>3 DEF Proceeds

\* So is the call of Registry.transition.
LEMMA AimMoves ==
  ASSUME TypeOK, NEW t \in Tasks, NEW to \in Statuses, Aim(t, to),
         to \in Active => task[t].pc = "start",
         task[t].pc \notin Looks \cup {"count"}
  PROVE  Proceeds(t)
  <1> DEFINE r == [task[t] EXCEPT !.pc = "select", !.to = to]
  <1>1. /\ r \in TaskRecord /\ r.op = task[t].op /\ r.on = task[t].on
        /\ r.pc = "select" /\ r.to = to /\ r.tn = task[t].tn
    <2>1. task[t] \in TaskRecord /\ "select" \in PCs
      BY DEF TypeOK, PCs
    <2>2. QED
      BY <2>1 DEF TaskRecord
  <1>2. task' = [task EXCEPT ![t] = r] /\ lock' = lock
    BY DEF Aim
  <1> HIDE DEF r
  <1>3. Moves(t, r)
    BY <1>1, <1>2 DEF Moves
  <1>4. QED
    BY <1>3 DEF Proceeds

\* So is what a task does when a Docker call raises.
LEMMA RaiseMoves ==
  ASSUME TypeOK, NEW t \in Tasks, Raise(t), task[t].pc \notin Looks \cup {"count"}
  PROVE  Proceeds(t)
  <1>1. "rollback" \in PCs /\ "DESTROYED" \in Statuses /\ "DESTROYED" \notin Active
    BY DEF PCs, Statuses, Active
  <1>2. CASE task[t].op = "create"
    BY <1>1, <1>2, GotoMoves DEF Raise
  <1>3. CASE task[t].op \in {"destroy", "reap_destroy"}
    BY <1>1, <1>3, AimMoves DEF Raise
  <1>4. CASE task[t].op \notin {"create", "destroy", "reap_destroy"}
    BY <1>4 DEF Raise, Proceeds
  <1>5. QED
    BY <1>2, <1>3, <1>4

\* Every step of a task is the end of it or a move.
LEMMA StepProceeds ==
  ASSUME TypeOK, WorksOnSession, NEW t \in Tasks, Step(t)
  PROVE  Proceeds(t)
  <1>t. task[t] \in TaskRecord /\ task[t].on \in Sessions /\ cid \in [Sessions -> BOOLEAN]
    BY DEF TypeOK, TaskRecord, WorksOnSession, Step, Select, Update, CountConcurrent,
           Insert, CreateVolume, CreateContainer, SetContainer, Rollback, CreateGet,
           Read, StopContainer, StartContainer, RemoveContainer, RemoveVolume,
           Look, Relook, ExecStart, ExecEnd, TouchActivity
  <1>p. PCs = {"idle", "count", "insert", "mk_volume", "mk_container", "set_container",
               "start", "rollback", "get", "lock", "read", "stop", "rm_container",
               "rm_volume", "look", "relook", "exec", "executing", "touch",
               "select", "update"}
    BY DEF PCs
  <1>s. /\ {"RUNNING", "STOPPED", "DESTROYING", "DESTROYED"} \subseteq Statuses
        /\ {"STOPPED", "DESTROYING", "DESTROYED"} \cap Active = {}
    BY DEF Statuses, Active
  <1>k. Looks = {"insert", "read", "look"} /\ ReapOps = {"reap_stop", "reap_destroy"}
    BY DEF Looks, ReapOps
  <1>d. Done(t) => Proceeds(t)
    BY DEF Proceeds
  <1>1. CASE Select(t)
    <2>1. \/ Goto(t, "update") /\ task[t].pc = "select"
          \/ Goto(t, "rollback") /\ task[t].pc = "select"
          \/ Done(t)
      BY <1>1 DEF Select
    <2>2. QED
      BY <2>1, <1>p, <1>k, <1>d, GotoMoves
  <1>2. CASE Update(t)
    <2>1. \/ \E pc \in {"get", "relook", "rm_container", "rm_volume"} : Goto(t, pc)
          \/ Aim(t, "DESTROYED") \/ Done(t)
      BY <1>2 DEF Update, Continue
    <2>2. task[t].pc = "update"
      BY <1>2 DEF Update
    <2>3. QED
      BY <2>1, <2>2, <1>p, <1>k, <1>s, <1>d, GotoMoves, AimMoves
  <1>3. CASE CountConcurrent(t)
    BY <1>3, <1>p, <1>k, <1>d, GotoMoves DEF CountConcurrent
  <1>4. CASE Insert(t)
    <2>1. owner'[task[t].on] = task[t].tn
      BY <1>4, <1>t DEF Insert, TypeOK
    <2>2. QED
      BY <2>1, <1>4, <1>p, <1>k, GotoMoves DEF Insert
  <1>5. CASE CreateVolume(t)
    BY <1>5, <1>p, <1>k, GotoMoves, RaiseMoves DEF CreateVolume
  <1>6. CASE CreateContainer(t)
    BY <1>6, <1>p, <1>k, GotoMoves, RaiseMoves DEF CreateContainer
  <1>7. CASE SetContainer(t)
    <2> DEFINE r == [task[t] EXCEPT !.pc = "start", !.cid = TRUE]
    <2>1. /\ r \in TaskRecord /\ r.op = task[t].op /\ r.on = task[t].on
          /\ r.tn = task[t].tn /\ r.pc = "start"
      BY <1>t, <1>p DEF TaskRecord
    <2>2. task' = [task EXCEPT ![t] = r] /\ lock' = lock
      BY <1>7 DEF SetContainer
    <2>3. cid'[task[t].on]
      BY <1>7, <1>t DEF SetContainer
    <2>4. task[t].pc = "set_container"
      BY <1>7 DEF SetContainer
    <2> HIDE DEF r
    <2>5. QED
      BY <2>1, <2>2, <2>3, <2>4, <1>k DEF Moves, Proceeds
  <1>8. CASE Rollback(t)
    BY <1>8, <1>s, <1>k, <1>d, AimMoves DEF Rollback
  <1>9. CASE CreateGet(t)
    BY <1>9, <1>d DEF CreateGet
  <1>10. CASE Read(t)
    <2> DEFINE c == cid[task[t].on]
    <2>1. CASE Done(t)
      BY <2>1, <1>d
    <2>2. CASE ~Done(t)
      <3>1. c \in BOOLEAN
        BY <1>t
      <3>2. PICK r : /\ \/ r = [task[t] EXCEPT !.pc = "stop", !.cid = c]
                        \/ r = [task[t] EXCEPT !.pc = "start", !.cid = c] /\ c
                        \/ r = [task[t] EXCEPT !.pc = "select", !.to = "DESTROYING", !.cid = c]
                     /\ task' = [task EXCEPT ![t] = r]
                     /\ lock' = lock
        BY <1>10, <2>2, <1>t DEF Read, TypeOK
      <3>3. /\ r \in TaskRecord /\ r.op = task[t].op /\ r.on = task[t].on
            /\ r.tn = task[t].tn
            /\ r.pc \in {"stop", "start", "select"}
            /\ r.pc = "start" => c
            /\ r.pc = "select" => r.to = "DESTROYING"
        BY <3>1, <3>2, <1>t, <1>p, <1>s DEF TaskRecord
      <3>4. cid' = cid /\ owner' = owner /\ task[t].pc = "read"
        BY <1>10 DEF Read, rowVars
      <3>5. Admits(t)
        BY <1>10, <2>2 DEF Read
      <3>6. task[t].op \notin ReapOps => owner[task[t].on] = task[t].tn
        BY <3>5, <1>k DEF Admits, Visible
      <3>7. Moves(t, r)
        BY <3>2, <3>3, <3>4, <3>6, <1>s DEF Moves
      <3>8. QED
        BY <3>7 DEF Proceeds
    <2>3. QED
      BY <2>1, <2>2
  <1>11. CASE StopContainer(t)
    BY <1>11, <1>s, <1>k, AimMoves, RaiseMoves DEF StopContainer
  <1>12. CASE StartContainer(t)
    BY <1>12, <1>s, <1>k, AimMoves, RaiseMoves DEF StartContainer
  <1>13. CASE RemoveContainer(t)
    BY <1>13, <1>p, <1>k, GotoMoves, RaiseMoves DEF RemoveContainer
  <1>14. CASE RemoveVolume(t)
    BY <1>14, <1>s, <1>k, AimMoves, RaiseMoves DEF RemoveVolume
  <1>15. CASE Look(t)
    <2>1. cid' = cid /\ owner' = owner /\ task[t].pc = "look"
      BY <1>15 DEF Look, rowVars
    <2>2. \/ Done(t)
          \/ /\ owner[task[t].on] = task[t].tn
             /\ \/ Goto(t, "touch") \/ Goto(t, "exec")
                \/ Goto(t, "start") /\ cid[task[t].on]
      BY <1>15 DEF Look, Command, Visible
    <2>3. QED
      BY <2>1, <2>2, <1>p, <1>d, GotoMoves
  <1>16. CASE Relook(t)
    BY <1>16, <1>p, <1>k, <1>d, GotoMoves DEF Relook, Command
  <1>17. CASE ExecStart(t)
    BY <1>17, <1>p, <1>k, <1>d, GotoMoves DEF ExecStart
  <1>18. CASE ExecEnd(t)
    BY <1>18, <1>p, <1>k, <1>d, GotoMoves DEF ExecEnd
  <1>19. CASE TouchActivity(t)
    BY <1>19, <1>p, <1>k, <1>d, GotoMoves DEF TouchActivity
  <1>20. QED
    BY <1>1, <1>2, <1>3, <1>4, <1>5, <1>6, <1>7, <1>8, <1>9, <1>10, <1>11, <1>12,
       <1>13, <1>14, <1>15, <1>16, <1>17, <1>18, <1>19 DEF Step

(***************************************************************************)
(* The inductive invariants.  LockDiscipline needs to know that whoever    *)
(* waits for a lock runs an operation that takes one.  A row can be        *)
(* RUNNING only through a transition that follows a start, so a task that  *)
(* has come that far knows that the container's id is recorded.  Docker    *)
(* objects have rows because every step but the first two of a create is   *)
(* on a session that has one, and rows do not go away.  A request stays    *)
(* within its tenant because the owner of a row is written once: a session *)
(* id that create has drawn and not inserted yet is nobody else's.         *)
(***************************************************************************)
LockInv ==
  /\ LockDiscipline
  /\ \A t \in Tasks : task[t].pc = "lock" => task[t].op \in LockedOps

RunningInv ==
  /\ RunningHasContainerId
  /\ \A t \in Tasks :
       \/ task[t].pc = "start"
       \/ task[t].pc \in {"select", "update"} /\ task[t].to \in Active
       => cid[task[t].on]

Fresh(t) == task[t].pc \in {"count", "insert"}

RowInv ==
  /\ \A t \in Tasks : task[t].pc # "idle" /\ ~Fresh(t) => status[task[t].on] # "absent"
  /\ \A t \in Tasks : task[t].pc \in {"select", "update"} => task[t].to \in Statuses
  /\ \A s \in known \cup daemon.todo \cup deleter.todo : status[s] # "absent"
  /\ ObjectsHaveRows

OwnerInv ==
  /\ \A t \in Tasks : Fresh(t) => /\ status[task[t].on] = "absent"
                                  /\ \A u \in Tasks \ {t} : task[u].on # task[t].on
  /\ \A t \in Requests : task[t].op \notin ReapOps
  /\ TenantIsolation

-----------------------------------------------------------------------------
(* The locks *)

\* A step of a task is not the step of an idle task or of one that waits.
LEMMA StepIsAwake ==
  ASSUME NEW t \in Tasks, Step(t)
  PROVE  task[t].pc \notin {"idle", "lock"}
  BY DEF Step, Select, Update, CountConcurrent, Insert, CreateVolume, CreateContainer,
         SetContainer, Rollback, CreateGet, Read, StopContainer, StartContainer,
         RemoveContainer, RemoveVolume, Look, Relook, ExecStart, ExecEnd, TouchActivity

\* An idle task that starts waits for a lock with an operation that takes one,
\* or runs an operation that takes none.
Starts(t, r) ==
  /\ t \in Tasks
  /\ IdleTask(t)
  /\ task' = [task EXCEPT ![t] = r]
  /\ lock' = lock
  /\ r \in TaskRecord
  /\ r.on \in Sessions
  /\ \/ r.pc = "lock" /\ r.op \in LockedOps
     \/ /\ r.pc \in {"count", "look", "rm_container", "rm_volume"}
        /\ r.op \in {"create", "finish"} \cup UseOps

\* A request names a session its client was told of, or one that is nobody's.
LEMMA ArriveStarts ==
  ASSUME TypeOK, NEW t \in Requests, Arrive(t)
  PROVE  \E r : /\ Starts(t, r)
                /\ r.op \notin ReapOps
                /\ r.pc \in {"count", "lock", "look"}
                /\ r.pc = "count" => /\ status[r.on] = "absent"
                                     /\ \A u \in Tasks : task[u].on # r.on
                /\ r.pc # "count" => r.on \in known
  <1>1. PICK s \in Sessions, tn \in Tenants, op \in TaskOps, pc \in PCs :
               /\ Begin(t, op, pc, s, tn)
               /\ \/ pc = "lock" /\ op \in {"stop", "resume", "destroy"} /\ s \in known
                  \/ pc = "look" /\ op \in UseOps /\ s \in known
                  \/ /\ pc = "count" /\ op = "create" /\ status[s] = "absent"
                     /\ \A u \in Tasks : task[u].on # s
    BY DEF Arrive, BeginCreate, BeginLifecycle, BeginUse, TaskOps, UseOps, LockedOps, PCs
  <1> DEFINE r == NewTask(op, pc, s, tn, FALSE)
  <1>2. r \in TaskRecord /\ r.on = s /\ r.op = op /\ r.pc = pc
    <2>1. r \in TaskRecord
      BY RecordTyped
    <2>2. QED
      BY <2>1 DEF NewTask
  <1>3. task' = [task EXCEPT ![t] = r] /\ lock' = lock /\ IdleTask(t)
    BY <1>1 DEF Begin
  <1> HIDE DEF r
  <1>4. Starts(t, r) /\ r.op \notin ReapOps
    BY <1>1, <1>2, <1>3 DEF Starts, UseOps, LockedOps, ReapOps, Tasks
  <1>5. QED
    BY <1>1, <1>2, <1>4

\* A sweep's call starts a task on the row it has listed.
LEMMA CallStarts ==
  ASSUME TypeOK, NEW t \in Tasks, NEW op, NEW pc, NEW s \in Sessions, Call(t, op, pc, s),
         IdleTask(t), UNCHANGED lock,
         \/ op \in ReapOps /\ pc = "lock"
         \/ op = "finish" /\ pc \in {"rm_container", "rm_volume"}
  PROVE  \E r : Starts(t, r) /\ r.on = s /\ r.pc # "count"
  <1> DEFINE r == NewTask(op, pc, s, None, (op = "finish") /\ cid[s])
  <1>1. op \in TaskOps /\ pc \in PCs
    BY DEF TaskOps, ReapOps, LockedOps, PCs
  <1>2. r \in TaskRecord /\ r.on = s /\ r.op = op /\ r.pc = pc
    <2>1. r \in TaskRecord
      BY <1>1, RecordTyped
    <2>2. QED
      BY <2>1 DEF NewTask
  <1>3. task' = [task EXCEPT ![t] = r] /\ lock' = lock
    BY DEF Call
  <1> HIDE DEF r
  <1>4. Starts(t, r) /\ r.on = s /\ r.pc # "count"
    BY <1>2, <1>3 DEF Starts, LockedOps, ReapOps
  <1>5. QED
    BY <1>4

\* The loops of the lifespan and of delete_tenant start at most one task, on a
\* row they have listed.
LEMMA SweepStarts ==
  ASSUME TypeOK,
         Reaping \/ Purging \/ Starting \/ \E tn \in Tenants : RevokeTenant(tn)
  PROVE  \/ UNCHANGED <<task, lock>>
         \/ \E t \in {Daemon, Deleter} : \E r :
              Starts(t, r) /\ r.on \in daemon.todo \cup deleter.todo /\ r.pc # "count"
  <1>t. Daemon \in Tasks /\ Deleter \in Tasks
    BY DEF Tasks
  <1>1. CASE \/ ReaperTick \/ ReaperListExpired \/ ReaperSleep \/ PurgeList \/ PurgeEnd
             \/ StartUnhealthy \/ StartReconcile \/ ReconcileListRows \/ StartServing
             \/ \E s \in Sessions : MarkOrphan(s)
             \/ \E tn \in Tenants : RevokeTenant(tn)
    BY <1>1 DEF ReaperTick, ReaperListExpired, ReaperSleep, PurgeList, PurgeEnd,
                StartUnhealthy, StartReconcile, ReconcileListRows, StartServing,
                MarkOrphan, RevokeTenant
  <1>2. ASSUME NEW s \in Sessions, ReapIdle(s) \/ ReapExpired(s)
        PROVE  \/ UNCHANGED <<task, lock>>
               \/ \E r : Starts(Daemon, r) /\ r.on \in daemon.todo /\ r.pc # "count"
    <2>1. \/ UNCHANGED <<task, lock>>
          \/ \E op \in ReapOps : Call(Daemon, op, "lock", s) /\ UNCHANGED lock /\ IdleTask(Daemon)
      BY <1>2 DEF ReapIdle, ReapExpired, DaemonAt, ReapOps
    <2>2. s \in daemon.todo
      BY <1>2 DEF ReapIdle, ReapExpired
    <2>3. QED
      BY <2>1, <2>2, <1>t, CallStarts
  <1>3. ASSUME NEW s \in Sessions, PurgeSession(s)
        PROVE  \E r : Starts(Deleter, r) /\ r.on \in deleter.todo /\ r.pc # "count"
    <2>1. \E op \in ReapOps : Call(Deleter, op, "lock", s) /\ UNCHANGED lock /\ IdleTask(Deleter)
      BY <1>3 DEF PurgeSession, ReapOps
    <2>2. s \in deleter.todo
      BY <1>3 DEF PurgeSession
    <2>3. QED
      BY <2>1, <2>2, <1>t, CallStarts
  <1>4. ASSUME NEW s \in Sessions, FinishDestroy(s)
        PROVE  \E r : Starts(Daemon, r) /\ r.on \in daemon.todo /\ r.pc # "count"
    <2>1. \E pc \in {"rm_container", "rm_volume"} :
             Call(Daemon, "finish", pc, s) /\ UNCHANGED lock /\ IdleTask(Daemon)
      BY <1>4 DEF FinishDestroy, DaemonAt
    <2>2. s \in daemon.todo
      BY <1>4 DEF FinishDestroy
    <2>3. QED
      BY <2>1, <2>2, <1>t, CallStarts
  <1>5. QED
    BY <1>1, <1>2, <1>3, <1>4 DEF Reaping, Purging, Starting

\* A task that starts disturbs no lock.
LEMMA StartsLock ==
  ASSUME TypeOK, LockInv, NEW t, NEW r, Starts(t, r)
  PROVE  LockInv'
  <1>1. /\ \A u \in Tasks : task'[u] = IF u = t THEN r ELSE task[u]
        /\ lock' = lock /\ t \in Tasks
        /\ task[t].pc = "idle"
        /\ r.pc = "lock" \/ r.op \notin LockedOps
        /\ r.pc = "lock" => r.op \in LockedOps
    BY DEF Starts, TypeOK, IdleTask, UseOps, LockedOps
  <1>2. QED
    BY <1>1 DEF LockInv, LockDiscipline, CriticalSection

\* A step of a task keeps the discipline: it stays inside, or it frees the lock.
LEMMA StepLock ==
  ASSUME TypeOK, WorksOnSession, LockInv, NEW t \in Tasks, Step(t)
  PROVE  LockInv'
  <1>1. task[t].pc \notin {"idle", "lock"}
    BY StepIsAwake
  <1>2. CASE Done(t)
    <2>1. /\ \A u \in Tasks : task'[u] = IF u = t THEN NoTask ELSE task[u]
          /\ NoTask.op = "none" /\ NoTask.pc = "idle"
          /\ \A s \in Sessions : lock'[s] = IF lock[s] = t THEN None ELSE lock[s]
      BY <1>2 DEF Done, TypeOK, NoTask, NewTask
    <2>2. None \notin Tasks
      BY LifecycleAssumption
    <2> HIDE DEF NoTask
    <2>3. QED
      BY <2>1, <2>2 DEF LockInv, LockDiscipline, CriticalSection
  <1>3. ASSUME NEW r, Moves(t, r)
        PROVE  LockInv'
    <2>1. /\ \A u \in Tasks : task'[u] = IF u = t THEN r ELSE task[u]
          /\ lock' = lock
          /\ r.op = task[t].op /\ r.on = task[t].on /\ r.pc \notin {"idle", "lock"}
      BY <1>3 DEF Moves, TypeOK
    <2>2. QED
      BY <2>1, <1>1 DEF LockInv, LockDiscipline, CriticalSection
  <1>4. QED
    BY <1>2, <1>3, StepProceeds DEF Proceeds

\* Acquire enters the critical section of a session that nobody is in.
LEMMA AcquireLock ==
  ASSUME TypeOK, WorksOnSession, LockInv, NEW t \in Tasks, Acquire(t)
  PROVE  LockInv'
  <1> DEFINE r == [task[t] EXCEPT !.pc = "read"]  s == task[t].on
  <1>1. s \in Sessions /\ None \notin Tasks
    BY LifecycleAssumption DEF Acquire, WorksOnSession
  <1>2. r.op = task[t].op /\ r.on = s /\ r.pc = "read"
    BY DEF TypeOK, TaskRecord
  <1>3. /\ \A u \in Tasks : task'[u] = IF u = t THEN r ELSE task[u]
        /\ \A x \in Sessions : lock'[x] = IF x = s THEN t ELSE lock[x]
        /\ lock[s] = None /\ task[t].pc = "lock"
    BY <1>1 DEF Acquire, TypeOK
  <1> HIDE DEF r, s
  <1>4. QED
    BY <1>1, <1>2, <1>3 DEF LockInv, LockDiscipline, CriticalSection

\* The inductive invariant of the locks.
LEMMA LocksInvariant == Spec => []LockInv
  <1>1. Init => LockInv
    BY LifecycleAssumption DEF Init, LockInv, LockDiscipline, CriticalSection, NoTask,
       NewTask, LockedOps
  <1>2. TypeOK /\ WorksOnSession /\ LockInv /\ [Next]_vars => LockInv'
    <2> SUFFICES ASSUME TypeOK, WorksOnSession, LockInv, [Next]_vars
                 PROVE  LockInv'
      OBVIOUS
    <2>1. ASSUME NEW t \in Requests, Arrive(t)
          PROVE  LockInv'
      BY <2>1, ArriveStarts, StartsLock
    <2>2. ASSUME NEW t \in Tasks, Acquire(t) \/ Step(t)
          PROVE  LockInv'
      BY <2>2, AcquireLock, StepLock
    <2>u. CASE UNCHANGED <<task, lock>>
      BY <2>u DEF LockInv, LockDiscipline, CriticalSection
    <2>3. CASE Reaping \/ Purging \/ Starting \/ \E tn \in Tenants : RevokeTenant(tn)
      BY <2>3, <2>u, SweepStarts, StartsLock
    <2>4. CASE Crash
      BY <2>4, LifecycleAssumption DEF Crash, LockInv, LockDiscipline, CriticalSection,
         NoTask, NewTask, LockedOps
    <2>5. CASE \E s \in Sessions : GrowIdle(s) \/ Expire(s) \/ LoseContainer(s)
      BY <2>5, <2>u DEF GrowIdle, Expire, LoseContainer
    <2>6. CASE UNCHANGED vars
      BY <2>6, <2>u DEF vars
    <2>7. QED
      BY <2>1, <2>2, <2>3, <2>4, <2>5, <2>6 DEF Next
  <1>3. QED
    BY <1>1, <1>2, TypeCorrect, PTL DEF Spec

\* The session locks exclude each other and are always released, for any number
\* of sessions and requests, with Docker failing and the process crashing at will.
THEOREM LocksHeldRight == Spec => []LockDiscipline
  <1>1. LockInv => LockDiscipline
    BY DEF LockInv
  <1>2. QED
    BY <1>1, LocksInvariant, PTL

-----------------------------------------------------------------------------
(* Rows, containers and owners *)

(***************************************************************************)
(* What one step of a task on session s may do to the registry.            *)
(***************************************************************************)
RowEffects(t) ==
  LET s == task[t].on IN
  /\ \/ status' = status /\ task[t].pc # "insert"
     \/ task[t].pc = "insert" /\ status' = [status EXCEPT ![s] = "CREATING"]
     \/ task[t].pc = "update" /\ status' = [status EXCEPT ![s] = task[t].to]
  /\ cid' = cid \/ cid' = [cid EXCEPT ![s] = TRUE]
  /\ \/ owner' = owner
     \/ task[t].pc = "insert" /\ owner' = [owner EXCEPT ![s] = task[t].tn]
  /\ known' = known \/ (known' = known \cup {s} /\ status[s] # "absent")
  /\ daemon' = daemon
  /\ deleter' = deleter

\* Every step of a task has these effects on the registry.
LEMMA StepRowEffects ==
  ASSUME NEW t \in Tasks, Step(t)
  PROVE  RowEffects(t)
  <1> USE DEF RowEffects, rowVars, sweepVars
  <1>1. CASE Select(t) \/ CountConcurrent(t) \/ Read(t)
    BY <1>1 DEF Select, CountConcurrent, Read
  <1>2. CASE Update(t) \/ Insert(t) \/ SetContainer(t)
    BY <1>2 DEF Update, Insert, SetContainer
  <1>3. CASE CreateVolume(t) \/ CreateContainer(t) \/ Rollback(t)
    BY <1>3 DEF CreateVolume, CreateContainer, Rollback
  <1>4. CASE CreateGet(t)
    BY <1>4 DEF CreateGet, Visible, Statuses
  <1>5. CASE StopContainer(t) \/ StartContainer(t) \/ RemoveContainer(t) \/ RemoveVolume(t)
    BY <1>5 DEF StopContainer, StartContainer, RemoveContainer, RemoveVolume
  <1>6. CASE Look(t) \/ Relook(t) \/ ExecStart(t) \/ ExecEnd(t) \/ TouchActivity(t)
    BY <1>6 DEF Look, Relook, ExecStart, ExecEnd, TouchActivity
  <1>7. QED
    BY <1>1, <1>2, <1>3, <1>4, <1>5, <1>6 DEF Step

\* A task makes a volume or a container only for a session that it has
\* inserted the row of.
LEMMA StepMakesObjects ==
  ASSUME TypeOK, WorksOnSession, NEW t \in Tasks, Step(t), NEW x \in Sessions,
         volume'[x] = TRUE \/ container'[x] # "none"
  PROVE  \/ volume[x] = TRUE \/ container[x] # "none"
         \/ x = task[t].on /\ task[t].pc \in {"mk_volume", "mk_container"}
  <1>t. task[t].on \in Sessions
    BY StepIsAwake DEF WorksOnSession
  <1>v. /\ volume \in [Sessions -> BOOLEAN]
        /\ container \in [Sessions -> {"none", "stopped", "running"}]
    BY DEF TypeOK
  <1> USE DEF dockerVars
  <1>1. CASE \/ Select(t) \/ CountConcurrent(t) \/ Read(t) \/ Update(t) \/ Insert(t)
             \/ SetContainer(t) \/ CreateGet(t)
    BY <1>1 DEF Select, CountConcurrent, Read, Update, Insert, SetContainer, CreateGet
  <1>2. CASE CreateVolume(t)
    BY <1>2, <1>t, <1>v DEF CreateVolume
  <1>3. CASE CreateContainer(t)
    BY <1>3, <1>t, <1>v DEF CreateContainer
  <1>4. CASE Rollback(t) \/ RemoveVolume(t)
    BY <1>4, <1>t, <1>v DEF Rollback, RemoveVolume
  <1>5. CASE StopContainer(t) \/ StartContainer(t)
    BY <1>5, <1>t, <1>v DEF StopContainer, StartContainer
  <1>6. CASE RemoveContainer(t)
    BY <1>6, <1>t, <1>v DEF RemoveContainer
  <1>7. CASE Look(t) \/ Relook(t) \/ ExecStart(t) \/ ExecEnd(t) \/ TouchActivity(t)
    BY <1>7 DEF Look, Relook, ExecStart, ExecEnd, TouchActivity
  <1>8. QED
    BY <1>1, <1>2, <1>3, <1>4, <1>5, <1>6, <1>7 DEF Step

\* A step of a task keeps the container ids of the rows that are RUNNING.
LEMMA StepRunning ==
  ASSUME TypeOK, WorksOnSession, RunningInv, NEW t \in Tasks, Step(t)
  PROVE  RunningInv'
  <1>1. RowEffects(t) /\ task[t].on \in Sessions
    BY StepRowEffects, StepIsAwake DEF WorksOnSession
  <1>2. \A s \in Sessions : cid[s] => cid'[s]
    BY <1>1 DEF RowEffects, TypeOK
  <1>3. RunningHasContainerId'
    BY <1>1, <1>2 DEF RunningInv, RunningHasContainerId, RowEffects, TypeOK, Active
  <1>4. ASSUME NEW u \in Tasks \ {t}, task'[u] = task[u],
               \/ task'[u].pc = "start"
               \/ task'[u].pc \in {"select", "update"} /\ task'[u].to \in Active
        PROVE  cid'[task'[u].on]
    BY <1>2, <1>4 DEF RunningInv, WorksOnSession
  <1>5. CASE Done(t)
    <2>1. /\ \A u \in Tasks : task'[u] = IF u = t THEN NoTask ELSE task[u]
          /\ NoTask.pc = "idle"
      BY <1>5 DEF Done, TypeOK, NoTask, NewTask
    <2> HIDE DEF NoTask
    <2>2. QED
      BY <2>1, <1>3, <1>4 DEF RunningInv
  <1>6. ASSUME NEW r, Moves(t, r)
        PROVE  RunningInv'
    <2>1. \A u \in Tasks : task'[u] = IF u = t THEN r ELSE task[u]
      BY <1>6 DEF Moves, TypeOK
    <2>2. ASSUME \/ r.pc = "start"
                 \/ r.pc \in {"select", "update"} /\ r.to \in Active
          PROVE  cid'[r.on]
      BY <2>2, <1>1, <1>2, <1>6 DEF Moves, RunningInv
    <2>3. QED
      BY <2>1, <2>2, <1>3, <1>4 DEF RunningInv
  <1>7. QED
    BY <1>5, <1>6, StepProceeds DEF Proceeds

(***************************************************************************)
(* What the loops of the lifespan and of delete_tenant do to the rows.     *)
(***************************************************************************)
SweepEffects ==
  /\ cid' = cid
  /\ owner' = owner
  /\ known' = known
  /\ volume' = volume
  /\ container' = container
  /\ status' = status \/ \E s \in daemon.todo : status' = [status EXCEPT ![s] = "STOPPED"]
  /\ \A s \in daemon'.todo \cup deleter'.todo :
       \/ s \in daemon.todo \cup deleter.todo
       \/ s \in Sessions /\ status[s] \in Statuses

\* They list rows, and one of them marks rows as STOPPED.
LEMMA SweepRowEffects ==
  ASSUME TypeOK,
         Reaping \/ Purging \/ Starting \/ \E tn \in Tenants : RevokeTenant(tn)
  PROVE  SweepEffects
  <1> USE DEF SweepEffects, rowVars, dockerVars, Sweep, Purge, TypeOK
  <1>1. CASE ReaperTick \/ ReaperListExpired \/ ReaperSleep
    BY <1>1 DEF ReaperTick, ReaperListExpired, ReaperSleep, Active, Statuses
  <1>2. ASSUME NEW s \in Sessions, ReapIdle(s) \/ ReapExpired(s)
        PROVE  SweepEffects
    BY <1>2 DEF ReapIdle, ReapExpired
  <1>3. CASE PurgeList \/ PurgeEnd
    BY <1>3 DEF PurgeList, PurgeEnd, Live
  <1>4. ASSUME NEW s \in Sessions, PurgeSession(s)
        PROVE  SweepEffects
    BY <1>4 DEF PurgeSession
  <1>5. CASE StartUnhealthy \/ StartReconcile \/ ReconcileListRows \/ StartServing
    BY <1>5 DEF StartUnhealthy, StartReconcile, ReconcileListRows, StartServing, Statuses
  <1>6. ASSUME NEW s \in Sessions, FinishDestroy(s)
        PROVE  SweepEffects
    BY <1>6 DEF FinishDestroy
  <1>7. ASSUME NEW s \in Sessions, MarkOrphan(s)
        PROVE  SweepEffects
    <2>1. status' = status \/ status' = [status EXCEPT ![s] = "STOPPED"]
      BY <1>7 DEF MarkOrphan
    <2>2. s \in daemon.todo /\ daemon'.todo = daemon.todo \ {s} /\ deleter' = deleter
      BY <1>7 DEF MarkOrphan
    <2>3. cid' = cid /\ owner' = owner /\ known' = known /\ volume' = volume
          /\ container' = container
      BY <1>7 DEF MarkOrphan
    <2>4. QED
      BY <2>1, <2>2, <2>3
  <1>8. ASSUME NEW tn \in Tenants, RevokeTenant(tn)
        PROVE  SweepEffects
    BY <1>8 DEF RevokeTenant
  <1>9. QED
    BY <1>1, <1>2, <1>3, <1>4, <1>5, <1>6, <1>7, <1>8 DEF Reaping, Purging, Starting

\* A task that starts, and a sweep, keep the container ids.
LEMMA StartsRunning ==
  ASSUME TypeOK, WorksOnSession, RunningInv, cid' = cid,
         status' = status \/ \E s \in daemon.todo : status' = [status EXCEPT ![s] = "STOPPED"],
         task' = task \/ \E t, r : Starts(t, r)
  PROVE  RunningInv'
  <1>1. RunningHasContainerId'
    BY DEF RunningInv, RunningHasContainerId, TypeOK, Active
  <1>2. CASE task' = task
    BY <1>1, <1>2 DEF RunningInv
  <1>3. ASSUME NEW t, NEW r, Starts(t, r)
        PROVE  RunningInv'
    <2>1. /\ \A u \in Tasks : task'[u] = IF u = t THEN r ELSE task[u]
          /\ r.pc \notin {"start", "select", "update"}
      BY <1>3 DEF Starts, TypeOK
    <2>2. QED
      BY <2>1, <1>1 DEF RunningInv
  <1>4. QED
    BY <1>2, <1>3

\* A row that is RUNNING or IDLE has its container's id, so that stop, reap_stop,
\* resume and exec of a running session never meet a null container_id.
THEOREM RunningRowsHaveContainerId == Spec => []RunningHasContainerId
  <1>1. Init => RunningInv
    BY DEF Init, RunningInv, RunningHasContainerId, Active, NoTask, NewTask
  <1>2. TypeOK /\ WorksOnSession /\ RunningInv /\ [Next]_vars => RunningInv'
    <2> SUFFICES ASSUME TypeOK, WorksOnSession, RunningInv, [Next]_vars
                 PROVE  RunningInv'
      OBVIOUS
    <2>1. ASSUME NEW t \in Requests, Arrive(t)
          PROVE  RunningInv'
      <3>1. \E r : Starts(t, r)
        BY <2>1, ArriveStarts
      <3>2. status' = status /\ cid' = cid
        BY <2>1 DEF Arrive, BeginCreate, BeginLifecycle, BeginUse, Begin, rowVars
      <3>3. QED
        BY <3>1, <3>2, StartsRunning
    <2>2. ASSUME NEW t \in Tasks, Acquire(t)
          PROVE  RunningInv'
      <3> DEFINE r == [task[t] EXCEPT !.pc = "read"]
      <3>1. r.pc = "read"
        BY DEF TypeOK, TaskRecord
      <3>2. /\ \A u \in Tasks : task'[u] = IF u = t THEN r ELSE task[u]
            /\ status' = status /\ cid' = cid
        BY <2>2 DEF Acquire, TypeOK, rowVars
      <3> HIDE DEF r
      <3>3. QED
        BY <3>1, <3>2 DEF RunningInv, RunningHasContainerId
    <2>3. ASSUME NEW t \in Tasks, Step(t)
          PROVE  RunningInv'
      BY <2>3, StepRunning
    <2>4. CASE Reaping \/ Purging \/ Starting \/ \E tn \in Tenants : RevokeTenant(tn)
      <3>1. SweepEffects
        BY <2>4, SweepRowEffects
      <3>2. task' = task \/ \E t, r : Starts(t, r)
        BY <2>4, SweepStarts
      <3>3. QED
        BY <3>1, <3>2, StartsRunning DEF SweepEffects
    <2>5. CASE Crash
      BY <2>5 DEF Crash, RunningInv, RunningHasContainerId, NoTask, NewTask, rowVars
    <2>6. CASE \E s \in Sessions : GrowIdle(s) \/ Expire(s) \/ LoseContainer(s)
      BY <2>6 DEF GrowIdle, Expire, LoseContainer, RunningInv, RunningHasContainerId, rowVars
    <2>7. CASE UNCHANGED vars
      BY <2>7 DEF vars, RunningInv, RunningHasContainerId
    <2>8. QED
      BY <2>1, <2>2, <2>3, <2>4, <2>5, <2>6, <2>7 DEF Next
  <1>3. RunningInv => RunningHasContainerId
    BY DEF RunningInv
  <1>4. QED
    BY <1>1, <1>2, <1>3, TypeCorrect, PTL DEF Spec

\* A step of a task keeps the rows that there are.
LEMMA StepKeepsRows ==
  ASSUME TypeOK, WorksOnSession, RowInv, NEW t \in Tasks, Step(t),
         NEW s \in Sessions, status[s] # "absent"
  PROVE  status'[s] # "absent"
  <1>1. RowEffects(t) /\ task[t].on \in Sessions
    BY StepRowEffects, StepIsAwake DEF WorksOnSession
  <1>2. task[t].pc = "update" => task[t].to # "absent"
    BY DEF RowInv, Statuses
  <1>3. QED
    BY <1>1, <1>2 DEF RowEffects, TypeOK

\* A step of a task is on a session that has a row, and so are its objects.
LEMMA StepRow ==
  ASSUME TypeOK, WorksOnSession, RowInv, NEW t \in Tasks, Step(t)
  PROVE  RowInv'
  <1>1. RowEffects(t) /\ task[t].on \in Sessions /\ task[t].pc \notin {"idle", "lock"}
    BY StepRowEffects, StepIsAwake DEF WorksOnSession
  <1>2. \A s \in Sessions : status[s] # "absent" => status'[s] # "absent"
    BY StepKeepsRows
  <1>3. \A s \in (known \cup daemon.todo \cup deleter.todo)' : status'[s] # "absent"
    BY <1>1, <1>2 DEF RowEffects, RowInv, TypeOK
  <1>4. ObjectsHaveRows'
    <2> SUFFICES ASSUME NEW x \in Sessions, volume'[x] = TRUE \/ container'[x] # "none"
                 PROVE  status'[x] # "absent"
      <3>1. volume' \in [Sessions -> BOOLEAN]
        BY CreateTyped, LockedTyped, UseTyped DEF Step, TypeOK
      <3>2. QED
        BY <3>1 DEF ObjectsHaveRows
    <2>1. status[x] # "absent"
      BY StepMakesObjects DEF RowInv, ObjectsHaveRows, Fresh
    <2>2. QED
      BY <2>1, <1>2
  <1>5. ASSUME NEW u \in Tasks \ {t}, task'[u] = task[u]
        PROVE  /\ task'[u].pc # "idle" /\ ~Fresh(u)' => status'[task'[u].on] # "absent"
               /\ task'[u].pc \in {"select", "update"} => task'[u].to \in Statuses
    BY <1>2, <1>5 DEF RowInv, WorksOnSession, Fresh
  <1>6. CASE Done(t)
    <2>1. /\ \A u \in Tasks : task'[u] = IF u = t THEN NoTask ELSE task[u]
          /\ NoTask.pc = "idle"
      BY <1>6 DEF Done, TypeOK, NoTask, NewTask
    <2> HIDE DEF NoTask
    <2>2. QED
      BY <2>1, <1>3, <1>4, <1>5 DEF RowInv
  <1>7. ASSUME NEW r, Moves(t, r)
        PROVE  RowInv'
    <2>1. \A u \in Tasks : task'[u] = IF u = t THEN r ELSE task[u]
      BY <1>7 DEF Moves, TypeOK
    <2>2. ASSUME r.pc \notin {"count", "insert"}
          PROVE  status'[r.on] # "absent"
      <3>1. CASE task[t].pc = "insert"
        BY <3>1, <1>1, <1>7 DEF RowEffects, Moves, TypeOK
      <3>2. CASE task[t].pc # "insert"
        BY <3>2, <2>2, <1>1, <1>2, <1>7 DEF Moves, RowInv, Fresh
      <3>3. QED
        BY <3>1, <3>2
    <2>3. ASSUME r.pc \in {"select", "update"}
          PROVE  r.to \in Statuses
      BY <2>3, <1>7 DEF Moves, RowInv
    <2>4. QED
      BY <2>1, <2>2, <2>3, <1>3, <1>4, <1>5 DEF RowInv, Fresh
  <1>8. QED
    BY <1>6, <1>7, StepProceeds DEF Proceeds

\* The rest of the system starts a task only on a row, or for a new session.
LEMMA OtherRow ==
  ASSUME TypeOK, WorksOnSession, RowInv,
         status' = status \/ \E s \in daemon.todo : status' = [status EXCEPT ![s] = "STOPPED"],
         known' = known, volume' = volume,
         \A s \in Sessions : container'[s] # "none" => container[s] # "none",
         \A s \in daemon'.todo \cup deleter'.todo :
           \/ s \in daemon.todo \cup deleter.todo
           \/ s \in Sessions /\ status[s] \in Statuses,
         \/ task' = task
         \/ \E t, r : /\ Starts(t, r)
                      /\ \/ r.pc = "count"
                         \/ r.on \in known \cup daemon.todo \cup deleter.todo
  PROVE  RowInv'
  <1>1. \A s \in Sessions : status[s] # "absent" => status'[s] # "absent"
    BY DEF TypeOK
  <1>2. /\ \A s \in known \cup daemon.todo \cup deleter.todo : status'[s] # "absent"
        /\ known \cup daemon.todo \cup deleter.todo \subseteq Sessions
    BY <1>1 DEF RowInv, TypeOK
  <1>3. \A s \in (known \cup daemon.todo \cup deleter.todo)' : status'[s] # "absent"
    <2> SUFFICES ASSUME NEW s \in known \cup daemon'.todo \cup deleter'.todo
                 PROVE  status'[s] # "absent"
      OBVIOUS
    <2>1. CASE s \in known \cup daemon.todo \cup deleter.todo
      BY <2>1, <1>2
    <2>2. CASE s \in Sessions /\ status[s] \in Statuses
      BY <2>2 DEF TypeOK, Statuses
    <2>3. QED
      BY <2>1, <2>2
  <1>4. ObjectsHaveRows'
    BY <1>1 DEF RowInv, ObjectsHaveRows, TypeOK
  <1>5. CASE task' = task
    BY <1>1, <1>3, <1>4, <1>5 DEF RowInv, Fresh, WorksOnSession
  <1>6. ASSUME NEW t, NEW r, Starts(t, r),
               r.pc = "count" \/ r.on \in known \cup daemon.todo \cup deleter.todo
        PROVE  RowInv'
    <2>1. /\ \A u \in Tasks : task'[u] = IF u = t THEN r ELSE task[u]
          /\ r.pc \notin {"select", "update"}
      BY <1>6 DEF Starts, TypeOK
    <2>2. r.pc = "count" \/ status'[r.on] # "absent"
      BY <1>6, <1>2
    <2>3. QED
      BY <2>1, <2>2, <1>1, <1>3, <1>4 DEF RowInv, Fresh, WorksOnSession
  <1>7. QED
    BY <1>5, <1>6

\* The rows, the lists of the sweeps and the Docker objects stay together.
LEMMA RowsInductive ==
  ASSUME TypeOK, WorksOnSession, RowInv, [Next]_vars
  PROVE  RowInv'
  <1>1. ASSUME NEW t \in Requests, Arrive(t)
        PROVE  RowInv'
    <2>1. \E r : Starts(t, r) /\ (r.pc = "count" \/ r.on \in known)
      BY <1>1, ArriveStarts
    <2>2. /\ status' = status /\ known' = known /\ volume' = volume
          /\ container' = container /\ daemon' = daemon /\ deleter' = deleter
      BY <1>1 DEF Arrive, BeginCreate, BeginLifecycle, BeginUse, Begin, rowVars,
                  dockerVars, sweepVars
    <2>3. QED
      BY <2>1, <2>2, OtherRow
  <1>2. ASSUME NEW t \in Tasks, Acquire(t)
        PROVE  RowInv'
    <2> DEFINE r == [task[t] EXCEPT !.pc = "read"]
    <2>1. r.pc = "read" /\ r.on = task[t].on
      BY DEF TypeOK, TaskRecord
    <2>2. /\ \A u \in Tasks : task'[u] = IF u = t THEN r ELSE task[u]
          /\ status' = status /\ known' = known /\ volume' = volume
          /\ container' = container /\ daemon' = daemon /\ deleter' = deleter
          /\ task[t].pc = "lock"
      BY <1>2 DEF Acquire, TypeOK, rowVars, dockerVars, sweepVars
    <2> HIDE DEF r
    <2>3. ObjectsHaveRows'
      BY <2>2 DEF RowInv, ObjectsHaveRows
    <2>4. QED
      BY <2>1, <2>2, <2>3 DEF RowInv, Fresh
  <1>3. ASSUME NEW t \in Tasks, Step(t)
        PROVE  RowInv'
    BY <1>3, StepRow
  <1>4. CASE Reaping \/ Purging \/ Starting \/ \E tn \in Tenants : RevokeTenant(tn)
    <2>1. SweepEffects
      BY <1>4, SweepRowEffects
    <2>2. \/ task' = task
          \/ \E t, r : Starts(t, r) /\ r.on \in daemon.todo \cup deleter.todo
      BY <1>4, SweepStarts
    <2>3. QED
      BY <2>1, <2>2, OtherRow DEF SweepEffects
  <1>5. CASE Crash
    <2>1. /\ \A u \in Tasks : task'[u] = NoTask
          /\ NoTask.pc = "idle"
          /\ daemon'.todo = {} /\ deleter'.todo = {}
          /\ status' = status /\ known' = known /\ volume' = volume
          /\ container' = container
      BY <1>5 DEF Crash, Sweep, Purge, NoTask, NewTask, rowVars, dockerVars
    <2> HIDE DEF NoTask
    <2>2. ObjectsHaveRows'
      BY <2>1 DEF RowInv, ObjectsHaveRows
    <2>3. QED
      BY <2>1, <2>2 DEF RowInv
  <1>6. ASSUME NEW s \in Sessions, GrowIdle(s) \/ Expire(s) \/ LoseContainer(s)
        PROVE  RowInv'
    <2>1. /\ status' = status /\ known' = known /\ volume' = volume /\ task' = task
          /\ daemon' = daemon /\ deleter' = deleter
      BY <1>6 DEF GrowIdle, Expire, LoseContainer, rowVars, dockerVars, sweepVars
    <2>2. \A x \in Sessions : container'[x] # "none" => container[x] # "none"
      BY <1>6 DEF GrowIdle, Expire, LoseContainer, dockerVars, TypeOK
    <2>3. QED
      BY <2>1, <2>2, OtherRow
  <1>7. CASE UNCHANGED vars
    BY <1>7, OtherRow DEF vars
  <1>8. QED
    BY <1>1, <1>2, <1>3, <1>4, <1>5, <1>6, <1>7 DEF Next

\* The rows and the objects agree in every reachable state.
THEOREM RowsInvariant == Spec => []RowInv
  <1>1. Init => RowInv
    BY DEF Init, RowInv, ObjectsHaveRows, NoTask, NewTask
  <1>2. QED
    BY <1>1, RowsInductive, TypeCorrect, PTL DEF Spec

\* No volume and no container without a row, wherever a create, a rollback or a
\* crash stopped: what the orphan reaper removes for want of a row was never made
\* by this control plane and its registry.
THEOREM NoObjectWithoutRow == Spec => []ObjectsHaveRows
  <1>1. RowInv => ObjectsHaveRows
    BY DEF RowInv
  <1>2. QED
    BY <1>1, RowsInvariant, PTL

-----------------------------------------------------------------------------
(* Tenants *)

\* The steps of a request before the registry has compared the tenants.
Unchecked == {"idle", "count", "insert", "lock", "read", "look"}

\* A step of a task leaves a new session's id alone unless it inserts its own.
LEMMA StepFresh ==
  ASSUME TypeOK, WorksOnSession, RowInv, OwnerInv, NEW t \in Tasks, Step(t),
         NEW u \in Tasks \ {t}, Fresh(u)
  PROVE  status'[task[u].on] = "absent"
  <1>1. RowEffects(t) /\ task[t].on \in Sessions
    BY StepRowEffects, StepIsAwake DEF WorksOnSession
  <1>2. /\ status[task[u].on] = "absent"
        /\ task[t].on # task[u].on
        /\ task[u].on \in Sessions
    BY DEF OwnerInv, WorksOnSession, Fresh
  <1>3. QED
    BY <1>1, <1>2 DEF RowEffects, TypeOK

\* Nor does it change the owner of the row that another request works on.
LEMMA StepOwner ==
  ASSUME TypeOK, WorksOnSession, RowInv, OwnerInv, NEW t \in Tasks, Step(t),
         NEW u \in Requests \ {t}, task[u].pc \notin Unchecked
  PROVE  owner'[task[u].on] = task[u].tn
  <1>1. RowEffects(t) /\ task[t].on \in Sessions
    BY StepRowEffects, StepIsAwake DEF WorksOnSession
  <1>2. u \in Tasks /\ owner[task[u].on] = task[u].tn /\ task[u].on \in Sessions
    BY DEF OwnerInv, TenantIsolation, WorksOnSession, Unchecked, Tasks
  <1>3. task[t].pc = "insert" => task[u].on # task[t].on
    BY <1>2 DEF OwnerInv, Fresh
  <1>4. QED
    BY <1>1, <1>2, <1>3 DEF RowEffects, TypeOK

\* A step of a task stays within its tenant.
LEMMA StepTenant ==
  ASSUME TypeOK, WorksOnSession, RowInv, OwnerInv, NEW t \in Tasks, Step(t)
  PROVE  OwnerInv'
  <1>1. RowEffects(t) /\ task[t].on \in Sessions /\ task[t].pc \notin {"idle", "lock"}
    BY StepRowEffects, StepIsAwake DEF WorksOnSession
  <1>r. Requests \subseteq Tasks
    BY DEF Tasks
  <1>2. CASE Done(t)
    <2>1. /\ \A u \in Tasks : task'[u] = IF u = t THEN NoTask ELSE task[u]
          /\ NoTask.pc = "idle" /\ NoTask.on = None /\ NoTask.op = "none"
      BY <1>2 DEF Done, TypeOK, NoTask, NewTask
    <2> HIDE DEF NoTask
    <2>2. None \notin Sessions
      BY LifecycleAssumption
    <2>3. ASSUME NEW u \in Tasks, Fresh(u)'
          PROVE  /\ status'[task'[u].on] = "absent"
                 /\ \A v \in Tasks \ {u} : task'[v].on # task'[u].on
      <3>1. u # t /\ task'[u] = task[u] /\ Fresh(u)
        BY <2>1, <2>3 DEF Fresh
      <3>2. task[u].on \in Sessions
        BY <3>1 DEF WorksOnSession, Fresh
      <3>3. QED
        BY <2>1, <2>2, <3>1, <3>2, StepFresh DEF OwnerInv
    <2>4. \A u \in Requests : task'[u].op \notin ReapOps
      BY <2>1, <1>r DEF OwnerInv, ReapOps
    <2>5. TenantIsolation'
      BY <2>1, <1>r, StepOwner DEF TenantIsolation, Unchecked
    <2>6. QED
      BY <2>3, <2>4, <2>5 DEF OwnerInv
  <1>3. ASSUME NEW r, Moves(t, r)
        PROVE  OwnerInv'
    <2>1. /\ \A u \in Tasks : task'[u] = IF u = t THEN r ELSE task[u]
          /\ r.op = task[t].op /\ r.on = task[t].on /\ r.tn = task[t].tn
          /\ r.pc \notin {"idle", "lock", "count"}
          /\ r.pc = "insert" <=> task[t].pc = "count"
      BY <1>3 DEF Moves, TypeOK
    <2>2. ASSUME NEW u \in Tasks, Fresh(u)'
          PROVE  /\ status'[task'[u].on] = "absent"
                 /\ \A v \in Tasks \ {u} : task'[v].on # task'[u].on
      <3>1. Fresh(u) /\ task'[u].on = task[u].on
        BY <2>1, <2>2 DEF Fresh
      <3>2. u = t => status' = status
        BY <2>1, <2>2, <1>1 DEF Fresh, RowEffects
      <3>3. status'[task[u].on] = "absent"
        BY <3>1, <3>2, StepFresh DEF OwnerInv
      <3>4. \A v \in Tasks \ {u} : task'[v].on # task'[u].on
        BY <2>1, <3>1 DEF OwnerInv
      <3>5. QED
        BY <3>1, <3>3, <3>4
    <2>3. \A u \in Requests : task'[u].op \notin ReapOps
      BY <2>1, <1>r DEF OwnerInv
    <2>4. ASSUME t \in Requests, r.pc \notin Unchecked
          PROVE  owner'[r.on] = r.tn
      <3>1. CASE task[t].pc \in Looks
        BY <3>1, <2>1, <2>4, <1>3 DEF Moves, OwnerInv
      <3>2. CASE task[t].pc \notin Looks
        <4>1. owner[task[t].on] = task[t].tn
          BY <3>2, <2>1, <2>4, <1>1 DEF OwnerInv, TenantIsolation, Looks, Unchecked
        <4>2. owner' = owner
          BY <3>2, <1>1 DEF RowEffects, Looks
        <4>3. QED
          BY <4>1, <4>2, <2>1
      <3>3. QED
        BY <3>1, <3>2
    <2>5. TenantIsolation'
      BY <2>1, <2>4, <1>r, StepOwner DEF TenantIsolation, Unchecked
    <2>6. QED
      BY <2>2, <2>3, <2>5 DEF OwnerInv
  <1>4. QED
    BY <1>2, <1>3, StepProceeds DEF Proceeds

\* A task that starts is on a row, or it draws an id that nobody works on.
LEMMA StartsTenant ==
  ASSUME TypeOK, WorksOnSession, RowInv, OwnerInv, NEW t, NEW r, Starts(t, r),
         owner' = owner,
         status' = status \/ \E s \in daemon.todo : status' = [status EXCEPT ![s] = "STOPPED"],
         t \in Requests => r.pc \in {"count", "lock", "look"} /\ r.op \notin ReapOps,
         IF r.pc = "count"
           THEN status' = status /\ status[r.on] = "absent" /\ \A u \in Tasks : task[u].on # r.on
           ELSE r.on \in known \cup daemon.todo \cup deleter.todo
  PROVE  OwnerInv'
  <1>1. /\ t \in Tasks /\ Requests \subseteq Tasks
        /\ \A u \in Tasks : task'[u] = IF u = t THEN r ELSE task[u]
        /\ r.on \in Sessions /\ r.pc \notin {"insert", "idle"}
    BY DEF Starts, TypeOK, Tasks
  <1>2. ASSUME NEW u \in Tasks, Fresh(u)'
        PROVE  /\ status'[task'[u].on] = "absent"
               /\ \A v \in Tasks \ {u} : task'[v].on # task'[u].on
    <2>1. CASE u = t
      BY <2>1, <1>1, <1>2 DEF Fresh
    <2>2. CASE u # t
      <3>1. /\ task'[u] = task[u] /\ Fresh(u) /\ task[u].on \in Sessions
            /\ status[task[u].on] = "absent"
            /\ \A v \in Tasks \ {u} : task[v].on # task[u].on
        BY <2>2, <1>1, <1>2 DEF Fresh, OwnerInv, WorksOnSession
      <3>2. \A s \in known \cup daemon.todo \cup deleter.todo : s # task[u].on
        BY <3>1 DEF RowInv
      <3>3. r.on # task[u].on
        BY <3>2, <1>1
      <3>4. status'[task[u].on] = "absent"
        BY <3>1, <3>2 DEF TypeOK
      <3>5. QED
        BY <3>1, <3>3, <3>4, <1>1
    <2>3. QED
      BY <2>1, <2>2
  <1>3. \A u \in Requests : task'[u].op \notin ReapOps
    BY <1>1 DEF OwnerInv
  <1>4. TenantIsolation'
    BY <1>1 DEF OwnerInv, TenantIsolation
  <1>5. QED
    BY <1>2, <1>3, <1>4 DEF OwnerInv

\* Nothing else changes a task, an owner or a row that is still to be inserted.
LEMMA QuietTenant ==
  ASSUME TypeOK, WorksOnSession, RowInv, OwnerInv, task' = task, owner' = owner,
         status' = status \/ \E s \in daemon.todo : status' = [status EXCEPT ![s] = "STOPPED"]
  PROVE  OwnerInv'
  <1>1. TenantIsolation' /\ \A u \in Requests : task'[u].op \notin ReapOps
    BY DEF OwnerInv, TenantIsolation
  <1>2. ASSUME NEW u \in Tasks, Fresh(u)
        PROVE  status'[task[u].on] = "absent"
    <2>1. status[task[u].on] = "absent" /\ task[u].on \in Sessions
      BY <1>2 DEF OwnerInv, WorksOnSession, Fresh
    <2>2. \A s \in daemon.todo : s # task[u].on
      BY <2>1 DEF RowInv
    <2>3. QED
      BY <2>1, <2>2 DEF TypeOK
  <1>3. QED
    BY <1>1, <1>2 DEF OwnerInv, Fresh

\* The inductive invariant of the owners.
LEMMA OwnersInvariant == Spec => []OwnerInv
  <1>1. Init => OwnerInv
    BY DEF Init, OwnerInv, TenantIsolation, Fresh, NoTask, NewTask, ReapOps, Tasks
  <1>2. TypeOK /\ WorksOnSession /\ RowInv /\ OwnerInv /\ [Next]_vars => OwnerInv'
    <2> SUFFICES ASSUME TypeOK, WorksOnSession, RowInv, OwnerInv, [Next]_vars
                 PROVE  OwnerInv'
      OBVIOUS
    <2>1. ASSUME NEW t \in Requests, Arrive(t)
          PROVE  OwnerInv'
      <3>1. status' = status /\ owner' = owner
        BY <2>1 DEF Arrive, BeginCreate, BeginLifecycle, BeginUse, Begin, rowVars
      <3>2. QED
        BY <3>1, <2>1, ArriveStarts, StartsTenant
    <2>2. ASSUME NEW t \in Tasks, Acquire(t)
          PROVE  OwnerInv'
      <3> DEFINE r == [task[t] EXCEPT !.pc = "read"]
      <3>1. r.pc = "read" /\ r.on = task[t].on /\ r.op = task[t].op
        BY DEF TypeOK, TaskRecord
      <3>2. /\ \A u \in Tasks : task'[u] = IF u = t THEN r ELSE task[u]
            /\ status' = status /\ owner' = owner /\ Requests \subseteq Tasks
        BY <2>2 DEF Acquire, TypeOK, rowVars, Tasks
      <3> HIDE DEF r
      <3>3. TenantIsolation'
        BY <3>1, <3>2 DEF OwnerInv, TenantIsolation
      <3>4. QED
        BY <3>1, <3>2, <3>3 DEF OwnerInv, Fresh
    <2>3. ASSUME NEW t \in Tasks, Step(t)
          PROVE  OwnerInv'
      BY <2>3, StepTenant
    <2>4. CASE Reaping \/ Purging \/ Starting \/ \E tn \in Tenants : RevokeTenant(tn)
      <3>1. SweepEffects
        BY <2>4, SweepRowEffects
      <3>2. CASE task' = task
        BY <3>1, <3>2, QuietTenant DEF SweepEffects
      <3>3. ASSUME NEW t \in {Daemon, Deleter}, NEW r, Starts(t, r),
                   r.on \in daemon.todo \cup deleter.todo, r.pc # "count"
            PROVE  OwnerInv'
        <4>1. t \notin Requests
          BY LifecycleAssumption
        <4>2. QED
          BY <3>1, <3>3, <4>1, StartsTenant DEF SweepEffects
      <3>4. QED
        BY <3>2, <3>3, <2>4, SweepStarts
    <2>5. CASE Crash
      <3>1. /\ \A u \in Tasks : task'[u] = NoTask
            /\ NoTask.pc = "idle" /\ NoTask.op = "none"
            /\ Requests \subseteq Tasks
        BY <2>5 DEF Crash, NoTask, NewTask, Tasks
      <3> HIDE DEF NoTask
      <3>2. QED
        BY <3>1 DEF OwnerInv, TenantIsolation, Fresh, ReapOps
    <2>6. CASE \E s \in Sessions : GrowIdle(s) \/ Expire(s) \/ LoseContainer(s)
      BY <2>6, QuietTenant DEF GrowIdle, Expire, LoseContainer, rowVars
    <2>7. CASE UNCHANGED vars
      BY <2>7, QuietTenant DEF vars
    <2>8. QED
      BY <2>1, <2>2, <2>3, <2>4, <2>5, <2>6, <2>7 DEF Next
  <1>3. QED
    BY <1>1, <1>2, TypeCorrect, RowsInvariant, PTL DEF Spec

\* A request never works on another tenant's session once the registry has
\* looked the session up for it, whatever sweeps, deletions and crashes do.
THEOREM TenantsIsolated == Spec => []TenantIsolation
  <1>1. OwnerInv => TenantIsolation
    BY DEF OwnerInv
  <1>2. QED
    BY <1>1, OwnersInvariant, PTL

-----------------------------------------------------------------------------
(* Startup *)

\* Until the control plane serves, only reconciliation works: the lifespan
\* yields after it, and a crash leaves no task.
QuietInv ==
  /\ ~serving => /\ \A t \in Requests \cup {Deleter} : IdleTask(t)
                 /\ deleter.phase = "sleep"
  /\ daemon.phase \in {"down", "orphans"} => IdleTask(Daemon)
  /\ task[Daemon].op = "finish" => daemon.phase = "finish"
  /\ daemon.phase = "finish" => task[Daemon].op \in {"none", "finish"}
  /\ \A t \in Tasks : IdleTask(t) => task[t] = NoTask
  /\ \A t \in Tasks : task[t].op = "none" => IdleTask(t)

\* A task that acts changes itself only, into no task or one with its operation.
OneTask(t) ==
  /\ ~IdleTask(t)
  /\ \A u \in Tasks \ {t} : task'[u] = task[u]
  /\ \/ task'[t] = NoTask
     \/ task'[t].pc # "idle" /\ task'[t].op = task[t].op
  /\ daemon' = daemon /\ deleter' = deleter

\* Every step of a task, and the wait for a lock, is of this kind.
LEMMA TaskActs ==
  ASSUME TypeOK, WorksOnSession, NEW t \in Tasks, Acquire(t) \/ Step(t)
  PROVE  OneTask(t)
  <1>1. CASE Acquire(t)
    <2> DEFINE r == [task[t] EXCEPT !.pc = "read"]
    <2>1. r.pc = "read" /\ r.op = task[t].op
      BY DEF TypeOK, TaskRecord
    <2>2. /\ \A u \in Tasks : task'[u] = IF u = t THEN r ELSE task[u]
          /\ daemon' = daemon /\ deleter' = deleter /\ task[t].pc = "lock"
      BY <1>1 DEF Acquire, TypeOK, sweepVars
    <2> HIDE DEF r
    <2>3. QED
      BY <2>1, <2>2 DEF OneTask, IdleTask
  <1>2. CASE Step(t)
    <2>1. daemon' = daemon /\ deleter' = deleter /\ ~IdleTask(t)
      BY <1>2, StepRowEffects, StepIsAwake DEF RowEffects, IdleTask
    <2>2. CASE Done(t)
      BY <2>1, <2>2 DEF Done, OneTask, TypeOK
    <2>3. ASSUME NEW r, Moves(t, r) PROVE OneTask(t)
      BY <2>1, <2>3 DEF Moves, OneTask, TypeOK
    <2>4. QED
      BY <1>2, <2>2, <2>3, StepProceeds DEF Proceeds
  <1>3. QED
    BY <1>1, <1>2

\* A sweep starts a task only for the lifespan or the deletion of a tenant, on a
\* row of its list, and under the lock but for the end of a destroy at startup.
Calls(t, op, pc, s) ==
  /\ IdleTask(t)
  /\ task' = [task EXCEPT ![t] = NewTask(op, pc, s, None, (op = "finish") /\ cid[s])]

\* What the loop of the lifespan does to its phase and to its task.
LEMMA LifespanMoves ==
  ASSUME TypeOK, Reaping \/ Starting
  PROVE  /\ deleter' = deleter
         /\ \/ /\ task' = task
               /\ daemon.phase = "down" \/ IdleTask(Daemon)
               /\ daemon'.phase = "finish" => daemon.phase = "down"
               /\ daemon.phase = "down" => daemon'.phase \in {"sleep", "finish"}
               /\ daemon.phase = "finish" => daemon'.phase = "orphans"
               /\ daemon.phase = "orphans" => daemon'.phase \in {"orphans", "sleep"}
               /\ serving => serving'
            \/ /\ serving /\ serving' /\ daemon'.phase = daemon.phase
               /\ \E s \in daemon.todo, op \in ReapOps : Calls(Daemon, op, "lock", s)
            \/ /\ daemon.phase = "finish" /\ daemon'.phase = "finish"
               /\ \E s \in daemon.todo :
                    Calls(Daemon, "finish", IF cid[s] THEN "rm_container" ELSE "rm_volume", s)
  <1> USE DEF Sweep, DaemonAt, serving, Calls, Call, ReapOps
  <1>1. CASE ReaperTick \/ ReaperListExpired \/ ReaperSleep
    BY <1>1 DEF ReaperTick, ReaperListExpired, ReaperSleep
  <1>2. ASSUME NEW s \in Sessions, ReapIdle(s)
        PROVE  /\ deleter' = deleter /\ daemon.phase = "idle" /\ daemon'.phase = "idle"
               /\ s \in daemon.todo /\ IdleTask(Daemon)
               /\ task' = task \/ Calls(Daemon, "reap_stop", "lock", s)
    BY <1>2 DEF ReapIdle
  <1>3. ASSUME NEW s \in Sessions, ReapExpired(s)
        PROVE  /\ deleter' = deleter /\ daemon.phase = "expired" /\ daemon'.phase = "expired"
               /\ s \in daemon.todo
               /\ Calls(Daemon, "reap_destroy", "lock", s)
    BY <1>3 DEF ReapExpired
  <1>4. CASE StartUnhealthy \/ StartReconcile \/ ReconcileListRows \/ StartServing
    BY <1>4 DEF StartUnhealthy, StartReconcile, ReconcileListRows, StartServing
  <1>5. ASSUME NEW s \in Sessions, FinishDestroy(s)
        PROVE  /\ deleter' = deleter /\ daemon.phase = "finish" /\ daemon'.phase = "finish"
               /\ s \in daemon.todo
               /\ Calls(Daemon, "finish", IF cid[s] THEN "rm_container" ELSE "rm_volume", s)
    BY <1>5 DEF FinishDestroy
  <1>6. ASSUME NEW s \in Sessions, MarkOrphan(s)
        PROVE  /\ deleter' = deleter /\ daemon.phase = "orphans" /\ daemon'.phase = "orphans"
               /\ task' = task /\ IdleTask(Daemon)
    BY <1>6 DEF MarkOrphan
  <1>7. QED
    BY <1>1, <1>2, <1>3, <1>4, <1>5, <1>6 DEF Reaping, Starting

\* A new task is at work and has the operation it was called with.
LEMMA NewTaskParts ==
  ASSUME NEW op, NEW pc, NEW s, NEW tn, NEW c
  PROVE  /\ NewTask(op, pc, s, tn, c).op = op /\ NewTask(op, pc, s, tn, c).pc = pc
         /\ NewTask(op, pc, s, tn, c).on = s /\ NewTask(op, pc, s, tn, c).cid = c
         /\ NewTask(op, pc, s, tn, c).tn = tn
  BY DEF NewTask

\* There is no work in no task.
LEMMA NoTaskParts ==
  NoTask.op = "none" /\ NoTask.pc = "idle" /\ NoTask.on = None
  BY DEF NoTask, NewTask

\* Only reconciliation works while the control plane starts.
LEMMA QuietInductive ==
  ASSUME TypeOK, WorksOnSession, QuietInv, [Next]_vars
  PROVE  QuietInv'
  <1>t. /\ Tasks = Requests \cup {Daemon, Deleter} /\ Daemon \notin Requests
        /\ Deleter \notin Requests /\ Daemon # Deleter
    BY LifecycleAssumption DEF Tasks
  <1> USE DEF QuietInv, IdleTask, serving
  <1>1. ASSUME NEW t \in Requests, Arrive(t) PROVE QuietInv'
    <2>1. /\ serving /\ daemon' = daemon /\ deleter' = deleter
      BY <1>1 DEF Arrive, BeginCreate, BeginLifecycle, BeginUse, Begin, sweepVars
    <2>2. \E r : task' = [task EXCEPT ![t] = r] /\ r.pc # "idle" /\ r.op # "none"
      <3>1. ASSUME NEW op \in {"create", "stop", "resume", "destroy"} \cup UseOps,
                   NEW pc \in {"count", "lock", "look"}, NEW x, NEW tn,
                   Begin(t, op, pc, x, tn)
            PROVE  \E r : task' = [task EXCEPT ![t] = r] /\ r.pc # "idle" /\ r.op # "none"
        <4>1. task' = [task EXCEPT ![t] = NewTask(op, pc, x, tn, FALSE)]
          BY <3>1 DEF Begin
        <4>2. op # "none" /\ pc # "idle"
          BY DEF UseOps
        <4>3. NewTask(op, pc, x, tn, FALSE).op = op /\ NewTask(op, pc, x, tn, FALSE).pc = pc
          BY DEF NewTask
        <4>4. QED
          BY <4>1, <4>2, <4>3
      <3>2. QED
        BY <1>1, <3>1 DEF Arrive, BeginCreate, BeginLifecycle, BeginUse
    <2>3. \A u \in Tasks \ {t} : task'[u] = task[u]
      BY <2>2 DEF TypeOK
    <2>4. task'[t].pc # "idle" /\ task'[t].op # "none"
      BY <2>2, <1>t DEF TypeOK
    <2>5. QED
      BY <2>1, <2>3, <2>4, <1>t
  <1>2. ASSUME NEW t \in Tasks, Acquire(t) \/ Step(t) PROVE QuietInv'
    <2>1. OneTask(t)
      BY <1>2, TaskActs
    <2>2. QED
      BY <2>1, <1>t, NoTaskParts DEF OneTask
  <1>3. CASE Reaping \/ Starting
    <2>1. CASE task' = task /\ (daemon.phase = "down" \/ IdleTask(Daemon))
      BY <1>3, <2>1, <1>t, LifespanMoves, NoTaskParts DEF Calls
    <2>2. ASSUME NEW op, NEW pc, NEW s, Calls(Daemon, op, pc, s), pc # "idle"
          PROVE  /\ \A u \in Tasks \ {Daemon} : task'[u] = task[u]
                 /\ task'[Daemon].op = op /\ task'[Daemon].pc # "idle"
      BY <2>2, <1>t, NewTaskParts DEF Calls, TypeOK
    <2>3. ASSUME serving, serving', deleter' = deleter,
                 NEW s \in daemon.todo, NEW op \in ReapOps, Calls(Daemon, op, "lock", s)
          PROVE  QuietInv'
      BY <2>2, <2>3, <1>t DEF ReapOps
    <2>4. ASSUME daemon.phase = "finish", daemon'.phase = "finish", deleter' = deleter,
                 NEW s \in daemon.todo,
                 Calls(Daemon, "finish", IF cid[s] THEN "rm_container" ELSE "rm_volume", s)
          PROVE  QuietInv'
      BY <2>2, <2>4, <1>t
    <2>5. QED
      BY <1>3, <2>1, <2>3, <2>4, LifespanMoves
  <1>4. ASSUME Purging \/ \E tn \in Tenants : RevokeTenant(tn) PROVE QuietInv'
    <2>1. daemon' = daemon /\ serving
      BY <1>4 DEF Purging, PurgeList, PurgeEnd, PurgeSession, RevokeTenant
    <2>2. task' = task \/ \E s \in Sessions : Calls(Deleter, "reap_destroy", "lock", s)
      BY <1>4 DEF Purging, PurgeList, PurgeEnd, PurgeSession, RevokeTenant, Calls, Call
    <2>3. /\ \A u \in Tasks \ {Deleter} : task'[u] = task[u]
          /\ \/ task'[Deleter].pc # "idle" /\ task'[Deleter].op # "none"
             \/ task'[Deleter] = task[Deleter]
      BY <2>2, <1>t, NewTaskParts DEF Calls, TypeOK
    <2>4. QED
      BY <2>1, <2>3, <1>t
  <1>5. CASE Crash
    <2>1. /\ \A u \in Tasks : task'[u] = NoTask
          /\ deleter'.phase = "sleep" /\ daemon'.phase = "down"
      BY <1>5 DEF Crash, Sweep, Purge
    <2>2. QED
      BY <2>1, <1>t, NoTaskParts
  <1>6. CASE \E s \in Sessions : GrowIdle(s) \/ Expire(s) \/ LoseContainer(s)
    BY <1>6 DEF GrowIdle, Expire, LoseContainer, sweepVars
  <1>7. CASE UNCHANGED vars
    BY <1>7 DEF vars
  <1>8. QED
    BY <1>1, <1>2, <1>3, <1>4, <1>5, <1>6, <1>7 DEF Next

\* Startup is quiet in every reachable state.
LEMMA StartupIsQuiet == Spec => []QuietInv
  <1>1. Init => QuietInv
    BY NoTaskParts DEF Init, QuietInv, IdleTask, serving, Tasks
  <1>2. QED
    BY <1>1, QuietInductive, TypeCorrect, PTL DEF Spec

\* The reconciliation is removing what a destroy has left of the session, and
\* nothing keeps it from the row.
Finishing(s) ==
  LET x == task[Daemon] IN
  /\ x.op = "finish" /\ x.on = s
  /\ x.pc = "rm_volume" => container[s] = "none"

\* The row is of no use without its container.
Ghost(s) ==
  status[s] \in {"CREATING", "RUNNING", "IDLE"} /\ ~(cid[s] /\ container[s] # "none")

\* What is still wrong is still on the list, or in the daemon's hands.
HealInv ==
  /\ task[Daemon].op = "finish" =>
       \/ task[Daemon].pc \in {"rm_container", "rm_volume"}
       \/ task[Daemon].pc \in {"select", "update"} /\ task[Daemon].to = "DESTROYED"
  /\ daemon.phase = "finish" =>
       \A s \in Sessions : status[s] = "DESTROYING" /\ cid[s] =>
                             s \in daemon.todo \/ Finishing(s)
  /\ daemon.phase = "orphans" =>
       \A s \in Sessions : /\ status[s] = "DESTROYING" => ~cid[s]
                           /\ Ghost(s) => s \in daemon.todo

\* A step of the daemon that finishes a destroy.
LEMMA FinishStep ==
  ASSUME TypeOK, WorksOnSession, HealInv, ~DockerFails, Step(Daemon), task[Daemon].op = "finish"
  PROVE  /\ cid' = cid
         /\ \A s \in Sessions : status'[s] # status[s] => status'[s] = "DESTROYED"
         /\ \/ /\ task'[Daemon].op = "none"
               /\ status'[task[Daemon].on] # "DESTROYING"
                    \/ (task[Daemon].pc = "rm_volume" /\ container[task[Daemon].on] # "none")
            \/ /\ task'[Daemon].op = "finish" /\ task'[Daemon].on = task[Daemon].on
               /\ \/ task'[Daemon].pc = "rm_volume" /\ container'[task[Daemon].on] = "none"
                  \/ task'[Daemon].pc \in {"select", "update"} /\ task'[Daemon].to = "DESTROYED"
  <1> DEFINE d == task[Daemon]
  <1>t. /\ Daemon \in Tasks /\ d \in TaskRecord
        /\ d.pc \in {"rm_container", "rm_volume", "select", "update"}
        /\ d.pc \in {"select", "update"} => d.to = "DESTROYED"
    BY DEF TypeOK, HealInv, Tasks
  <1>s. d.on \in Sessions
    BY <1>t DEF WorksOnSession
  <1>a. ASSUME Aim(Daemon, "DESTROYED")
        PROVE  /\ task'[Daemon].op = "finish" /\ task'[Daemon].on = d.on
               /\ task'[Daemon].pc = "select" /\ task'[Daemon].to = "DESTROYED"
    <2>1. task'[Daemon] = [d EXCEPT !.pc = "select", !.to = "DESTROYED"]
      BY <1>a, <1>t DEF Aim, TypeOK
    <2>2. QED
      BY <2>1, <1>t DEF TaskRecord
  <1>g. ASSUME NEW pc, Goto(Daemon, pc)
        PROVE  /\ task'[Daemon].op = "finish" /\ task'[Daemon].on = d.on
               /\ task'[Daemon].pc = pc /\ task'[Daemon].to = d.to
    <2>1. task'[Daemon] = [d EXCEPT !.pc = pc]
      BY <1>g, <1>t DEF Goto, TypeOK
    <2>2. QED
      BY <2>1, <1>t DEF TaskRecord
  <1>d. Done(Daemon) => task'[Daemon].op = "none"
    BY <1>t, NoTaskParts DEF Done, TypeOK
  <1>r. Raise(Daemon) => Done(Daemon)
    BY DEF Raise
  <1>1. CASE RemoveContainer(Daemon)
    <2>1. /\ container' = [container EXCEPT ![d.on] = "none"] /\ Goto(Daemon, "rm_volume")
          /\ status' = status /\ cid' = cid
      BY <1>1 DEF RemoveContainer, rowVars
    <2>2. container'[d.on] = "none"
      BY <2>1, <1>s DEF TypeOK
    <2>3. QED
      BY <2>1, <2>2, <1>a, <1>g, <1>d
  <1>2. CASE RemoveVolume(Daemon)
    <2>1. /\ status' = status /\ cid' = cid /\ d.pc = "rm_volume"
          /\ \/ Aim(Daemon, "DESTROYED")
             \/ container[d.on] # "none" /\ Done(Daemon)
      BY <1>2, <1>r DEF RemoveVolume, rowVars
    <2>2. QED
      BY <2>1, <1>a, <1>g, <1>d
  <1>3. CASE Select(Daemon)
    <2>1. status' = status /\ cid' = cid /\ d.to = "DESTROYED"
      BY <1>3, <1>t DEF Select, rowVars
    <2>2. CASE Goto(Daemon, "update")
      BY <2>1, <2>2, <1>a, <1>g, <1>d
    <2>3. CASE ~Goto(Daemon, "update")
      <3>1. ~Allowed(status[d.on], "DESTROYED") /\ Done(Daemon)
        BY <1>3, <2>1, <2>3 DEF Select
      <3>2. status[d.on] # "DESTROYING"
        BY <3>1 DEF Allowed, TRANSITIONS, Statuses
      <3>3. QED
        BY <2>1, <3>1, <3>2, <1>a, <1>g, <1>d
    <2>4. QED
      BY <2>2, <2>3
  <1>4. CASE Update(Daemon)
    <2>1. /\ status' = [status EXCEPT ![d.on] = "DESTROYED"] /\ cid' = cid
      BY <1>4, <1>t DEF Update
    <2>2. Done(Daemon)
      BY <1>4 DEF Update, Continue, UseOps
    <2>3. status'[d.on] = "DESTROYED" /\ \A s \in Sessions \ {d.on} : status'[s] = status[s]
      BY <2>1, <1>s DEF TypeOK
    <2>4. QED
      BY <2>1, <2>2, <2>3, <1>a, <1>g, <1>d
  <1>5. QED
    BY <1>1, <1>2, <1>3, <1>4, <1>t DEF Step, CountConcurrent, Insert, CreateVolume,
       CreateContainer, SetContainer, Rollback, CreateGet, Read, StopContainer, StartContainer,
       Look, Relook, ExecStart, ExecEnd, TouchActivity

\* Reconciliation loses nothing that is wrong from sight.
LEMMA HealInductive ==
  ASSUME TypeOK, WorksOnSession, QuietInv, HealInv, ~DockerFails, [Next]_vars
  PROVE  HealInv'
  <1>t. /\ Tasks = Requests \cup {Daemon, Deleter} /\ Daemon \notin Requests /\ Daemon # Deleter
    BY LifecycleAssumption DEF Tasks
  <1>v. ASSUME task'[Daemon].op # "finish", daemon'.phase \notin {"finish", "orphans"}
        PROVE  HealInv'
    BY <1>v DEF HealInv
  <1>n. \A t \in Tasks : IdleTask(t) => task[t].op = "none"
    BY NoTaskParts DEF QuietInv
  <1>1. CASE serving /\ serving' /\ task'[Daemon].op # "finish"
    BY <1>1, <1>v DEF serving
  <1>f. serving => task[Daemon].op # "finish"
    BY DEF QuietInv, serving
  <1>2. ASSUME NEW t \in Requests, Arrive(t) PROVE HealInv'
    <2>1. /\ serving /\ daemon' = daemon
      BY <1>2 DEF Arrive, BeginCreate, BeginLifecycle, BeginUse, Begin, sweepVars
    <2>2. task'[Daemon] = task[Daemon]
      BY <1>2, <1>t, ArriveStarts DEF Starts, TypeOK
    <2>3. QED
      BY <2>1, <2>2, <1>1, <1>f DEF serving
  <1>3. ASSUME NEW t \in Tasks, Acquire(t) \/ Step(t) PROVE HealInv'
    <2>1. OneTask(t)
      BY <1>3, TaskActs
    <2>2. CASE serving
      <3>1. task'[Daemon].op # "finish"
        BY <2>1, <2>2, <1>f, <1>t, NoTaskParts DEF OneTask
      <3>2. serving'
        BY <2>1, <2>2 DEF OneTask, serving
      <3>3. QED
        BY <2>2, <3>1, <3>2, <1>1
    <2>3. CASE ~serving
      <3>1. t = Daemon /\ daemon.phase = "finish" /\ task[Daemon].op = "finish"
        <4>1. t = Daemon
          BY <2>1, <2>3, <1>t DEF OneTask, QuietInv
        <4>2. daemon.phase = "finish"
          BY <2>1, <2>3, <4>1 DEF OneTask, QuietInv, serving, TypeOK
        <4>3. task[Daemon].op # "none"
          BY <2>1, <4>1 DEF OneTask, QuietInv
        <4>4. QED
          BY <4>1, <4>2, <4>3 DEF QuietInv
      <3>2. Step(Daemon)
        BY <1>3, <3>1 DEF Acquire, HealInv
      <3>3. daemon' = daemon /\ Daemon \in Tasks
        BY <2>1, <1>t DEF OneTask
      <3>4. ASSUME NEW s \in Sessions, status'[s] = "DESTROYING", cid'[s]
            PROVE  s \in daemon'.todo \/ Finishing(s)'
        <4>1. status[s] = "DESTROYING" /\ cid[s]
          BY <3>1, <3>2, <3>4, FinishStep
        <4>2. s \in daemon.todo \/ Finishing(s)
          BY <3>1, <4>1 DEF HealInv
        <4>3. QED
          BY <3>1, <3>2, <3>3, <3>4, <4>2, FinishStep DEF Finishing
      <3>5. QED
        BY <3>1, <3>2, <3>3, <3>4, FinishStep DEF HealInv
    <2>4. QED
      BY <2>2, <2>3
  <1>4. CASE Reaping
    <2>1. serving /\ serving'
      BY <1>4 DEF Reaping, ReaperTick, ReaperListExpired, ReaperSleep, ReapIdle, ReapExpired,
         Sweep, DaemonAt, serving
    <2>2. \/ task' = task
          \/ \E s \in daemon.todo, op \in ReapOps : Calls(Daemon, op, "lock", s)
      <3>1. daemon.phase # "finish"
        BY <2>1 DEF serving
      <3>2. QED
        BY <1>4, <3>1, LifespanMoves
    <2>3. task'[Daemon].op # "finish"
      BY <2>1, <2>2, <1>f, <1>t, NewTaskParts DEF Calls, TypeOK, ReapOps
    <2>4. QED
      BY <1>1, <2>1, <2>3
  <1>5. CASE Purging \/ \E tn \in Tenants : RevokeTenant(tn)
    <2>1. daemon' = daemon /\ serving
      BY <1>5 DEF Purging, PurgeList, PurgeEnd, PurgeSession, RevokeTenant, QuietInv
    <2>2. task'[Daemon] = task[Daemon]
      BY <1>5, <1>t DEF Purging, PurgeList, PurgeEnd, PurgeSession, RevokeTenant, Call, TypeOK
    <2>3. QED
      BY <2>1, <2>2, <1>1, <1>f DEF serving
  <1>6. CASE StartUnhealthy \/ StartServing
    <2>1. task' = task /\ daemon'.phase = "sleep" /\ task[Daemon].op # "finish"
      BY <1>6 DEF StartUnhealthy, StartServing, Sweep, DaemonAt, QuietInv
    <2>2. QED
      BY <2>1, <1>v
  <1>7. CASE StartReconcile
    <2>1. /\ task' = task /\ daemon' = [phase |-> "finish", todo |-> {s \in Sessions : status[s] = "DESTROYING"}]
          /\ status' = status /\ cid' = cid /\ container' = container
          /\ task[Daemon].op # "finish"
      BY <1>7 DEF StartReconcile, Sweep, QuietInv, rowVars, dockerVars
    <2>2. QED
      BY <2>1 DEF HealInv
  <1>8. ASSUME NEW s \in Sessions, FinishDestroy(s) PROVE HealInv'
    <2> DEFINE pc == IF cid[s] THEN "rm_container" ELSE "rm_volume"
    <2>1. /\ daemon.phase = "finish" /\ IdleTask(Daemon)
          /\ daemon' = [phase |-> "finish", todo |-> daemon.todo \ {s}]
          /\ status' = status /\ cid' = cid /\ container' = container
          /\ task' = [task EXCEPT ![Daemon] = NewTask("finish", pc, s, None, ("finish" = "finish") /\ cid[s])]
      BY <1>8 DEF FinishDestroy, Sweep, DaemonAt, Call, rowVars, dockerVars
    <2>2. task'[Daemon].op = "finish" /\ task'[Daemon].on = s /\ task'[Daemon].pc = pc
      BY <2>1, <1>t, NewTaskParts DEF TypeOK
    <2>3. task[Daemon].op = "none"
      BY <2>1, <1>n, <1>t
    <2>4. ASSUME NEW x \in Sessions, status[x] = "DESTROYING", cid[x]
          PROVE  x \in daemon'.todo \/ Finishing(x)'
      <3>1. x \in daemon.todo
        BY <2>1, <2>3, <2>4 DEF HealInv, Finishing
      <3>2. QED
        BY <2>1, <2>2, <2>4, <3>1 DEF Finishing
    <2>5. QED
      BY <2>1, <2>2, <2>4 DEF HealInv
  <1>9. CASE ReconcileListRows
    <2>1. /\ daemon.phase = "finish" /\ IdleTask(Daemon) /\ daemon.todo = {}
          /\ daemon' = [phase |-> "orphans", todo |-> {s \in Sessions : status[s] \in Statuses \ Terminal}]
          /\ task' = task /\ status' = status /\ cid' = cid /\ container' = container
      BY <1>9 DEF ReconcileListRows, Sweep, DaemonAt, rowVars, dockerVars
    <2>2. task[Daemon].op = "none"
      BY <2>1, <1>n, <1>t
    <2>3. ASSUME NEW s \in Sessions
          PROVE  /\ status[s] = "DESTROYING" => ~cid[s]
                 /\ Ghost(s) => s \in daemon'.todo
      BY <2>1, <2>2 DEF HealInv, Finishing, Ghost, Statuses, Terminal
    <2>4. QED
      BY <2>1, <2>2, <2>3 DEF HealInv, Ghost
  <1>10. ASSUME NEW s \in Sessions, MarkOrphan(s) PROVE HealInv'
    <2>1. /\ daemon.phase = "orphans" /\ IdleTask(Daemon)
          /\ daemon' = [phase |-> "orphans", todo |-> daemon.todo \ {s}]
          /\ task' = task /\ cid' = cid /\ container' = container
      BY <1>10 DEF MarkOrphan, Sweep, DaemonAt, dockerVars
    <2>2. \/ status' = [status EXCEPT ![s] = "STOPPED"]
          \/ status' = status /\ ~Ghost(s)
      BY <1>10 DEF MarkOrphan, Ghost, Terminal
    <2>3. task[Daemon].op = "none"
      BY <2>1, <1>n, <1>t
    <2>4. ASSUME NEW x \in Sessions
          PROVE  /\ status'[x] = "DESTROYING" => ~cid[x]
                 /\ Ghost(x)' => x \in daemon'.todo
      BY <2>1, <2>2 DEF HealInv, Ghost, TypeOK
    <2>5. QED
      BY <2>1, <2>3, <2>4 DEF HealInv
  <1>11. CASE Crash
    <2>1. task'[Daemon] = NoTask /\ daemon'.phase = "down"
      BY <1>11, <1>t DEF Crash, Sweep
    <2>2. QED
      BY <2>1, <1>v, NoTaskParts
  <1>12. ASSUME NEW s \in Sessions, LoseContainer(s) PROVE HealInv'
    <2>1. daemon.phase = "down" /\ daemon' = daemon /\ task' = task
      BY <1>12 DEF LoseContainer, sweepVars
    <2>2. task[Daemon].op # "finish"
      BY <2>1 DEF QuietInv
    <2>3. QED
      BY <2>1, <2>2, <1>v
  <1>13. CASE \/ \E s \in Sessions : GrowIdle(s) \/ Expire(s)
              \/ UNCHANGED vars
    <2>1. UNCHANGED <<status, cid, container, task, daemon>>
      BY <1>13 DEF GrowIdle, Expire, vars, rowVars, dockerVars, sweepVars
    <2>2. QED
      BY <2>1 DEF HealInv, Finishing, Ghost
  <1>14. QED
    BY <1>2, <1>3, <1>4, <1>5, <1>6, <1>7, <1>8, <1>9, <1>10, <1>11, <1>12, <1>13
       DEF Next, Starting

\* As long as Docker answers, reconciliation heals what a crash has left,
\* wherever it struck: afterwards no row is RUNNING, IDLE or CREATING without its
\* container, and no destroy whose container the registry knew is unfinished.
THEOREM ReconcileLeavesNoGhosts ==
  ASSUME ~DockerFails
  PROVE  Spec => ReconcileHeals
  <1>1. Init => HealInv
    BY NoTaskParts DEF Init, HealInv, Tasks
  <1>2. ASSUME HealInv, TypeOK, [Next]_vars
        PROVE  [daemon.phase = "orphans" /\ daemon'.phase = "sleep" =>
                  \A s \in Sessions :
                    /\ status[s] \in {"CREATING", "RUNNING", "IDLE"} => cid[s] /\ container[s] # "none"
                    /\ status[s] = "DESTROYING" => ~cid[s]]_vars
    <2> SUFFICES ASSUME daemon.phase = "orphans", daemon'.phase = "sleep"
                 PROVE  daemon.todo = {}
      BY <1>2 DEF HealInv, Ghost
    <2>1. daemon' # daemon
      OBVIOUS
    <2>2. StartServing
      <3>1. ~\E t \in Requests : Arrive(t)
        BY <2>1 DEF Arrive, BeginCreate, BeginLifecycle, BeginUse, Begin, sweepVars
      <3>2. ~\E t \in Tasks : Acquire(t) \/ Step(t)
        BY <2>1, StepRowEffects DEF RowEffects, Acquire, sweepVars
      <3>3. ~Reaping
        BY DEF Reaping, ReaperTick, ReaperListExpired, ReaperSleep, ReapIdle, ReapExpired, DaemonAt
      <3>4. ~Purging /\ ~\E tn \in Tenants : RevokeTenant(tn)
        BY <2>1 DEF Purging, PurgeList, PurgeEnd, PurgeSession, RevokeTenant
      <3>5. ~Crash
        BY DEF Crash, Sweep
      <3>6. ~\E s \in Sessions : GrowIdle(s) \/ Expire(s) \/ LoseContainer(s)
        BY <2>1 DEF GrowIdle, Expire, LoseContainer, sweepVars
      <3>7. Starting
        BY <1>2, <2>1, <3>1, <3>2, <3>3, <3>4, <3>5, <3>6 DEF Next, vars
      <3>8. QED
        BY <3>7 DEF Starting, StartUnhealthy, StartReconcile, ReconcileListRows, FinishDestroy,
                    MarkOrphan, DaemonAt, Sweep
    <2>3. QED
      BY <2>2 DEF StartServing
  <1>3. QED
    BY <1>1, <1>2, HealInductive, TypeCorrect, StartupIsQuiet, PTL DEF Spec, ReconcileHeals

-----------------------------------------------------------------------------
(* The steps of each operation *)

\* Where a task that runs an operation can be, and the status that it is moving
\* its row to when it is in Registry.transition.
Shape(x) ==
  \/ x.op = "none" /\ x.pc = "idle"
  \/ x.op = "create" /\ \/ x.pc \in {"count", "insert", "mk_volume", "mk_container",
                                     "set_container", "start", "rollback", "get"}
                        \/ /\ x.pc \in {"select", "update"}
                           /\ x.to \in {"RUNNING", "DESTROYING", "DESTROYED"}
  \/ x.op \in {"stop", "reap_stop"} /\ \/ x.pc \in {"lock", "read", "stop"}
                                       \/ x.pc \in {"select", "update"} /\ x.to = "STOPPED"
  \/ x.op = "resume" /\ \/ x.pc \in {"lock", "read", "start"}
                        \/ x.pc \in {"select", "update"} /\ x.to = "RUNNING"
  \/ x.op \in {"destroy", "reap_destroy"} /\
       \/ x.pc \in {"lock", "read", "rm_container", "rm_volume"}
       \/ x.pc \in {"select", "update"} /\ x.to \in {"DESTROYING", "DESTROYED"}
  \/ x.op = "finish" /\ \/ x.pc \in {"rm_container", "rm_volume"}
                        \/ x.pc \in {"select", "update"} /\ x.to = "DESTROYED"
  \/ x.op \in UseOps /\ \/ x.pc \in {"look", "start", "relook", "exec", "executing", "touch"}
                        \/ x.pc \in {"select", "update"} /\ x.to = "RUNNING"

ShapeInv == \A t \in Tasks : Shape(task[t])

\* What Goto leaves of a task.
LEMMA GotoParts ==
  ASSUME TypeOK, NEW t \in Tasks, NEW pc, Goto(t, pc)
  PROVE  /\ task'[t].op = task[t].op /\ task'[t].on = task[t].on /\ task'[t].tn = task[t].tn
         /\ task'[t].cid = task[t].cid /\ task'[t].to = task[t].to /\ task'[t].pc = pc
  <1>1. task'[t] = [task[t] EXCEPT !.pc = pc]
    BY DEF Goto, TypeOK
  <1>2. QED
    BY <1>1 DEF TypeOK, TaskRecord

\* What Aim leaves of a task.
LEMMA AimParts ==
  ASSUME TypeOK, NEW t \in Tasks, NEW to, Aim(t, to)
  PROVE  /\ task'[t].op = task[t].op /\ task'[t].on = task[t].on /\ task'[t].tn = task[t].tn
         /\ task'[t].cid = task[t].cid /\ task'[t].to = to /\ task'[t].pc = "select"
  <1>1. task'[t] = [task[t] EXCEPT !.pc = "select", !.to = to]
    BY DEF Aim, TypeOK
  <1>2. QED
    BY <1>1 DEF TypeOK, TaskRecord

\* A task that is done is no task.
LEMMA DoneParts ==
  ASSUME TypeOK, NEW t \in Tasks, Done(t)
  PROVE  /\ task'[t].op = "none" /\ task'[t].pc = "idle" /\ task'[t].on = None
  BY NoTaskParts DEF Done, TypeOK

\* Read puts the row's container_id into the task and picks the next step.
LEMMA ReadParts ==
  ASSUME TypeOK, WorksOnSession, NEW t \in Tasks, Read(t)
  PROVE  \/ Done(t)
         \/ /\ task'[t].op = task[t].op /\ task'[t].on = task[t].on
            /\ task'[t].cid = cid[task[t].on]
            /\ \/ task[t].op \in {"stop", "reap_stop"} /\ task'[t].pc = "stop"
               \/ task[t].op = "resume" /\ task'[t].pc = "start"
               \/ /\ task[t].op \in {"destroy", "reap_destroy"}
                  /\ task'[t].pc = "select" /\ task'[t].to = "DESTROYING"
  <1>1. /\ \E r : task' = [task EXCEPT ![t] = r] /\ task'[t] = r
        /\ task[t] \in TaskRecord
    BY DEF Read, Done, TypeOK
  <1> DEFINE c == cid[task[t].on]
  <1>2. CASE /\ task[t].op \in {"stop", "reap_stop"}
             /\ task' = [task EXCEPT ![t] = [task[t] EXCEPT !.pc = "stop", !.cid = c]]
    <2>1. task'[t] = [task[t] EXCEPT !.pc = "stop", !.cid = c]
      BY <1>2 DEF TypeOK
    <2>2. QED
      BY <2>1, <1>1, <1>2 DEF TaskRecord
  <1>3. CASE /\ task[t].op = "resume"
             /\ task' = [task EXCEPT ![t] = [task[t] EXCEPT !.pc = "start", !.cid = c]]
    <2>1. task'[t] = [task[t] EXCEPT !.pc = "start", !.cid = c]
      BY <1>3 DEF TypeOK
    <2>2. QED
      BY <2>1, <1>1, <1>3 DEF TaskRecord
  <1>4. CASE /\ task[t].op \in {"destroy", "reap_destroy"}
             /\ task' = [task EXCEPT ![t] = [task[t] EXCEPT !.pc = "select", !.to = "DESTROYING",
                                                            !.cid = c]]
    <2>1. task'[t] = [task[t] EXCEPT !.pc = "select", !.to = "DESTROYING", !.cid = c]
      BY <1>4 DEF TypeOK
    <2>2. QED
      BY <2>1, <1>1, <1>4 DEF TaskRecord
  <1>5. QED
    BY <1>2, <1>3, <1>4 DEF Read

\* SetContainer goes on to the start with the container's id.
LEMMA SetContainerParts ==
  ASSUME TypeOK, NEW t \in Tasks, SetContainer(t)
  PROVE  /\ task'[t].op = task[t].op /\ task'[t].on = task[t].on /\ task'[t].pc = "start"
  <1>1. task'[t] = [task[t] EXCEPT !.pc = "start", !.cid = TRUE]
    BY DEF SetContainer, TypeOK
  <1>2. QED
    BY <1>1 DEF TypeOK, TaskRecord

\* Every step of a task is a step of its operation.
LEMMA StepShape ==
  ASSUME TypeOK, WorksOnSession, NEW t \in Tasks, Shape(task[t]), Step(t)
  PROVE  Shape(task'[t])
  <1> USE DEF Shape, UseOps
  <1>d. Done(t) => Shape(task'[t])
    BY DoneParts
  <1>r. Raise(t) => Shape(task'[t])
    BY <1>d, GotoParts, AimParts DEF Raise
  <1>1. CASE Select(t)
    BY <1>1, <1>d, GotoParts DEF Select
  <1>2. CASE Update(t)
    BY <1>2, <1>d, GotoParts, AimParts DEF Update, Continue
  <1>3. CASE CountConcurrent(t) \/ Insert(t)
    BY <1>3, <1>d, GotoParts DEF CountConcurrent, Insert
  <1>4. CASE CreateVolume(t) \/ CreateContainer(t)
    BY <1>4, <1>r, GotoParts DEF CreateVolume, CreateContainer
  <1>5. CASE SetContainer(t)
    BY <1>5, SetContainerParts DEF SetContainer
  <1>6. CASE Rollback(t) \/ CreateGet(t)
    BY <1>6, <1>d, AimParts DEF Rollback, CreateGet
  <1>7. CASE Read(t)
    BY <1>7, <1>d, ReadParts DEF Read
  <1>8. CASE StopContainer(t) \/ StartContainer(t)
    BY <1>8, <1>r, AimParts DEF StopContainer, StartContainer
  <1>9. CASE RemoveContainer(t) \/ RemoveVolume(t)
    BY <1>9, <1>r, GotoParts, AimParts DEF RemoveContainer, RemoveVolume
  <1>10. CASE Look(t) \/ Relook(t)
    BY <1>10, <1>d, GotoParts DEF Look, Relook, Command
  <1>11. CASE ExecStart(t) \/ ExecEnd(t) \/ TouchActivity(t)
    BY <1>11, <1>d, GotoParts DEF ExecStart, ExecEnd, TouchActivity
  <1>12. QED
    BY <1>1, <1>2, <1>3, <1>4, <1>5, <1>6, <1>7, <1>8, <1>9, <1>10, <1>11 DEF Step

\* The request that arrives is a create of a session id that is nobody's, or an
\* operation on a session that its client was told of.
LEMMA ArriveParts ==
  ASSUME TypeOK, NEW t \in Requests, Arrive(t)
  PROVE  /\ t \in Tasks /\ IdleTask(t)
         /\ serving /\ daemon' = daemon /\ deleter' = deleter
         /\ status' = status /\ cid' = cid /\ owner' = owner /\ expired' = expired
         /\ volume' = volume /\ container' = container /\ known' = known /\ lock' = lock
         /\ \A u \in Tasks \ {t} : task'[u] = task[u]
         /\ task'[t].on \in Sessions /\ task'[t].op \in Ops
         /\ \/ /\ task'[t].op = "create" /\ task'[t].pc = "count"
               /\ status[task'[t].on] = "absent"
               /\ \A u \in Tasks : task[u].on # task'[t].on
            \/ /\ task'[t].op \in {"stop", "resume", "destroy"} /\ task'[t].pc = "lock"
               /\ task'[t].on \in known
            \/ /\ task'[t].op \in UseOps /\ task'[t].pc = "look"
               /\ task'[t].on \in known
  <1>1. PICK s \in Sessions, tn \in Tenants, op \in Ops, pc \in PCs :
               /\ Begin(t, op, pc, s, tn)
               /\ \/ pc = "lock" /\ op \in {"stop", "resume", "destroy"} /\ s \in known
                  \/ pc = "look" /\ op \in UseOps /\ s \in known
                  \/ /\ pc = "count" /\ op = "create" /\ status[s] = "absent"
                     /\ \A u \in Tasks : task[u].on # s
    BY DEF Arrive, BeginCreate, BeginLifecycle, BeginUse, Begin, PCs
  <1>2. t \in Tasks
    BY DEF Tasks
  <1>3. task'[t] = NewTask(op, pc, s, tn, FALSE) /\ \A u \in Tasks \ {t} : task'[u] = task[u]
    BY <1>1, <1>2 DEF Begin, TypeOK
  <1>4. task'[t].op = op /\ task'[t].pc = pc /\ task'[t].on = s
    BY <1>3 DEF NewTask
  <1>5. /\ serving /\ daemon' = daemon /\ deleter' = deleter /\ IdleTask(t)
        /\ status' = status /\ cid' = cid /\ owner' = owner /\ expired' = expired
        /\ volume' = volume /\ container' = container /\ known' = known /\ lock' = lock
    BY <1>1 DEF Begin, rowVars, clockVars, dockerVars, sweepVars
  <1>6. QED
    BY <1>1, <1>2, <1>3, <1>4, <1>5

\* Acquire takes the lock and goes on to read the row.
LEMMA AcquireParts ==
  ASSUME TypeOK, NEW t \in Tasks, Acquire(t)
  PROVE  /\ task[t].pc = "lock" /\ task'[t].pc = "read"
         /\ task'[t].op = task[t].op /\ task'[t].on = task[t].on
         /\ \A u \in Tasks \ {t} : task'[u] = task[u]
         /\ status' = status /\ cid' = cid /\ owner' = owner /\ expired' = expired
         /\ volume' = volume /\ container' = container /\ known' = known
         /\ daemon' = daemon /\ deleter' = deleter
  <1>1. task'[t] = [task[t] EXCEPT !.pc = "read"] /\ \A u \in Tasks \ {t} : task'[u] = task[u]
    BY DEF Acquire, TypeOK
  <1>2. task'[t].pc = "read" /\ task'[t].op = task[t].op /\ task'[t].on = task[t].on
    BY <1>1 DEF TypeOK, TaskRecord
  <1>3. QED
    BY <1>1, <1>2 DEF Acquire, rowVars, clockVars, dockerVars, sweepVars

\* What starts a task of a sweep, in terms of the task.
LEMMA CallParts ==
  ASSUME TypeOK, NEW t \in Tasks, NEW op, NEW pc, NEW s, Calls(t, op, pc, s)
  PROVE  /\ task'[t].op = op /\ task'[t].pc = pc /\ task'[t].on = s
         /\ \A u \in Tasks \ {t} : task'[u] = task[u]
  BY NewTaskParts DEF Calls, TypeOK

\* The deletion of a tenant leaves the lifespan alone and starts reaps.
LEMMA PurgeMoves ==
  ASSUME TypeOK, Purging \/ \E tn \in Tenants : RevokeTenant(tn)
  PROVE  /\ serving' = serving /\ daemon' = daemon
         /\ deleter.phase # "sleep" \/ "delete_tenant" \in Ops
         /\ task' = task \/ \E s \in deleter.todo : Calls(Deleter, "reap_destroy", "lock", s)
  BY DEF Purging, PurgeList, PurgeEnd, PurgeSession, RevokeTenant, Calls, Call, serving

\* Every task is at a step of its operation, in every reachable state.
LEMMA ShapesInvariant == Spec => []ShapeInv
  <1>1. Init => ShapeInv
    BY NoTaskParts DEF Init, ShapeInv, Shape
  <1>2. TypeOK /\ WorksOnSession /\ ShapeInv /\ [Next]_vars => ShapeInv'
    <2> SUFFICES ASSUME TypeOK, WorksOnSession, ShapeInv, [Next]_vars
                 PROVE  ShapeInv'
      OBVIOUS
    <2>t. Daemon \in Tasks /\ Deleter \in Tasks
      BY DEF Tasks
    <2>o. ASSUME NEW t \in Tasks, \A u \in Tasks \ {t} : task'[u] = task[u], Shape(task'[t])
          PROVE  ShapeInv'
      BY <2>o DEF ShapeInv
    <2>1. ASSUME NEW t \in Requests, Arrive(t) PROVE ShapeInv'
      <3>1. t \in Tasks /\ (\A u \in Tasks \ {t} : task'[u] = task[u]) /\ Shape(task'[t])
        BY <2>1, ArriveParts DEF Shape
      <3>2. QED
        BY <3>1, <2>o
    <2>2. ASSUME NEW t \in Tasks, Acquire(t) PROVE ShapeInv'
      <3>1. Shape(task'[t])
        BY <2>2, AcquireParts DEF Shape, ShapeInv
      <3>2. QED
        BY <2>2, <3>1, <2>o, AcquireParts
    <2>3. ASSUME NEW t \in Tasks, Step(t) PROVE ShapeInv'
      <3>1. Shape(task'[t])
        BY <2>3, StepShape DEF ShapeInv
      <3>2. OneTask(t)
        BY <2>3, TaskActs
      <3>3. QED
        BY <3>1, <3>2, <2>o DEF OneTask
    <2>4. ASSUME NEW t \in {Daemon, Deleter}, NEW op, NEW pc, NEW s, Calls(t, op, pc, s),
                 \/ op \in ReapOps /\ pc = "lock"
                 \/ op = "finish" /\ pc \in {"rm_container", "rm_volume"}
          PROVE  ShapeInv'
      <3>1. Shape(task'[t])
        BY <2>4, <2>t, CallParts DEF Shape, ReapOps
      <3>2. QED
        BY <2>4, <3>1, <2>t, <2>o, CallParts
    <2>5. CASE task' = task
      BY <2>5 DEF ShapeInv
    <2>6. CASE Reaping \/ Starting
      BY <2>6, <2>4, <2>5, LifespanMoves
    <2>7. CASE Purging \/ \E tn \in Tenants : RevokeTenant(tn)
      <3>1. "reap_destroy" \in ReapOps
        BY DEF ReapOps
      <3>2. QED
        BY <2>7, <3>1, <2>4, <2>5, PurgeMoves
    <2>8. CASE Crash
      BY <2>8, NoTaskParts DEF Crash, ShapeInv, Shape
    <2>9. CASE \E s \in Sessions : GrowIdle(s) \/ Expire(s) \/ LoseContainer(s)
      BY <2>9, <2>5 DEF GrowIdle, Expire, LoseContainer
    <2>10. CASE UNCHANGED vars
      BY <2>10, <2>5 DEF vars
    <2>11. QED
      BY <2>1, <2>2, <2>3, <2>6, <2>7, <2>8, <2>9, <2>10 DEF Next
  <1>3. QED
    BY <1>1, <1>2, TypeCorrect, PTL DEF Spec

-----------------------------------------------------------------------------
(* Creating *)

(***************************************************************************)
(* create takes no lock.  Without delete_tenant nobody else works on its   *)
(* session before create returns its id: a client does not know it, the    *)
(* idle sweep looks at RUNNING rows, and a TTL outlives a create.          *)
(***************************************************************************)
Creating(t) == task[t].op = "create" /\ task[t].pc # "get"

\* The status of the row of a create that has not put it to RUNNING yet.
CreateOK(x, st) ==
  \/ x.pc \in {"count", "insert"} /\ st = "absent"
  \/ /\ x.pc \in {"mk_volume", "mk_container", "set_container", "start", "rollback"}
     /\ st = "CREATING"
  \/ x.pc \in {"select", "update"} /\ x.to \in {"RUNNING", "DESTROYING"} /\ st = "CREATING"
  \/ x.pc \in {"select", "update"} /\ x.to = "DESTROYED" /\ st = "DESTROYING"

Alone(t) ==
  /\ \A u \in Tasks \ {t} : task[u].on # task[t].on
  /\ task[t].on \notin known \cup daemon.todo
  /\ ~expired[task[t].on]
  /\ CreateOK(task[t], status[task[t].on])

AloneInv ==
  /\ deleter.phase = "sleep"
  /\ \A s \in Sessions : expired[s] => status[s] # "absent"
  /\ \A t \in Tasks : Creating(t) => Alone(t)

\* A step of create is on its own row only.
LEMMA CreateStep ==
  ASSUME TypeOK, WorksOnSession, NEW t \in Tasks, Shape(task[t]), Creating(t),
         CreateOK(task[t], status[task[t].on]), Step(t)
  PROVE  \/ Done(t)
         \/ /\ task'[t].on = task[t].on /\ task'[t].op = "create"
            /\ task'[t].pc = "get" \/ CreateOK(task'[t], status'[task[t].on])
  <1> DEFINE s == task[t].on
  <1>s. s \in Sessions
    BY StepIsAwake DEF WorksOnSession
  <1> USE DEF CreateOK, Creating
  <1>u. \A st : status' = [status EXCEPT ![s] = st] => status'[s] = st
    BY <1>s DEF TypeOK
  <1>r. Raise(t) => Goto(t, "rollback")
    BY DEF Raise
  <1>1. CASE Select(t)
    <2>1. status' = status
      BY <1>1 DEF Select, rowVars
    <2>2. CASE Goto(t, "update") /\ task[t].pc = "select"
      BY <2>1, <2>2, GotoParts
    <2>3. CASE task[t].to = "RUNNING" /\ Goto(t, "rollback") /\ task[t].pc = "select"
      BY <2>1, <2>3, GotoParts
    <2>4. QED
      BY <1>1, <2>2, <2>3 DEF Select
  <1>2. CASE Update(t)
    <2>1. status'[s] = task[t].to /\ task[t].pc = "update"
      BY <1>2, <1>u DEF Update
    <2>2. \/ task[t].to = "RUNNING" /\ Goto(t, "get")
          \/ task[t].to = "DESTROYING" /\ Aim(t, "DESTROYED")
          \/ Done(t)
      BY <1>2 DEF Update, Continue, UseOps
    <2>3. QED
      BY <2>1, <2>2, GotoParts, AimParts
  <1>3. CASE CountConcurrent(t)
    <2>1. status' = status /\ task[t].pc = "count"
      BY <1>3 DEF CountConcurrent, rowVars
    <2>2. QED
      BY <1>3, <2>1, GotoParts DEF CountConcurrent
  <1>4. CASE Insert(t)
    <2>1. status'[s] = "CREATING"
      BY <1>4, <1>u DEF Insert
    <2>2. QED
      BY <1>4, <2>1, GotoParts DEF Insert
  <1>5. CASE CreateVolume(t) \/ CreateContainer(t)
    <2>1. /\ status' = status /\ task[t].pc \in {"mk_volume", "mk_container"}
          /\ \E pc \in {"mk_container", "set_container", "rollback"} : Goto(t, pc)
      BY <1>5, <1>r DEF CreateVolume, CreateContainer, rowVars
    <2>2. QED
      BY <2>1, GotoParts
  <1>6. CASE SetContainer(t)
    BY <1>6, SetContainerParts DEF SetContainer
  <1>7. CASE Rollback(t)
    <2>1. status' = status /\ task[t].pc = "rollback" /\ (Done(t) \/ Aim(t, "DESTROYING"))
      BY <1>7 DEF Rollback, rowVars
    <2>2. QED
      BY <2>1, AimParts
  <1>8. CASE StartContainer(t)
    <2>1. /\ status' = status /\ task[t].pc = "start"
          /\ Goto(t, "rollback") \/ Aim(t, "RUNNING")
      BY <1>8, <1>r DEF StartContainer, rowVars
    <2>2. QED
      BY <2>1, GotoParts, AimParts
  <1>9. QED
    BY <1>1, <1>2, <1>3, <1>4, <1>5, <1>6, <1>7, <1>8 DEF Step, CreateGet, Read, StopContainer,
       RemoveContainer, RemoveVolume, Look, Relook, ExecStart, ExecEnd, TouchActivity

\* What a step of a task leaves alone besides the rows.
LEMMA StepKnown ==
  ASSUME NEW t \in Tasks, Step(t)
  PROVE  /\ expired' = expired
         /\ task[t].pc = "get" => Done(t) /\ known' \subseteq known \cup {task[t].on}
         /\ task[t].pc # "get" => known' = known
  <1> USE DEF clockVars
  <1>1. CASE Select(t) \/ Update(t) \/ CountConcurrent(t) \/ Insert(t) \/ CreateVolume(t)
    BY <1>1 DEF Select, Update, CountConcurrent, Insert, CreateVolume
  <1>2. CASE CreateContainer(t) \/ SetContainer(t) \/ Rollback(t) \/ CreateGet(t) \/ Read(t)
    BY <1>2 DEF CreateContainer, SetContainer, Rollback, CreateGet, Read
  <1>3. CASE StopContainer(t) \/ StartContainer(t) \/ RemoveContainer(t) \/ RemoveVolume(t)
    BY <1>3 DEF StopContainer, StartContainer, RemoveContainer, RemoveVolume
  <1>4. CASE Look(t) \/ Relook(t) \/ ExecStart(t) \/ ExecEnd(t) \/ TouchActivity(t)
    BY <1>4 DEF Look, Relook, ExecStart, ExecEnd, TouchActivity
  <1>5. QED
    BY <1>1, <1>2, <1>3, <1>4 DEF Step

\* The reaper lists rows that are RUNNING or IDLE, and rows past their TTL.
ReapEffects ==
  /\ serving /\ serving' /\ deleter' = deleter
  /\ status' = status /\ cid' = cid /\ owner' = owner /\ expired' = expired
  /\ volume' = volume /\ container' = container /\ known' = known
  /\ \A s \in daemon'.todo : s \in daemon.todo \/ status[s] \in Active \/ expired[s]
  /\ \/ task' = task
     \/ \E s \in daemon.todo, op \in ReapOps : Calls(Daemon, op, "lock", s)

\* That is all it does before it calls an operation of SessionService.
LEMMA ReapingEffects ==
  ASSUME TypeOK, Reaping
  PROVE  ReapEffects
  <1> USE DEF Sweep, DaemonAt, serving, rowVars, clockVars, dockerVars
  <1>1. CASE ReaperTick \/ ReaperListExpired \/ ReaperSleep
    BY <1>1 DEF ReaperTick, ReaperListExpired, ReaperSleep, ReapEffects
  <1>2. ASSUME NEW s \in Sessions, ReapIdle(s) PROVE ReapEffects
    <2>1. task' = task \/ Calls(Daemon, "reap_stop", "lock", s)
      BY <1>2 DEF ReapIdle, Calls, Call
    <2>2. s \in daemon.todo /\ daemon'.todo \subseteq daemon.todo /\ "reap_stop" \in ReapOps
      BY <1>2 DEF ReapIdle, ReapOps
    <2>3. QED
      BY <1>2, <2>1, <2>2 DEF ReapIdle, ReapEffects
  <1>3. ASSUME NEW s \in Sessions, ReapExpired(s) PROVE ReapEffects
    <2>1. Calls(Daemon, "reap_destroy", "lock", s)
      BY <1>3 DEF ReapExpired, Calls, Call
    <2>2. s \in daemon.todo /\ daemon'.todo \subseteq daemon.todo /\ "reap_destroy" \in ReapOps
      BY <1>3 DEF ReapExpired, ReapOps
    <2>3. QED
      BY <1>3, <2>1, <2>2 DEF ReapExpired, ReapEffects
  <1>4. QED
    BY <1>1, <1>2, <1>3 DEF Reaping

\* Nobody creates a session while the control plane does not serve.
LEMMA NoCreateAtStartup ==
  ASSUME TypeOK, QuietInv, ~serving
  PROVE  \A t \in Tasks : task[t].op # "create"
  <1>1. \A t \in Requests \cup {Deleter} : task[t].op = "none"
    BY NoTaskParts DEF QuietInv, Tasks
  <1>2. daemon.phase \in {"down", "finish", "orphans"} /\ Daemon \in Tasks
    BY DEF serving, TypeOK, Tasks
  <1>3. task[Daemon].op \in {"none", "finish"}
    BY <1>2, NoTaskParts DEF QuietInv
  <1>4. QED
    BY <1>1, <1>3 DEF Tasks

\* Startup does not serve, nor does it touch a TTL.
LEMMA StartingEffects ==
  ASSUME TypeOK, Starting
  PROVE  /\ ~serving /\ deleter' = deleter /\ expired' = expired
         /\ \/ task' = task
            \/ \E s \in daemon.todo :
                 Calls(Daemon, "finish", IF cid[s] THEN "rm_container" ELSE "rm_volume", s)
  <1> USE DEF DaemonAt, serving, clockVars
  <1>1. CASE StartUnhealthy \/ StartReconcile \/ ReconcileListRows \/ StartServing
    BY <1>1 DEF StartUnhealthy, StartReconcile, ReconcileListRows, StartServing
  <1>2. ASSUME NEW s \in Sessions, FinishDestroy(s)
        PROVE  /\ ~serving /\ deleter' = deleter /\ expired' = expired /\ s \in daemon.todo
               /\ Calls(Daemon, "finish", IF cid[s] THEN "rm_container" ELSE "rm_volume", s)
    BY <1>2 DEF FinishDestroy, Calls, Call
  <1>3. ASSUME NEW s \in Sessions, MarkOrphan(s)
        PROVE  ~serving /\ deleter' = deleter /\ expired' = expired /\ task' = task
    BY <1>3 DEF MarkOrphan
  <1>4. QED
    BY <1>1, <1>2, <1>3 DEF Starting

\* A create is alone on its session until it has made it RUNNING.
LEMMA AloneInductive ==
  ASSUME "delete_tenant" \notin Ops, TypeOK, WorksOnSession, RowInv, QuietInv, ShapeInv,
         AloneInv, [Next]_vars
  PROVE  AloneInv'
  <1>t. /\ Daemon \in Tasks /\ Requests \subseteq Tasks /\ None \notin Sessions
    BY LifecycleAssumption DEF Tasks
  <1>a. ASSUME deleter' = deleter, expired' = expired,
               \A s \in Sessions : status[s] # "absent" => status'[s] # "absent"
        PROVE  /\ deleter'.phase = "sleep"
               /\ \A s \in Sessions : expired'[s] => status'[s] # "absent"
    BY <1>a DEF AloneInv
  <1>c. \A t \in Tasks : Creating(t) => task[t].on \in Sessions
    BY DEF WorksOnSession, ShapeInv, Shape, Creating, UseOps
  <1>1. ASSUME NEW t \in Requests, Arrive(t) PROVE AloneInv'
    <2>1. ASSUME NEW u \in Tasks \ {t}, Creating(u)' PROVE Alone(u)'
      <3>1. Creating(u) /\ Alone(u) /\ task'[u] = task[u]
        BY <2>1, <1>1, ArriveParts DEF AloneInv, Creating
      <3>2. task'[t].on # task[u].on
        BY <3>1, <1>1, ArriveParts DEF Alone
      <3>3. QED
        BY <1>1, <3>1, <3>2, ArriveParts DEF Alone
    <2>2. ASSUME Creating(t)' PROVE Alone(t)'
      <3>1. /\ task'[t].pc = "count" /\ status[task'[t].on] = "absent"
            /\ \A u \in Tasks : task[u].on # task'[t].on
            /\ task'[t].on \in Sessions
        BY <1>1, <2>2, ArriveParts DEF Creating, UseOps
      <3>2. task'[t].on \notin known \cup daemon.todo /\ ~expired[task'[t].on]
        BY <3>1 DEF RowInv, AloneInv
      <3>3. QED
        BY <1>1, <3>1, <3>2, ArriveParts DEF Alone, CreateOK
    <2>3. QED
      BY <1>1, <1>a, <2>1, <2>2, ArriveParts DEF AloneInv
  <1>2. ASSUME NEW t \in Tasks, Acquire(t) PROVE AloneInv'
    <2>1. ASSUME NEW u \in Tasks, Creating(u)' PROVE Alone(u)'
      <3>1. Creating(u) /\ Alone(u) /\ u # t
        BY <2>1, <1>2, AcquireParts DEF AloneInv, Creating, ShapeInv, Shape, UseOps
      <3>2. QED
        BY <1>2, <3>1, AcquireParts DEF Alone
    <2>2. QED
      BY <1>2, <1>a, <2>1, AcquireParts DEF AloneInv
  <1>3. ASSUME NEW t \in Tasks, Step(t) PROVE AloneInv'
    <2>1. RowEffects(t) /\ OneTask(t) /\ task[t].on \in Sessions
      BY <1>3, StepRowEffects, TaskActs, StepIsAwake DEF WorksOnSession
    <2>2. \A s \in Sessions : status[s] # "absent" => status'[s] # "absent"
      BY <1>3, StepKeepsRows
    <2>3. task'[t].on = None \/ task'[t].on = task[t].on
      <3>1. CASE Done(t)
        BY <3>1, DoneParts
      <3>2. CASE \E r : Moves(t, r)
        BY <3>2 DEF Moves, TypeOK
      <3>3. QED
        BY <1>3, <3>1, <3>2, StepProceeds DEF Proceeds
    <2>4. ASSUME NEW u \in Tasks \ {t}, Creating(u)' PROVE Alone(u)'
      <3>1. Creating(u) /\ Alone(u) /\ task'[u] = task[u] /\ task[u].on \in Sessions
        BY <2>1, <2>4, <1>c DEF AloneInv, Creating, OneTask
      <3>2. task'[t].on # task[u].on /\ task[t].on # task[u].on
        BY <2>3, <3>1, <1>t DEF Alone
      <3>3. task[u].on \notin known' \cup daemon'.todo /\ ~expired'[task[u].on]
        BY <1>3, <2>1, <3>1, <3>2, StepKnown DEF Alone, OneTask
      <3>4. status'[task[u].on] = status[task[u].on]
        BY <2>1, <3>1, <3>2 DEF RowEffects, TypeOK
      <3>5. \A v \in Tasks \ {u} : task'[v].on # task[u].on
        BY <2>1, <3>1, <3>2 DEF Alone, OneTask
      <3>6. QED
        BY <3>1, <3>3, <3>4, <3>5 DEF Alone
    <2>5. ASSUME Creating(t)' PROVE Alone(t)'
      <3>1. task'[t].op = "create" /\ task'[t].pc # "get"
        BY <2>5 DEF Creating
      <3>2. Creating(t)
        <4>1. task[t].op = "create"
          BY <2>1, <3>1, NoTaskParts DEF OneTask
        <4>2. task[t].pc # "get"
          BY <1>3, <3>1, StepKnown, DoneParts
        <4>3. QED
          BY <4>1, <4>2 DEF Creating
      <3>3. Alone(t)
        BY <3>2 DEF AloneInv
      <3>4. task'[t].on = task[t].on /\ CreateOK(task'[t], status'[task[t].on])
        BY <1>3, <3>1, <3>2, <3>3, CreateStep, DoneParts DEF Alone, ShapeInv
      <3>5. known' = known /\ expired' = expired /\ daemon' = daemon
        BY <1>3, <2>1, <3>2, StepKnown DEF Creating, OneTask
      <3>6. QED
        BY <2>1, <3>3, <3>4, <3>5 DEF Alone, OneTask
    <2>6. QED
      BY <1>3, <1>a, <2>1, <2>2, <2>4, <2>5, StepKnown DEF AloneInv, OneTask
  <1>4. CASE Reaping
    <2>1. ReapEffects
      BY <1>4, ReapingEffects
    <2>2. ASSUME NEW u \in Tasks, Creating(u)' PROVE Alone(u)'
      <3>1. Creating(u) /\ Alone(u) /\ task'[u] = task[u]
        BY <2>1, <2>2, <1>t, CallParts DEF ReapEffects, ReapOps, AloneInv, Creating
      <3>2. \A v \in Tasks \ {u} : task'[v].on # task[u].on
        <4>1. CASE task' = task
          BY <3>1, <4>1 DEF Alone
        <4>2. ASSUME NEW s \in daemon.todo, NEW op \in ReapOps, Calls(Daemon, op, "lock", s)
              PROVE  \A v \in Tasks \ {u} : task'[v].on # task[u].on
          BY <3>1, <4>2, <1>t, CallParts DEF Alone
        <4>3. QED
          BY <2>1, <4>1, <4>2 DEF ReapEffects
      <3>3. status[task[u].on] \notin Active
        BY <3>1 DEF Alone, CreateOK, Active
      <3>4. QED
        BY <2>1, <3>1, <3>2, <3>3 DEF Alone, ReapEffects
    <2>3. QED
      BY <1>a, <2>1, <2>2 DEF AloneInv, ReapEffects
  <1>5. CASE Starting
    <2>1. \A u \in Tasks : ~Creating(u)'
      BY <1>5, <1>t, StartingEffects, NoCreateAtStartup, CallParts DEF Creating
    <2>2. SweepEffects
      BY <1>5, SweepRowEffects
    <2>3. \A s \in Sessions : status[s] # "absent" => status'[s] # "absent"
      BY <2>2 DEF SweepEffects, TypeOK
    <2>4. QED
      BY <1>5, <1>a, <2>1, <2>3, StartingEffects DEF AloneInv
  <1>6. ~(Purging \/ \E tn \in Tenants : RevokeTenant(tn))
    BY PurgeMoves DEF AloneInv
  <1>7. CASE Crash
    <2>1. \A u \in Tasks : ~Creating(u)'
      BY <1>7, NoTaskParts DEF Crash, Creating
    <2>2. deleter'.phase = "sleep" /\ expired' = expired /\ status' = status
      BY <1>7 DEF Crash, Purge, clockVars, rowVars
    <2>3. QED
      BY <2>1, <2>2 DEF AloneInv
  <1>8. CASE \E s \in Sessions : GrowIdle(s) \/ LoseContainer(s)
    BY <1>8 DEF GrowIdle, LoseContainer, rowVars, clockVars, sweepVars, AloneInv, Alone, Creating
  <1>9. ASSUME NEW s \in Sessions, Expire(s) PROVE AloneInv'
    <2>1. /\ task' = task /\ status' = status /\ daemon' = daemon /\ deleter' = deleter
          /\ known' = known /\ status[s] # "absent"
          /\ expired' = [expired EXCEPT ![s] = TRUE]
          /\ \A t \in Tasks : ~(task[t].op = "create" /\ task[t].on = s)
      BY <1>9 DEF Expire, rowVars, sweepVars, Statuses
    <2>2. \A x \in Sessions : expired'[x] => x = s \/ expired[x]
      BY <2>1 DEF TypeOK
    <2>3. QED
      BY <2>1, <2>2, <1>c DEF AloneInv, Alone, Creating
  <1>10. CASE UNCHANGED vars
    BY <1>10 DEF vars, AloneInv, Alone, Creating
  <1>11. QED
    BY <1>1, <1>2, <1>3, <1>4, <1>5, <1>6, <1>7, <1>8, <1>9, <1>10 DEF Next

\* Without delete_tenant a create is alone on its session in every reachable state.
LEMMA CreatesAreAlone ==
  ASSUME "delete_tenant" \notin Ops
  PROVE  Spec => []AloneInv
  <1>1. Init => AloneInv
    BY NoTaskParts DEF Init, AloneInv, Creating
  <1>2. QED
    BY <1>1, AloneInductive, TypeCorrect, RowsInvariant, StartupIsQuiet, ShapesInvariant, PTL
    DEF Spec

-----------------------------------------------------------------------------
(* The moves of a row *)

(***************************************************************************)
(* Registry.transition checks the status in one statement and writes it in *)
(* another.  What it has checked still holds when it writes as long as     *)
(* everybody who moves rows is a create, is under the session's lock, or   *)
(* is alone at startup: the resumes of exec and of the file operations are *)
(* none of these, and delete_tenant meets creates.                         *)
(***************************************************************************)
UpdateInv ==
  /\ \A t \in Tasks : task[t].op \notin UseOps
  /\ \A t \in Tasks : task[t].op = "finish" => t = Daemon
  /\ \A t \in Tasks : task[t].pc = "update" => Allowed(status[task[t].on], task[t].to)

\* Nobody else writes the status of a row that a task is about to move.
LEMMA OneWriter ==
  ASSUME TypeOK, WorksOnSession, QuietInv, ShapeInv, LockInv, AloneInv, UpdateInv,
         NEW t \in Tasks, NEW u \in Tasks, task[t].pc = "update",
         task[u].pc \in {"insert", "update"}, task[t].on = task[u].on
  PROVE  t = u
  <1> SUFFICES ASSUME t # u PROVE FALSE
    OBVIOUS
  <1>1. task[t].op # "create" /\ task[u].op # "create"
    BY DEF AloneInv, Alone, Creating
  <1>2. task[t].op # "finish" /\ task[u].op # "finish"
    <2>1. \A x \in Tasks : task[x].op = "finish" =>
            x = Daemon /\ \A y \in Tasks \ {x} : task[y].pc = "idle"
      <3>1. ASSUME NEW x \in Tasks, task[x].op = "finish"
            PROVE  x = Daemon /\ \A y \in Tasks \ {x} : task[y].pc = "idle"
        <4>1. x = Daemon
          BY <3>1 DEF UpdateInv
        <4>2. ~serving
          BY <3>1, <4>1 DEF QuietInv, serving
        <4>3. QED
          BY <4>1, <4>2 DEF QuietInv, IdleTask, Tasks
      <3>2. QED
        BY <3>1
    <2>2. QED
      BY <2>1
  <1>3. task[t].op \in LockedOps /\ task[u].op \in LockedOps
    BY <1>1, <1>2 DEF ShapeInv, Shape, UpdateInv, LockedOps
  <1>4. task[t].on \in Sessions
    BY DEF WorksOnSession
  <1>5. lock[task[t].on] = t /\ lock[task[t].on] = u
    BY <1>3, <1>4 DEF LockInv, LockDiscipline, CriticalSection
  <1>6. QED
    BY <1>5

\* A step of a task finds what it has checked.
LEMMA StepUpdate ==
  ASSUME TypeOK, WorksOnSession, QuietInv, ShapeInv, LockInv, AloneInv, UpdateInv,
         NEW t \in Tasks, Step(t)
  PROVE  UpdateInv'
  <1>1. RowEffects(t) /\ OneTask(t) /\ task[t].on \in Sessions
    BY StepRowEffects, TaskActs, StepIsAwake DEF WorksOnSession
  <1>2. \A u \in Tasks : task'[u].op = task[u].op \/ task'[u].op = "none"
    BY <1>1, NoTaskParts DEF OneTask
  <1>3. \A u \in Tasks : task'[u].op \notin UseOps /\ (task'[u].op = "finish" => u = Daemon)
    BY <1>2 DEF UpdateInv, UseOps
  <1>4. ASSUME NEW u \in Tasks \ {t}, task'[u].pc = "update"
        PROVE  Allowed(status'[task'[u].on], task'[u].to)
    <2>1. task'[u] = task[u] /\ Allowed(status[task[u].on], task[u].to) /\ task[u].on \in Sessions
      BY <1>1, <1>4 DEF OneTask, UpdateInv, WorksOnSession
    <2>2. task[t].pc \in {"insert", "update"} => task[t].on # task[u].on
      BY <1>4, <2>1, OneWriter
    <2>3. status'[task[u].on] = status[task[u].on]
      BY <1>1, <2>1, <2>2 DEF RowEffects, TypeOK
    <2>4. QED
      BY <2>1, <2>3
  <1>5. ASSUME task'[t].pc = "update"
        PROVE  Allowed(status'[task'[t].on], task'[t].to)
    <2>1. task[t].pc = "select"
      <3>1. CASE Done(t)
        BY <1>5, <3>1, DoneParts
      <3>2. CASE \E r : Moves(t, r)
        BY <1>5, <3>2 DEF Moves, TypeOK
      <3>3. QED
        BY <3>1, <3>2, StepProceeds DEF Proceeds
    <2>2. Select(t)
      BY <2>1 DEF Step, Update, CountConcurrent, Insert, CreateVolume, CreateContainer,
         SetContainer, Rollback, CreateGet, Read, StopContainer, StartContainer,
         RemoveContainer, RemoveVolume, Look, Relook, ExecStart, ExecEnd, TouchActivity
    <2>3. Allowed(status[task[t].on], task[t].to) /\ Goto(t, "update")
      BY <1>5, <2>2, GotoParts, DoneParts DEF Select
    <2>4. status' = status
      BY <2>2 DEF Select, rowVars
    <2>5. QED
      BY <2>3, <2>4, GotoParts
  <1>6. QED
    BY <1>3, <1>4, <1>5 DEF UpdateInv

\* What Registry.transition has checked is true when it writes.
LEMMA UpdateInductive ==
  ASSUME Ops \subseteq {"create", "stop", "resume", "destroy"}, TypeOK, WorksOnSession,
         QuietInv, ShapeInv, LockInv, AloneInv, UpdateInv, [Next]_vars
  PROVE  UpdateInv'
  <1>t. Daemon \in Tasks /\ Requests \subseteq Tasks
    BY DEF Tasks
  <1>q. CASE task' = task /\ status' = status
    BY <1>q DEF UpdateInv
  <1>s. ASSUME NEW t \in Tasks, status' = status, \A u \in Tasks \ {t} : task'[u] = task[u],
               task'[t].pc # "update", task'[t].op \notin UseOps,
               task'[t].op = "finish" => t = Daemon
        PROVE  UpdateInv'
    BY <1>s DEF UpdateInv
  <1>1. ASSUME NEW t \in Requests, Arrive(t) PROVE UpdateInv'
    <2>1. task'[t].op \notin UseOps \cup {"finish"} /\ task'[t].pc # "update"
      BY <1>1, ArriveParts DEF UseOps
    <2>2. QED
      BY <1>1, <2>1, <1>s, ArriveParts
  <1>2. ASSUME NEW t \in Tasks, Acquire(t) PROVE UpdateInv'
    <2>1. task'[t].op = task[t].op /\ task'[t].pc = "read"
      BY <1>2, AcquireParts
    <2>2. QED
      BY <1>2, <2>1, <1>s, AcquireParts DEF UpdateInv
  <1>3. ASSUME NEW t \in Tasks, Step(t) PROVE UpdateInv'
    BY <1>3, StepUpdate
  <1>4. ASSUME NEW op \in ReapOps \cup {"finish"}, NEW s, status' = status,
               NEW pc \in {"lock", "rm_container", "rm_volume"}, Calls(Daemon, op, pc, s)
        PROVE  UpdateInv'
    <2>1. task'[Daemon].op = op /\ task'[Daemon].pc = pc
      BY <1>4, <1>t, CallParts
    <2>2. QED
      BY <1>4, <2>1, <1>s, <1>t, CallParts DEF ReapOps, UseOps
  <1>5. CASE Reaping
    BY <1>5, <1>4, <1>q, ReapingEffects DEF ReapEffects
  <1>6. CASE Starting
    <2>1. CASE status' = status
      BY <1>6, <2>1, <1>4, <1>q, StartingEffects
    <2>2. CASE status' # status
      <3>1. daemon.phase = "orphans" /\ task' = task
        BY <1>6, <2>2 DEF Starting, StartUnhealthy, StartReconcile, ReconcileListRows, StartServing,
           FinishDestroy, MarkOrphan, DaemonAt, rowVars
      <3>2. \A u \in Tasks : task[u].pc = "idle"
        BY <3>1 DEF QuietInv, IdleTask, serving, Tasks
      <3>3. QED
        BY <3>1, <3>2 DEF UpdateInv
    <2>3. QED
      BY <2>1, <2>2
  <1>7. ~(Purging \/ \E tn \in Tenants : RevokeTenant(tn))
    BY PurgeMoves DEF AloneInv
  <1>8. CASE Crash
    BY <1>8, NoTaskParts DEF Crash, UpdateInv, UseOps
  <1>9. CASE \E s \in Sessions : GrowIdle(s) \/ Expire(s) \/ LoseContainer(s)
    BY <1>9, <1>q DEF GrowIdle, Expire, LoseContainer, rowVars
  <1>10. CASE UNCHANGED vars
    BY <1>10, <1>q DEF vars
  <1>11. QED
    BY <1>1, <1>2, <1>3, <1>5, <1>6, <1>7, <1>8, <1>9, <1>10 DEF Next

\* Registry.transition writes what it has checked, in every reachable state of
\* a control plane whose rows move under the locks only.
LEMMA UpdatesAreAllowed ==
  ASSUME Ops \subseteq {"create", "stop", "resume", "destroy"}
  PROVE  Spec => []UpdateInv
  <1>1. Init => UpdateInv
    BY NoTaskParts DEF Init, UpdateInv, UseOps
  <1>2. "delete_tenant" \notin Ops
    OBVIOUS
  <1>3. QED
    BY <1>1, <1>2, UpdateInductive, TypeCorrect, StartupIsQuiet, ShapesInvariant, LocksInvariant,
       CreatesAreAlone, PTL DEF Spec

\* A step of the control plane is a step of the row's own specification.
LEMMA RowStep ==
  ASSUME TypeOK, WorksOnSession, RowInv, OwnerInv, UpdateInv, [Next]_vars
  PROVE  [Row!Next]_(Row!rowVars)
  <1>0. CASE status' = status
    BY <1>0 DEF Row!Next, Row!Restart, serving
  <1>1. ASSUME NEW t \in Tasks, Step(t), status' # status
        PROVE  Row!Next
    <2> DEFINE s == task[t].on
    <2>1. RowEffects(t) /\ s \in Sessions /\ serving' = serving
      BY <1>1, StepRowEffects, StepIsAwake DEF WorksOnSession, RowEffects, serving
    <2>2. CASE task[t].pc = "insert" /\ status' = [status EXCEPT ![s] = "CREATING"]
      <3>1. status[s] = "absent"
        BY <2>2 DEF OwnerInv, Fresh
      <3>2. Row!Insert(s)
        BY <2>1, <2>2, <3>1 DEF Row!Insert
      <3>3. QED
        BY <2>1, <3>2 DEF Row!Next
    <2>3. CASE task[t].pc = "update" /\ status' = [status EXCEPT ![s] = task[t].to]
      <3>1. Allowed(status[s], task[t].to) /\ task[t].to \in Statuses
        BY <2>3 DEF UpdateInv, RowInv
      <3>2. Row!Move(s, task[t].to)
        BY <2>1, <2>3, <3>1 DEF Row!Move, Row!Allowed, Allowed, Row!Statuses, Statuses,
           Row!TRANSITIONS, TRANSITIONS
      <3>3. QED
        BY <2>1, <3>1, <3>2 DEF Row!Next, Row!Statuses, Statuses
    <2>4. QED
      BY <1>1, <2>1, <2>2, <2>3 DEF RowEffects
  <1>2. ASSUME NEW s \in Sessions, MarkOrphan(s), status' # status
        PROVE  Row!Next
    <2>1. /\ status' = [status EXCEPT ![s] = "STOPPED"] /\ status[s] \notin Terminal
          /\ daemon.phase = "orphans" /\ daemon'.phase = "orphans" /\ s \in daemon.todo
      BY <1>2 DEF MarkOrphan, DaemonAt, Sweep
    <2>2. status[s] \in Statuses \ Terminal
      BY <2>1 DEF RowInv, TypeOK
    <2>3. Row!Orphan(s)
      BY <2>1, <2>2 DEF Row!Orphan, serving, Row!Statuses, Statuses, Row!Terminal, Terminal
    <2>4. QED
      BY <2>3 DEF Row!Next
  <1>3. CASE status' # status
    <2>1. ~\E t \in Requests : Arrive(t)
      BY <1>3, ArriveParts
    <2>2. ~\E t \in Tasks : Acquire(t)
      BY <1>3 DEF Acquire, rowVars
    <2>3. ~Reaping /\ ~Purging /\ ~\E tn \in Tenants : RevokeTenant(tn)
      BY <1>3 DEF Reaping, ReaperTick, ReaperListExpired, ReaperSleep, ReapIdle, ReapExpired,
         Purging, PurgeList, PurgeEnd, PurgeSession, RevokeTenant, rowVars
    <2>4. Starting => \E s \in Sessions : MarkOrphan(s)
      BY <1>3 DEF Starting, StartUnhealthy, StartReconcile, ReconcileListRows, StartServing,
         FinishDestroy, rowVars
    <2>5. ~Crash /\ ~\E s \in Sessions : GrowIdle(s) \/ Expire(s) \/ LoseContainer(s)
      BY <1>3 DEF Crash, GrowIdle, Expire, LoseContainer, rowVars
    <2>6. \/ \E t \in Tasks : Step(t)
          \/ \E s \in Sessions : MarkOrphan(s)
      BY <1>3, <2>1, <2>2, <2>3, <2>4, <2>5 DEF Next, vars
    <2>7. QED
      BY <1>1, <1>2, <1>3, <2>6
  <1>4. QED
    BY <1>0, <1>3

\* The rows of the sessions implement SessionRow, for any number of sessions,
\* requests and tenants, with failing Docker calls and crashes, when clients
\* create, stop, resume and destroy sessions.
THEOREM RowsImplementSessionRow ==
  ASSUME Ops \subseteq {"create", "stop", "resume", "destroy"}
  PROVE  Spec => ImplementsSessionRow
  <1>1. Init => Row!Init
    BY DEF Init, Row!Init, serving
  <1>2. QED
    BY <1>1, RowStep, TypeCorrect, RowsInvariant, OwnersInvariant, UpdatesAreAllowed, PTL
    DEF Spec, ImplementsSessionRow, Row!Spec

\* Under the same hypothesis a DESTROYED row stays DESTROYED: the resurrection
\* that MCResurrect exhibits needs a resume outside the lock.
THEOREM DestroyedStaysDestroyed ==
  ASSUME Ops \subseteq {"create", "stop", "resume", "destroy"}
  PROVE  Spec => DestroyedIsFinal
  <1>1. ASSUME [Row!Next]_(Row!rowVars), TypeOK
        PROVE  [\A s \in Sessions : status[s] = "DESTROYED" => status'[s] = "DESTROYED"]_vars
    <2> SUFFICES ASSUME NEW s \in Sessions, status[s] = "DESTROYED", status' # status
                 PROVE  status'[s] = "DESTROYED"
      OBVIOUS
    <2>1. ASSUME NEW x \in Sessions, NEW to, status' = [status EXCEPT ![x] = to], x # s
          PROVE  status'[s] = "DESTROYED"
      BY <2>1, <1>1 DEF TypeOK
    <2>2. PICK x \in Sessions : \/ Row!Insert(x) \/ Row!Orphan(x)
                                \/ \E to \in Row!Statuses : Row!Move(x, to)
      BY <1>1 DEF Row!Next, Row!Restart, Row!rowVars
    <2>3. x # s
      BY <2>2 DEF Row!Insert, Row!Orphan, Row!Move, Row!Allowed, Row!TRANSITIONS, Row!Statuses,
         Row!Terminal
    <2>4. QED
      BY <2>1, <2>2, <2>3 DEF Row!Insert, Row!Orphan, Row!Move
  <1>2. QED
    BY <1>1, RowStep, TypeCorrect, RowsInvariant, OwnersInvariant, UpdatesAreAllowed, PTL
    DEF Spec, DestroyedIsFinal

-----------------------------------------------------------------------------
(* The cap on a tenant's sessions *)

\* The creates of the tenant that have counted its rows and not inserted theirs.
Inserting(tn) == {t \in Requests : task[t].pc = "insert" /\ task[t].tn = tn}

\* Whoever is about to insert has seen a free slot, so the rows were fewer than
\* the cap when the last of them counted; a row becomes live by an insert only.
CapInv ==
  /\ \A t \in Tasks : task[t].op = "create" => t \in Requests
  /\ \A tn \in Tenants :
       /\ IsFiniteSet(Live(tn))
       /\ Cardinality(Live(tn)) + Cardinality(Inserting(tn))
            <= MaxConcurrent + Cardinality(Requests) - 1

\* No row of the tenant becomes live and no request counts.
Settled ==
  /\ owner' = owner
  /\ \A s \in Sessions : status'[s] \in Statuses \ Terminal => status[s] \in Statuses \ Terminal
  /\ \A t \in Requests : task'[t].pc = "insert" => task[t].pc = "insert" /\ task'[t].tn = task[t].tn
  /\ \A t \in Tasks : task'[t].op = "create" => t \in Requests

\* A smaller finite set has fewer elements.
LEMMA FewerElements ==
  ASSUME NEW S, NEW T, IsFiniteSet(S), T \subseteq S
  PROVE  /\ IsFiniteSet(T) /\ Cardinality(T) \in Nat /\ Cardinality(S) \in Nat
         /\ Cardinality(T) <= Cardinality(S)
  BY FS_Subset, FS_CardinalityType

\* Then the cap is kept.
LEMMA SettledCap ==
  ASSUME IsFiniteSet(Requests), CapInv, Settled
  PROVE  CapInv'
  <1>1. ASSUME NEW tn \in Tenants
        PROVE  /\ IsFiniteSet(Live(tn)')
               /\ Cardinality(Live(tn)') + Cardinality(Inserting(tn)')
                    <= MaxConcurrent + Cardinality(Requests) - 1
    <2>1. Live(tn)' \subseteq Live(tn) /\ Inserting(tn)' \subseteq Inserting(tn)
      BY DEF Settled, Live, Inserting
    <2>2. IsFiniteSet(Live(tn)) /\ Inserting(tn) \subseteq Requests
      BY DEF CapInv, Inserting
    <2>3. IsFiniteSet(Inserting(tn))
      BY <2>2, FewerElements
    <2>4. /\ IsFiniteSet(Live(tn)') /\ Cardinality(Live(tn)') \in Nat /\ Cardinality(Live(tn)) \in Nat
          /\ Cardinality(Live(tn)') <= Cardinality(Live(tn))
      BY <2>1, <2>2, FewerElements
    <2>5. /\ Cardinality(Inserting(tn)') \in Nat /\ Cardinality(Inserting(tn)) \in Nat
          /\ Cardinality(Inserting(tn)') <= Cardinality(Inserting(tn))
      BY <2>1, <2>3, FewerElements
    <2>6. Cardinality(Requests) \in Nat /\ MaxConcurrent \in Nat
      BY FS_CardinalityType, LifecycleAssumption
    <2>7. /\ Cardinality(Live(tn)) + Cardinality(Inserting(tn))
                <= MaxConcurrent + Cardinality(Requests) - 1
      BY DEF CapInv
    <2>8. QED
      BY <2>4, <2>5, <2>6, <2>7
  <1>2. QED
    BY <1>1 DEF CapInv, Settled

\* A create that finds a free slot keeps the bound: at most every request is
\* about to insert.
LEMMA CountCap ==
  ASSUME IsFiniteSet(Requests), TypeOK, CapInv, NEW t \in Requests, CountConcurrent(t)
  PROVE  CapInv'
  <1>t. t \in Tasks
    BY DEF Tasks
  <1>o. /\ status' = status /\ owner' = owner /\ \A u \in Tasks \ {t} : task'[u] = task[u]
        /\ Requests \subseteq Tasks
    BY DEF CountConcurrent, Goto, Done, TypeOK, rowVars, Tasks
  <1>1. CASE Done(t)
    <2>1. Settled
      BY <1>o, <1>1, <1>t, DoneParts DEF Settled, CapInv
    <2>2. QED
      BY <2>1, SettledCap
  <1>2. CASE Cardinality(Live(task[t].tn)) < MaxConcurrent /\ Goto(t, "insert")
    <2>1. ASSUME NEW tn \in Tenants
          PROVE  /\ IsFiniteSet(Live(tn)')
                 /\ Cardinality(Live(tn)') + Cardinality(Inserting(tn)')
                      <= MaxConcurrent + Cardinality(Requests) - 1
      <3>1. Live(tn)' = Live(tn) /\ IsFiniteSet(Live(tn))
        BY <1>o DEF Live, CapInv
      <3>2. CASE tn = task[t].tn
        <4>1. Inserting(tn)' \subseteq Requests
          BY DEF Inserting
        <4>2. /\ Cardinality(Inserting(tn)') \in Nat /\ Cardinality(Requests) \in Nat
              /\ Cardinality(Inserting(tn)') <= Cardinality(Requests)
          BY <4>1, FewerElements
        <4>3. Cardinality(Live(tn)) \in Nat /\ MaxConcurrent \in Nat
          BY <3>1, FS_CardinalityType, LifecycleAssumption
        <4>4. QED
          BY <1>2, <3>1, <3>2, <4>2, <4>3
      <3>3. CASE tn # task[t].tn
        <4>1. task'[t].tn # tn
          BY <1>2, <1>t, <3>3, GotoParts
        <4>2. task[t].tn # tn
          BY <3>3
        <4>3. Inserting(tn)' = Inserting(tn)
          BY <1>o, <4>1, <4>2 DEF Inserting
        <4>4. QED
          BY <3>1, <4>3 DEF CapInv
      <3>4. QED
        BY <3>2, <3>3
    <2>2. \A u \in Tasks : task'[u].op = "create" => u \in Requests
      BY <1>o DEF CapInv
    <2>3. QED
      BY <2>1, <2>2 DEF CapInv
  <1>3. QED
    BY <1>1, <1>2 DEF CountConcurrent

\* An insert turns a request that was about to insert into a row.
LEMMA InsertCap ==
  ASSUME IsFiniteSet(Requests), TypeOK, WorksOnSession, OwnerInv, CapInv, NEW t \in Requests,
         Insert(t)
  PROVE  CapInv'
  <1> DEFINE s == task[t].on
  <1>t. t \in Tasks /\ Requests \subseteq Tasks /\ task[t].pc = "insert"
    BY DEF Tasks, Insert
  <1>s. s \in Sessions /\ status[s] = "absent"
    BY <1>t DEF WorksOnSession, OwnerInv, Fresh
  <1>o. /\ \A u \in Tasks \ {t} : task'[u] = task[u]
        /\ \A x \in Sessions \ {s} : status'[x] = status[x] /\ owner'[x] = owner[x]
        /\ owner'[s] = task[t].tn
    BY <1>s DEF Insert, Goto, TypeOK
  <1>p. task'[t].pc = "mk_volume"
    BY <1>t, GotoParts DEF Insert
  <1>1. ASSUME NEW tn \in Tenants
        PROVE  /\ IsFiniteSet(Live(tn)')
               /\ Cardinality(Live(tn)') + Cardinality(Inserting(tn)')
                    <= MaxConcurrent + Cardinality(Requests) - 1
    <2>0. s \notin Live(tn)
      BY <1>s DEF Live, Statuses
    <2>1. CASE tn = task[t].tn
      <3>1. Live(tn)' \subseteq Live(tn) \cup {s}
        BY <1>o DEF Live
      <3>2. Inserting(tn)' = Inserting(tn) \ {t} /\ t \in Inserting(tn)
        BY <1>o, <1>p, <1>t, <2>1 DEF Inserting
      <3>3. IsFiniteSet(Live(tn)) /\ IsFiniteSet(Inserting(tn))
        <4>1. Inserting(tn) \subseteq Requests
          BY DEF Inserting
        <4>2. QED
          BY <4>1, FewerElements DEF CapInv
      <3>4. /\ IsFiniteSet(Live(tn) \cup {s})
            /\ Cardinality(Live(tn) \cup {s}) = Cardinality(Live(tn)) + 1
        BY <3>3, <2>0, FS_AddElement
      <3>5. /\ IsFiniteSet(Live(tn)') /\ Cardinality(Live(tn)') \in Nat
            /\ Cardinality(Live(tn)') <= Cardinality(Live(tn)) + 1
        BY <3>1, <3>4, FewerElements
      <3>6. Cardinality(Inserting(tn)') = Cardinality(Inserting(tn)) - 1
        BY <3>2, <3>3, FS_RemoveElement
      <3>7. /\ Cardinality(Live(tn)) \in Nat /\ Cardinality(Inserting(tn)) \in Nat
            /\ Cardinality(Requests) \in Nat /\ MaxConcurrent \in Nat
        BY <3>3, FS_CardinalityType, LifecycleAssumption
      <3>8. Cardinality(Live(tn)) + Cardinality(Inserting(tn))
              <= MaxConcurrent + Cardinality(Requests) - 1
        BY DEF CapInv
      <3>9. QED
        BY <3>5, <3>6, <3>7, <3>8
    <2>2. CASE tn # task[t].tn
      <3>1. Live(tn)' = Live(tn)
        BY <1>o, <2>0, <2>2 DEF Live
      <3>2. Inserting(tn)' = Inserting(tn)
        BY <1>o, <1>p, <1>t, <2>2 DEF Inserting
      <3>3. QED
        BY <3>1, <3>2 DEF CapInv
    <2>3. QED
      BY <2>1, <2>2
  <1>2. \A u \in Tasks : task'[u].op = "create" => u \in Requests
    BY <1>o DEF CapInv
  <1>3. QED
    BY <1>1, <1>2 DEF CapInv

\* The bound on the cap is inductive.
LEMMA CapInductive ==
  ASSUME IsFiniteSet(Requests), TypeOK, WorksOnSession, RowInv, OwnerInv, ShapeInv, UpdateInv,
         CapInv, [Next]_vars
  PROVE  CapInv'
  <1>t. Daemon \in Tasks /\ Deleter \in Tasks /\ Requests \subseteq Tasks
        /\ Daemon \notin Requests /\ Deleter \notin Requests
    BY LifecycleAssumption DEF Tasks
  <1>q. CASE task' = task /\ owner' = owner /\ status' = status
    <2>1. Settled
      BY <1>q, <1>t DEF Settled, CapInv
    <2>2. QED
      BY <2>1, SettledCap
  <1>1. ASSUME NEW t \in Requests, Arrive(t) PROVE CapInv'
    <2>1. task'[t].pc # "insert"
      BY <1>1, ArriveParts
    <2>2. Settled
      BY <1>1, <1>t, <2>1, ArriveParts DEF Settled, CapInv
    <2>3. QED
      BY <2>2, SettledCap
  <1>2. ASSUME NEW t \in Tasks, Acquire(t) PROVE CapInv'
    <2>1. Settled
      BY <1>2, <1>t, AcquireParts DEF Settled, CapInv
    <2>2. QED
      BY <2>1, SettledCap
  <1>3. ASSUME NEW t \in Tasks, Step(t) PROVE CapInv'
    <2>1. CASE task[t].pc \in {"count", "insert"}
      <3>1. t \in Requests
        BY <2>1 DEF ShapeInv, Shape, CapInv
      <3>2. CountConcurrent(t) \/ Insert(t)
        BY <1>3, <2>1 DEF Step, Select, Update, CreateVolume, CreateContainer, SetContainer,
           Rollback, CreateGet, Read, StopContainer, StartContainer, RemoveContainer,
           RemoveVolume, Look, Relook, ExecStart, ExecEnd, TouchActivity
      <3>3. QED
        BY <3>1, <3>2, CountCap, InsertCap
    <2>2. CASE task[t].pc \notin {"count", "insert"}
      <3>1. RowEffects(t) /\ OneTask(t) /\ task[t].on \in Sessions
        BY <1>3, StepRowEffects, TaskActs, StepIsAwake DEF WorksOnSession
      <3>2. task'[t].pc # "insert"
        <4>1. CASE Done(t)
          BY <4>1, DoneParts
        <4>2. CASE \E r : Moves(t, r)
          BY <2>2, <4>2 DEF Moves, TypeOK
        <4>3. QED
          BY <1>3, <4>1, <4>2, StepProceeds DEF Proceeds
      <3>3. \A s \in Sessions :
              status'[s] \in Statuses \ Terminal => status[s] \in Statuses \ Terminal
        <4>1. CASE status' = status
          BY <4>1
        <4>2. CASE task[t].pc = "update" /\ status' = [status EXCEPT ![task[t].on] = task[t].to]
          <5>1. Allowed(status[task[t].on], task[t].to)
            BY <4>2 DEF UpdateInv
          <5>2. task[t].to \notin Terminal => status[task[t].on] \in Statuses \ Terminal
            BY <5>1 DEF Allowed, TRANSITIONS, Statuses, Terminal
          <5>3. QED
            BY <3>1, <4>2, <5>2 DEF TypeOK
        <4>3. QED
          BY <2>2, <3>1, <4>1, <4>2 DEF RowEffects
      <3>4. \A u \in Tasks : task'[u].op = "create" => u \in Requests
        BY <3>1, NoTaskParts DEF OneTask, CapInv
      <3>5. Settled
        BY <2>2, <3>1, <3>2, <3>3, <3>4, <1>t DEF Settled, RowEffects, OneTask
      <3>6. QED
        BY <3>5, SettledCap
    <2>3. QED
      BY <2>1, <2>2
  <1>4. ASSUME NEW d \in {Daemon, Deleter}, NEW op, NEW pc, NEW s, Calls(d, op, pc, s),
               op \in ReapOps \cup {"finish"}, owner' = owner, status' = status
        PROVE  CapInv'
    <2>1. /\ \A u \in Tasks \ {d} : task'[u] = task[u]
          /\ task'[d].op # "create"
      BY <1>4, <1>t, CallParts DEF ReapOps
    <2>2. Settled
      BY <1>4, <2>1, <1>t DEF Settled, CapInv
    <2>3. QED
      BY <2>2, SettledCap
  <1>5. CASE Reaping
    BY <1>5, <1>4, <1>q, ReapingEffects DEF ReapEffects
  <1>6. CASE Starting
    <2>1. owner' = owner
      BY <1>6, SweepRowEffects DEF SweepEffects
    <2>2. CASE status' = status
      BY <1>6, <2>1, <2>2, <1>4, <1>q, StartingEffects
    <2>3. CASE status' # status
      <3>1. PICK s \in Sessions : MarkOrphan(s)
        BY <1>6, <2>3 DEF Starting, StartUnhealthy, StartReconcile, ReconcileListRows, StartServing,
           FinishDestroy, rowVars
      <3>2. /\ task' = task /\ status' = [status EXCEPT ![s] = "STOPPED"]
            /\ status[s] \notin Terminal /\ s \in daemon.todo
        BY <2>3, <3>1 DEF MarkOrphan
      <3>3. status[s] \in Statuses \ Terminal
        BY <3>2 DEF RowInv, TypeOK
      <3>4. Settled
        BY <2>1, <3>2, <3>3 DEF Settled, CapInv, TypeOK
      <3>5. QED
        BY <3>4, SettledCap
    <2>4. QED
      BY <2>2, <2>3
  <1>7. CASE Purging \/ \E tn \in Tenants : RevokeTenant(tn)
    <2>1. owner' = owner /\ status' = status
      BY <1>7 DEF Purging, PurgeList, PurgeEnd, PurgeSession, RevokeTenant, rowVars
    <2>2. "reap_destroy" \in ReapOps
      BY DEF ReapOps
    <2>3. QED
      BY <1>7, <2>1, <2>2, <1>4, <1>q, PurgeMoves
  <1>8. CASE Crash
    <2>1. Settled
      BY <1>8, <1>t, NoTaskParts DEF Crash, Settled, rowVars
    <2>2. QED
      BY <2>1, SettledCap
  <1>9. CASE \E s \in Sessions : GrowIdle(s) \/ Expire(s) \/ LoseContainer(s)
    BY <1>9, <1>q DEF GrowIdle, Expire, LoseContainer, rowVars
  <1>10. CASE UNCHANGED vars
    BY <1>10, <1>q DEF vars
  <1>11. QED
    BY <1>1, <1>2, <1>3, <1>5, <1>6, <1>7, <1>8, <1>9, <1>10 DEF Next

\* However many requests race past the count, a tenant has at most cap + requests
\* - 1 live sessions: whoever inserts has counted, and the last to count has seen
\* a free slot.
THEOREM OvershootIsBounded ==
  ASSUME IsFiniteSet(Requests), Ops \subseteq {"create", "stop", "resume", "destroy"}
  PROVE  Spec => []OvershootBounded
  <1>1. Init => CapInv
    <2> SUFFICES ASSUME Init PROVE CapInv
      OBVIOUS
    <2>1. \A tn \in Tenants : Live(tn) = {} /\ Inserting(tn) = {}
      BY NoTaskParts DEF Init, Live, Inserting, Statuses, Tasks
    <2>2. \A t \in Tasks : task[t].op # "create"
      BY NoTaskParts DEF Init
    <2>3. Cardinality(Requests) \in Nat /\ MaxConcurrent \in Nat \ {0}
      BY FS_CardinalityType, LifecycleAssumption
    <2>4. QED
      BY <2>1, <2>2, <2>3, FS_EmptySet DEF CapInv
  <1>2. CapInv => OvershootBounded
    BY DEF CapInv, OvershootBounded, Inserting
  <1>3. QED
    BY <1>1, <1>2, CapInductive, TypeCorrect, RowsInvariant, OwnersInvariant, ShapesInvariant,
       UpdatesAreAllowed, PTL DEF Spec

-----------------------------------------------------------------------------
(* What a destroyed session leaves behind *)

Clean(s) == container[s] = "none" /\ ~volume[s]

(***************************************************************************)
(* What a task has seen to by the time it is where it is: a create has not *)
(* recorded a container that it has not made, a rollback has removed the   *)
(* volume, a destroy knows the container that the row knows, and nothing   *)
(* is marked as DESTROYED before the container and the volume are gone.    *)
(***************************************************************************)
Tidy(x) ==
  /\ x.op = "create" /\ x.pc \in {"count", "insert", "mk_volume", "mk_container", "set_container"}
       => ~cid[x.on]
  /\ /\ x.pc \in {"select", "update"}
     /\ x.to = "DESTROYED" \/ (x.to = "DESTROYING" /\ x.op = "create")
     => (cid[x.on] => Clean(x.on))
  /\ x.pc \in {"select", "update"} /\ x.to = "DESTROYING" /\ x.op # "create"
     => (cid[x.on] => x.cid)
  /\ x.pc = "rm_volume" => (cid[x.on] => container[x.on] = "none")

\* Docker keeps the volume of a container, and the registry learns of a
\* container after it has a row.
Objects ==
  \A s \in Sessions : /\ container[s] # "none" => volume[s]
                      /\ status[s] = "absent" => ~cid[s]
                      /\ status[s] = "DESTROYED" /\ cid[s] => Clean(s)

CleanInv == Objects /\ \A t \in Tasks : Tidy(task[t])

\* What a step of a task does to the objects of its session and to no other.
StepObjects(t) ==
  LET s == task[t].on IN
  /\ \A x \in Sessions \ {s} :
       cid'[x] = cid[x] /\ volume'[x] = volume[x] /\ container'[x] = container[x]
  /\ task[t].pc # "set_container" => cid' = cid
  /\ task[t].pc \notin {"mk_volume", "mk_container"} =>
       /\ container[s] = "none" => container'[s] = "none"
       /\ ~volume[s] => ~volume'[s]
  /\ (container[s] # "none" => volume[s]) => (container'[s] # "none" => volume'[s])

\* Every step of a task is of this kind.
LEMMA StepOnObjects ==
  ASSUME TypeOK, WorksOnSession, NEW t \in Tasks, Step(t)
  PROVE  StepObjects(t)
  <1> DEFINE s == task[t].on
  <1>t. s \in Sessions
    BY StepIsAwake DEF WorksOnSession
  <1>v. /\ volume \in [Sessions -> BOOLEAN] /\ cid \in [Sessions -> BOOLEAN]
        /\ container \in [Sessions -> {"none", "stopped", "running"}]
    BY DEF TypeOK
  <1> USE DEF dockerVars, rowVars, StepObjects
  <1>1. CASE \/ Select(t) \/ CountConcurrent(t) \/ Read(t) \/ Update(t) \/ Insert(t)
             \/ CreateGet(t)
    BY <1>1 DEF Select, CountConcurrent, Read, Update, Insert, CreateGet
  <1>2. CASE CreateVolume(t)
    BY <1>2, <1>t, <1>v DEF CreateVolume
  <1>3. CASE CreateContainer(t)
    BY <1>3, <1>t, <1>v DEF CreateContainer
  <1>4. CASE SetContainer(t)
    BY <1>4, <1>t, <1>v DEF SetContainer
  <1>5. CASE Rollback(t)
    BY <1>5, <1>t, <1>v DEF Rollback
  <1>6. CASE StopContainer(t)
    BY <1>6, <1>t, <1>v DEF StopContainer
  <1>7. CASE StartContainer(t)
    BY <1>7, <1>t, <1>v DEF StartContainer
  <1>8. CASE RemoveContainer(t)
    BY <1>8, <1>t, <1>v DEF RemoveContainer
  <1>9. CASE RemoveVolume(t)
    BY <1>9, <1>t, <1>v DEF RemoveVolume
  <1>10. CASE Look(t) \/ Relook(t) \/ ExecStart(t) \/ ExecEnd(t) \/ TouchActivity(t)
    BY <1>10 DEF Look, Relook, ExecStart, ExecEnd, TouchActivity
  <1>11. QED
    BY <1>1, <1>2, <1>3, <1>4, <1>5, <1>6, <1>7, <1>8, <1>9, <1>10 DEF Step

\* A step of a task leaves what another task has seen to.
LEMMA OthersStayTidy ==
  ASSUME TypeOK, WorksOnSession, ShapeInv, AloneInv, CleanInv, NEW t \in Tasks, Step(t),
         NEW u \in Tasks \ {t}
  PROVE  Tidy(task[u])'
  <1>1. task'[u] = task[u] /\ Tidy(task[u]) /\ StepObjects(t) /\ task[t].on \in Sessions
    BY TaskActs, StepOnObjects, StepIsAwake DEF OneTask, CleanInv, WorksOnSession
  <1>2. CASE task[u].pc = "idle"
    BY <1>1, <1>2 DEF Tidy
  <1>3. CASE task[u].pc # "idle" /\ task[u].on # task[t].on
    <2>1. task[u].on \in Sessions
      BY <1>3 DEF WorksOnSession
    <2>2. /\ cid'[task[u].on] = cid[task[u].on] /\ volume'[task[u].on] = volume[task[u].on]
          /\ container'[task[u].on] = container[task[u].on]
      BY <1>1, <1>3, <2>1 DEF StepObjects
    <2>3. QED
      BY <1>1, <2>2 DEF Tidy, Clean
  <1>4. CASE task[u].on = task[t].on
    <2>1. ~Creating(t) /\ ~Creating(u)
      BY <1>4 DEF AloneInv, Alone
    <2>2. task[t].pc \notin {"mk_volume", "mk_container", "set_container"}
      BY <2>1 DEF Creating, ShapeInv, Shape, UseOps
    <2>3. /\ cid' = cid
          /\ container[task[t].on] = "none" => container'[task[t].on] = "none"
          /\ ~volume[task[t].on] => ~volume'[task[t].on]
      BY <1>1, <2>2 DEF StepObjects
    <2>4. QED
      BY <1>1, <1>4, <2>3 DEF Tidy, Clean
  <1>5. QED
    BY <1>2, <1>3, <1>4

\* A task that removes the volume of a session that has no container leaves
\* nothing of it.
LEMMA NothingLeft ==
  ASSUME TypeOK, Objects, NEW s \in Sessions, ~(volume[s] /\ container[s] # "none"),
         container' = container, volume' = [volume EXCEPT ![s] = FALSE]
  PROVE  container'[s] = "none" /\ ~volume'[s]
  BY DEF Objects, TypeOK

\* A step of a task sees to what comes after it.
LEMMA StepTidy ==
  ASSUME ~DockerFails, TypeOK, WorksOnSession, CleanInv, NEW t \in Tasks, Shape(task[t]), Step(t)
  PROVE  Tidy(task[t])'
  <1> DEFINE s == task[t].on
  <1>s. s \in Sessions /\ Tidy(task[t]) /\ Objects
    BY StepIsAwake DEF WorksOnSession, CleanInv
  <1>d. ASSUME task'[t].pc \notin {"count", "insert", "mk_volume", "mk_container",
                                    "set_container", "select", "update", "rm_volume"}
        PROVE  Tidy(task[t])'
    BY <1>d DEF Tidy
  <1>e. Done(t) => Tidy(task[t])'
    BY <1>d, DoneParts
  <1>a. ASSUME NEW to \in {"RUNNING", "STOPPED"}, Aim(t, to)
        PROVE  Tidy(task[t])'
    BY <1>a, AimParts DEF Tidy
  <1>g. ASSUME NEW pc, Goto(t, pc),
               pc \notin {"count", "insert", "mk_volume", "mk_container",
                          "set_container", "select", "update", "rm_volume"}
        PROVE  Tidy(task[t])'
    BY <1>g, <1>d, GotoParts
  <1>1. CASE Select(t)
    <2>1. cid' = cid /\ volume' = volume /\ container' = container /\ task[t].pc = "select"
      BY <1>1 DEF Select, rowVars, dockerVars
    <2>2. CASE Goto(t, "update")
      BY <2>1, <2>2, <1>s, GotoParts DEF Tidy, Clean
    <2>3. QED
      BY <1>1, <2>2, <1>e, <1>g DEF Select
  <1>2. CASE Update(t)
    <2>1. cid' = cid /\ volume' = volume /\ container' = container /\ task[t].pc = "update"
      BY <1>2 DEF Update, dockerVars
    <2>2. CASE task[t].op = "create" /\ task[t].to = "DESTROYING" /\ Aim(t, "DESTROYED")
      BY <2>1, <2>2, <1>s, AimParts DEF Tidy, Clean
    <2>3. CASE task[t].op # "create" /\ task[t].to = "DESTROYING" /\ ~task[t].cid
               /\ Goto(t, "rm_volume")
      <3>1. ~cid[s]
        BY <2>1, <2>3, <1>s DEF Tidy
      <3>2. QED
        BY <2>1, <2>3, <3>1, GotoParts DEF Tidy
    <2>4. \/ task[t].op = "create" /\ task[t].to = "DESTROYING" /\ Aim(t, "DESTROYED")
          \/ task[t].op # "create" /\ task[t].to = "DESTROYING" /\ ~task[t].cid /\ Goto(t, "rm_volume")
          \/ \E pc \in {"get", "relook", "rm_container"} : Goto(t, pc)
          \/ Done(t)
      BY <1>2 DEF Update, Continue
    <2>5. QED
      BY <2>2, <2>3, <2>4, <1>e, <1>g
  <1>3. CASE CountConcurrent(t) \/ Insert(t) \/ CreateVolume(t) \/ CreateContainer(t)
    <2>1. CASE Done(t)
      BY <2>1, <1>e
    <2>2. CASE ~Done(t)
      <3>1. /\ cid' = cid /\ task[t].pc \in {"count", "insert", "mk_volume", "mk_container"}
            /\ \E pc \in {"insert", "mk_volume", "mk_container", "set_container"} : Goto(t, pc)
        BY <1>3, <2>2 DEF CountConcurrent, Insert, CreateVolume, CreateContainer, rowVars
      <3>2. task[t].op = "create"
        BY <3>1 DEF Shape
      <3>3. ~cid[s]
        BY <3>1, <3>2, <1>s DEF Tidy
      <3>4. QED
        BY <3>1, <3>3, GotoParts DEF Tidy
    <2>3. QED
      BY <2>1, <2>2
  <1>4. CASE SetContainer(t)
    BY <1>4, <1>d, SetContainerParts
  <1>5. CASE Rollback(t)
    <2>1. CASE /\ ~(volume[s] /\ container[s] # "none") /\ volume' = [volume EXCEPT ![s] = FALSE]
               /\ Aim(t, "DESTROYING") /\ container' = container
      <3>1. container'[s] = "none" /\ ~volume'[s]
        BY <2>1, <1>s, NothingLeft
      <3>2. task[t].op = "create"
        BY <1>5 DEF Rollback, Shape
      <3>3. QED
        BY <2>1, <3>1, <3>2, AimParts DEF Tidy, Clean
    <2>2. QED
      BY <1>5, <2>1, <1>e DEF Rollback
  <1>6. CASE CreateGet(t)
    BY <1>6, <1>e DEF CreateGet
  <1>7. CASE Read(t)
    <2>1. cid' = cid
      BY <1>7 DEF Read, rowVars
    <2>2. QED
      BY <1>7, <2>1, <1>e, ReadParts DEF Tidy
  <1>8. CASE StopContainer(t)
    BY <1>8, <1>a DEF StopContainer
  <1>9. CASE StartContainer(t)
    <2>1. Aim(t, "RUNNING") \/ Goto(t, "rollback") \/ Done(t)
      BY <1>9 DEF StartContainer, Raise, Shape, UseOps
    <2>2. QED
      BY <2>1, <1>a, <1>e, <1>g
  <1>10. CASE RemoveContainer(t)
    <2>1. Goto(t, "rm_volume") /\ container'[s] = "none"
      BY <1>10, <1>s DEF RemoveContainer, TypeOK
    <2>2. QED
      BY <2>1, GotoParts DEF Tidy
  <1>11. CASE RemoveVolume(t)
    <2>1. cid' = cid /\ container' = container /\ task[t].pc = "rm_volume"
      BY <1>11 DEF RemoveVolume, rowVars
    <2>2. CASE /\ ~(volume[s] /\ container[s] # "none") /\ volume' = [volume EXCEPT ![s] = FALSE]
               /\ Aim(t, "DESTROYED")
      <3>1. container'[s] = "none" /\ ~volume'[s]
        BY <2>1, <2>2, <1>s, NothingLeft
      <3>2. QED
        BY <2>2, <3>1, AimParts DEF Tidy, Clean
    <2>3. CASE container[s] # "none" /\ Raise(t)
      <3>1. ~cid[s]
        BY <2>1, <2>3, <1>s DEF Tidy
      <3>2. Aim(t, "DESTROYED") \/ Done(t)
        BY <2>1, <2>3 DEF Raise, Shape, UseOps
      <3>3. QED
        BY <2>1, <3>1, <3>2, <1>e, AimParts DEF Tidy
    <2>4. QED
      BY <1>11, <2>2, <2>3 DEF RemoveVolume
  <1>12. CASE Look(t) \/ Relook(t)
    BY <1>12, <1>e, <1>g DEF Look, Relook, Command
  <1>13. CASE ExecStart(t) \/ ExecEnd(t) \/ TouchActivity(t)
    BY <1>13, <1>e, <1>g DEF ExecStart, ExecEnd, TouchActivity
  <1>14. QED
    BY <1>1, <1>2, <1>3, <1>4, <1>5, <1>6, <1>7, <1>8, <1>9, <1>10, <1>11, <1>12, <1>13 DEF Step

\* A step of a task leaves nothing of a session that is DESTROYED.
LEMMA StepKeepsObjects ==
  ASSUME TypeOK, WorksOnSession, RowInv, ShapeInv, AloneInv, CleanInv, NEW t \in Tasks, Step(t)
  PROVE  Objects'
  <1> DEFINE s == task[t].on
  <1>1. RowEffects(t) /\ StepObjects(t) /\ s \in Sessions /\ Tidy(task[t]) /\ Objects
    BY StepRowEffects, StepOnObjects, StepIsAwake DEF WorksOnSession, CleanInv
  <1>2. ASSUME NEW x \in Sessions \ {s}
        PROVE  /\ status'[x] = status[x] /\ cid'[x] = cid[x] /\ volume'[x] = volume[x]
               /\ container'[x] = container[x]
    BY <1>1 DEF RowEffects, StepObjects, TypeOK
  <1>3. container'[s] # "none" => volume'[s]
    BY <1>1 DEF StepObjects, Objects
  <1>4. ASSUME status'[s] = "absent" PROVE ~cid'[s]
    <2>1. status[s] = "absent" /\ ~cid[s]
      BY <1>1, <1>4, StepKeepsRows DEF Objects
    <2>2. task[t].pc # "set_container"
      BY <2>1 DEF RowInv, Fresh
    <2>3. QED
      BY <1>1, <2>1, <2>2 DEF StepObjects
  <1>5. ASSUME status'[s] = "DESTROYED", cid'[s]
        PROVE  container'[s] = "none" /\ ~volume'[s]
    <2>1. task[t].pc \notin {"set_container", "mk_volume", "mk_container"}
      <3>1. SUFFICES ASSUME task[t].pc \in {"set_container", "mk_volume", "mk_container"}
                     PROVE  FALSE
        OBVIOUS
      <3>2. Creating(t)
        BY <3>1 DEF Creating, ShapeInv, Shape, UseOps
      <3>3. status[s] = "CREATING"
        BY <3>1, <3>2 DEF AloneInv, Alone, CreateOK
      <3>4. status' = status
        BY <1>1, <3>1 DEF RowEffects
      <3>5. QED
        BY <1>5, <3>3, <3>4
    <2>2. /\ cid[s]
          /\ container[s] = "none" => container'[s] = "none"
          /\ ~volume[s] => ~volume'[s]
      BY <1>1, <1>5, <2>1 DEF StepObjects
    <2>3. Clean(s)
      <3>1. CASE status' = status
        BY <1>1, <1>5, <2>2, <3>1 DEF Objects
      <3>2. CASE task[t].pc = "insert" /\ status' = [status EXCEPT ![s] = "CREATING"]
        BY <1>1, <1>5, <3>2 DEF TypeOK
      <3>3. CASE task[t].pc = "update" /\ status' = [status EXCEPT ![s] = task[t].to]
        <4>1. task[t].to = "DESTROYED"
          BY <1>1, <1>5, <3>3 DEF TypeOK
        <4>2. QED
          BY <1>1, <2>2, <3>3, <4>1 DEF Tidy
      <3>4. QED
        BY <1>1, <3>1, <3>2, <3>3 DEF RowEffects
    <2>4. QED
      BY <2>2, <2>3 DEF Clean
  <1>6. ASSUME NEW x \in Sessions
        PROVE  /\ container'[x] # "none" => volume'[x]
               /\ status'[x] = "absent" => ~cid'[x]
               /\ status'[x] = "DESTROYED" /\ cid'[x] => Clean(x)'
    <2>1. CASE x = s
      BY <1>3, <1>4, <1>5, <2>1 DEF Clean
    <2>2. CASE x # s
      BY <1>1, <1>2, <2>2 DEF Objects, Clean
    <2>3. QED
      BY <2>1, <2>2
  <1>7. QED
    BY <1>6 DEF Objects

\* What a step of the rest of the system must do to keep the sessions clean.
LEMMA QuietClean ==
  ASSUME CleanInv, cid' = cid, NEW t \in Tasks,
         \A s \in Sessions : /\ container'[s] # "none" => container[s] # "none"
                             /\ volume'[s] = volume[s]
                             /\ status'[s] \in {"absent", "DESTROYED"} => status'[s] = status[s],
         \A u \in Tasks \ {t} : task'[u] = task[u],
         \A u \in Tasks : task[u].pc # "idle" => task[u].on \in Sessions,
         Tidy(task[t])'
  PROVE  CleanInv'
  <1>1. ASSUME NEW s \in Sessions
        PROVE  /\ container'[s] # "none" => volume'[s]
               /\ status'[s] = "absent" => ~cid'[s]
               /\ status'[s] = "DESTROYED" /\ cid'[s] => Clean(s)'
    BY DEF CleanInv, Objects, Clean
  <1>2. ASSUME NEW u \in Tasks \ {t} PROVE Tidy(task[u])'
    <2>1. task'[u] = task[u] /\ Tidy(task[u])
      BY DEF CleanInv
    <2>2. CASE task[u].pc = "idle"
      BY <2>1, <2>2 DEF Tidy
    <2>3. CASE task[u].pc # "idle"
      <3>1. task[u].on \in Sessions
        BY <2>3
      <3>2. QED
        BY <2>1, <3>1 DEF Tidy, Clean
    <2>4. QED
      BY <2>2, <2>3
  <1>3. QED
    BY <1>1, <1>2 DEF CleanInv, Objects

\* The sessions stay clean.
LEMMA CleanInductive ==
  ASSUME ~DockerFails, TypeOK, WorksOnSession, RowInv, ShapeInv, AloneInv, CleanInv, [Next]_vars
  PROVE  CleanInv'
  <1>t. Daemon \in Tasks /\ Requests \subseteq Tasks
    BY DEF Tasks
  <1>w. \A u \in Tasks : task[u].pc # "idle" => task[u].on \in Sessions
    BY DEF WorksOnSession
  <1>q. ASSUME task' = task, cid' = cid,
               \A s \in Sessions : /\ container'[s] # "none" => container[s] # "none"
                                   /\ volume'[s] = volume[s]
                                   /\ status'[s] \in {"absent", "DESTROYED"} => status'[s] = status[s]
        PROVE  CleanInv'
    <2>1. Tidy(task[Daemon])'
      <3>1. Tidy(task[Daemon]) /\ task'[Daemon] = task[Daemon]
        BY <1>q, <1>t DEF CleanInv
      <3>2. CASE task[Daemon].pc = "idle"
        BY <3>1, <3>2 DEF Tidy
      <3>3. CASE task[Daemon].on \in Sessions
        BY <1>q, <3>1, <3>3 DEF Tidy, Clean
      <3>4. QED
        BY <1>t, <1>w, <3>2, <3>3
    <2>2. QED
      BY <1>q, <1>t, <1>w, <2>1, QuietClean
  <1>1. ASSUME NEW t \in Requests, Arrive(t) PROVE CleanInv'
    <2>1. Tidy(task[t])'
      <3>1. CASE task'[t].pc = "count" /\ status[task'[t].on] = "absent"
        <4>1. ~cid[task'[t].on] /\ cid' = cid
          BY <1>1, <3>1, ArriveParts DEF CleanInv, Objects
        <4>2. QED
          BY <3>1, <4>1 DEF Tidy
      <3>2. CASE task'[t].pc \in {"lock", "look"}
        BY <3>2 DEF Tidy
      <3>3. QED
        BY <1>1, <3>1, <3>2, ArriveParts
    <2>2. QED
      BY <1>1, <1>t, <1>w, <2>1, ArriveParts, QuietClean
  <1>2. ASSUME NEW t \in Tasks, Acquire(t) PROVE CleanInv'
    <2>1. Tidy(task[t])'
      BY <1>2, AcquireParts DEF Tidy
    <2>2. QED
      BY <1>2, <1>w, <2>1, AcquireParts, QuietClean
  <1>3. ASSUME NEW t \in Tasks, Step(t) PROVE CleanInv'
    <2>1. Objects'
      BY <1>3, StepKeepsObjects
    <2>2. Tidy(task[t])'
      BY <1>3, StepTidy DEF ShapeInv
    <2>3. \A u \in Tasks \ {t} : Tidy(task[u])'
      BY <1>3, OthersStayTidy
    <2>4. QED
      BY <2>1, <2>2, <2>3 DEF CleanInv
  <1>4. ASSUME NEW op, NEW pc, NEW s, Calls(Daemon, op, pc, s), pc \in {"lock", "rm_container", "rm_volume"},
               pc = "rm_volume" => ~cid[s],
               status' = status, cid' = cid, volume' = volume, container' = container
        PROVE  CleanInv'
    <2>1. /\ task'[Daemon].pc = pc /\ task'[Daemon].on = s
          /\ \A u \in Tasks \ {Daemon} : task'[u] = task[u]
      BY <1>4, <1>t, CallParts
    <2>2. Tidy(task[Daemon])'
      BY <1>4, <2>1 DEF Tidy
    <2>3. QED
      BY <1>4, <1>t, <1>w, <2>1, <2>2, QuietClean
  <1>5. CASE Reaping
    <2>1. ReapEffects
      BY <1>5, ReapingEffects
    <2>2. CASE task' = task
      BY <2>1, <2>2, <1>q DEF ReapEffects
    <2>3. QED
      BY <2>1, <2>2, <1>4 DEF ReapEffects
  <1>6. CASE Starting
    <2>1. SweepEffects
      BY <1>6, SweepRowEffects
    <2>2. CASE task' = task
      <3>1. \A x \in Sessions : status'[x] \in {"absent", "DESTROYED"} => status'[x] = status[x]
        BY <2>1 DEF SweepEffects, TypeOK
      <3>2. QED
        BY <2>1, <2>2, <3>1, <1>q DEF SweepEffects
    <2>3. ASSUME NEW s \in daemon.todo,
                 Calls(Daemon, "finish", IF cid[s] THEN "rm_container" ELSE "rm_volume", s),
                 task' # task
          PROVE  CleanInv'
      <3>1. status' = status
        BY <1>6, <2>3 DEF Starting, StartUnhealthy, StartReconcile, ReconcileListRows, StartServing,
           FinishDestroy, MarkOrphan, rowVars
      <3>2. QED
        BY <2>1, <2>3, <3>1, <1>4 DEF SweepEffects
    <2>4. QED
      BY <1>6, <2>2, <2>3, StartingEffects
  <1>7. CASE Purging \/ \E tn \in Tenants : RevokeTenant(tn)
    <2>1. SweepEffects
      BY <1>7, SweepRowEffects
    <2>2. status' = status
      BY <1>7 DEF Purging, PurgeList, PurgeEnd, PurgeSession, RevokeTenant, rowVars
    <2>3. CASE task' = task
      BY <2>1, <2>2, <2>3, <1>q DEF SweepEffects
    <2>4. ASSUME NEW s \in deleter.todo, Calls(Deleter, "reap_destroy", "lock", s)
          PROVE  CleanInv'
      <3>0. Deleter \in Tasks
        BY DEF Tasks
      <3>1. task'[Deleter].pc = "lock" /\ \A u \in Tasks \ {Deleter} : task'[u] = task[u]
        BY <2>4, <3>0, CallParts
      <3>2. Tidy(task[Deleter])'
        BY <3>1 DEF Tidy
      <3>3. QED
        BY <2>1, <2>2, <3>0, <3>1, <3>2, <1>w, QuietClean DEF SweepEffects
    <2>5. QED
      BY <1>7, <2>3, <2>4, PurgeMoves
  <1>8. CASE Crash
    <2>1. /\ \A u \in Tasks : task'[u].pc = "idle"
          /\ status' = status /\ cid' = cid /\ volume' = volume /\ container' = container
      BY <1>8, NoTaskParts DEF Crash, rowVars, dockerVars
    <2>2. \A u \in Tasks : Tidy(task[u])'
      BY <2>1 DEF Tidy
    <2>3. QED
      BY <2>1, <2>2 DEF CleanInv, Objects, Clean
  <1>9. CASE \E s \in Sessions : GrowIdle(s) \/ Expire(s)
    BY <1>9, <1>q DEF GrowIdle, Expire, rowVars, dockerVars
  <1>10. ASSUME NEW s \in Sessions, LoseContainer(s) PROVE CleanInv'
    <2>1. \A x \in Sessions : container'[x] # "none" => container[x] # "none"
      BY <1>10 DEF LoseContainer, TypeOK
    <2>2. QED
      BY <1>10, <2>1, <1>q DEF LoseContainer, rowVars
  <1>11. CASE UNCHANGED vars
    BY <1>11, <1>q DEF vars
  <1>12. QED
    BY <1>1, <1>2, <1>3, <1>5, <1>6, <1>7, <1>8, <1>9, <1>10, <1>11 DEF Next

\* Unless a Docker call fails or a tenant is deleted, a DESTROYED session whose
\* container the registry knew leaves no container and no volume, through
\* crashes, reconciliation and the races of exec with destroy.
THEOREM DestroyedSessionsAreClean ==
  ASSUME ~DockerFails, "delete_tenant" \notin Ops
  PROVE  Spec => []DestroyedIsClean
  <1>1. Init => CleanInv
    <2> SUFFICES ASSUME Init PROVE CleanInv
      OBVIOUS
    <2>1. \A t \in Tasks : task[t].pc = "idle"
      BY NoTaskParts DEF Init
    <2>2. \A t \in Tasks : Tidy(task[t])
      BY <2>1 DEF Tidy
    <2>3. QED
      BY <2>2 DEF Init, CleanInv, Objects
  <1>2. CleanInv => DestroyedIsClean
    BY DEF CleanInv, Objects, Clean, DestroyedIsClean
  <1>3. QED
    BY <1>1, <1>2, CleanInductive, TypeCorrect, RowsInvariant, ShapesInvariant, CreatesAreAlone, PTL
    DEF Spec

=============================================================================
