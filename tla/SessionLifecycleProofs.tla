----------------------- MODULE SessionLifecycleProofs -----------------------
(***************************************************************************)
(* Theorems about SessionLifecycle, for any sets of sessions, tenants and  *)
(* requests.                                                               *)
(***************************************************************************)
EXTENDS SessionLifecycle, TLAPS

\* The variables a task's own steps change beside the row and Docker.
TasksTyped ==
  /\ task \in [Tasks -> TaskRecord]
  /\ lock \in [Sessions -> Tasks \cup {None}]
  /\ WorksOnSession

-----------------------------------------------------------------------------
(* How a task's record moves *)

\* A task that starts has a typed record.
LEMMA RecordTyped ==
  ASSUME NEW op \in TaskOps, NEW pc \in PCs, NEW s \in Sessions \cup {None},
         NEW tn \in Tenants \cup {None}, NEW c \in BOOLEAN
  PROVE  NewTask(op, pc, s, tn, c) \in TaskRecord
  BY DEF NewTask, TaskRecord

\* So has a task that is done.
LEMMA NoTaskTyped == NoTask \in TaskRecord
  <1>1. "none" \in TaskOps /\ "idle" \in PCs
    BY DEF TaskOps, PCs
  <1>2. QED
    BY <1>1, RecordTyped DEF NoTask

\* A task that goes on to another step stays typed.
LEMMA GotoTyped ==
  ASSUME TasksTyped, NEW t \in Tasks, NEW pc \in PCs, Goto(t, pc),
         task[t].pc # "idle"
  PROVE  TasksTyped'
  BY DEF TasksTyped, Goto, TaskRecord, WorksOnSession

\* A task that calls Registry.transition stays typed.
LEMMA AimTyped ==
  ASSUME TasksTyped, NEW t \in Tasks, NEW to \in Statuses, Aim(t, to),
         task[t].pc # "idle"
  PROVE  TasksTyped'
  BY DEF TasksTyped, Aim, TaskRecord, PCs, WorksOnSession

\* A task that ends stays typed, and so do the locks.
LEMMA DoneTyped ==
  ASSUME TasksTyped, NEW t \in Tasks, Done(t)
  PROVE  TasksTyped'
  BY NoTaskTyped DEF TasksTyped, Done, NoTask, NewTask, WorksOnSession

\* A task whose Docker call raised stays typed.
LEMMA RaiseTyped ==
  ASSUME TasksTyped, NEW t \in Tasks, Raise(t), task[t].pc # "idle"
  PROVE  TasksTyped'
  <1>1. "rollback" \in PCs /\ "DESTROYED" \in Statuses
    BY DEF PCs, Statuses
  <1>2. CASE task[t].op = "create"
    BY <1>1, <1>2, GotoTyped DEF Raise
  <1>3. CASE task[t].op \in {"destroy", "reap_destroy"}
    BY <1>1, <1>3, AimTyped DEF Raise
  <1>4. CASE task[t].op \notin {"create", "destroy", "reap_destroy"}
    BY <1>4, DoneTyped DEF Raise
  <1>5. QED
    BY <1>2, <1>3, <1>4

-----------------------------------------------------------------------------
(* Type correctness *)

\* The steps of Registry.transition and of create keep the types.
LEMMA CreateTyped ==
  ASSUME TypeOK, WorksOnSession, NEW t \in Tasks,
         \/ Select(t) \/ Update(t) \/ CountConcurrent(t) \/ Insert(t)
         \/ CreateVolume(t) \/ CreateContainer(t) \/ SetContainer(t)
         \/ Rollback(t) \/ CreateGet(t)
  PROVE  TypeOK' /\ WorksOnSession'
  <1> USE DEF TypeOK
  <1>t. TasksTyped /\ task[t] \in TaskRecord
    BY DEF TasksTyped
  <1>f. /\ task[t].on \in Sessions \cup {None}
        /\ task[t].tn \in Tenants \cup {None}
        /\ task[t].to \in Statuses \cup {"absent"}
        /\ task[t].pc # "idle"
        /\ task[t].on \in Sessions
    BY <1>t DEF TaskRecord, WorksOnSession, Select, Update, CountConcurrent, Insert,
            CreateVolume, CreateContainer, SetContainer, Rollback, CreateGet
  <1>p. /\ {"update", "rollback", "get", "relook", "rm_container", "rm_volume",
            "insert", "mk_volume", "mk_container", "set_container", "start",
            "select"} \subseteq PCs
        /\ {"CREATING", "DESTROYING", "DESTROYED"} \subseteq Statuses
    BY DEF PCs, Statuses
  <1>1. CASE Select(t)
    <2>1. TasksTyped'
      BY <1>1, <1>t, <1>p, <1>f, GotoTyped, DoneTyped DEF Select
    <2>2. QED
      BY <1>1, <2>1 DEF Select, TasksTyped, rowVars, clockVars, dockerVars, sweepVars
  <1>2. CASE Update(t)
    <2>1. TasksTyped'
      BY <1>2, <1>t, <1>p, <1>f, GotoTyped, DoneTyped, AimTyped DEF Update, Continue
    <2>2. status' \in [Sessions -> Statuses \cup {"absent"}]
      BY <1>2, <1>f DEF Update
    <2>3. idle' \in [Sessions -> BOOLEAN]
      BY <1>2 DEF Update
    <2>4. QED
      BY <1>2, <2>1, <2>2, <2>3 DEF Update, TasksTyped, dockerVars, sweepVars
  <1>3. CASE CountConcurrent(t)
    <2>1. TasksTyped'
      BY <1>3, <1>t, <1>p, <1>f, GotoTyped, DoneTyped DEF CountConcurrent
    <2>2. QED
      BY <1>3, <2>1 DEF CountConcurrent, TasksTyped, rowVars, clockVars, dockerVars, sweepVars
  <1>4. CASE Insert(t)
    <2>1. TasksTyped'
      BY <1>4, <1>t, <1>p, <1>f, GotoTyped DEF Insert
    <2>2. status' \in [Sessions -> Statuses \cup {"absent"}]
      BY <1>4, <1>p DEF Insert
    <2>3. owner' \in [Sessions -> Tenants \cup {None}]
      BY <1>4, <1>f DEF Insert
    <2>4. QED
      BY <1>4, <2>1, <2>2, <2>3 DEF Insert, TasksTyped, clockVars, dockerVars, sweepVars
  <1>5. CASE CreateVolume(t)
    <2>1. TasksTyped'
      BY <1>5, <1>t, <1>p, <1>f, GotoTyped, RaiseTyped DEF CreateVolume
    <2>2. volume' \in [Sessions -> BOOLEAN]
      BY <1>5 DEF CreateVolume
    <2>3. QED
      BY <1>5, <2>1, <2>2 DEF CreateVolume, TasksTyped, rowVars, clockVars, sweepVars
  <1>6. CASE CreateContainer(t)
    <2>1. TasksTyped'
      BY <1>6, <1>t, <1>p, <1>f, GotoTyped, RaiseTyped DEF CreateContainer
    <2>2. /\ volume' \in [Sessions -> BOOLEAN]
          /\ container' \in [Sessions -> {"none", "stopped", "running"}]
      BY <1>6 DEF CreateContainer, dockerVars
    <2>3. QED
      BY <1>6, <2>1, <2>2 DEF CreateContainer, TasksTyped, rowVars, clockVars, sweepVars
  <1>7. CASE SetContainer(t)
    <2>1. TasksTyped'
      BY <1>7, <1>t, <1>p, <1>f DEF SetContainer, TasksTyped, TaskRecord, WorksOnSession
    <2>2. cid' \in [Sessions -> BOOLEAN]
      BY <1>7 DEF SetContainer
    <2>3. QED
      BY <1>7, <2>1, <2>2 DEF SetContainer, TasksTyped, clockVars, dockerVars, sweepVars
  <1>8. CASE Rollback(t)
    <2>1. TasksTyped'
      BY <1>8, <1>t, <1>p, <1>f, AimTyped, DoneTyped DEF Rollback
    <2>2. volume' \in [Sessions -> BOOLEAN]
      BY <1>8 DEF Rollback
    <2>3. QED
      BY <1>8, <2>1, <2>2 DEF Rollback, TasksTyped, rowVars, clockVars, sweepVars
  <1>9. CASE CreateGet(t)
    <2>1. TasksTyped'
      BY <1>9, <1>t, DoneTyped DEF CreateGet
    <2>2. known' \subseteq Sessions
      BY <1>9, <1>f DEF CreateGet
    <2>3. QED
      BY <1>9, <2>1, <2>2 DEF CreateGet, TasksTyped, rowVars, clockVars, dockerVars, sweepVars
  <1>10. QED
    BY <1>1, <1>2, <1>3, <1>4, <1>5, <1>6, <1>7, <1>8, <1>9

\* The steps under the lock keep the types.
LEMMA LockedTyped ==
  ASSUME TypeOK, WorksOnSession, NEW t \in Tasks,
         \/ Acquire(t) \/ Read(t) \/ StopContainer(t) \/ StartContainer(t)
         \/ RemoveContainer(t) \/ RemoveVolume(t)
  PROVE  TypeOK' /\ WorksOnSession'
  <1> USE DEF TypeOK
  <1>t. TasksTyped /\ task[t] \in TaskRecord
    BY DEF TasksTyped
  <1>f. task[t].pc # "idle" /\ task[t].on \in Sessions
    BY <1>t DEF TaskRecord, WorksOnSession, Acquire, Read, StopContainer,
            StartContainer, RemoveContainer, RemoveVolume
  <1>p. /\ {"read", "stop", "start", "select", "rm_volume"} \subseteq PCs
        /\ {"RUNNING", "STOPPED", "DESTROYING", "DESTROYED"} \subseteq Statuses
    BY DEF PCs, Statuses
  <1>1. CASE Acquire(t)
    <2>1. TasksTyped'
      BY <1>1, <1>t, <1>p, <1>f DEF Acquire, TasksTyped, TaskRecord, WorksOnSession
    <2>2. QED
      BY <1>1, <2>1 DEF Acquire, TasksTyped, rowVars, clockVars, dockerVars, sweepVars
  <1>2. CASE Read(t)
    <2>1. CASE Done(t)
      BY <2>1, <1>2, <1>t, DoneTyped DEF Read, TasksTyped, rowVars, clockVars, dockerVars, sweepVars
    <2>2. CASE ~Done(t)
      <3> DEFINE c == cid[task[t].on]
      <3>1. c \in BOOLEAN
        BY <1>f
      <3>2. PICK r : /\ \/ r = [task[t] EXCEPT !.pc = "stop", !.cid = c]
                        \/ r = [task[t] EXCEPT !.pc = "start", !.cid = c]
                        \/ r = [task[t] EXCEPT !.pc = "select", !.to = "DESTROYING", !.cid = c]
                     /\ task' = [task EXCEPT ![t] = r]
                     /\ lock' = lock
        BY <1>2, <2>2, <1>t, <1>f DEF Read, TasksTyped
      <3>4. r \in TaskRecord /\ r.on \in Sessions
        BY <3>1, <3>2, <1>t, <1>p, <1>f DEF TaskRecord
      <3>5. TasksTyped'
        BY <3>2, <3>4, <1>t, <1>f DEF TasksTyped, WorksOnSession
      <3>3. QED
        BY <1>2, <3>5 DEF Read, TasksTyped, rowVars, clockVars, dockerVars, sweepVars
    <2>3. QED
      BY <2>1, <2>2
  <1>3. CASE StopContainer(t)
    <2>1. TasksTyped'
      BY <1>3, <1>t, <1>p, <1>f, AimTyped, RaiseTyped DEF StopContainer
    <2>2. container' \in [Sessions -> {"none", "stopped", "running"}]
      BY <1>3 DEF StopContainer
    <2>3. QED
      BY <1>3, <2>1, <2>2 DEF StopContainer, TasksTyped, rowVars, clockVars, sweepVars
  <1>4. CASE StartContainer(t)
    <2>1. TasksTyped'
      BY <1>4, <1>t, <1>p, <1>f, AimTyped, RaiseTyped DEF StartContainer
    <2>2. container' \in [Sessions -> {"none", "stopped", "running"}]
      BY <1>4 DEF StartContainer
    <2>3. QED
      BY <1>4, <2>1, <2>2 DEF StartContainer, TasksTyped, rowVars, clockVars, sweepVars
  <1>5. CASE RemoveContainer(t)
    <2>1. TasksTyped'
      BY <1>5, <1>t, <1>p, <1>f, GotoTyped, RaiseTyped DEF RemoveContainer
    <2>2. container' \in [Sessions -> {"none", "stopped", "running"}]
      BY <1>5 DEF RemoveContainer
    <2>3. QED
      BY <1>5, <2>1, <2>2 DEF RemoveContainer, TasksTyped, rowVars, clockVars, sweepVars
  <1>6. CASE RemoveVolume(t)
    <2>1. TasksTyped'
      BY <1>6, <1>t, <1>p, <1>f, AimTyped, RaiseTyped DEF RemoveVolume
    <2>2. volume' \in [Sessions -> BOOLEAN]
      BY <1>6 DEF RemoveVolume
    <2>3. QED
      BY <1>6, <2>1, <2>2 DEF RemoveVolume, TasksTyped, rowVars, clockVars, sweepVars
  <1>7. QED
    BY <1>1, <1>2, <1>3, <1>4, <1>5, <1>6

\* The steps of exec, stream and the file operations keep the types.
LEMMA UseTyped ==
  ASSUME TypeOK, WorksOnSession, NEW t \in Tasks,
         Look(t) \/ Relook(t) \/ ExecStart(t) \/ ExecEnd(t) \/ TouchActivity(t)
  PROVE  TypeOK' /\ WorksOnSession'
  <1> USE DEF TypeOK
  <1>t. TasksTyped
    BY DEF TasksTyped
  <1>f. task[t].pc # "idle"
    BY DEF Look, Relook, ExecStart, ExecEnd, TouchActivity
  <1>p. {"touch", "exec", "start", "executing"} \subseteq PCs
    BY DEF PCs
  <1>1. CASE Look(t)
    <2>1. TasksTyped'
      BY <1>1, <1>t, <1>p, <1>f, GotoTyped, DoneTyped DEF Look, Command
    <2>2. QED
      BY <1>1, <2>1 DEF Look, TasksTyped, rowVars, clockVars, dockerVars, sweepVars
  <1>2. CASE Relook(t)
    <2>1. TasksTyped'
      BY <1>2, <1>t, <1>p, <1>f, GotoTyped, DoneTyped DEF Relook, Command
    <2>2. QED
      BY <1>2, <2>1 DEF Relook, TasksTyped, rowVars, clockVars, dockerVars, sweepVars
  <1>3. CASE ExecStart(t)
    <2>1. TasksTyped'
      BY <1>3, <1>t, <1>p, <1>f, GotoTyped, DoneTyped DEF ExecStart
    <2>2. QED
      BY <1>3, <2>1 DEF ExecStart, TasksTyped, rowVars, clockVars, dockerVars, sweepVars
  <1>4. CASE ExecEnd(t)
    <2>1. TasksTyped'
      BY <1>4, <1>t, <1>p, <1>f, GotoTyped, DoneTyped DEF ExecEnd
    <2>2. QED
      BY <1>4, <2>1 DEF ExecEnd, TasksTyped, rowVars, clockVars, dockerVars, sweepVars
  <1>5. CASE TouchActivity(t)
    <2>1. TasksTyped'
      BY <1>5, <1>t, <1>p, <1>f, GotoTyped, DoneTyped DEF TouchActivity
    <2>2. idle' \in [Sessions -> BOOLEAN]
      BY <1>5 DEF TouchActivity
    <2>3. QED
      BY <1>5, <2>1, <2>2 DEF TouchActivity, TasksTyped, rowVars, dockerVars, sweepVars
  <1>6. QED
    BY <1>1, <1>2, <1>3, <1>4, <1>5

\* A task that is given a typed record with a session stays typed.
LEMMA CallTyped ==
  ASSUME TypeOK, WorksOnSession, NEW t \in Tasks, NEW r \in TaskRecord,
         r.on \in Sessions, task' = [task EXCEPT ![t] = r], UNCHANGED lock
  PROVE  TasksTyped'
  BY DEF TypeOK, WorksOnSession, TasksTyped

\* The arrival of a request keeps the types.
LEMMA ArriveTyped ==
  ASSUME TypeOK, WorksOnSession, NEW t \in Requests, Arrive(t)
  PROVE  TypeOK' /\ WorksOnSession'
  <1>1. PICK op \in TaskOps, pc \in PCs, s \in Sessions, tn \in Tenants :
               Begin(t, op, pc, s, tn)
    BY DEF Arrive, BeginCreate, BeginLifecycle, BeginUse, TaskOps, UseOps, LockedOps, PCs
  <1>2. NewTask(op, pc, s, tn, FALSE) \in TaskRecord
    BY RecordTyped
  <1>3. NewTask(op, pc, s, tn, FALSE).on \in Sessions
    BY DEF NewTask
  <1>4. TasksTyped'
    BY <1>1, <1>2, <1>3, CallTyped DEF Begin, Tasks
  <1>5. QED
    BY <1>1, <1>4 DEF Begin, TypeOK, TasksTyped, rowVars, clockVars, dockerVars, sweepVars

\* The loops of the lifespan and of delete_tenant keep the types.
LEMMA SweepTyped ==
  ASSUME TypeOK, WorksOnSession,
         Reaping \/ Purging \/ Starting \/ \E tn \in Tenants : RevokeTenant(tn)
  PROVE  TypeOK' /\ WorksOnSession'
  <1> USE DEF TypeOK
  <1>t. TasksTyped /\ Daemon \in Tasks /\ Deleter \in Tasks
    BY DEF TasksTyped, Tasks
  <1>c. ASSUME NEW s \in Sessions, NEW t \in Tasks, NEW op \in TaskOps, NEW pc \in PCs,
               Call(t, op, pc, s), UNCHANGED lock
        PROVE  TasksTyped'
    <2> DEFINE r == NewTask(op, pc, s, None, (op = "finish") /\ cid[s])
    <2>1. r \in TaskRecord
      BY RecordTyped
    <2>2. r.on \in Sessions
      BY DEF NewTask
    <2>3. task' = [task EXCEPT ![t] = r]
      BY <1>c DEF Call
    <2> HIDE DEF r
    <2>4. QED
      BY <1>c, <2>1, <2>2, <2>3, CallTyped
  <1>o. /\ {"reap_stop", "reap_destroy", "finish"} \subseteq TaskOps
        /\ {"lock", "rm_container", "rm_volume"} \subseteq PCs
        /\ "STOPPED" \in Statuses
    BY DEF TaskOps, UseOps, LockedOps, PCs, Statuses
  <1>1. CASE ReaperTick \/ ReaperListExpired \/ ReaperSleep
    BY <1>1 DEF ReaperTick, ReaperListExpired, ReaperSleep, Sweep, WorksOnSession,
                rowVars, clockVars, dockerVars
  <1>2. ASSUME NEW s \in Sessions, ReapIdle(s) \/ ReapExpired(s)
        PROVE  TypeOK' /\ WorksOnSession'
    <2>1. TasksTyped'
      BY <1>2, <1>t, <1>c, <1>o DEF ReapIdle, ReapExpired, TasksTyped, WorksOnSession
    <2>2. QED
      BY <1>2, <2>1 DEF ReapIdle, ReapExpired, Sweep, TasksTyped, rowVars, clockVars, dockerVars
  <1>3. CASE PurgeList
    BY <1>3 DEF PurgeList, Purge, Live, WorksOnSession, rowVars, clockVars, dockerVars
  <1>4. CASE PurgeEnd
    BY <1>4 DEF PurgeEnd, Purge, WorksOnSession, rowVars, clockVars, dockerVars
  <1>5. ASSUME NEW s \in Sessions, PurgeSession(s)
        PROVE  TypeOK' /\ WorksOnSession'
    <2>1. TasksTyped'
      BY <1>5, <1>t, <1>c, <1>o DEF PurgeSession
    <2>2. QED
      BY <1>5, <2>1 DEF PurgeSession, Purge, TasksTyped, rowVars, clockVars, dockerVars
  <1>6. CASE StartUnhealthy \/ StartReconcile \/ ReconcileListRows \/ StartServing
    BY <1>6 DEF StartUnhealthy, StartReconcile, ReconcileListRows, StartServing, Sweep,
                WorksOnSession, rowVars, clockVars, dockerVars
  <1>7. ASSUME NEW s \in Sessions, FinishDestroy(s)
        PROVE  TypeOK' /\ WorksOnSession'
    <2>1. TasksTyped'
      BY <1>7, <1>t, <1>c, <1>o DEF FinishDestroy
    <2>2. QED
      BY <1>7, <2>1 DEF FinishDestroy, Sweep, TasksTyped, rowVars, clockVars, dockerVars
  <1>8. ASSUME NEW s \in Sessions, MarkOrphan(s)
        PROVE  TypeOK' /\ WorksOnSession'
    <2>1. status' = status \/ status' = [status EXCEPT ![s] = "STOPPED"]
      BY <1>8 DEF MarkOrphan
    <2>2. idle' = idle \/ idle' = [idle EXCEPT ![s] = FALSE]
      BY <1>8 DEF MarkOrphan
    <2>3. status' \in [Sessions -> Statuses \cup {"absent"}]
      BY <2>1, <1>o
    <2>4. idle' \in [Sessions -> BOOLEAN]
      BY <2>2
    <2>5. QED
      BY <1>8, <2>3, <2>4 DEF MarkOrphan, Sweep, WorksOnSession, dockerVars
  <1>9. ASSUME NEW tn \in Tenants, RevokeTenant(tn)
        PROVE  TypeOK' /\ WorksOnSession'
    BY <1>9 DEF RevokeTenant, Purge, WorksOnSession, rowVars, clockVars, dockerVars
  <1>10. QED
    BY <1>1, <1>2, <1>3, <1>4, <1>5, <1>6, <1>7, <1>8, <1>9 DEF Reaping, Purging, Starting

\* Crashes and the passage of time keep the types.
LEMMA EnvironmentTyped ==
  ASSUME TypeOK, WorksOnSession,
         Crash \/ \E s \in Sessions : GrowIdle(s) \/ Expire(s) \/ LoseContainer(s)
  PROVE  TypeOK' /\ WorksOnSession'
  <1> USE DEF TypeOK
  <1>1. CASE Crash
    <2>1. TasksTyped'
      BY <1>1, NoTaskTyped DEF Crash, TasksTyped, WorksOnSession, NoTask, NewTask
    <2>2. QED
      BY <1>1, <2>1 DEF Crash, Sweep, Purge, TasksTyped, rowVars, clockVars, dockerVars
  <1>2. ASSUME NEW s \in Sessions, GrowIdle(s) \/ Expire(s) \/ LoseContainer(s)
        PROVE  TypeOK' /\ WorksOnSession'
    BY <1>2 DEF GrowIdle, Expire, LoseContainer, WorksOnSession, rowVars, dockerVars,
                clockVars, sweepVars
  <1>3. QED
    BY <1>1, <1>2

\* Every reachable state is well typed: in particular every status that the
\* service writes is one of the registry's, on every path of every operation.
THEOREM TypeCorrect == Spec => [](TypeOK /\ WorksOnSession)
  <1>1. Init => TypeOK /\ WorksOnSession
    BY NoTaskTyped DEF Init, TypeOK, WorksOnSession, NoTask, NewTask
  <1>2. TypeOK /\ WorksOnSession /\ [Next]_vars => TypeOK' /\ WorksOnSession'
    <2> SUFFICES ASSUME TypeOK, WorksOnSession, [Next]_vars
                 PROVE  TypeOK' /\ WorksOnSession'
      OBVIOUS
    <2>1. ASSUME NEW t \in Requests, Arrive(t)
          PROVE  TypeOK' /\ WorksOnSession'
      BY <2>1, ArriveTyped
    <2>2. ASSUME NEW t \in Tasks, Acquire(t) \/ Step(t)
          PROVE  TypeOK' /\ WorksOnSession'
      BY <2>2, CreateTyped, LockedTyped, UseTyped DEF Step
    <2>3. CASE Reaping \/ Purging \/ Starting \/ \E tn \in Tenants : RevokeTenant(tn)
      BY <2>3, SweepTyped
    <2>4. CASE Crash \/ \E s \in Sessions : GrowIdle(s) \/ Expire(s) \/ LoseContainer(s)
      BY <2>4, EnvironmentTyped
    <2>5. CASE UNCHANGED vars
      BY <2>5 DEF vars, TypeOK, WorksOnSession
    <2>6. QED
      BY <2>1, <2>2, <2>3, <2>4, <2>5 DEF Next
  <1>3. QED
    BY <1>1, <1>2, PTL DEF Spec

=============================================================================
