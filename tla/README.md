# TLA+ models of the sandbox control plane

The control plane is a FastAPI service (`src/api/`) that keeps sandbox sessions:
a row in SQLite, a Docker container and a Docker volume for each.  Clients
create, stop, resume, destroy and use sessions over HTTP or MCP; a reaper stops
idle sessions and destroys old ones; startup repairs what a crash left behind.

This directory holds models of it, the TLC runs that check them and proofs for
TLAPS.  Everything is translated from the code; where a document or a comment
disagrees with the code, the model follows the code and *Findings* says so.

## Contents

| File | What it is |
|---|---|
| `SessionStatus` | the statuses of a session row and `TRANSITIONS` |
| `SessionRow` | the abstract machine of the rows: what the registry promises |
| `SessionLifecycle` | SessionService, the look-up and resume of exec and files, reaper, `delete_tenant`, crash, startup |
| `MCSessionLifecycle`, `MC*.cfg` | its instances for TLC |
| `SessionLifecycleProofs` | type correctness, for every value of the constants |
| `SessionSafetyProofs` | locks, container ids, objects without a row, isolation of tenants, what startup heals, the refinement of `SessionRow`, the cap, what a destroy leaves |
| `Idempotency`, `MCIdempotency` | the replay cache of `Idempotency-Key` and its map of locks |
| `IdempotencyProofs` | a replay is the right response, when two handlers of one key may take effect |
| `Audit`, `MCAudit` | the audit log that fails closed: buffer, fallback file, recovery |
| `AuditProofs` | a healthy log has no backlog, no record is lost, the log is in order |
| `Processes`, `MCProcesses` | the background processes of a session, their rows and pids |
| `ProcessesProofs` | exits are written once with the process's own code, no live process is written off |
| `Tokens`, `MCTokens` | tenants, bearer tokens, the admin's routes, the bootstrap |
| `TokensProofs` | rotations keep scopes and tenant, a revocation is final, the admin is seeded, a deleted tenant stays closed |
| `ExecStream`, `MCExecStream` | one command and its output: cap, thread and queue, answer, record, a client that leaves |
| `ExecStreamProofs` | the cap, what is answered is recorded, exit code 0 is the command's own, what is kept and sent |
| `OrphanReaper`, `MCOrphanReaper` | the sweep of objects without a row, beside creates, destroys and restores of a backup |
| `OrphanReaperProofs` | the cap of a tick, only orphans are removed |
| `PROJECT.json` | definitions mapped to source lines, runs, mutants, hazards, findings, theorems |

`tlc -config MCLocked.cfg MCSessionLifecycle` runs one check,
`tlapm SessionSafetyProofs.tla` checks the proofs.

## Inventory

One process, one event loop.  A coroutine gives up control at every `await`: a
registry statement (each method opens its own SQLite connection and commits), a
Docker call (`asyncio.to_thread`), or a lock.  Two coroutines interleave at
those points, and a crash may fall on any of them.

**Registry** (`registry.py`).  State: the tables `sessions`, `tenants`,
`tokens`, `processes`, `idempotency_keys`.  Operations: `insert`,
`set_container`, `transition` (a SELECT with the check of `TRANSITIONS`, then an
UPDATE that repeats no check), `touch_activity`, the listings for reaper and
startup, `transition_orphaned`; token, tenant, process and cache rows.  Every
other component calls it.  Hard: check and write are separate statements.
Correct when rows move along `TRANSITIONS`, DESTROYED is final, and a read for a
tenant shows only its rows.

**SessionService** (`sessions.py`).  State: `_locks`, one `asyncio.Lock` per
session.  Operations: `create` (no lock; rollback on failure), `stop`, `resume`,
`destroy`, `reap_stop`, `reap_destroy` (under the lock), `reconcile_on_startup`,
`bump_activity`, `compute_etas`.  Called by the routes, MCP, reaper, processes
and `delete_tenant`; calls registry, Docker and audit.  Hard: each operation is
several Docker and registry steps that may fail or be cut off one by one.
Correct when operations on one session exclude each other, rows and Docker
objects agree, the cap on sessions is exceeded by creates that overlap only, and a
crash is repaired.

**ExecService, FileService** (`exec.py`, `files.py`).  No state of their own.
`run`, `run_stream`, file operations: look the session up, resume it if it is
stopped (without the lock), act on the container, bump the activity.  Hard: the
resume and the command race stop, destroy and the reaper; the output cap and the
time-out of a command.  Correct when a command runs in a container of its own
tenant and nothing brings a destroyed session back.

**Reaper** (`reaper.py`).  Operations: `tick` lists idle rows and stops them
(skipping sessions with running processes), lists expired rows and destroys
them, calls the audit emitter's maintenance.  Hard: it works from lists that are
stale by the time it acts.  Correct when every expired session is destroyed.

**IdempotencyMiddleware** (`idempotency.py`).  State: the map of locks per
(tenant, key), the cache table.  Operations: look-up, lock, re-check, run,
store, release.  Hard: locks leave the map while others wait on them; a crash
between effect and store.  Correct when a handler does not run twice for a key
that has a stored response, and a replay is the right response.

**ProcessService** (`processes.py`).  State: process rows; supervisor, pid and
exit files in the container.  Operations: `start`, `list`, `get`, `stop`,
`delete`, `reap_session_processes`, `_maybe_refresh`.  Hard: the cap is checked
before the spawn and the row is inserted after it; refresh and stop race the
exit of the process.  Correct when a row says RUNNING only for a process that
may live, the exit code is written once, and no live process outlives the row
that accounts for it.

**Authenticator, tenants** (`auth.py`, `server.py`).  State: token rows with
grace periods, tenants.  Operations: authenticate, issue, rotate, revoke,
bootstrap, `delete_tenant`.  Hard: overlapping rotations and revocations;
requests authenticated before a revocation.  Correct when a revoked token stops
working and a tenant that is deleted leaves nothing running.

**AuditEmitter** (`audit.py`).  State: health, a buffer, a fallback file.
Operations: `precheck` (refuses work when auditing is unhealthy), `emit`,
`maintenance_tick`, drain.  Hard: the order of buffered, fallback and new
records; recovery when nobody emits.  Correct when no record of an accepted
operation is lost or written out of order.

**OrphanReaper** (`orphan_reaper.py`).  Lists labelled containers and volumes
and removes those without a row.  Hard: it works from a list and a
look-up that are older than the removal, races `create`, shares one budget between
two passes, and meets objects that Docker refuses to remove.  Correct when it never
removes an object of a session that has a row, keeps to its budget, and every
orphan goes in the end.

**Others**: quota hooks (an operator's script run at volume creation and
removal), sampler and metrics (read-only), the MCP server (a second front end
over the same services), the web routes, configuration, models, errors, the
Docker client, the sandbox image, the egress proxy, deployment and tools.

Hazards, each at its line and with the properties that would show it, are in
`PROJECT.json`.

## SessionLifecycle

| Variable | Code |
|---|---|
| `status`, `cid`, `owner` | columns `status`, `container_id` (set or not), `tenant_id` |
| `idle`, `expired` | `last_activity_at` / `created_at` beyond the reaper's thresholds |
| `volume`, `container` | what Docker has (external) |
| `lock` | `SessionService._locks` |
| `task` | each request, the lifespan's task and the task of a `DELETE` of a tenant: operation, step, session, tenant, the row read, the target of a transition |
| `daemon`, `deleter` | phase of the reaper / startup / `delete_tenant`, and the rows left of the list it read |
| `known` | ids that a `create` has returned to its client |
| `tenant` | `active`, tokens revoked, deleted |

An action is what a task does between two awaits; the comments in the module
name the code where it is not obvious.  `transition` is `Select` and `Update`.
The steps of an operation follow each other through `task[t].pc`; which one
follows an UPDATE is `Continue`.  `create`'s `try`/`except` and
`_destroy_locked`'s `try`/`finally` are `Raise`.

Modelled as the code has it, although it may surprise:

- the rollback of `create` removes the volume only.  While the container exists
  Docker refuses that, the rollback raises and the row stays CREATING;
- a destroy whose Docker call raised still writes DESTROYED;
- `exec`, `stream` and file operations resume without the lock and do not look
  at the status again;
- `run` bumps the activity when the command ends, `run_stream` before it starts;
  `list_dir` and failed file operations do not bump it;
- if Docker does not answer at startup, reconciliation does not run at all;
- no code path writes IDLE; the guards that admit it are kept.

Assumptions.  Statements of the registry succeed.  A Docker call may raise, with
or without its effect (`DockerFails`); the failure of a quota hook is a failure
of the volume step it belongs to.  A volume that a container mounts cannot be
removed, and creating a container creates a missing volume.  Containers are lost
only while the control plane is down.  Session ids are fresh.  A TTL is longer
than one `create`.  A client names only sessions it was told of.  Whether a
session has running processes, which the reaper asks before it stops it, is a
free choice.  The audit pre-check that may refuse an operation at its start is
in `Audit`.

## Idempotency

`req` is what each request does, `inflight` the map of locks, `holder` who holds
a lock, `cache` the request whose response is stored for a key.  A key stands
for (tenant, header).  `_route_template` is evaluated before the request has
been routed and so yields the path: `Routes` are paths.  A response expires only
when no request of its key is in flight: the TTL is hours.

A stream releases its lock when its headers are there; an exception of the
handler skips `_release_inflight` and leaves the lock in the map; so does a hit
under the lock.  `purge_expired_idempotency` is called from nowhere (its comment
and `idempotency.py:18` name the reaper); expired rows read as absent, so
nothing depends on it.

## Audit

`buffer`, `primary`, `fallback` are the buffer and the two files, `health` is
`_unhealthy_since` (with the budget of `buffer_timeout_s` as "short" and "long"),
`disk` says which file takes writes.  `op` is where each operation is between its
`precheck` and its `emit`: the guarded operations of clients, and those of the
reaper, the orphan reaper and startup, which have no `precheck`.  `emitted` and
`lost` are history.  `emit` and `maintenance_tick` hold the emitter's lock and
never give up control inside it, so each is one action; what can go wrong inside
is which of its writes raises, and whether that record is in the file all the
same (the file is flushed when it is closed).

A record may be in the log twice, and records in the fallback file do not return
to the log.  A crash loses the buffer and the new emitter starts healthy.
Assumption: a line is written whole or not at all.

## Processes

One session.  `row` is the process rows (`deleted` keeps its pid, for the
properties only), `os` the container: each process's pid, whether it lives, its
exit file; `used` the pids since the container was started, so that a restart
hands them out again.  `req` is what each request does.  A request's arrival and
its look-ups of session and row are one step: what changes between them is found
by the next step as well.  `list` is a `get` that may skip the probe.  The
session is what its operations do to the processes: a stop ends them all (the
supervisors too, so no exit file is written), a resume starts an empty container,
a destroy kills by row and then removes the container, which may fail.

Assumptions.  SIGKILL is immediate: a row that is closed or deleted right after it
(`processes.py:328`, `193`) is not seen beside a process that is still dying.  SIGTERM
may be ignored.  A container does not
reuse a pid before it is restarted.  A Docker call of the service that raises
has had no effect.  Stop and resume of the session are one step each
(`SessionLifecycle` has their parts).

## Tokens

`tenants` and `token` are the rows, `req` the requests, `boot` the startup.
`revoked_at` is what the clock says of it: never, in the future, over.  A row
stands for its bearer (hashes are unique); the two bearers of the environment have
rows of their own.  Authentication does not look at the tenant's row, and the
reference from tokens to tenants is not enforced (SQLite's default), so a token of
a deleted tenant authenticates until it is revoked.  `from` is history.

As the code has it: `revoke_token` overwrites whatever is there, so the last
UPDATE of a rotation gives a grace period to a token that was revoked in the
meantime, against "admin revocation is immediate" (`server.py:1145`);
`delete_tenant` revokes once, and a rotation or an issue that is under way inserts
its token afterwards; a token in its grace period may rotate again, which starts
the period again; the bootstrap of the default tenant asks for tenants and the
one of the admin for the token, so that only the second survives a crash between
its two inserts.

A request's authentication and the reading of the token's scopes are one step
(scopes never change).  `SANDBOX_ADMIN_TOKEN` is set, and so is `SANDBOX_API_TOKEN`:
the bootstrap has a branch without it (`auth.py:204`), but `server.py:250` refuses to
start then.  The bearers of the environment do not change.

## ExecStream

One call: `POST /exec`, the SSE stream, the MCP tool `exec_` with a progress token
(these three share `run_stream` or `_append_capped`), or the log stream of a
process.  The actors are the command in its container (`cmd`, `code`, `out`), the
thread that reads Docker's stream (`thread`, `queue`, `inspected`), the handler on
the event loop (`pc`, `buf`, `truncated`, `announced`, `exit`), the client (`sent`,
`failed`, `result`) and the audit log (`record`, `bumped`).  A byte is its position
in its stream, so that a gap, a repetition or a byte too many can be seen.

As the code has it: `exit_code` starts as 0 and an exit code that Docker does not
have is taken for 0; the chunk that meets the cap is forwarded whole, and so is the
next one when the first ended exactly at the cap; an error event is followed by a
result event with exit code 0 and a record `ok` on SSE, while the MCP tool raises;
`run` that raises leaves neither record nor activity; a disconnect drops the
generator, and with it the record, but not the thread or the command.

Assumptions.  The pre-check and the look-up of the session have succeeded
(`Audit`, `SessionLifecycle`).  `timeout` sends SIGTERM and the command ends; a
command that ignores it runs on, and its call with it.  Docker's calls return or
raise.  A container that is stopped or removed ends its commands.  `tail -F` ends
with its container only, so `CallEnds` does not speak of log streams.

## OrphanReaper

`row` is what `get_unscoped` finds, `backup` the rows of the operator's backup,
`born` Docker's objects with their creation times, `stage` where each session's
`create` or `destroy` is.  `sweep` is one tick: the pass, what is left of its list,
the object about to be removed, the time that was read at its start, and the
budget.  List, look-up and removal are separate steps; everything else happens in
between.  `reaped` and `unheard` are history.

As the code has it: any row protects its objects, a DESTROYED one too, so what a
failed destroy leaves is never swept; a creation time that does not parse is 0 and
makes the object infinitely old; a list that fails is empty; a removal that raises
is not counted; when the first pass uses up the budget there is no second one.
Orphans arise when the registry is restored from a backup that is older than the
session: `ObjectsHaveRows` (proved for `SessionLifecycle`) says that nothing else
makes them, and `InsertRow` before `CreateVolume` is the same order here.

Assumptions.  Ids are not reused.  Docker refuses to remove a volume that a
container mounts.  The restore happens while the control plane is down.  Removals
and lists that are tried again and again succeed in the end, except for the objects
in `Stuck`.

## Runs

| Run | Instance | Shows |
|---|---|---|
| `locked` | 2 sessions, 2 requests, cap 1, faults, crashes | locks, container ids, no object without a row, `SessionRow` implemented, by create, resume, destroy, the reaper and startup |
| `crash` | 1 session, 2 tenants, 2 requests, all session operations, crashes, no faults | container ids, isolation of tenants, DESTROYED is clean, what startup heals |
| `live` | 1 session, 1 request, all operations, `delete_tenant`, fairness | an expired session ends DESTROYED for good; every request is answered |
| `idempotency` | 3 requests, 1 key, 2 paths, all outcomes, expiry, crashes, fairness | when two handlers of one key may take effect; what is replayed; every request is answered |
| `audit` | 2 guarded and 1 background operation, both files fail and recover, crashes, fairness | no record lost, order kept, no backlog when healthy, recovery without emits |
| `processes` | 2 processes, 2 pids, 2 requests, cap 1, faults, crashes | EXITED rows are of dead processes, the exit code is written once and is the process's own |
| `tokens` | 2 tenants, 4 tokens, 2 requests, expiry, crashes | a revocation is final unless a rotation is under way, a deleted tenant stays closed, scopes are inherited, the admin is seeded |
| `streams` | 1 call of any kind, cap 2, chunks of 1 and 2, 4 bytes per stream, container and thread fail, the client leaves, fairness | what is kept, sent, answered and recorded, also at the cap; every command's call ends |
| `orphans` | 2 sessions, budget 1, grace 1, volumes without a time, a container that stays, lost answers, a restore, fairness | only orphans past the grace window go, at most the budget per tick, and all of them in the end |
| `resurrect` | violation | a transparent resume moves a DESTROYED row to RUNNING |
| `key_race` | violation | two requests with one key run at the same time |
| `past_cap` | violation | a stream that is at the cap sends one more chunk |

Bounds.  Operations on different sessions share only the tenant's cap, the
reaper and `delete_tenant`, each of which handles one session at a time, so the
contention is on one session: two requests and the reaper make three actors on
its lock and its row, and the second session of `locked` is refused at the cap or
created beside the first.  A stop under the lock is the reaper's there and a
client's in `crash`.  (`locked` with the clients' stops as well, 1.9 million states,
and with one session and three requests holds too.)
`key_race` needs three requests: one to drop
the lock, one that waits on it and one that makes a new one.  Keys do not
interact, so one is enough.  `audit`: three records make a buffer that is drained
in part with one more behind it; `MaxLines` bounds what ticks that fail may add.
`processes`: two processes with two pids are enough for a pid that comes back to
another process after a restart, two requests for two that close one row.
`tokens`: two rows besides those of the environment make a chain of rotations of
length two, two requests an overlap of any two operations.  `streams`: with cap 2
and chunks of 1 and 2 a stream ends below, at and beyond the cap, and meets it
inside a chunk and at its end; calls do not interact.  `orphans`: with two sessions
and budget 1 a tick cannot do all its work and the object that stays competes with
one that can go; time 2 with grace 1 has objects on both sides of the window.
`Symmetry` permutes sessions and requests in the
safety runs; no action tells them apart.

`ImplementsSessionRow` is checked without `exec`, `stream` and file operations
(the run `resurrect` shows that they break it) and `DestroyedIsClean` without
faults (a destroy whose Docker call raised writes DESTROYED all the same).  How far
the tenant's cap is overshot (`OvershootBounded`) is proved for any number of
requests and has no run.  `ExpiredIsDestroyed` is checked without faults:
with faults a resume that overlaps each failed destroy can undo it for ever.

Fairness.  The event loop runs every coroutine that is ready and Docker calls
return or time out (weak fairness of `Step` and of the sweeps), `asyncio.Lock`
is first-in first-out (strong fairness of `Acquire`), time passes (weak fairness
of `Expire`).  The reaper calls `maintenance_tick` at every tick (weak fairness of
`MaintenanceTick`); emits are not fair.  The orphan reaper's task and the clock run
(weak fairness of `Sweep`, `Clock`), and a list or a removal that is tried for ever
succeeds in the end (strong fairness of `Lists` and `Removes`: Docker is not down for
good).  In `ExecStream` the thread and the loop run and a command ends (weak fairness
of `ThreadProceeds`, `Loop`, `CommandEnds`).  Clients are not fair.  Requests of
`MCIdempotency` are sent once each, processes are started once each and
`MCExecStream` has one call, so these models stop and deadlock is not an error there.

## Proofs

`SessionLifecycleProofs` proves `TypeCorrect`: `TypeOK` with `WorksOnSession` (a
task at work has a session) is inductive.

`SessionSafetyProofs` builds on it; each invariant strengthens the property of a
run, has been checked with TLC in its strengthened form, and holds for any sets
of sessions, tenants and requests, with faults and crashes:

- `LocksHeldRight`: `LockDiscipline` becomes inductive with "only an operation
  under the lock waits for one" (`LockInv`).
- `RunningRowsHaveContainerId`: a row becomes RUNNING in the `Update` of a task
  that has started the container, so `RunningInv` follows such a task back to
  the point where it saw or set the container id.  It covers the unlocked
  resumes, and `container_id` is never cleared.
- `RowsInvariant`, `NoObjectWithoutRow`: a task that touches Docker works on a
  session that has a row, and rows never go away (`RowInv`); ids that are known
  to clients or sit in a sweep's list have rows too.
- `TenantsIsolated`: the owner of a row is written once, by the only task that
  knows the id (`OwnerInv` with `RowInv`); a look-up lets a request past only
  with its own tenant.

The other theorems have hypotheses, each the case in which the property is false
of the code:

- `RowsImplementSessionRow` (refinement of `SessionRow`) and `DestroyedStaysDestroyed`,
  for create, stop, resume, destroy, the reaper and startup, with faults and crashes.
  `UpdateInv` says that what the SELECT of a transition has checked still holds at
  its UPDATE.  It needs where each operation can be (`ShapeInv`), that a create is
  alone on its session until it returns (`AloneInv`), that startup is alone
  (`QuietInv`), and that two who are about to write one row would hold one lock
  (`OneWriter`).  Commands and file operations are left out because their resume
  takes no lock (run `resurrect`), `delete_tenant` because it may destroy a session
  that its create is still making.
- `OvershootIsBounded`, for the same operations and a finite set of requests
  (cardinalities are of finite sets only).  `CapInv`: the rows were fewer than the cap
  when the last of those about to insert counted them, and a row becomes live by
  an insert only; the second half is what an unlocked resume breaks.
- `DestroyedSessionsAreClean`, without Docker faults (a destroy that raised writes
  DESTROYED all the same) and without `delete_tenant`, but with commands, file
  operations and crashes.  `CleanInv` says what a task has seen to by the time it is where
  it is (`Tidy`): a create records no container that it has not made, a destroy knows the
  container that the row knows, and a row is marked only once its objects are gone.
- `ReconcileLeavesNoGhosts`, an action property, without faults: a step of
  reconciliation that raises is logged and passed over.  `HealInv`: what is still wrong
  is still on the list of the phase, or in the daemon's hands.

`IdempotencyProofs` proves for any requests, keys and routes, with expiry and crashes:

- `TypeCorrect`, with where a request can be (`PhaseInv`) and that whoever is past
  `acquire` holds its lock (`HoldInv`).
- `ReplaysAreFaithful`: a cached response is of a request of its key that has ended
  (`CacheInv`), and what a request replays had its key and route (`AnswerInv`).
- `DuplicatesNeedMiss`.  Several locks of one key may exist at once (run `key_race`), so
  mutual exclusion is no argument.  `MissInv` is about keys none of whose responses
  went uncached: their lock stays the one in the map, or the response is cached and
  everybody who comes later finds it at the re-check.

`ProcessesProofs` proves for any processes, pids, requests and cap:

- `TypeCorrect`, with `ShapeInv` (where each request can be) and `AliveInv` (a process
  that lives has written no exit file).
- `CodesAreOwn`, `ExitsAreFinal` (an action property), `NoLiveProcessIsWrittenOff`.  The
  request that starts a process is the only one that knows of it until its row is there
  (`AloneInv`); a pid in a row or in a request's hands is that process's own (`PidInv`); a
  code that a request has read is in the exit file (`CodeInv`); a request that goes on
  without looking again has seen its process dead, and the dead do not come back: pids
  do, processes do not (`DeadInv`).

`AuditProofs` proves, for any operations and any sequence of failures:

- `HealthyLogIsDrained`: inductive as it stands.
- `NoRecordIsLost`: `NoRecordLost` with `TypeOK`.  The lemmas say which records a
  concatenation, a front part and the rest of a sequence have (`RecordsOf...`);
  what `Flush` is given is in the fallback file or in memory afterwards
  (`FlushKeeps`), and an emit or a tick that stops after n writes has the first n
  lines in the log and hands the rest to `Flush` (`EmitKeeps`, `TickKeeps`).
- `TypeCorrect`, from the same invariant.
- `TimelineIsOrdered`: what waits in memory may follow what is in the log, and both are in
  the order of the emits (`OrderInv`).  An operation emits once, so the record whose write
  raised may be in both.

`TokensProofs` proves for any tenants, tokens and requests `RotationKeepsScopes`,
`RevocationsAreFinal`, `DeletedTenantsStayClosed` (action properties), `TypeCorrect` and
`AdminIsSeeded`.  The invariant says
what a request carries from its look-up to its writes (`RequestOK`: a rotation has
the scopes and the tenant of its token, only a rotation gives grace), that a
token's origin has a row, and that the bootstrap never inserts the admin's bearer
twice.  For deleted tenants it is also needed that nobody is served while the bootstrap
runs, so that the tenant it has just inserted is there when its token is (`StartInv`).

`OrphanReaperProofs` proves for any sessions, cap, grace window, failures, restarts
and restores:

- `TypeCorrect` and `TicksAreBounded` together (`BudgetInv`: what a tick has
  removed and what is left of its budget are at most the cap and the removals it
  has not heard of; a removal is under way only while there is budget).
- `OnlyOrphansAreReaped`, an action property.  `OrphanInv` says why stale lists do no
  harm: a session that is under way has a row; what exists or was listed has been
  created, so its session's `create` is past `InsertRow` and no row appears between
  look-up and removal; a listed stamp stays the object's creation time.  A restore
  takes rows away but drops the lists.

`ExecStreamProofs` proves for any cap and chunks:

- `TypeCorrect`, which includes the cap on what is kept (`CapKept`).
- `AnswersAreRecorded` (`ControlInv`: the queue belongs to streams, a stream that is
  about to answer has its record).
- `ResultsAreHonest` (`HonestInv`: when the thread is done, an error was sent, the
  exit code is the command's, or the queue still holds an outcome; the sentinel is
  the last event, so at the sentinel the third is excluded).
- `KeptOutputIsPrefix`, `ChunksComeInOrder`, `KeptOutputWasSent` (`DataInv`).  `Carries` says
  that the chunks of a stream in the queue follow each other without a gap up to what
  Docker has delivered; `StreamInv` that they begin where the loop is, as long as the
  stream is not truncated; `SentInv` what was sent then.  At the sentinel the queue is
  empty (`EndInv`, from `HonestInv`), so what is kept is all there was, up to the cap.

The assumptions are `LifecycleAssumption` (the names are distinct, the operations
are among those modelled, the cap is positive), `AuditAssumption` (the heartbeat
is no operation), `TokensAssumption` (the names are distinct), `OrphanAssumption`,
`ExecAssumption` (the cap and the chunks are positive, the other bounds natural), and those
of `Idempotency` and `Processes` (the names are distinct);
TLC evaluates them in the runs.

Checked by TLC only: the liveness properties `ExpiredIsDestroyed`, `RequestsFinish`,
`RequestsAnswered`, `AuditRecovers`, `CallEnds` and `OrphansSwept` (fairness and `ENABLED` are
outside the prover's reach).  Every other property of a passing run is proved, under
the hypotheses above; `OvershootBounded` and, for the operations under the lock,
`DestroyedIsFinal` are proved only.  What a recursive definition computes for every input would
need induction over data, which the installed provers cannot do; no module here uses
one.

## Findings

With a run that ends in a violation:

1. `resurrect`: "Irreversible" (`server.py:600`); the resume of exec overwrites
   DESTROYED, because `transition` checks and writes in separate statements.
2. `key_race`: "the second request waits for the first to finish"
   (`idempotency.py:9`); the release drops a lock that others wait on.
3. `past_cap`: "Once the per-stream 8 MiB cap is hit, no further chunks of that
   stream are emitted" (`server.py:650`; SPEC-203 discards further bytes); after a
   chunk that ends exactly at the cap the next one is sent whole, because only a
   chunk that does not fit marks the stream (`exec.py:182`).

Seen while modelling; the models follow the code and the properties are stated so
that they hold of it:

- the comment at `sessions.py:224` says an exec in flight blocks the reaper; exec
  takes no lock.
- "DESTROYED after docker rm + docker volume rm succeed" (`ARCHITECTURE.md:472`);
  the `finally` writes it in any case, and the orphan reaper leaves the objects
  alone because the row exists.
- a streamed command whose client leaves has no audit record (`exec.py:215`), against
  "One line per exec call" (`ARCHITECTURE.md:315`).
- creates that overlap exceed the tenant's cap (`sessions.py:104` counts, the insert
  comes later), against "50 per tenant" (`SPECIFICATION.md:182`, `docs/MCP.md:35`);
  `OvershootIsBounded` says by how much.
- `timeout` without `--kill-after` (`docker_client.py:109`) leaves a command that
  ignores SIGTERM running, against "a hard wall-clock cap" (`docker_client.py:496`);
  `CallEnds` assumes that commands end.
- `compute_etas` counts `hard_destroy_at` from `last_activity_at`, the reaper from
  `created_at`.
- `orphan_reaper.py:5` and `config.py:74` explain the grace window by a volume that
  precedes its row; `create` inserts the row first.
- a creation time that does not parse is past any grace window
  (`orphan_reaper.py:200`), against `docker_client.py:72`.
- the thread of a log stream goes on after the client has left, against
  `docker_client.py:772`.
- the MCP tool `file_delete` passes `recursive` as a positional argument to a
  keyword-only parameter (`mcp_server.py:368`) and so always raises.
- a tenant's `max_concurrency` is stored and reported (`server.py:1181`), `create`
  enforces the global setting only (`sessions.py:104`).
- the overlaps of rotation, revocation and deletion, and the two bootstraps, under
  *Tokens* above.
- `reaper.py:83` says that the reaper's calls fail their pre-check while auditing
  is unhealthy; they have none.
- after a restart of the container a stop of an old process signals whichever
  process has its pid now.

## Plan

Done: all modules of the inventory that keep state, with their runs and proofs.

Theorems to come: what the operations that are left out of `RowsImplementSessionRow` and
`OvershootIsBounded` still guarantee (with unlocked resumes a row leaves DESTROYED only for
RUNNING, and how far the cap is overshot then), `DestroyedIsClean` beside `delete_tenant`, and
which requests may run side by side in `Idempotency`.

Not modelled and not planned:

- `update_tenant` stores limits that no other code reads; the command-line tool
  writes the same rows as the routes.
- what a file operation does inside the container: single Docker calls on the
  workspace, on which nothing in the service depends.  Its look-up, resume and
  activity are in `SessionLifecycle`.
- `compute_etas`, metrics and the sampler's measurements: read-only.
- the MCP tools other than `exec_`: they call the same services and add no state.
- validation of paths and limits: stateless, on strings and numbers.
- configuration, HTTP schema, images, proxy, deployment and operator tools.
