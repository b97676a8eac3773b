-------------------------------- MODULE Audit --------------------------------
(***************************************************************************)
(* AuditEmitter: the audit log that fails closed.  While a write to the    *)
(* log fails, records are kept in memory, then in a fallback file, and     *)
(* guarded operations are refused.                                         *)
(*                                                                         *)
(* emit and maintenance_tick hold the emitter's lock and give up control   *)
(* nowhere inside it, so each is one action.  A write may raise, and a     *)
(* record may be in the file although its write raised (the file is        *)
(* flushed when it is closed).  Records are named by their operations.     *)
(***************************************************************************)
EXTENDS SequencesExt, Naturals

CONSTANTS
  Guarded,     \* operations that call precheck at their start
  Background,  \* operations that only emit: reaper, orphan reaper, sampler, startup
  Heartbeat,   \* the record of maintenance_tick
  CanCrash,    \* whether the control plane may crash
  MaxLines     \* bound on the files, for the recoveries that fail

Operations == Guarded \cup Background

ASSUME AuditAssumption ==
  /\ Guarded \cap Background = {}
  /\ Heartbeat \notin Operations
  /\ CanCrash \in BOOLEAN
  /\ MaxLines \in Nat

VARIABLES
  op,        \* what each operation is doing
  health,    \* _unhealthy_since: "ok", or failing for "short" or "long" (past the budget)
  buffer,    \* _buffer
  primary,   \* the records in the log
  fallback,  \* the records in the fallback file
  disk,      \* [log, spare]: whether writes to the log and the fallback file succeed
  emitted,   \* the records passed to emit so far, in order (history)
  lost       \* the records in memory when the control plane crashed (history)

files == <<primary, fallback>>
vars == <<op, health, buffer, primary, fallback, disk, emitted, lost>>

-----------------------------------------------------------------------------
(* The emitter *)

\* After n of the lines were written the next write raised: it may be in the file.
Written(lines, n) == {SubSeq(lines, 1, n), SubSeq(lines, 1, n + 1)}

\* Mutant of Flush: the records are kept in memory only while the budget lasts.
FlushClears(kept, since) ==
  /\ buffer' = IF since = "long" THEN <<>> ELSE kept
  /\ fallback' \in IF since = "long" /\ disk.spare THEN {fallback \o kept} ELSE {fallback}

\* _maybe_flush_to_fallback_locked, with the records that are still to be kept.
Flush(kept, since) ==
  \/ since = "short" /\ buffer' = kept /\ UNCHANGED fallback
  \/ since = "long" /\ disk.spare /\ buffer' = <<>> /\ fallback' = fallback \o kept
  \/ /\ since = "long" /\ ~disk.spare
     /\ \E n \in 0 .. Len(kept) : fallback' = fallback \o SubSeq(kept, 1, n)
     /\ buffer' = kept

\* Mutant of Emit: the new record is written before the buffer is drained.
EmitFirst(o) ==
  LET lines == <<o>> \o buffer IN
  /\ op[o] = "working"
  /\ op' = [op EXCEPT ![o] = "done"]
  /\ emitted' = Append(emitted, o)
  /\ \/ disk.log /\ primary' = primary \o lines /\ buffer' = <<>> /\ health' = "ok"
        /\ UNCHANGED fallback
     \/ ~disk.log /\ health' = (IF health = "ok" THEN "short" ELSE health)
        /\ UNCHANGED primary /\ Flush(Append(buffer, o), health')
  /\ UNCHANGED <<disk, lost>>

\* The buffer is drained first, then the record is written; what could not be
\* written is kept, the record at the end.
Emit(o) ==
  LET lines == Append(buffer, o)
      since == IF health = "ok" THEN "short" ELSE health
  IN
  /\ op[o] = "working"
  /\ op' = [op EXCEPT ![o] = "done"]
  /\ emitted' = Append(emitted, o)
  /\ \/ /\ disk.log
        /\ primary' = primary \o lines
        /\ buffer' = <<>>
        /\ health' = "ok"
        /\ UNCHANGED fallback
     \/ /\ ~disk.log
        /\ health' = since
        /\ \E n \in 0 .. Len(buffer) :
             /\ primary' \in {primary \o w : w \in Written(lines, n)}
             /\ Flush(SubSeq(lines, n + 1, Len(lines)), since)
  /\ UNCHANGED <<disk, lost>>

\* Mutants of MaintenanceTick: recovery is tried only when records wait, the
\* heartbeat alone ends the failure, and a heartbeat that fails is kept.
TickForBuffer ==
  /\ health # "ok"
  /\ buffer # <<>>
  /\ disk.log
  /\ primary' = primary \o <<Heartbeat>> \o buffer
  /\ buffer' = <<>>
  /\ health' = "ok"
  /\ UNCHANGED <<op, fallback, disk, emitted, lost>>

TickByHeartbeat ==
  /\ health # "ok"
  /\ disk.log
  /\ primary' = Append(primary, Heartbeat)
  /\ health' = "ok"
  /\ UNCHANGED <<op, buffer, fallback, disk, emitted, lost>>

TickKeepsHeartbeat ==
  /\ health # "ok"
  /\ buffer' = Append(buffer, Heartbeat)
  /\ UNCHANGED <<op, health, files, disk, emitted, lost>>

\* A heartbeat, then the buffer; nothing when the log is healthy.
MaintenanceTick ==
  LET lines == <<Heartbeat>> \o buffer IN
  /\ health # "ok"
  /\ \/ /\ disk.log
        /\ primary' = primary \o lines
        /\ buffer' = <<>>
        /\ health' = "ok"
        /\ UNCHANGED fallback
     \/ /\ ~disk.log
        /\ Len(primary) < MaxLines /\ Len(fallback) < MaxLines
        /\ UNCHANGED health
        /\ \E n \in 0 .. Len(buffer) :
             /\ primary' \in {primary \o w : w \in Written(lines, n)}
             /\ Flush(IF n = 0 THEN buffer ELSE SubSeq(buffer, n, Len(buffer)), health)
  /\ UNCHANGED <<op, disk, emitted, lost>>

-----------------------------------------------------------------------------
(* The operations *)

\* precheck: a guarded operation is refused while the log fails, and leaves
\* nothing behind; the client may try again.
Start(o) ==
  /\ op[o] = "new"
  /\ o \in Guarded => health = "ok"
  /\ op' = [op EXCEPT ![o] = "working"]
  /\ UNCHANGED <<health, buffer, files, disk, emitted, lost>>

\* An operation that raises between its precheck and its emit has no record: a
\* session that is not there or in the wrong status, or a Docker call that raises.
Fail(o) ==
  /\ op[o] = "working"
  /\ op' = [op EXCEPT ![o] = "failed"]
  /\ UNCHANGED <<health, buffer, files, disk, emitted, lost>>

\* The budget of buffer_timeout_s runs out.
Overdue ==
  /\ health = "short"
  /\ health' = "long"
  /\ UNCHANGED <<op, buffer, files, disk, emitted, lost>>

\* A file starts or stops to take writes.
DiskChanges ==
  /\ \E f \in DOMAIN disk : disk' = [disk EXCEPT ![f] = ~@]
  /\ UNCHANGED <<op, health, buffer, files, emitted, lost>>

\* The memory goes, the files stay; a new emitter takes the log for healthy.
Crash ==
  /\ CanCrash
  /\ op' = [o \in Operations |-> IF op[o] = "working" THEN "failed" ELSE op[o]]
  /\ lost' = lost \cup ToSet(buffer)
  /\ buffer' = <<>>
  /\ health' = "ok"
  /\ UNCHANGED <<files, disk, emitted>>

Init ==
  /\ op = [o \in Operations |-> "new"]
  /\ health = "ok"
  /\ buffer = <<>>
  /\ primary = <<>>
  /\ fallback = <<>>
  /\ disk = [log |-> TRUE, spare |-> TRUE]
  /\ emitted = <<>>
  /\ lost = {}

Next ==
  \/ \E o \in Operations : Start(o) \/ Emit(o) \/ Fail(o)
  \/ MaintenanceTick
  \/ Overdue \/ DiskChanges \/ Crash

Spec == Init /\ [][Next]_vars

\* The reaper calls maintenance_tick at every tick.
FairSpec == Spec /\ WF_vars(MaintenanceTick)

-----------------------------------------------------------------------------
(* Properties *)

\* Whatever fails, the files and the buffer hold records and nothing else.
TypeOK ==
  /\ op \in [Operations -> {"new", "working", "done", "failed"}]
  /\ health \in {"ok", "short", "long"}
  /\ buffer \in Seq(Operations)
  /\ primary \in Seq(Operations \cup {Heartbeat})
  /\ fallback \in Seq(Operations)
  /\ disk \in [log : BOOLEAN, spare : BOOLEAN]
  /\ emitted \in Seq(Operations)
  /\ lost \subseteq Operations

\* A healthy log has no backlog: the next record cannot overtake an older one.
HealthyIsDrained == health = "ok" => buffer = <<>>

\* A record that was passed to emit is in the log, in the fallback file or in
\* memory, whichever writes raised and in whatever order; only a crash of the
\* control plane loses what was in memory.
NoRecordLost ==
  ToSet(emitted) \subseteq ToSet(primary) \cup ToSet(fallback) \cup ToSet(buffer) \cup lost

Precedes(a, b) ==
  \A i, j \in DOMAIN emitted : emitted[i] = a /\ emitted[j] = b => i <= j

\* The log is in the order of the emits through failures, partial drains and
\* recoveries, though a record may be there twice.
TimelineOrdered ==
  \A i, j \in DOMAIN primary :
    i < j /\ Heartbeat \notin {primary[i], primary[j]} => Precedes(primary[i], primary[j])

\* Once the log takes writes again, the emitter recovers, also when nobody
\* emits: precheck refuses the operations that would.
AuditRecovers == <>[](disk.log) => <>[](health = "ok")

=============================================================================
