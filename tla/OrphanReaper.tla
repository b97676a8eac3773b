---------------------------- MODULE OrphanReaper ----------------------------
(***************************************************************************)
(* OrphanReaper: the sweep that removes Docker objects, labelled with a    *)
(* session id, whose session the registry does not know.  It works on      *)
(* lists that Docker answered earlier, while sessions are created and      *)
(* destroyed, and after the registry was restored from an older backup.    *)
(*                                                                         *)
(* An action of the sweep is what it does from one await to the next: a    *)
(* list, a look-up of a row, a removal.  The sessions' own operations      *)
(* appear by what they do to rows and objects, in the order in which       *)
(* SessionService does it; SessionLifecycle has their detail.              *)
(***************************************************************************)
EXTENDS Integers

CONSTANTS
  Sessions,     \* session ids (ULIDs, never reused)
  Undated,      \* kinds of object whose creation time does not parse
  Stuck,        \* objects that Docker never removes
  Grace,        \* orphan_reap_grace_s
  MaxPerTick,   \* orphan_reap_max_per_tick
  MaxTime,      \* bound on the clock
  MaxRestarts,  \* bound on the restarts of the control plane
  Faults        \* whether Docker's answers may be errors or get lost

Kinds   == {"container", "volume"}
Objects == Kinds \X Sessions

ASSUME OrphanAssumption ==
  /\ Undated \subseteq Kinds
  /\ Stuck \subseteq Objects
  /\ Grace \in Nat
  /\ MaxPerTick \in Nat
  /\ MaxTime \in Nat
  /\ MaxRestarts \in Nat
  /\ Faults \in BOOLEAN

VARIABLES
  now,       \* the clock, from 1
  row,       \* registry: "absent", "known" or "DESTROYED"
  backup,    \* the rows in the backup of the registry
  stage,     \* how far the session's create or destroy is
  born,      \* Docker: when the object was created, 0 when it does not exist
  sweep,     \* the tick: where it is, what is left of its list, its budget
  reaped,    \* objects this tick has removed (history)
  unheard,   \* removals of this tick whose answer was lost (history)
  restarts   \* restarts so far

countVars == <<reaped, unheard, restarts>>
vars == <<now, row, backup, stage, born, sweep, reaped, unheard, restarts>>

Exists(o) == born[o] > 0

Known(s) == row[s] # "absent"

\* Docker refuses to remove a volume that a container mounts.
Removable(o) == o \notin Stuck /\ (o[1] = "volume" => ~Exists(<<"container", o[2]>>))

-----------------------------------------------------------------------------
(* Sessions *)

\* Mutant of InsertRow: the volume is made first and the row afterwards.
InsertRowLast(s) ==
  /\ stage[s] = "new"
  /\ \/ /\ ~Exists(<<"volume", s>>)
        /\ born' = [born EXCEPT ![<<"volume", s>>] = now]
        /\ UNCHANGED <<row, stage>>
     \/ /\ Exists(<<"volume", s>>)
        /\ row' = [row EXCEPT ![s] = "known"]
        /\ stage' = [stage EXCEPT ![s] = "container"]
        /\ UNCHANGED born
  /\ UNCHANGED <<now, backup, sweep, countVars>>

\* create: the row, then the volume, then the container.
InsertRow(s) ==
  /\ stage[s] = "new"
  /\ row' = [row EXCEPT ![s] = "known"]
  /\ stage' = [stage EXCEPT ![s] = "volume"]
  /\ UNCHANGED <<now, backup, born, sweep, countVars>>

CreateVolume(s) ==
  /\ stage[s] = "volume"
  /\ born' = [born EXCEPT ![<<"volume", s>>] = now]
  /\ stage' = [stage EXCEPT ![s] = "container"]
  /\ UNCHANGED <<now, row, backup, sweep, countVars>>

CreateContainer(s) ==
  /\ stage[s] = "container"
  /\ born' = [born EXCEPT ![<<"container", s>>] = now]
  /\ stage' = [stage EXCEPT ![s] = "up"]
  /\ UNCHANGED <<now, row, backup, sweep, countVars>>

\* A step of create raises, and with it the rollback or not: the volume goes and
\* the row is DESTROYED, or both stay.
CreateFails(s) ==
  /\ Faults
  /\ stage[s] \in {"volume", "container"}
  /\ stage' = [stage EXCEPT ![s] = "over"]
  /\ \/ born' = [born EXCEPT ![<<"volume", s>>] = 0] /\ row' = [row EXCEPT ![s] = "DESTROYED"]
     \/ UNCHANGED <<born, row>>
  /\ UNCHANGED <<now, backup, sweep, countVars>>

\* destroy: the container, then the volume.  Where a removal raises the row is
\* DESTROYED all the same and the rest is left; the row is kept.
DestroyContainer(s) ==
  LET o == <<"container", s>> IN
  /\ stage[s] = "up"
  /\ \/ /\ Removable(o)
        /\ born' = [born EXCEPT ![o] = 0]
        /\ stage' = [stage EXCEPT ![s] = "rm_volume"]
        /\ UNCHANGED row
     \/ /\ ~Removable(o) \/ Faults
        /\ row' = [row EXCEPT ![s] = "DESTROYED"]
        /\ stage' = [stage EXCEPT ![s] = "over"]
        /\ UNCHANGED born
  /\ UNCHANGED <<now, backup, sweep, countVars>>

DestroyVolume(s) ==
  LET o == <<"volume", s>> IN
  /\ stage[s] = "rm_volume"
  /\ \/ Removable(o) /\ born' = [born EXCEPT ![o] = 0]
     \/ (~Removable(o) \/ Faults) /\ UNCHANGED born
  /\ row' = [row EXCEPT ![s] = "DESTROYED"]
  /\ stage' = [stage EXCEPT ![s] = "over"]
  /\ UNCHANGED <<now, backup, sweep, countVars>>

-----------------------------------------------------------------------------
(* The operator, the clock, and restarts *)

TakeBackup ==
  /\ backup # row
  /\ backup' = row
  /\ UNCHANGED <<now, row, stage, born, sweep, countVars>>

Asleep == [pc |-> "asleep", kind |-> "container", items |-> {}, target |-> {},
           at |-> 0, budget |-> 0]

\* The control plane goes down and comes up, with its registry or with the
\* backup.  What was under way is over: a session with a row can be destroyed
\* (by reconciliation, a client or the TTL), a session without one is out of
\* reach of every operation.
Restart ==
  /\ restarts < MaxRestarts
  /\ restarts' = restarts + 1
  /\ row' \in {row, backup}
  /\ stage' = [s \in Sessions |->
                 CASE stage[s] = "new"                               -> "new"
                   [] stage[s] = "rm_volume" /\ row'[s] = "known"    -> "rm_volume"
                   [] stage[s] \notin {"new", "rm_volume"} /\ row'[s] = "known" -> "up"
                   [] stage[s] # "new" /\ row'[s] # "known"          -> "over"]
  /\ sweep' = Asleep
  /\ UNCHANGED <<now, backup, born, reaped, unheard>>

Clock ==
  /\ now < MaxTime
  /\ now' = now + 1
  /\ UNCHANGED <<row, backup, stage, born, sweep, countVars>>

-----------------------------------------------------------------------------
(* The sweep *)

\* tick: the time is read once, and both passes share the budget.
BeginTick ==
  /\ sweep.pc = "asleep"
  /\ sweep' = [Asleep EXCEPT !.pc = "list", !.at = now, !.budget = MaxPerTick]
  /\ reaped' = 0
  /\ unheard' = 0
  /\ UNCHANGED <<now, row, backup, stage, born, restarts>>

\* An object in a list, with its creation time; 0 when that does not parse.
Item(o) == [obj |-> o, stamp |-> IF o[1] \in Undated THEN 0 ELSE born[o]]

\* Docker lists the labelled objects of a kind; a list that fails is empty.
ListObjects ==
  /\ sweep.pc = "list"
  /\ \/ sweep' = [sweep EXCEPT !.pc = "next",
                    !.items = {Item(o) : o \in {x \in Objects : x[1] = sweep.kind /\ Exists(x)}}]
     \/ Faults /\ sweep' = [sweep EXCEPT !.pc = "next"]
  /\ UNCHANGED <<now, row, backup, stage, born, countVars>>

\* The creation time 0 makes an object infinitely old.
PastGrace(i) == i.stamp = 0 \/ sweep.at - i.stamp >= Grace

\* Mutant of LookUp: items are looked at whatever is left of the budget.
LookUpAlways(i) ==
  /\ sweep.pc = "next" /\ i \in sweep.items
  /\ sweep' = IF ~Known(i.obj[2]) /\ PastGrace(i)
              THEN [sweep EXCEPT !.pc = "remove", !.items = @ \ {i}, !.target = {i}]
              ELSE [sweep EXCEPT !.items = @ \ {i}]
  /\ UNCHANGED <<now, row, backup, stage, born, countVars>>

\* An item is taken for an orphan when its session has no row, whatever a row
\* would say, and when it is past the grace window.
LookUp(i) ==
  /\ sweep.pc = "next" /\ sweep.budget > 0 /\ i \in sweep.items
  /\ sweep' = IF ~Known(i.obj[2]) /\ PastGrace(i)
              THEN [sweep EXCEPT !.pc = "remove", !.items = @ \ {i}, !.target = {i}]
              ELSE [sweep EXCEPT !.items = @ \ {i}]
  /\ UNCHANGED <<now, row, backup, stage, born, countVars>>

\* The removal is answered: it is recorded and costs one of the budget.  Docker's
\* NotFound is an answer too.
Remove(i) ==
  /\ sweep.pc = "remove"
  /\ sweep.target = {i}
  /\ Removable(i.obj)
  /\ born' = [born EXCEPT ![i.obj] = 0]
  /\ reaped' = IF Exists(i.obj) THEN reaped + 1 ELSE reaped
  /\ sweep' = [sweep EXCEPT !.pc = "next", !.target = {}, !.budget = @ - 1]
  /\ UNCHANGED <<now, row, backup, stage, unheard, restarts>>

\* Mutant of RemoveRaises: a removal that raises costs one of the budget too.
RemoveRaisesCounted(i) ==
  /\ sweep.pc = "remove"
  /\ sweep.target = {i}
  /\ ~Removable(i.obj) \/ Faults
  /\ sweep' = [sweep EXCEPT !.pc = "next", !.target = {}, !.budget = @ - 1]
  /\ UNCHANGED <<now, row, backup, stage, born, countVars>>

\* The removal raises: the budget is not touched.
RemoveRaises(i) ==
  /\ sweep.pc = "remove"
  /\ sweep.target = {i}
  /\ ~Removable(i.obj) \/ Faults
  /\ sweep' = [sweep EXCEPT !.pc = "next", !.target = {}]
  /\ UNCHANGED <<now, row, backup, stage, born, countVars>>

\* The removal happens but its answer does not arrive: the same exception.
RemoveUnheard(i) ==
  /\ Faults
  /\ sweep.pc = "remove"
  /\ sweep.target = {i}
  /\ Removable(i.obj)
  /\ Exists(i.obj)
  /\ born' = [born EXCEPT ![i.obj] = 0]
  /\ reaped' = reaped + 1
  /\ unheard' = unheard + 1
  /\ sweep' = [sweep EXCEPT !.pc = "next", !.target = {}]
  /\ UNCHANGED <<now, row, backup, stage, restarts>>

\* Mutant of EndPass: the second pass has a budget of its own.
EndPassRefilled ==
  /\ sweep.pc = "next"
  /\ sweep.items = {} \/ sweep.budget = 0
  /\ sweep' = IF sweep.kind = "container"
              THEN [sweep EXCEPT !.pc = "list", !.kind = "volume", !.items = {},
                                 !.budget = MaxPerTick]
              ELSE Asleep
  /\ UNCHANGED <<now, row, backup, stage, born, countVars>>

\* The list is done, or the rest is skipped because the budget is used up; then
\* there is no second pass either.
EndPass ==
  /\ sweep.pc = "next"
  /\ sweep.items = {} \/ sweep.budget = 0
  /\ sweep' = IF sweep.kind = "container" /\ sweep.budget > 0
              THEN [sweep EXCEPT !.pc = "list", !.kind = "volume", !.items = {}]
              ELSE Asleep
  /\ UNCHANGED <<now, row, backup, stage, born, countVars>>

-----------------------------------------------------------------------------

Init ==
  /\ now = 1
  /\ row = [s \in Sessions |-> "absent"]
  /\ backup = row
  /\ stage = [s \in Sessions |-> "new"]
  /\ born = [o \in Objects |-> 0]
  /\ sweep = Asleep
  /\ reaped = 0
  /\ unheard = 0
  /\ restarts = 0

Session(s) ==
  \/ InsertRow(s) \/ CreateVolume(s) \/ CreateContainer(s) \/ CreateFails(s)
  \/ DestroyContainer(s) \/ DestroyVolume(s)

Sweep ==
  \/ BeginTick \/ ListObjects \/ EndPass
  \/ \E i \in sweep.items : LookUp(i)
  \/ \E i \in sweep.target : Remove(i) \/ RemoveRaises(i) \/ RemoveUnheard(i)

Next ==
  \/ \E s \in Sessions : Session(s)
  \/ Sweep
  \/ TakeBackup \/ Restart \/ Clock

Spec == Init /\ [][Next]_vars

Removes(o) == \E i \in sweep.target : i.obj = o /\ Remove(i)

Lists == ListObjects /\ sweep'.items # {}

\* The task of the sweep runs and time passes; a list and a removal that are
\* tried again and again succeed in the end.
FairSpec ==
  /\ Spec
  /\ WF_vars(Sweep) /\ WF_vars(Clock)
  /\ SF_vars(Lists /\ sweep.kind = "container") /\ SF_vars(Lists /\ sweep.kind = "volume")
  /\ \A o \in Objects : SF_vars(Removes(o))

-----------------------------------------------------------------------------
(* Properties *)

ItemSet == [obj : Objects, stamp : Nat]

\* The variables have their types; what is looked up and removed was listed.
TypeOK ==
  /\ now \in Nat
  /\ row \in [Sessions -> {"absent", "known", "DESTROYED"}]
  /\ backup \in [Sessions -> {"absent", "known", "DESTROYED"}]
  /\ stage \in [Sessions -> {"new", "volume", "container", "up", "rm_volume", "over"}]
  /\ born \in [Objects -> Nat]
  /\ sweep \in [pc : {"asleep", "list", "next", "remove"}, kind : Kinds,
                items : SUBSET ItemSet, target : SUBSET ItemSet,
                at : Nat, budget : Nat]
  /\ reaped \in Nat
  /\ unheard \in Nat
  /\ restarts \in Nat

\* The objects a step of the sweep removes.
Reaps(o) == Exists(o) /\ ~Exists(o)' /\ sweep.pc = "remove" /\ \E i \in sweep.target : i.obj = o

\* The sweep never touches an object of a session that has a row when the object
\* goes, though it looked the row up earlier, worked from an older list, and
\* sessions are created meanwhile: a row precedes its objects.  And an object
\* whose creation time parses is past the grace window.
OnlyOrphansReaped ==
  [][\A o \in Objects : (sweep'.target # sweep.target /\ Reaps(o)) =>
       ~Known(o[2]) /\ (o[1] \notin Undated => now - born[o] >= Grace)]_vars

\* A tick removes at most max_per_tick objects in both passes together, however
\* many are orphans; a removal whose answer was lost is not counted.
BudgetBoundsTick == reaped <= MaxPerTick + unheard

Orphan(o) == Exists(o) /\ ~Known(o[2])

\* An orphan is removed in the end, also when there are more than one tick may
\* remove and when others never go away; a volume cannot go before its container.
\* (Objects younger than the clock's bound allows are left out.)
OrphansSwept ==
  \A o \in Objects :
    ({o, <<"container", o[2]>>} \cap Stuck = {}) =>
      ((Orphan(o) /\ \A k \in Kinds : born[<<k, o[2]>>] + Grace <= MaxTime) ~> ~Orphan(o))

=============================================================================
