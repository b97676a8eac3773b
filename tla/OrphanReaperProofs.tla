------------------------- MODULE OrphanReaperProofs -------------------------
(***************************************************************************)
(* OrphanReaper, for any sessions, any cap and grace window, and with any  *)
(* failures and restarts: the types, what a tick may remove at most, and   *)
(* that only orphans are removed.                                          *)
(***************************************************************************)
EXTENDS OrphanReaper, TLAPS

(* Types *)

\* Everything but the sweep and the counters is left alone by the sweep's steps
\* that look and wait.
Quiet == UNCHANGED <<now, row, backup, stage, born, countVars>>

\* Initially the variables have their types.
LEMMA InitTyped == Init => TypeOK
  <1> SUFFICES ASSUME Init PROVE TypeOK
    OBVIOUS
  <1>1. Asleep \in [pc : {"asleep", "list", "next", "remove"}, kind : Kinds,
                    items : SUBSET ItemSet, target : SUBSET ItemSet,
                    at : Nat, budget : Nat]
    BY DEF Asleep, Kinds
  <1> QED
    BY <1>1 DEF Init, TypeOK

\* The pair of a kind and a session is an object, and its parts are what they were.
LEMMA ObjectParts ==
  /\ \A s \in Sessions, k \in Kinds : <<k, s>> \in Objects
  /\ \A o \in Objects : o[1] \in Kinds /\ o[2] \in Sessions /\ o = <<o[1], o[2]>>
  BY DEF Objects

\* The operations of sessions keep the types.
LEMMA SessionTyped ==
  ASSUME TypeOK, NEW s \in Sessions, Session(s)
  PROVE  TypeOK'
  <1> USE DEF TypeOK, countVars
  <1>o. \A k \in {"container", "volume"} : <<k, s>> \in Objects
    BY ObjectParts DEF Kinds
  <1>1. CASE InsertRow(s)
    BY <1>1 DEF InsertRow
  <1>2. CASE CreateVolume(s)
    BY <1>2, <1>o DEF CreateVolume
  <1>3. CASE CreateContainer(s)
    BY <1>3, <1>o DEF CreateContainer
  <1>4. CASE CreateFails(s)
    BY <1>4, <1>o DEF CreateFails
  <1>5. CASE DestroyContainer(s)
    BY <1>5, <1>o DEF DestroyContainer
  <1>6. CASE DestroyVolume(s)
    BY <1>6, <1>o DEF DestroyVolume
  <1> QED
    BY <1>1, <1>2, <1>3, <1>4, <1>5, <1>6 DEF Session

\* A removal is under way only while there is budget for it.
BudgetInv ==
  /\ sweep.pc = "remove" => sweep.budget > 0
  /\ reaped + sweep.budget <= MaxPerTick + unheard \/ sweep.pc = "asleep"
  /\ reaped <= MaxPerTick + unheard

\* The sweep's steps keep the types.
LEMMA SweepTyped ==
  ASSUME TypeOK, BudgetInv, Sweep
  PROVE  TypeOK'
  <1> DEFINE Sweeps == [pc : {"asleep", "list", "next", "remove"}, kind : Kinds,
                        items : SUBSET ItemSet, target : SUBSET ItemSet,
                        at : Nat, budget : Nat]
  <1>t. sweep \in Sweeps /\ Asleep \in Sweeps
    BY DEF TypeOK, Asleep, Kinds
  <1>q. ASSUME sweep' \in Sweeps, Quiet PROVE TypeOK'
    BY <1>q DEF TypeOK, Quiet, countVars
  <1>1. CASE BeginTick
    <2>1. now \in Nat /\ MaxPerTick \in Nat
      BY OrphanAssumption DEF TypeOK
    <2>2. sweep' \in Sweeps
      BY <1>1, <1>t, <2>1 DEF BeginTick
    <2> QED
      BY <1>1, <2>2 DEF BeginTick, TypeOK
  <1>2. CASE ListObjects
    <2>1. \A o \in Objects : Item(o) \in ItemSet
      BY DEF Item, ItemSet, TypeOK
    <2>2. {Item(o) : o \in {x \in Objects : x[1] = sweep.kind /\ Exists(x)}} \in SUBSET ItemSet
      BY <2>1
    <2>3. sweep' \in Sweeps
      BY <1>2, <1>t, <2>2 DEF ListObjects
    <2> QED
      BY <1>2, <1>q, <2>3 DEF ListObjects, Quiet
  <1>3. CASE EndPass
    <2>1. sweep' \in Sweeps
      BY <1>3, <1>t DEF EndPass, Kinds
    <2> QED
      BY <1>3, <1>q, <2>1 DEF EndPass, Quiet
  <1>4. ASSUME NEW i \in sweep.items, LookUp(i) PROVE TypeOK'
    <2>1. i \in ItemSet
      BY <1>t
    <2>2. sweep' \in Sweeps
      BY <1>4, <1>t, <2>1 DEF LookUp
    <2> QED
      BY <1>4, <1>q, <2>2 DEF LookUp, Quiet
  <1>5. ASSUME NEW i \in sweep.target, Remove(i) PROVE TypeOK'
    <2>1. i.obj \in Objects
      BY <1>t DEF ItemSet
    <2>2. sweep.budget \in Nat /\ sweep.budget > 0
      BY <1>5, <1>t DEF Remove, BudgetInv
    <2>3. sweep.budget - 1 \in Nat
      BY <2>2
    <2>4. sweep' = [sweep EXCEPT !.pc = "next", !.target = {}, !.budget = sweep.budget - 1]
      BY <1>5, <1>t DEF Remove
    <2>5. sweep' \in Sweeps
      BY <1>t, <2>3, <2>4
    <2> QED
      BY <1>5, <2>1, <2>5 DEF Remove, TypeOK
  <1>6. ASSUME NEW i \in sweep.target, RemoveRaises(i) PROVE TypeOK'
    <2>1. sweep' \in Sweeps
      BY <1>6, <1>t DEF RemoveRaises
    <2> QED
      BY <1>6, <1>q, <2>1 DEF RemoveRaises, Quiet
  <1>7. ASSUME NEW i \in sweep.target, RemoveUnheard(i) PROVE TypeOK'
    <2>1. i.obj \in Objects
      BY <1>t DEF ItemSet
    <2>2. sweep' \in Sweeps
      BY <1>7, <1>t DEF RemoveUnheard
    <2> QED
      BY <1>7, <2>1, <2>2 DEF RemoveUnheard, TypeOK
  <1> QED
    BY <1>1, <1>2, <1>3, <1>4, <1>5, <1>6, <1>7 DEF Sweep

\* The operator, the clock and a restart keep the types.
LEMMA OutsideTyped ==
  ASSUME TypeOK, TakeBackup \/ Restart \/ Clock
  PROVE  TypeOK'
  <1> USE DEF TypeOK, countVars
  <1>1. CASE TakeBackup
    BY <1>1 DEF TakeBackup
  <1>2. CASE Restart
    <2>1. row' \in [Sessions -> {"absent", "known", "DESTROYED"}]
      BY <1>2 DEF Restart
    <2>2. ASSUME NEW s \in Sessions
          PROVE  stage'[s] \in {"new", "rm_volume", "up", "over"}
      BY <1>2, <2>1 DEF Restart
    <2>3. stage' \in [Sessions -> {"new", "volume", "container", "up", "rm_volume", "over"}]
      BY <1>2, <2>2 DEF Restart
    <2>4. restarts' \in Nat
      BY <1>2 DEF Restart
    <2> QED
      BY <1>2, <2>1, <2>3, <2>4 DEF Restart, Asleep, Kinds
  <1>3. CASE Clock
    BY <1>3 DEF Clock
  <1> QED
    BY <1>1, <1>2, <1>3

-----------------------------------------------------------------------------
(* The budget *)

\* A step keeps the account of the budget: what a tick has removed and what it may
\* still remove are together the cap, and the removals it has not heard of.
LEMMA BudgetKept ==
  ASSUME TypeOK, BudgetInv, [Next]_vars
  PROVE  BudgetInv'
  <1> USE OrphanAssumption DEF TypeOK, BudgetInv
  <1>1. CASE sweep' = sweep /\ reaped' = reaped /\ unheard' = unheard
    BY <1>1
  <1>2. CASE \E s \in Sessions : Session(s)
    BY <1>1, <1>2 DEF Session, InsertRow, CreateVolume, CreateContainer, CreateFails,
                     DestroyContainer, DestroyVolume, countVars
  <1>3. CASE TakeBackup \/ Clock \/ UNCHANGED vars
    BY <1>1, <1>3 DEF TakeBackup, Clock, vars, countVars
  <1>4. CASE Restart
    BY <1>4 DEF Restart, Asleep
  <1>5. CASE BeginTick
    <2>1. sweep'.budget = MaxPerTick /\ sweep'.pc = "list"
      BY <1>5 DEF BeginTick, Asleep
    <2> QED
      BY <1>5, <2>1 DEF BeginTick
  <1>6. CASE ListObjects
    BY <1>6 DEF ListObjects, countVars
  <1>7. CASE EndPass
    BY <1>7 DEF EndPass, Asleep, countVars
  <1>8. ASSUME NEW i \in sweep.items, LookUp(i) PROVE BudgetInv'
    BY <1>8 DEF LookUp, countVars
  <1>9. ASSUME NEW i \in sweep.target, Remove(i) PROVE BudgetInv'
    <2>1. sweep'.budget = sweep.budget - 1 /\ sweep'.pc = "next"
      BY <1>9 DEF Remove
    <2>2. unheard' = unheard /\ (reaped' = reaped \/ reaped' = reaped + 1)
      BY <1>9 DEF Remove
    <2>3. reaped + sweep.budget <= MaxPerTick + unheard /\ sweep.budget > 0
      BY <1>9 DEF Remove
    <2> QED
      BY <2>1, <2>2, <2>3
  <1>10. ASSUME NEW i \in sweep.target, RemoveRaises(i) PROVE BudgetInv'
    BY <1>10 DEF RemoveRaises, countVars
  <1>11. ASSUME NEW i \in sweep.target, RemoveUnheard(i) PROVE BudgetInv'
    <2>1. sweep'.budget = sweep.budget /\ sweep'.pc = "next"
      BY <1>11 DEF RemoveUnheard
    <2>2. unheard' = unheard + 1 /\ reaped' = reaped + 1
      BY <1>11 DEF RemoveUnheard
    <2>3. reaped + sweep.budget <= MaxPerTick + unheard
      BY <1>11 DEF RemoveUnheard
    <2> QED
      BY <2>1, <2>2, <2>3
  <1> QED
    BY <1>2, <1>3, <1>4, <1>5, <1>6, <1>7, <1>8, <1>9, <1>10, <1>11 DEF Next, Sweep

\* The types and the budget hold in every reachable state.
THEOREM TypesAndBudget == Spec => [](TypeOK /\ BudgetInv)
  <1>1. Init => TypeOK /\ BudgetInv
    BY InitTyped, OrphanAssumption DEF Init, BudgetInv, Asleep
  <1>2. TypeOK /\ BudgetInv /\ [Next]_vars => TypeOK' /\ BudgetInv'
    <2> SUFFICES ASSUME TypeOK, BudgetInv, [Next]_vars PROVE TypeOK'
      BY BudgetKept
    <2>1. CASE UNCHANGED vars
      BY <2>1 DEF vars, TypeOK
    <2> QED
      BY <2>1, SessionTyped, SweepTyped, OutsideTyped DEF Next
  <1> QED
    BY <1>1, <1>2, PTL DEF Spec

\* Every reachable state of the sweep and of the sessions beside it is well typed;
\* the budget of a tick never falls below zero.
THEOREM TypeCorrect == Spec => []TypeOK
  BY TypesAndBudget, PTL

\* A tick removes at most orphan_reap_max_per_tick objects in its two passes, for
\* any cap, and one more for each removal whose answer was lost.
THEOREM TicksAreBounded == Spec => []BudgetBoundsTick
  <1>1. BudgetInv => BudgetBoundsTick
    BY DEF BudgetInv, BudgetBoundsTick
  <1> QED
    BY <1>1, TypesAndBudget, PTL

-----------------------------------------------------------------------------
(* Only orphans *)

\* The create of the object's session has got past the creation of the object.
Made(o) ==
  stage[o[2]] \notin IF o[1] = "volume" THEN {"new", "volume"} ELSE {"new", "volume", "container"}

\* The stamp of a listed object is the creation time of the object, as long as it
\* exists: ids are not reused, so it cannot have been created again.
Dated(i) ==
  i.obj[1] \notin Undated => i.stamp > 0 /\ (Exists(i.obj) => i.stamp = born[i.obj])

\* Under way means that there is a row.
RowFirst ==
  /\ \A s \in Sessions : stage[s] \in {"volume", "container", "up", "rm_volume"} => Known(s)
  /\ \A o \in Objects : Exists(o) => Made(o)

ListedInv == \A i \in sweep.items \cup sweep.target : Made(i.obj) /\ Dated(i)

TargetInv ==
  /\ sweep.pc # "remove" => sweep.target = {}
  /\ \A i \in sweep.target : ~Known(i.obj[2]) /\ PastGrace(i)

\* What the sweep works on: objects that have been created, and a target whose
\* session has no row and cannot get one any more.
OrphanInv == RowFirst /\ ListedInv /\ TargetInv /\ sweep.at <= now /\ now > 0


\* Before a session or an object is made nothing is under way.
LEMMA OrphanInit == Init => OrphanInv
  BY DEF Init, Asleep, OrphanInv, RowFirst, ListedInv, TargetInv, Exists, Objects

\* Steps that leave the sweep alone: what it has listed has been made already, so
\* that neither the object nor the row of its session appears now.
LEMMA SessionOrphans ==
  ASSUME TypeOK, OrphanInv, NEW s \in Sessions, Session(s)
  PROVE  OrphanInv'
  <1> DEFINE listed == sweep.items \cup sweep.target
  <1>u. UNCHANGED <<now, sweep>>
    BY DEF Session, InsertRow, CreateVolume, CreateContainer, CreateFails,
           DestroyContainer, DestroyVolume
  <1>t. \A i \in listed : i.obj \in Objects
    BY DEF TypeOK, ItemSet
  <1>o. \A k \in {"container", "volume"} : <<k, s>> \in Objects
    BY ObjectParts DEF Kinds
  <1>k. ASSUME NEW x \in Sessions, stage[x] # "new" PROVE Known(x)' = Known(x)
    BY <1>k DEF Session, InsertRow, CreateVolume, CreateContainer, CreateFails,
                DestroyContainer, DestroyVolume, Known, TypeOK, OrphanInv, RowFirst
  <1>m. ASSUME NEW o \in Objects, Made(o) PROVE Made(o)'
    BY <1>m, ObjectParts DEF Session, InsertRow, CreateVolume, CreateContainer, CreateFails,
                DestroyContainer, DestroyVolume, Made, TypeOK
  <1>b. ASSUME NEW o \in Objects, Made(o) PROVE born'[o] = born[o] \/ born'[o] = 0
    <2> USE <1>b, <1>o DEF TypeOK, Made
    <2>1. CASE InsertRow(s)
      BY <2>1 DEF InsertRow
    <2>2. CASE CreateVolume(s)
      BY <2>2 DEF CreateVolume
    <2>3. CASE CreateContainer(s)
      BY <2>3 DEF CreateContainer
    <2>4. CASE CreateFails(s)
      BY <2>4 DEF CreateFails
    <2>5. CASE DestroyContainer(s)
      BY <2>5 DEF DestroyContainer
    <2>6. CASE DestroyVolume(s)
      BY <2>6 DEF DestroyVolume
    <2> QED
      BY <2>1, <2>2, <2>3, <2>4, <2>5, <2>6 DEF Session
  <1>n. ASSUME NEW o \in Objects, ~Made(o), Exists(o)' PROVE Made(o)'
    BY <1>n, <1>o, ObjectParts DEF Session, InsertRow, CreateVolume, CreateContainer, CreateFails,
                DestroyContainer, DestroyVolume, Made, TypeOK, Kinds, Exists, OrphanInv, RowFirst
  <1>1. RowFirst'
    <2>1. ASSUME NEW x \in Sessions, stage'[x] \in {"volume", "container", "up", "rm_volume"}
          PROVE  Known(x)'
      BY <2>1 DEF Session, InsertRow, CreateVolume, CreateContainer, CreateFails,
                DestroyContainer, DestroyVolume, Known, TypeOK, OrphanInv, RowFirst
    <2> QED
      BY <1>m, <1>n, <2>1 DEF RowFirst
  <1>2. ListedInv'
    <2> SUFFICES ASSUME NEW i \in listed PROVE Made(i.obj)' /\ Dated(i)'
      BY <1>u DEF ListedInv
    <2>1. Made(i.obj) /\ Dated(i) /\ i.obj \in Objects
      BY <1>t DEF OrphanInv, ListedInv
    <2>2. born'[i.obj] = born[i.obj] \/ born'[i.obj] = 0
      BY <1>b, <2>1
    <2> QED
      BY <1>m, <2>1, <2>2 DEF Dated, Exists
  <1>3. TargetInv'
    <2> SUFFICES ASSUME NEW i \in sweep.target PROVE ~Known(i.obj[2])' /\ PastGrace(i)'
      BY <1>u DEF TargetInv, OrphanInv
    <2>1. Made(i.obj) /\ i.obj[2] \in Sessions
      BY <1>t, ObjectParts DEF OrphanInv, ListedInv
    <2>2. stage[i.obj[2]] # "new"
      BY <2>1 DEF Made
    <2> QED
      BY <1>k, <1>u, <2>1, <2>2 DEF TargetInv, OrphanInv, PastGrace
  <1> QED
    BY <1>1, <1>2, <1>3, <1>u DEF OrphanInv

\* The backup, the clock and a restart: a restart may take rows away, but drops
\* the lists, and leaves no session under way without a row.
LEMMA OutsideOrphans ==
  ASSUME TypeOK, OrphanInv, TakeBackup \/ Restart \/ Clock
  PROVE  OrphanInv'
  <1>1. CASE TakeBackup \/ Clock
    <2>1. UNCHANGED <<row, stage, born, sweep>> /\ now' >= now
      BY <1>1 DEF TakeBackup, Clock, TypeOK
    <2>2. sweep'.at <= now' /\ now' > 0
      BY <1>1 DEF TakeBackup, Clock, TypeOK, OrphanInv
    <2>3. RowFirst' /\ ListedInv' /\ TargetInv'
      BY <2>1 DEF OrphanInv, RowFirst, ListedInv, TargetInv, Known, Exists, Made, Dated, PastGrace
    <2> QED
      BY <2>2, <2>3 DEF OrphanInv
  <1>2. CASE Restart
    <2>1. sweep'.items = {} /\ sweep'.target = {} /\ sweep'.at = 0
      BY <1>2 DEF Restart, Asleep
    <2>2. ASSUME NEW s \in Sessions
          PROVE  /\ stage'[s] \in {"up", "rm_volume"} => row'[s] = "known"
                 /\ stage'[s] \in {"new", "up", "rm_volume", "over"}
                 /\ stage'[s] = "new" <=> stage[s] = "new"
      BY <1>2 DEF Restart, TypeOK
    <2>3. born' = born /\ now' = now
      BY <1>2 DEF Restart
    <2>4. RowFirst'
      BY <2>2, <2>3, ObjectParts DEF OrphanInv, RowFirst, Known, Exists, Made
    <2> QED
      BY <2>1, <2>3, <2>4 DEF OrphanInv, ListedInv, TargetInv, TypeOK
  <1> QED
    BY <1>1, <1>2

\* The sweep's steps: a list is of objects that exist, and a target has passed the
\* look-up.
LEMMA SweepOrphans ==
  ASSUME TypeOK, OrphanInv, Sweep
  PROVE  OrphanInv'
  <1> DEFINE Sweeps == [pc : {"asleep", "list", "next", "remove"}, kind : Kinds,
                        items : SUBSET ItemSet, target : SUBSET ItemSet,
                        at : Nat, budget : Nat]
  <1>t. sweep \in Sweeps
    BY DEF TypeOK
  <1>u. UNCHANGED <<now, row, stage>>
    BY DEF Sweep, BeginTick, ListObjects, EndPass, LookUp, Remove, RemoveRaises, RemoveUnheard
  <1>b. ASSUME NEW o \in Objects PROVE born'[o] = born[o] \/ born'[o] = 0
    BY <1>t DEF Sweep, BeginTick, ListObjects, EndPass, LookUp, Remove, RemoveRaises,
           RemoveUnheard, TypeOK
  <1>1. RowFirst'
    BY <1>u, <1>b DEF OrphanInv, RowFirst, Known, Exists, Made
  <1>k. ASSUME NEW i \in ItemSet, Made(i.obj), Dated(i) PROVE Made(i.obj)' /\ Dated(i)'
    BY <1>k, <1>u, <1>b DEF Made, Dated, Exists, ItemSet
  <1>l. ASSUME NEW i \in ItemSet, ~Known(i.obj[2]), PastGrace(i), sweep'.at = sweep.at
        PROVE  ~Known(i.obj[2])' /\ PastGrace(i)'
    BY <1>l, <1>u DEF Known, PastGrace
  <1>g. ASSUME sweep'.items \subseteq sweep.items, sweep'.target \subseteq sweep.items \cup sweep.target
        PROVE  ListedInv'
    BY <1>g, <1>k, <1>t DEF OrphanInv, ListedInv
  <1>2. CASE BeginTick
    <2>1. sweep'.items = {} /\ sweep'.target = {} /\ sweep'.at = now
      BY <1>2 DEF BeginTick, Asleep
    <2> QED
      BY <1>1, <1>u, <2>1 DEF OrphanInv, ListedInv, TargetInv, TypeOK
  <1>3. CASE ListObjects
    <2>1. /\ sweep'.pc = "next" /\ sweep'.target = sweep.target /\ sweep'.at = sweep.at
          /\ sweep.target = {} /\ born' = born
      BY <1>3, <1>t DEF ListObjects, OrphanInv, TargetInv
    <2>2. ASSUME NEW o \in Objects, Exists(o)
          PROVE  Made(Item(o).obj) /\ Dated(Item(o)) /\ Item(o) \in ItemSet
      BY <2>2 DEF Item, Made, Dated, Exists, ItemSet, TypeOK, OrphanInv, RowFirst
    <2>3. ListedInv'
      <3>1. CASE sweep'.items = sweep.items
        BY <1>g, <2>1, <3>1
      <3>2. CASE sweep'.items = {Item(o) : o \in {x \in Objects : x[1] = sweep.kind /\ Exists(x)}}
        BY <1>k, <2>1, <2>2, <3>2 DEF ListedInv
      <3> QED
        BY <1>3, <1>t, <3>1, <3>2 DEF ListObjects
    <2> QED
      BY <1>1, <1>u, <2>1, <2>3 DEF OrphanInv, TargetInv
  <1>4. CASE EndPass
    <2>1. /\ sweep'.items = {} /\ sweep'.target = {}
          /\ sweep'.at \in {sweep.at, 0}
      BY <1>4, <1>t DEF EndPass, OrphanInv, TargetInv, Asleep
    <2>2. ListedInv' /\ TargetInv'
      BY <2>1 DEF ListedInv, TargetInv
    <2>3. sweep'.at <= now'
      BY <1>u, <2>1 DEF OrphanInv, TypeOK
    <2> QED
      BY <1>1, <1>u, <2>2, <2>3 DEF OrphanInv
  <1>5. ASSUME NEW i \in sweep.items, LookUp(i) PROVE OrphanInv'
    <2>1. i \in ItemSet /\ sweep.target = {} /\ sweep'.at = sweep.at
      BY <1>5, <1>t DEF LookUp, OrphanInv, TargetInv
    <2>2. CASE ~Known(i.obj[2]) /\ PastGrace(i)
      <3>1. /\ sweep'.pc = "remove" /\ sweep'.target = {i}
            /\ sweep'.items \subseteq sweep.items
        BY <1>5, <1>t, <2>2 DEF LookUp
      <3> QED
        BY <1>1, <1>u, <1>g, <1>l, <2>1, <2>2, <3>1 DEF OrphanInv, TargetInv
    <2>3. CASE ~(~Known(i.obj[2]) /\ PastGrace(i))
      <3>1. sweep'.target = {} /\ sweep'.items \subseteq sweep.items
        BY <1>5, <1>t, <2>1, <2>3 DEF LookUp
      <3> QED
        BY <1>1, <1>u, <1>g, <2>1, <3>1 DEF OrphanInv, TargetInv
    <2> QED
      BY <2>2, <2>3
  <1>6. ASSUME NEW i \in sweep.target, Remove(i) \/ RemoveRaises(i) \/ RemoveUnheard(i)
        PROVE  OrphanInv'
    <2>1. /\ sweep'.target = {} /\ sweep'.items = sweep.items /\ sweep'.at = sweep.at
      BY <1>6, <1>t DEF Remove, RemoveRaises, RemoveUnheard
    <2> QED
      BY <1>1, <1>u, <1>g, <2>1 DEF OrphanInv, TargetInv
  <1> QED
    BY <1>2, <1>3, <1>4, <1>5, <1>6 DEF Sweep

\* Only objects without a row go, and, where the creation time is known, only after
\* the grace window, for any sessions, failures and restarts from a backup.
THEOREM OnlyOrphansAreReaped == Spec => OnlyOrphansReaped
  <1>1. Init => OrphanInv
    BY OrphanInit
  <1>2. TypeOK /\ OrphanInv /\ [Next]_vars => OrphanInv'
    <2>1. CASE UNCHANGED vars
      BY <2>1 DEF vars, OrphanInv, RowFirst, ListedInv, TargetInv, Known, Exists, Made, Dated,
                  PastGrace
    <2> QED
      BY <2>1, SessionOrphans, SweepOrphans, OutsideOrphans DEF Next
  <1>3. ASSUME TypeOK, OrphanInv, NEW o \in Objects, Reaps(o)
        PROVE  ~Known(o[2]) /\ (o[1] \notin Undated => now - born[o] >= Grace)
    <2>1. PICK i \in sweep.target : i.obj = o
      BY <1>3 DEF Reaps
    <2>2. Exists(o) /\ Dated(i) /\ PastGrace(i) /\ ~Known(o[2])
      BY <1>3, <2>1 DEF Reaps, OrphanInv, ListedInv, TargetInv
    <2>3. sweep.at <= now /\ sweep.at \in Nat /\ now \in Nat /\ born[o] \in Nat /\ i.stamp \in Nat
      BY <1>3 DEF OrphanInv, TypeOK, ItemSet
    <2> QED
      BY <2>1, <2>2, <2>3, OrphanAssumption DEF Dated, PastGrace
  <1>4. TypeOK /\ OrphanInv =>
          [\A o \in Objects : (sweep'.target # sweep.target /\ Reaps(o)) =>
             ~Known(o[2]) /\ (o[1] \notin Undated => now - born[o] >= Grace)]_vars
    BY <1>3
  <1> QED
    BY <1>1, <1>2, <1>4, TypeCorrect, PTL DEF Spec, OnlyOrphansReaped

=============================================================================
