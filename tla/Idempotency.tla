----------------------------- MODULE Idempotency -----------------------------
(***************************************************************************)
(* IdempotencyMiddleware: the replay cache of requests that carry an       *)
(* Idempotency-Key, and the map of locks that is to keep two requests with *)
(* one key from running at the same time.                                  *)
(*                                                                         *)
(* A key here is the pair of the tenant and the header.  Each request is   *)
(* sent once; a retry is another request with the same key.  A lock is     *)
(* named by the request that made it.  An action is what a request does    *)
(* from one await to the next; _lock_for and _release_inflight hold the    *)
(* meta lock over no await, so they are parts of an action.                *)
(***************************************************************************)
EXTENDS FiniteSets

CONSTANTS
  Requests,   \* requests with an Idempotency-Key and a valid token
  Keys,
  Routes,     \* paths: the middleware runs before the request has a route
  None,
  Outcomes,   \* how a handler may end
  CanExpire,  \* whether a cached response may outlive idempotency_ttl_s
  CanCrash    \* whether the control plane may crash

\* A 2xx response, another status, a 2xx event stream, and an exception.
AllOutcomes == {"ok", "error", "stream", "raise"}

ASSUME IdempotencyAssumption ==
  /\ None \notin Requests \cup Keys \cup Routes
  /\ Outcomes \subseteq AllOutcomes
  /\ CanExpire \in BOOLEAN
  /\ CanCrash \in BOOLEAN

VARIABLES
  req,       \* what each request is doing
  inflight,  \* _inflight: the lock the map holds for a key
  holder,    \* the request that holds a lock
  cache      \* idempotency_keys: the request whose response is stored

vars == <<req, inflight, holder, cache>>

PCs == {"new", "lookup", "lock_for", "acquire", "recheck", "run", "store",
        "release", "body", "done"}

RequestRecord ==
  [pc     : PCs,
   key    : Keys \cup {None},
   route  : Routes \cup {None},
   lock   : Requests \cup {None},      \* the lock it takes
   did    : AllOutcomes \cup {"nothing", "lost", "expired"}, \* its handler's outcome
   answer : Requests \cup {None}]      \* the request whose response it replays

Go(r, pc) == req' = [req EXCEPT ![r].pc = pc]

Free(r) == holder' = [holder EXCEPT ![req[r].lock] = None]

-----------------------------------------------------------------------------

Arrive(r, k, rt) ==
  /\ req[r].pc = "new"
  /\ req' = [req EXCEPT ![r].pc = "lookup", ![r].key = k, ![r].route = rt]
  /\ UNCHANGED <<inflight, holder, cache>>

\* Mutant of Replay: the stored route is not compared.
ReplayAnyRoute(r) ==
  req' = [req EXCEPT ![r].pc = "done", ![r].answer = cache[req[r].key]]

\* A hit: the stored response, or 409 when it is of another route.
Replay(r) ==
  LET hit == cache[req[r].key] IN
  req' = [req EXCEPT ![r].pc = "done",
                     ![r].answer = IF req[hit].route = req[r].route THEN hit ELSE None]

Lookup(r) ==
  /\ req[r].pc = "lookup"
  /\ IF cache[req[r].key] # None THEN Replay(r) ELSE Go(r, "lock_for")
  /\ UNCHANGED <<inflight, holder, cache>>

\* Mutant of LockFor: every request makes a lock of its own.
LockForEach(r) ==
  /\ req[r].pc = "lock_for"
  /\ req' = [req EXCEPT ![r].pc = "acquire", ![r].lock = r]
  /\ inflight' = [inflight EXCEPT ![req[r].key] = r]
  /\ UNCHANGED <<holder, cache>>

LockFor(r) ==
  LET k == req[r].key
      l == IF inflight[k] = None THEN r ELSE inflight[k]
  IN
  /\ req[r].pc = "lock_for"
  /\ inflight' = [inflight EXCEPT ![k] = l]
  /\ req' = [req EXCEPT ![r].pc = "acquire", ![r].lock = l]
  /\ UNCHANGED <<holder, cache>>

Acquire(r) ==
  /\ req[r].pc = "acquire"
  /\ holder[req[r].lock] = None
  /\ holder' = [holder EXCEPT ![req[r].lock] = r]
  /\ Go(r, "recheck")
  /\ UNCHANGED <<inflight, cache>>

\* A hit under the lock leaves the lock in the map.
Recheck(r) ==
  /\ req[r].pc = "recheck"
  /\ \/ cache[req[r].key] # None /\ Replay(r) /\ Free(r)
     \/ cache[req[r].key] = None /\ Go(r, "run") /\ UNCHANGED holder
  /\ UNCHANGED <<inflight, cache>>

\* Mutant of Leave: the lock is not freed.
LeaveLocked(r) ==
  /\ inflight' = [inflight EXCEPT ![req[r].key] = None]
  /\ UNCHANGED holder

\* _release_inflight takes whatever lock the map holds for the key out of it,
\* and the request leaves its own lock.
Leave(r) ==
  /\ inflight' = [inflight EXCEPT ![req[r].key] = None]
  /\ Free(r)

\* The handler ends.  call_next returns an event stream when its headers are
\* there: the command behind it is still running.
Respond(r, o) ==
  /\ req[r].pc = "run"
  /\ o \in Outcomes
  /\ req' = [req EXCEPT ![r].did = o,
                        ![r].pc = CASE o = "ok"     -> "store"
                                    [] o = "stream" -> "body"
                                    [] OTHER        -> "done"]
  /\ CASE o = "ok"    -> UNCHANGED <<inflight, holder>>
       [] o = "raise" -> Free(r) /\ UNCHANGED inflight
       [] OTHER       -> Leave(r)
  /\ UNCHANGED cache

\* Mutant of Store: the route is stored in place of the response.
StoreRoute(r) ==
  /\ req[r].pc = "store"
  /\ cache' = [cache EXCEPT ![req[r].key] = req[r].route]
  /\ Go(r, "release")
  /\ UNCHANGED <<inflight, holder>>

\* INSERT OR REPLACE: the last response wins.
Store(r) ==
  /\ req[r].pc = "store"
  /\ cache' = [cache EXCEPT ![req[r].key] = r]
  /\ Go(r, "release")
  /\ UNCHANGED <<inflight, holder>>

Release(r) ==
  /\ req[r].pc = "release"
  /\ Leave(r)
  /\ Go(r, "done")
  /\ UNCHANGED cache

EndOfBody(r) ==
  /\ req[r].pc = "body"
  /\ Go(r, "done")
  /\ UNCHANGED <<inflight, holder, cache>>

InFlight(k) == {r \in Requests : req[r].key = k /\ req[r].pc # "done"}

\* A response expires by the clock; a TTL of hours outlives the requests that
\* are in flight when it ends.
Expire(k) ==
  /\ CanExpire
  /\ cache[k] # None
  /\ InFlight(k) = {}
  /\ cache' = [cache EXCEPT ![k] = None]
  /\ req' = [r \in Requests |->
               IF req[r].key = k /\ req[r].did = "ok"
                 THEN [req[r] EXCEPT !.did = "expired"] ELSE req[r]]
  /\ UNCHANGED <<inflight, holder>>

\* The locks and the requests go, the registry stays.
Crash ==
  /\ CanCrash
  /\ req' = [r \in Requests |->
               CASE req[r].pc = "new" -> req[r]
                 [] req[r].pc \in {"run", "store", "body"} ->
                      [req[r] EXCEPT !.pc = "done", !.did = "lost"]
                 [] OTHER -> [req[r] EXCEPT !.pc = "done"]]
  /\ inflight' = [k \in Keys |-> None]
  /\ holder' = [l \in Requests |-> None]
  /\ UNCHANGED cache

-----------------------------------------------------------------------------

Init ==
  /\ req = [r \in Requests |-> [pc |-> "new", key |-> None, route |-> None,
                                lock |-> None, did |-> "nothing", answer |-> None]]
  /\ inflight = [k \in Keys |-> None]
  /\ holder = [l \in Requests |-> None]
  /\ cache = [k \in Keys |-> None]

Step(r) ==
  \/ Lookup(r) \/ LockFor(r) \/ Recheck(r) \/ Store(r) \/ Release(r) \/ EndOfBody(r)
  \/ \E o \in Outcomes : Respond(r, o)

Next ==
  \/ \E r \in Requests, k \in Keys, rt \in Routes : Arrive(r, k, rt)
  \/ \E r \in Requests : Step(r) \/ Acquire(r)
  \/ \E k \in Keys : Expire(k)
  \/ Crash

Spec == Init /\ [][Next]_vars

\* Handlers end, and asyncio.Lock wakes its waiters in order.
FairSpec == Spec /\ \A r \in Requests : WF_vars(Step(r)) /\ SF_vars(Acquire(r))

-----------------------------------------------------------------------------
(* Properties *)

\* Whatever a request does, a lock is named by a request and what is cached
\* for a key is a response.
TypeOK ==
  /\ req \in [Requests -> RequestRecord]
  /\ inflight \in [Keys -> Requests \cup {None}]
  /\ holder \in [Requests -> Requests \cup {None}]
  /\ cache \in [Keys -> Requests \cup {None}]

Executing(r) == req[r].pc \in {"run", "store", "body"}

Effective(r) == req[r].pc \in {"run", "store", "release"} \/ req[r].did = "ok"

Uncached == {"error", "stream", "lost"}

\* Two requests of one key have a handler that succeeds or still runs, beside each
\* other or one after the other, only when some request of that key left no response
\* in the cache: it was not a 2xx, it was a stream, or a crash cut it off.  A handler
\* that raised counts neither as a run nor as such an excuse: it leaves the lock in
\* the map.
DuplicateNeedsMiss ==
  \A r, u \in Requests :
    r # u /\ req[r].key = req[u].key /\ Effective(r) /\ Effective(u)
      => \E v \in Requests : req[v].key = req[r].key /\ req[v].did \in Uncached

\* A replayed response is the response of a request that succeeded, with the
\* same key and on the same route.
ReplayIsFaithful ==
  \A r \in Requests : req[r].answer # None =>
    LET a == req[req[r].answer] IN
    a.key = req[r].key /\ a.route = req[r].route /\ a.did \in {"ok", "expired"}

\* Every request is answered, in whatever order locks are made and dropped.
RequestsAnswered ==
  \A r \in Requests : req[r].pc # "new" ~> req[r].pc = "done"

\* What idempotency.py says: two requests with one key do not race.
OneInFlight ==
  \A r, u \in Requests :
    r # u /\ req[r].key = req[u].key => ~(Executing(r) /\ Executing(u))

=============================================================================
