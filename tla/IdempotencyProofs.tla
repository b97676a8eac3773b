-------------------------- MODULE IdempotencyProofs --------------------------
(***************************************************************************)
(* Idempotency, for any requests, keys and routes, with expiry, crashes    *)
(* and every outcome of a handler: the types, that a replayed response is  *)
(* the right one, and that handlers of one key both take effect only       *)
(* beside a request of that key whose response was not cached.             *)
(***************************************************************************)
EXTENDS Idempotency, TLAPS

(* Types *)

\* What is known of a request by where it is.
PhaseOK(x) ==
  /\ x.pc = "new" => x.key = None /\ x.lock = None
  /\ x.pc # "new" => x.key \in Keys
  /\ x.pc \in {"new", "lookup", "lock_for", "acquire", "recheck", "run"}
       => x.did = "nothing" /\ x.answer = None
  /\ x.pc \in {"acquire", "recheck", "run", "store", "release"} => x.lock \in Requests
  /\ x.pc \in {"store", "release"} => x.did = "ok"
  /\ x.did \in {"ok", "expired"} => x.pc \in {"store", "release", "done"}

PhaseInv == \A r \in Requests : PhaseOK(req[r])

\* The request that is past acquire holds its lock.
HoldInv ==
  \A r \in Requests :
    req[r].pc \in {"recheck", "run", "store", "release"} => holder[req[r].lock] = r

\* Initially the variables have their types and nobody holds a lock.
LEMMA InitTyped == Init => TypeOK /\ PhaseInv /\ HoldInv
  BY DEF Init, TypeOK, PhaseInv, PhaseOK, HoldInv, RequestRecord, PCs

\* A step of one request that leaves it a typed record keeps the types of all.
LEMMA OneStep ==
  ASSUME TypeOK, PhaseInv, NEW r \in Requests, NEW x \in RequestRecord, PhaseOK(x),
         req' = [req EXCEPT ![r] = x]
  PROVE  /\ req' \in [Requests -> RequestRecord]
         /\ PhaseInv'
         /\ req'[r] = x
         /\ \A u \in Requests \ {r} : req'[u] = req[u]
  BY DEF TypeOK, PhaseInv, PhaseOK

\* A lock changes hands only by the request that takes it or that held it.
LEMMA HoldKept ==
  ASSUME TypeOK, PhaseInv, HoldInv, NEW r \in Requests,
         \A u \in Requests \ {r} : req'[u] = req[u],
         \/ UNCHANGED holder
         \/ /\ req[r].lock \in Requests
            /\ holder[req[r].lock] = r \/ holder[req[r].lock] = None
            /\ \E h \in Requests \cup {None} : holder' = [holder EXCEPT ![req[r].lock] = h],
         req'[r].pc \in {"recheck", "run", "store", "release"}
           => holder'[req'[r].lock] = r
  PROVE  HoldInv'
  <1> SUFFICES ASSUME NEW u \in Requests,
                      req'[u].pc \in {"recheck", "run", "store", "release"}
               PROVE  holder'[req'[u].lock] = u
    BY DEF HoldInv
  <1>1. CASE u = r
    BY <1>1
  <1>2. CASE u # r
    <2>1. req'[u] = req[u] /\ holder[req[u].lock] = u /\ req[u].lock \in Requests
      BY <1>2 DEF HoldInv, PhaseInv, PhaseOK
    <2>2. CASE UNCHANGED holder
      BY <2>1, <2>2
    <2>3. ASSUME req[r].lock \in Requests,
                 holder[req[r].lock] = r \/ holder[req[r].lock] = None,
                 NEW h \in Requests \cup {None}, holder' = [holder EXCEPT ![req[r].lock] = h]
          PROVE  holder'[req'[u].lock] = u
      <3>1. req[r].lock # req[u].lock
        BY <1>2, <2>1, <2>3, IdempotencyAssumption
      <3> QED
        BY <2>1, <2>3, <3>1 DEF TypeOK
    <2> QED
      BY <2>2, <2>3
  <1> QED
    BY <1>1, <1>2

\* A request arrives, looks up its key and gets a lock.
LEMMA EntryTyped ==
  ASSUME TypeOK, PhaseInv, HoldInv, NEW r \in Requests,
         \/ \E k \in Keys, rt \in Routes : Arrive(r, k, rt)
         \/ Lookup(r)
         \/ LockFor(r)
  PROVE  TypeOK' /\ PhaseInv' /\ HoldInv'
  <1>p. req[r] \in RequestRecord /\ PhaseOK(req[r])
    BY DEF TypeOK, PhaseInv
  <1>1. ASSUME NEW k \in Keys, NEW rt \in Routes, Arrive(r, k, rt)
        PROVE  TypeOK' /\ PhaseInv' /\ HoldInv'
    <2> DEFINE x == [req[r] EXCEPT !.pc = "lookup", !.key = k, !.route = rt]
    <2>1. x \in RequestRecord /\ PhaseOK(x) /\ req' = [req EXCEPT ![r] = x]
      BY <1>1, <1>p DEF Arrive, PhaseOK, RequestRecord, PCs, TypeOK
    <2>2. x.pc = "lookup"
      BY <1>p DEF RequestRecord
    <2> HIDE DEF x
    <2> QED
      BY <1>1, <2>1, <2>2, OneStep, HoldKept DEF Arrive, TypeOK
  <1>2. CASE Lookup(r)
    <2>1. PICK x \in RequestRecord :
            PhaseOK(x) /\ req' = [req EXCEPT ![r] = x] /\ x.pc \in {"done", "lock_for"}
      <3>1. CASE cache[req[r].key] # None
        <4> DEFINE hit == cache[req[r].key]
                   x == [req[r] EXCEPT !.pc = "done",
                            !.answer = IF req[hit].route = req[r].route THEN hit ELSE None]
        <4>1. x \in RequestRecord /\ PhaseOK(x) /\ x.pc = "done"
          BY <1>2, <1>p, <3>1 DEF Lookup, PhaseOK, RequestRecord, PCs, TypeOK
        <4>2. req' = [req EXCEPT ![r] = x]
          BY <1>2, <3>1 DEF Lookup, Replay, TypeOK
        <4> QED
          BY <4>1, <4>2
      <3>2. CASE cache[req[r].key] = None
        <4> DEFINE x == [req[r] EXCEPT !.pc = "lock_for"]
        <4>1. x \in RequestRecord /\ PhaseOK(x) /\ x.pc = "lock_for"
          BY <1>2, <1>p DEF Lookup, PhaseOK, RequestRecord, PCs
        <4>2. req' = [req EXCEPT ![r] = x]
          BY <1>2, <3>2 DEF Lookup, Go, TypeOK
        <4> QED
          BY <4>1, <4>2
      <3> QED
        BY <3>1, <3>2
    <2> QED
      BY <1>2, <2>1, OneStep, HoldKept DEF Lookup, TypeOK
  <1>3. CASE LockFor(r)
    <2> DEFINE k == req[r].key
               l == IF inflight[k] = None THEN r ELSE inflight[k]
               x == [req[r] EXCEPT !.pc = "acquire", !.lock = l]
    <2>1. l \in Requests /\ k \in Keys
      BY <1>3, <1>p DEF LockFor, PhaseOK, TypeOK
    <2>2. x \in RequestRecord /\ PhaseOK(x) /\ x.pc = "acquire"
      <3> HIDE DEF l
      <3> QED
        BY <1>3, <1>p, <2>1 DEF LockFor, PhaseOK, RequestRecord, PCs
    <2>3. req' = [req EXCEPT ![r] = x] /\ inflight' = [inflight EXCEPT ![k] = l]
      BY <1>3 DEF LockFor, TypeOK
    <2> HIDE DEF x, l, k
    <2>4. inflight' \in [Keys -> Requests \cup {None}]
      BY <2>1, <2>3 DEF TypeOK
    <2>5. UNCHANGED <<holder, cache>>
      BY <1>3 DEF LockFor
    <2>6. req' \in [Requests -> RequestRecord] /\ PhaseInv' /\ HoldInv'
      BY <2>2, <2>3, <2>5, OneStep, HoldKept
    <2> QED
      BY <2>4, <2>5, <2>6 DEF TypeOK
  <1> QED
    BY <1>1, <1>2, <1>3

\* A request takes its lock, looks again, runs, stores and leaves.
LEMMA LockedTyped ==
  ASSUME TypeOK, PhaseInv, HoldInv, NEW r \in Requests,
         \/ Acquire(r) \/ Recheck(r) \/ Store(r) \/ Release(r) \/ EndOfBody(r)
         \/ \E o \in Outcomes : Respond(r, o)
  PROVE  TypeOK' /\ PhaseInv' /\ HoldInv'
  <1>p. req[r] \in RequestRecord /\ PhaseOK(req[r])
    BY DEF TypeOK, PhaseInv
  <1>a. ASSUME req[r].pc \in {"recheck", "run", "store", "release"}
        PROVE  req[r].lock \in Requests /\ holder[req[r].lock] = r /\ req[r].key \in Keys
    BY <1>a, <1>p DEF PhaseOK, HoldInv
  <1>1. CASE Acquire(r)
    <2> DEFINE x == [req[r] EXCEPT !.pc = "recheck"]
    <2>1. x \in RequestRecord /\ PhaseOK(x) /\ x.pc = "recheck" /\ x.lock = req[r].lock
      BY <1>1, <1>p DEF Acquire, PhaseOK, RequestRecord, PCs
    <2>2. req' = [req EXCEPT ![r] = x] /\ req[r].lock \in Requests
      BY <1>1, <1>p DEF Acquire, Go, PhaseOK, TypeOK
    <2> HIDE DEF x
    <2> QED
      BY <1>1, <2>1, <2>2, OneStep, HoldKept DEF Acquire, TypeOK
  <1>2. CASE Recheck(r)
    <2>a. req[r].lock \in Requests /\ holder[req[r].lock] = r /\ req[r].key \in Keys
      BY <1>2, <1>a DEF Recheck
    <2>1. CASE cache[req[r].key] # None
      <3> DEFINE hit == cache[req[r].key]
                 x == [req[r] EXCEPT !.pc = "done",
                          !.answer = IF req[hit].route = req[r].route THEN hit ELSE None]
      <3>1. x \in RequestRecord /\ PhaseOK(x) /\ x.pc = "done"
        BY <1>2, <1>p, <2>1, <2>a DEF Recheck, PhaseOK, RequestRecord, PCs, TypeOK
      <3>2. req' = [req EXCEPT ![r] = x] /\ Free(r)
        BY <1>2, <2>1 DEF Recheck, Replay, TypeOK
      <3> HIDE DEF x
      <3> QED
        BY <1>2, <2>a, <3>1, <3>2, OneStep, HoldKept DEF Recheck, Free, TypeOK
    <2>2. CASE cache[req[r].key] = None
      <3> DEFINE x == [req[r] EXCEPT !.pc = "run"]
      <3>1. x \in RequestRecord /\ PhaseOK(x) /\ x.lock = req[r].lock
        BY <1>2, <1>p DEF Recheck, PhaseOK, RequestRecord, PCs
      <3>2. req' = [req EXCEPT ![r] = x] /\ UNCHANGED holder
        BY <1>2, <2>2 DEF Recheck, Go, TypeOK
      <3> HIDE DEF x
      <3> QED
        BY <1>2, <2>a, <3>1, <3>2, OneStep, HoldKept DEF Recheck, TypeOK
    <2> QED
      BY <2>1, <2>2
  <1>3. CASE Store(r)
    <2>a. req[r].lock \in Requests /\ holder[req[r].lock] = r /\ req[r].key \in Keys
      BY <1>3, <1>a DEF Store
    <2> DEFINE x == [req[r] EXCEPT !.pc = "release"]
    <2>1. x \in RequestRecord /\ PhaseOK(x) /\ x.lock = req[r].lock
      BY <1>3, <1>p DEF Store, PhaseOK, RequestRecord, PCs
    <2>2. req' = [req EXCEPT ![r] = x]
      BY <1>3 DEF Store, Go, TypeOK
    <2> HIDE DEF x
    <2> QED
      BY <1>3, <2>a, <2>1, <2>2, OneStep, HoldKept DEF Store, TypeOK
  <1>4. CASE Release(r)
    <2>a. req[r].lock \in Requests /\ holder[req[r].lock] = r /\ req[r].key \in Keys
      BY <1>4, <1>a DEF Release
    <2> DEFINE x == [req[r] EXCEPT !.pc = "done"]
    <2>1. x \in RequestRecord /\ PhaseOK(x) /\ x.pc = "done"
      BY <1>4, <1>p DEF Release, PhaseOK, RequestRecord, PCs
    <2>2. req' = [req EXCEPT ![r] = x]
      BY <1>4 DEF Release, Go, TypeOK
    <2> HIDE DEF x
    <2> QED
      BY <1>4, <2>a, <2>1, <2>2, OneStep, HoldKept DEF Release, Leave, Free, TypeOK
  <1>5. CASE EndOfBody(r)
    <2> DEFINE x == [req[r] EXCEPT !.pc = "done"]
    <2>1. x \in RequestRecord /\ PhaseOK(x) /\ x.pc = "done"
      BY <1>5, <1>p DEF EndOfBody, PhaseOK, RequestRecord, PCs
    <2>2. req' = [req EXCEPT ![r] = x]
      BY <1>5 DEF EndOfBody, Go, TypeOK
    <2> HIDE DEF x
    <2> QED
      BY <1>5, <2>1, <2>2, OneStep, HoldKept DEF EndOfBody, TypeOK
  <1>6. ASSUME NEW o \in Outcomes, Respond(r, o)
        PROVE  TypeOK' /\ PhaseInv' /\ HoldInv'
    <2>a. req[r].lock \in Requests /\ holder[req[r].lock] = r /\ req[r].key \in Keys
      BY <1>6, <1>a DEF Respond
    <2>o. o \in AllOutcomes
      BY IdempotencyAssumption
    <2> DEFINE x == [req[r] EXCEPT !.did = o,
                       !.pc = CASE o = "ok"     -> "store"
                                [] o = "stream" -> "body"
                                [] OTHER        -> "done"]
    <2>1. x \in RequestRecord /\ PhaseOK(x) /\ x.lock = req[r].lock
            /\ x.pc \in {"store", "body", "done"} /\ (x.pc = "store" => o = "ok")
      BY <1>6, <1>p, <2>o, <2>a DEF Respond, PhaseOK, RequestRecord, PCs, AllOutcomes
    <2>2. req' = [req EXCEPT ![r] = x]
      BY <1>6 DEF Respond, TypeOK
    <2>3. /\ inflight' \in {inflight, [inflight EXCEPT ![req[r].key] = None]}
          /\ holder' \in {holder, [holder EXCEPT ![req[r].lock] = None]}
          /\ o = "ok" => holder' = holder
          /\ cache' = cache
      BY <1>6, <2>o DEF Respond, Leave, Free, AllOutcomes
    <2> HIDE DEF x
    <2> QED
      BY <2>a, <2>1, <2>2, <2>3, OneStep, HoldKept DEF TypeOK
  <1> QED
    BY <1>1, <1>2, <1>3, <1>4, <1>5, <1>6

\* So do the end of a TTL and a crash.
LEMMA OutsideTyped ==
  ASSUME TypeOK, PhaseInv, HoldInv, Crash \/ \E k \in Keys : Expire(k)
  PROVE  TypeOK' /\ PhaseInv' /\ HoldInv'
  <1>1. ASSUME NEW k \in Keys, Expire(k) PROVE TypeOK' /\ PhaseInv' /\ HoldInv'
    <2>1. ASSUME NEW u \in Requests
          PROVE  /\ req'[u] \in RequestRecord /\ PhaseOK(req'[u])
                 /\ req'[u].pc = req[u].pc /\ req'[u].lock = req[u].lock
      <3>1. req[u] \in RequestRecord /\ PhaseOK(req[u])
        BY DEF TypeOK, PhaseInv
      <3>2. CASE req[u].key = k /\ req[u].did = "ok"
        <4>1. req'[u] = [req[u] EXCEPT !.did = "expired"]
          BY <1>1, <3>2 DEF Expire
        <4>2. req[u].pc = "done"
          BY <1>1, <3>2 DEF Expire, InFlight
        <4> QED
          BY <3>1, <3>2, <4>1, <4>2 DEF PhaseOK, RequestRecord, PCs
      <3>3. CASE ~(req[u].key = k /\ req[u].did = "ok")
        BY <1>1, <3>1, <3>3 DEF Expire
      <3> QED
        BY <3>2, <3>3
    <2>2. req' \in [Requests -> RequestRecord]
      BY <1>1, <2>1 DEF Expire
    <2> QED
      BY <1>1, <2>1, <2>2 DEF Expire, TypeOK, PhaseInv, HoldInv
  <1>2. CASE Crash
    <2>1. ASSUME NEW u \in Requests
          PROVE  /\ req'[u] \in RequestRecord /\ PhaseOK(req'[u])
                 /\ req'[u].pc \in {"new", "done"}
      <3>1. req[u] \in RequestRecord /\ PhaseOK(req[u])
        BY DEF TypeOK, PhaseInv
      <3>2. CASE req[u].pc = "new"
        BY <1>2, <3>1, <3>2 DEF Crash
      <3>3. CASE req[u].pc \in {"run", "store", "body"}
        <4>1. req'[u] = [req[u] EXCEPT !.pc = "done", !.did = "lost"]
          BY <1>2, <3>3 DEF Crash
        <4> QED
          BY <3>1, <3>3, <4>1 DEF PhaseOK, RequestRecord, PCs
      <3>4. CASE req[u].pc \notin {"new", "run", "store", "body"}
        <4>1. req'[u] = [req[u] EXCEPT !.pc = "done"]
          BY <1>2, <3>4 DEF Crash
        <4> QED
          BY <3>1, <3>4, <4>1 DEF PhaseOK, RequestRecord, PCs
      <3> QED
        BY <3>2, <3>3, <3>4
    <2>2. req' \in [Requests -> RequestRecord]
      BY <1>2, <2>1 DEF Crash
    <2> QED
      BY <1>2, <2>1, <2>2 DEF Crash, TypeOK, PhaseInv, HoldInv
  <1> QED
    BY <1>1, <1>2

\* Whatever a request does, in any order of lookups, locks, expiry and crashes,
\* the variables keep their types, and a request past acquire holds its lock.
THEOREM TypeCorrect == Spec => [](TypeOK /\ PhaseInv /\ HoldInv)
  <1>1. ASSUME TypeOK, PhaseInv, HoldInv, [Next]_vars
        PROVE  TypeOK' /\ PhaseInv' /\ HoldInv'
    <2>1. CASE UNCHANGED vars
      BY <1>1, <2>1 DEF vars, TypeOK, PhaseInv, HoldInv
    <2>2. CASE Next
      BY <1>1, <2>2, EntryTyped, LockedTyped, OutsideTyped DEF Next, Step
    <2> QED
      BY <1>1, <2>1, <2>2
  <1> QED
    BY <1>1, InitTyped, PTL DEF Spec

(* Replays *)

\* A request whose handler ended with a response that is, or was, cached.
Responded(a) == req[a].did \in {"ok", "expired"} /\ req[a].pc \in {"release", "done"}

\* What is cached for a key is the response of a request of that key.
CacheInv ==
  \A k \in Keys : cache[k] # None =>
    req[cache[k]].key = k /\ req[cache[k]].did = "ok" /\ Responded(cache[k])

\* What a request replays is the response of one with its key and its route.
AnswerInv ==
  \A r \in Requests : req[r].answer # None =>
    /\ req[req[r].answer].key = req[r].key
    /\ req[req[r].answer].route = req[r].route
    /\ Responded(req[r].answer)

\* The steps of one request.
Acts(r) ==
  \/ \E k \in Keys, rt \in Routes : Arrive(r, k, rt)
  \/ Step(r)
  \/ Acquire(r)

\* A request keeps its key and its route, its outcome once it has responded,
\* and changes its answer only to what is cached for its key and its route.
Keeps(r) ==
  /\ \A u \in Requests \ {r} : req'[u] = req[u]
  /\ req[r].pc # "new" => req'[r].key = req[r].key /\ req'[r].route = req[r].route
  /\ Responded(r) => req'[r].did = req[r].did /\ req'[r].pc \in {"release", "done"}
  /\ \/ req'[r].answer = req[r].answer
     \/ req'[r].answer = None
     \/ /\ req'[r].answer = cache[req[r].key]
        /\ req[r].pc # "new"
        /\ req[cache[req[r].key]].route = req[r].route
        /\ UNCHANGED cache

\* That is so of every step.
LEMMA StepKeeps ==
  ASSUME TypeOK, PhaseInv, NEW r \in Requests, Acts(r)
  PROVE  Keeps(r)
  <1>p. req[r] \in RequestRecord /\ PhaseOK(req[r])
    BY DEF TypeOK, PhaseInv
  <1> USE DEF Keeps, Responded, TypeOK, RequestRecord
  <1>1. ASSUME NEW k \in Keys, NEW rt \in Routes, Arrive(r, k, rt) PROVE Keeps(r)
    BY <1>1 DEF Arrive
  <1>r. ASSUME Replay(r), UNCHANGED cache, req[r].pc \in {"lookup", "recheck"} PROVE Keeps(r)
    <2> DEFINE hit == cache[req[r].key]
    <2>1. req' = [req EXCEPT ![r] = [req[r] EXCEPT !.pc = "done",
                    !.answer = IF req[hit].route = req[r].route THEN hit ELSE None]]
      BY <1>r DEF Replay
    <2> HIDE DEF hit
    <2> QED
      BY <1>r, <2>1 DEF hit
  <1>g. ASSUME NEW pc, Go(r, pc),
               req[r].pc \in {"release", "done"} => pc \in {"release", "done"}
        PROVE  Keeps(r)
    BY <1>g DEF Go
  <1>2. CASE Lookup(r)
    BY <1>2, <1>r, <1>g DEF Lookup
  <1>3. CASE LockFor(r)
    BY <1>3 DEF LockFor
  <1>4. CASE Acquire(r)
    BY <1>4, <1>g DEF Acquire
  <1>5. CASE Recheck(r)
    BY <1>5, <1>r, <1>g DEF Recheck
  <1>6. CASE Store(r)
    BY <1>6, <1>g DEF Store
  <1>7. CASE Release(r)
    BY <1>7, <1>g DEF Release
  <1>8. CASE EndOfBody(r)
    BY <1>8, <1>g DEF EndOfBody
  <1>9. ASSUME NEW o \in Outcomes, Respond(r, o) PROVE Keeps(r)
    BY <1>9 DEF Respond
  <1> QED
    BY <1>1, <1>2, <1>3, <1>4, <1>5, <1>6, <1>7, <1>8, <1>9 DEF Acts, Step

\* Only Store changes what is cached.
LEMMA StepCaches ==
  ASSUME TypeOK, PhaseInv, NEW r \in Requests, Acts(r)
  PROVE  \/ UNCHANGED cache
         \/ /\ req[r].pc = "store" /\ req'[r].pc = "release" /\ req'[r].did = "ok"
            /\ req[r].key \in Keys
            /\ cache' = [cache EXCEPT ![req[r].key] = r]
  <1>p. req[r] \in RequestRecord /\ PhaseOK(req[r])
    BY DEF TypeOK, PhaseInv
  <1>1. CASE Store(r)
    BY <1>1, <1>p DEF Store, Go, TypeOK, PhaseOK, RequestRecord
  <1>2. CASE ~Store(r)
    BY <1>2 DEF Acts, Step, Arrive, Lookup, LockFor, Acquire, Recheck, Release, EndOfBody, Respond
  <1> QED
    BY <1>1, <1>2

\* A step of a request keeps the cache and the answers right.
LEMMA StepReplays ==
  ASSUME TypeOK, PhaseInv, CacheInv, AnswerInv, NEW r \in Requests, Acts(r), TypeOK'
  PROVE  CacheInv' /\ AnswerInv'
  <1>k. Keeps(r)
    BY StepKeeps
  <1>a. ASSUME NEW a \in Requests, Responded(a)
        PROVE  /\ req'[a].key = req[a].key /\ req'[a].route = req[a].route
               /\ req'[a].did = req[a].did /\ req'[a].pc \in {"release", "done"}
    BY <1>a, <1>k DEF Keeps, Responded
  <1>1. CacheInv'
    <2> SUFFICES ASSUME NEW k \in Keys, cache'[k] # None
                 PROVE  /\ req'[cache'[k]].key = k /\ req'[cache'[k]].did = "ok"
                        /\ req'[cache'[k]].pc \in {"release", "done"}
      BY DEF CacheInv, Responded
    <2>1. CASE cache'[k] = cache[k]
      <3>1. cache[k] \in Requests
        BY <2>1 DEF TypeOK
      <3> QED
        BY <2>1, <3>1, <1>a DEF CacheInv
    <2>2. CASE cache'[k] # cache[k]
      <3>1. /\ cache'[k] = r /\ req[r].key = k /\ req[r].pc = "store"
            /\ req'[r].pc = "release" /\ req'[r].did = "ok"
        BY <2>2, StepCaches DEF TypeOK
      <3> QED
        BY <3>1, <1>k DEF Keeps
    <2> QED
      BY <2>1, <2>2
  <1>2. AnswerInv'
    <2> SUFFICES ASSUME NEW u \in Requests, req'[u].answer # None
                 PROVE  /\ req'[req'[u].answer].key = req'[u].key
                        /\ req'[req'[u].answer].route = req'[u].route
                        /\ req'[req'[u].answer].did \in {"ok", "expired"}
                        /\ req'[req'[u].answer].pc \in {"release", "done"}
      BY DEF AnswerInv, Responded
    <2>t. req[u] \in RequestRecord /\ PhaseOK(req[u])
      BY DEF TypeOK, PhaseInv
    <2>1. CASE req'[u].answer = req[u].answer
      <3>1. req[u].answer \in Requests /\ req[u].pc # "new"
        BY <2>1, <2>t DEF PhaseOK, RequestRecord
      <3>2. req'[u].key = req[u].key /\ req'[u].route = req[u].route
        BY <3>1, <1>k DEF Keeps
      <3> QED
        BY <2>1, <3>1, <3>2, <1>a DEF AnswerInv, Responded
    <2>2. CASE req'[u].answer # req[u].answer
      <3>1. /\ u = r /\ req[r].pc # "new" /\ req'[r].answer = cache[req[r].key]
            /\ req[cache[req[r].key]].route = req[r].route
        BY <2>2, <1>k DEF Keeps
      <3>2. req[r].key \in Keys /\ cache[req[r].key] \in Requests
        BY <2>t, <3>1 DEF PhaseOK, TypeOK
      <3>3. req'[r].key = req[r].key /\ req'[r].route = req[r].route
        BY <3>1, <1>k DEF Keeps
      <3>4. /\ Responded(cache[req[r].key])
            /\ req[cache[req[r].key]].key = req[r].key
        BY <3>1, <3>2 DEF CacheInv
      <3> QED
        BY <3>1, <3>2, <3>3, <3>4, <1>a DEF Responded
    <2> QED
      BY <2>1, <2>2
  <1> QED
    BY <1>1, <1>2

\* The end of a TTL and a crash leave what has responded as it is, but an
\* expired response says so.
LEMMA OutsideKeeps ==
  ASSUME TypeOK, PhaseInv, Crash \/ \E k \in Keys : Expire(k)
  PROVE  \A u \in Requests :
           /\ req'[u].key = req[u].key /\ req'[u].route = req[u].route
           /\ req'[u].answer = req[u].answer
           /\ Responded(u) => /\ req'[u].pc \in {"release", "done"}
                              /\ req'[u].did \in {"ok", "expired"}
                              /\ \/ req'[u].did = req[u].did
                                 \/ \E k \in Keys : req[u].key = k /\ Expire(k)
  <1> SUFFICES ASSUME NEW u \in Requests
               PROVE  /\ req'[u].key = req[u].key /\ req'[u].route = req[u].route
                      /\ req'[u].answer = req[u].answer
                      /\ Responded(u) => /\ req'[u].pc \in {"release", "done"}
                                         /\ req'[u].did \in {"ok", "expired"}
                                         /\ \/ req'[u].did = req[u].did
                                            \/ \E k \in Keys : req[u].key = k /\ Expire(k)
    OBVIOUS
  <1>p. req[u] \in RequestRecord
    BY DEF TypeOK
  <1> USE DEF Responded, RequestRecord
  <1>1. ASSUME NEW k \in Keys, Expire(k)
        PROVE  req'[u] = IF req[u].key = k /\ req[u].did = "ok"
                           THEN [req[u] EXCEPT !.did = "expired"] ELSE req[u]
    BY <1>1 DEF Expire
  <1>2. CASE Crash
    <2>1. \/ req'[u] = req[u]
          \/ req[u].pc \in {"run", "store", "body"}
             /\ req'[u] = [req[u] EXCEPT !.pc = "done", !.did = "lost"]
          \/ req'[u] = [req[u] EXCEPT !.pc = "done"]
      BY <1>2 DEF Crash
    <2> QED
      BY <1>p, <2>1
  <1> QED
    BY <1>p, <1>1, <1>2

\* They keep the cache and the answers right.
LEMMA OutsideReplays ==
  ASSUME TypeOK, PhaseInv, CacheInv, AnswerInv, TypeOK',
         Crash \/ \E k \in Keys : Expire(k)
  PROVE  CacheInv' /\ AnswerInv'
  <1>1. ASSUME NEW k \in Keys, cache'[k] # None
        PROVE  cache'[k] = cache[k] /\ ~Expire(k) /\ cache[k] \in Requests
    BY <1>1 DEF Crash, Expire, TypeOK
  <1>2. CacheInv'
    <2> SUFFICES ASSUME NEW k \in Keys, cache'[k] # None
                 PROVE  /\ req'[cache'[k]].key = k /\ req'[cache'[k]].did = "ok"
                        /\ req'[cache'[k]].pc \in {"release", "done"}
      BY DEF CacheInv, Responded
    <2>1. /\ cache'[k] = cache[k] /\ ~Expire(k) /\ cache[k] \in Requests
          /\ req[cache[k]].key = k /\ req[cache[k]].did = "ok" /\ Responded(cache[k])
      BY <1>1 DEF CacheInv
    <2> QED
      BY <2>1, OutsideKeeps
  <1>3. AnswerInv'
    <2> SUFFICES ASSUME NEW u \in Requests, req'[u].answer # None
                 PROVE  /\ req'[req'[u].answer].key = req'[u].key
                        /\ req'[req'[u].answer].route = req'[u].route
                        /\ req'[req'[u].answer].did \in {"ok", "expired"}
                        /\ req'[req'[u].answer].pc \in {"release", "done"}
      BY DEF AnswerInv, Responded
    <2>1. req'[u].answer = req[u].answer /\ req[u].answer \in Requests
      BY OutsideKeeps DEF TypeOK, RequestRecord
    <2>2. /\ req[req[u].answer].key = req[u].key
          /\ req[req[u].answer].route = req[u].route
          /\ Responded(req[u].answer)
      BY <2>1 DEF AnswerInv
    <2> QED
      BY <2>1, <2>2, OutsideKeeps
  <1> QED
    BY <1>2, <1>3

\* Every step of the system is a request's or comes from outside.
LEMMA NextIs == Next => (\E r \in Requests : Acts(r)) \/ Crash \/ \E k \in Keys : Expire(k)
  BY DEF Next, Acts

\* Whoever replays a response, at the first look or under the lock, and whatever
\* expires or crashes afterwards: the response is of a request with the same
\* key and on the same route that succeeded.
THEOREM ReplaysAreFaithful == Spec => []ReplayIsFaithful
  <1>1. Init => CacheInv /\ AnswerInv
    BY DEF Init, CacheInv, AnswerInv
  <1>2. ASSUME TypeOK, PhaseInv, TypeOK', CacheInv, AnswerInv, [Next]_vars
        PROVE  CacheInv' /\ AnswerInv'
    <2>1. CASE UNCHANGED vars
      BY <1>2, <2>1 DEF vars, CacheInv, AnswerInv, Responded
    <2>2. CASE Next
      BY <1>2, <2>2, NextIs, StepReplays, OutsideReplays
    <2> QED
      BY <1>2, <2>1, <2>2
  <1>3. AnswerInv => ReplayIsFaithful
    BY DEF AnswerInv, ReplayIsFaithful, Responded
  <1> QED
    BY <1>1, <1>2, <1>3, TypeCorrect, PTL DEF Spec

(* Duplicates *)

\* Some request of the key left no response in the cache.
Missed(k) == \E v \in Requests : req[v].key = k /\ req[v].did \in Uncached

\* No handler has succeeded for the key, but for one that is about to store its
\* response, and everybody waits for the lock in the map.
Unserved(k) ==
  \A r \in Requests : req[r].key = k =>
    /\ req[r].pc # "release"
    /\ req[r].did = "ok" => req[r].pc = "store"
    /\ req[r].pc \in {"acquire", "recheck", "run", "store"} => req[r].lock = inflight[k]

\* One handler has succeeded for the key, nobody runs another.
Served(k) ==
  \A r \in Requests : req[r].key = k =>
    /\ req[r].pc \notin {"run", "store"}
    /\ req[r].did = "ok" => r = cache[k]

\* As long as every response of a key was cached, its handler ran at most once.
MissInv ==
  \A k \in Keys : ~Missed(k) => IF cache[k] = None THEN Unserved(k) ELSE Served(k)

\* A miss is not undone.
LEMMA MissStays ==
  ASSUME TypeOK, PhaseInv, NEW k \in Keys, Missed(k),
         (\E r \in Requests : Acts(r)) \/ Crash \/ \E kk \in Keys : Expire(kk)
  PROVE  Missed(k)'
  <1> SUFFICES ASSUME NEW v \in Requests, req[v].key = k, req[v].did \in Uncached
               PROVE  req'[v].key = k /\ req'[v].did \in Uncached
    BY DEF Missed
  <1>p. req[v] \in RequestRecord /\ req[v].pc \in {"body", "done"}
    BY DEF TypeOK, PhaseInv, PhaseOK, RequestRecord, PCs, Uncached
  <1>1. ASSUME NEW r \in Requests, Acts(r)
        PROVE  req'[v].key = k /\ req'[v].did \in Uncached
    <2>1. CASE v # r
      BY <1>1, <2>1, StepKeeps DEF Keeps
    <2>2. CASE v = r
      <3>1. EndOfBody(r)
        BY <1>1, <1>p, <2>2 DEF Acts, Step, Arrive, Lookup, LockFor, Acquire, Recheck, Respond,
                                Store, Release
      <3> QED
        BY <1>p, <2>2, <3>1 DEF EndOfBody, Go, TypeOK, RequestRecord
    <2> QED
      BY <2>1, <2>2
  <1>2. ASSUME NEW kk \in Keys, Expire(kk)
        PROVE  req'[v].key = k /\ req'[v].did \in Uncached
    BY <1>2 DEF Expire, Uncached
  <1>3. CASE Crash
    BY <1>3, <1>p DEF Crash, Uncached, RequestRecord
  <1> QED
    BY <1>1, <1>2, <1>3

\* As long as nobody was served there is one request under the lock.
LEMMA OneUnderLock ==
  ASSUME HoldInv, NEW k \in Keys, Unserved(k),
         NEW r \in Requests, NEW u \in Requests, req[r].key = k, req[u].key = k,
         req[r].pc \in {"recheck", "run", "store"}, req[u].pc \in {"recheck", "run", "store"}
  PROVE  r = u
  BY DEF HoldInv, Unserved

\* A step of a request of another key does not touch this one.
LEMMA OtherKey ==
  ASSUME TypeOK, PhaseInv, NEW r \in Requests, Acts(r), NEW k \in Keys, req'[r].key # k
  PROVE  /\ inflight'[k] = inflight[k] /\ cache'[k] = cache[k]
         /\ \A u \in Requests : req'[u].key = k => req'[u] = req[u]
  <1>k. Keeps(r)
    BY StepKeeps
  <1>1. \A u \in Requests : req'[u].key = k => req'[u] = req[u]
    BY <1>k DEF Keeps
  <1>2. CASE req[r].pc = "new"
    BY <1>1, <1>2 DEF Acts, Step, Arrive, Lookup, LockFor, Acquire, Recheck, Respond,
                       Store, Release, EndOfBody
  <1>3. CASE req[r].pc # "new"
    <2>1. req[r].key # k
      BY <1>3, <1>k DEF Keeps
    <2>2. inflight'[k] = inflight[k]
      BY <2>1, <1>3 DEF Acts, Step, Arrive, Lookup, LockFor, Acquire, Recheck, Respond,
                  Store, Release, EndOfBody, Leave, TypeOK
    <2>3. cache'[k] = cache[k]
      BY <2>1, StepCaches DEF TypeOK
    <2> QED
      BY <1>1, <2>2, <2>3
  <1> QED
    BY <1>2, <1>3

\* A step of a request of this key, while nobody was served.
LEMMA StepUnserved ==
  ASSUME TypeOK, PhaseInv, HoldInv, NEW r \in Requests, Acts(r),
         NEW k \in Keys, req'[r].key = k, Unserved(k), cache[k] = None, ~Missed(k)'
  PROVE  IF cache'[k] = None THEN Unserved(k)' ELSE Served(k)'
  <1>k. Keeps(r)
    BY StepKeeps
  <1>p. req[r] \in RequestRecord /\ PhaseOK(req[r])
    BY DEF TypeOK, PhaseInv
  <1>n. None \notin Requests
    BY IdempotencyAssumption
  <1>o. \A u \in Requests \ {r} : req'[u] = req[u]
    BY <1>k DEF Keeps
  <1>u. ASSUME UNCHANGED <<inflight, cache>>,
               req'[r].pc # "release", req'[r].did = "ok" => req'[r].pc = "store",
               req'[r].pc \in {"acquire", "recheck", "run", "store"} => req'[r].lock = inflight[k]
        PROVE  IF cache'[k] = None THEN Unserved(k)' ELSE Served(k)'
    BY <1>u, <1>o DEF Unserved
  <1>e. req[r].pc # "new" => req[r].key = k
    BY <1>k DEF Keeps
  <1>1. ASSUME NEW kk \in Keys, NEW rt \in Routes, Arrive(r, kk, rt)
        PROVE  IF cache'[k] = None THEN Unserved(k)' ELSE Served(k)'
    <2>1. req'[r].pc = "lookup" /\ req'[r].did = "nothing"
      BY <1>1, <1>p DEF Arrive, TypeOK, PhaseOK, RequestRecord
    <2> QED
      BY <1>1, <1>u, <2>1 DEF Arrive
  <1>2. CASE Lookup(r)
    <2>1. req'[r].pc = "lock_for" /\ req'[r].did = "nothing"
      BY <1>2, <1>e, <1>p DEF Lookup, Go, TypeOK, PhaseOK, RequestRecord
    <2> QED
      BY <1>2, <1>u, <2>1 DEF Lookup
  <1>3. CASE LockFor(r)
    <2> DEFINE l == IF inflight[k] = None THEN r ELSE inflight[k]
    <2>1. /\ req'[r].pc = "acquire" /\ req'[r].did = "nothing" /\ req'[r].lock = l
          /\ inflight' = [inflight EXCEPT ![k] = l] /\ cache' = cache
      <3>1. req[r].pc = "lock_for" /\ req[r].key = k /\ req[r].did = "nothing"
        BY <1>3, <1>e, <1>p DEF LockFor, PhaseOK
      <3>2. req' = [req EXCEPT ![r].pc = "acquire", ![r].lock = l]
        BY <1>3, <3>1 DEF LockFor
      <3>3. inflight' = [inflight EXCEPT ![k] = l] /\ cache' = cache
        BY <1>3, <3>1 DEF LockFor
      <3> HIDE DEF l
      <3> QED
        BY <1>p, <3>1, <3>2, <3>3 DEF TypeOK, RequestRecord
    <2>2. inflight'[k] = l
      BY <2>1 DEF TypeOK
    <2>3. ASSUME NEW u \in Requests \ {r}, req[u].key = k,
                 req[u].pc \in {"acquire", "recheck", "run", "store"}
          PROVE  req[u].lock = inflight[k] /\ inflight[k] # None
      BY <2>3, <1>n DEF Unserved, PhaseInv, PhaseOK
    <2> QED
      BY <1>o, <2>1, <2>2, <2>3 DEF Unserved
  <1>4. CASE Acquire(r)
    <2>1. /\ req'[r].pc = "recheck" /\ req'[r].did = "nothing" /\ req'[r].lock = req[r].lock
          /\ req[r].pc = "acquire"
      BY <1>4, <1>p DEF Acquire, Go, TypeOK, PhaseOK, RequestRecord
    <2>2. req[r].lock = inflight[k]
      BY <1>e, <2>1 DEF Unserved
    <2> QED
      BY <1>4, <1>u, <2>1, <2>2 DEF Acquire
  <1>5. CASE Recheck(r)
    <2>1. /\ req'[r].pc = "run" /\ req'[r].did = "nothing" /\ req'[r].lock = req[r].lock
          /\ req[r].pc = "recheck"
      BY <1>5, <1>e, <1>p DEF Recheck, Go, TypeOK, PhaseOK, RequestRecord
    <2>2. req[r].lock = inflight[k]
      BY <1>e, <2>1 DEF Unserved
    <2> QED
      BY <1>5, <1>u, <2>1, <2>2 DEF Recheck
  <1>6. CASE Store(r)
    <2>1. /\ req[r].pc = "store" /\ req[r].key = k
          /\ req'[r].pc = "release"
          /\ cache' = [cache EXCEPT ![k] = r]
      BY <1>6, <1>e, <1>p DEF Store, Go, TypeOK, RequestRecord
    <2>2. cache'[k] = r
      BY <2>1 DEF TypeOK
    <2>3. ASSUME NEW u \in Requests \ {r}, req[u].key = k
          PROVE  req[u].pc \notin {"run", "store"} /\ req[u].did # "ok"
      <3>1. req[u].pc \notin {"run", "store"}
        BY <2>1, <2>3, OneUnderLock
      <3> QED
        BY <2>3, <3>1 DEF Unserved
    <2> QED
      BY <1>n, <1>o, <2>1, <2>2, <2>3 DEF Served
  <1>7. CASE Release(r)
    BY <1>7, <1>e DEF Release, Unserved
  <1>8. CASE EndOfBody(r)
    <2>1. /\ req'[r].pc = "done" /\ req'[r].did = req[r].did /\ req[r].pc = "body"
      BY <1>8, <1>p DEF EndOfBody, Go, TypeOK, RequestRecord
    <2>2. req[r].did # "ok"
      BY <2>1, <1>p DEF PhaseOK
    <2> QED
      BY <1>8, <1>u, <2>1, <2>2 DEF EndOfBody
  <1>9. ASSUME NEW o \in Outcomes, Respond(r, o)
        PROVE  IF cache'[k] = None THEN Unserved(k)' ELSE Served(k)'
    <2>1. req[r].pc = "run" /\ req[r].key = k /\ req'[r].did = o
      BY <1>9, <1>e, <1>p DEF Respond, TypeOK, RequestRecord
    <2>2. o \in {"ok", "raise"}
      BY <2>1, IdempotencyAssumption DEF Missed, Uncached, AllOutcomes
    <2>3. UNCHANGED <<inflight, cache>>
      BY <1>9, <2>2 DEF Respond
    <2>4. /\ req'[r].pc = IF o = "ok" THEN "store" ELSE "done"
          /\ req'[r].lock = req[r].lock
      BY <1>9, <2>2, <1>p DEF Respond, TypeOK, RequestRecord
    <2>5. req[r].lock = inflight[k]
      BY <2>1 DEF Unserved
    <2> QED
      BY <1>u, <2>1, <2>2, <2>3, <2>4, <2>5
  <1> QED
    BY <1>1, <1>2, <1>3, <1>4, <1>5, <1>6, <1>7, <1>8, <1>9 DEF Acts, Step

\* A step of a request of this key, once one was served.
LEMMA StepServed ==
  ASSUME TypeOK, PhaseInv, NEW r \in Requests, Acts(r),
         NEW k \in Keys, req'[r].key = k, Served(k), cache[k] # None
  PROVE  cache'[k] # None /\ Served(k)'
  <1>k. Keeps(r)
    BY StepKeeps
  <1>p. req[r] \in RequestRecord /\ PhaseOK(req[r])
    BY DEF TypeOK, PhaseInv
  <1>e. req[r].pc # "new" => req[r].key = k
    BY <1>k DEF Keeps
  <1>s. req[r].pc \notin {"run", "store"}
    BY <1>e DEF Served
  <1>c. UNCHANGED cache
    BY <1>s, StepCaches
  <1>1. req'[r].pc \notin {"run", "store"} /\ (req'[r].did = "ok" => req[r].did = "ok")
    <2> USE <1>p DEF TypeOK, RequestRecord, Go
    <2>g. ASSUME NEW pc, Go(r, pc), pc \notin {"run", "store"}
          PROVE  req'[r].pc \notin {"run", "store"} /\ (req'[r].did = "ok" => req[r].did = "ok")
      BY <2>g
    <2>1. ASSUME NEW kk \in Keys, NEW rt \in Routes, Arrive(r, kk, rt)
          PROVE  req'[r].pc \notin {"run", "store"} /\ (req'[r].did = "ok" => req[r].did = "ok")
      BY <2>1 DEF Arrive
    <2>2. CASE LockFor(r)
      BY <2>2 DEF LockFor
    <2>3. CASE Lookup(r) \/ Recheck(r)
      <3>1. cache[req[r].key] # None
        BY <2>3, <1>e DEF Lookup, Recheck
      <3>2. Replay(r)
        BY <2>3, <3>1 DEF Lookup, Recheck
      <3> QED
        BY <3>2 DEF Replay
    <2>4. CASE Acquire(r) \/ Release(r) \/ EndOfBody(r)
      BY <2>4, <2>g DEF Acquire, Release, EndOfBody
    <2> QED
      BY <1>s, <2>1, <2>2, <2>3, <2>4 DEF Acts, Step, Respond, Store
  <1>2. req[r].did = "ok" => req[r].key = k
    BY <1>p, <1>e DEF PhaseOK
  <1> QED
    BY <1>k, <1>c, <1>1, <1>2 DEF Served, Keeps

\* Expiry and a crash.
LEMMA OutsideMisses ==
  ASSUME TypeOK, PhaseInv, MissInv, Crash \/ \E kk \in Keys : Expire(kk)
  PROVE  MissInv'
  <1> SUFFICES ASSUME NEW k \in Keys, ~Missed(k)'
               PROVE  IF cache'[k] = None THEN Unserved(k)' ELSE Served(k)'
    BY DEF MissInv
  <1>m. IF cache[k] = None THEN Unserved(k) ELSE Served(k)
    BY MissStays DEF MissInv
  <1>1. CASE Crash
    <2>1. ASSUME NEW u \in Requests, req'[u].key = k
          PROVE  /\ req[u].key = k /\ req'[u].pc = "done" /\ req'[u].did = req[u].did
                 /\ req[u].pc # "store"
      <3>1. req[u].key = k
        BY <2>1, OutsideKeeps
      <3>2. req'[u].did \notin Uncached
        BY <2>1 DEF Missed
      <3>3. req[u] \in RequestRecord /\ PhaseOK(req[u]) /\ k # None
        BY IdempotencyAssumption DEF TypeOK, PhaseInv
      <3> QED
        BY <1>1, <3>1, <3>2, <3>3 DEF Crash, Uncached, PhaseOK, RequestRecord
    <2>2. cache' = cache
      BY <1>1 DEF Crash
    <2>3. CASE cache[k] = None
      BY <1>m, <2>1, <2>2, <2>3 DEF Unserved
    <2>4. CASE cache[k] # None
      BY <1>m, <2>1, <2>2, <2>4 DEF Served
    <2> QED
      BY <2>3, <2>4
  <1>2. ASSUME Expire(k) PROVE IF cache'[k] = None THEN Unserved(k)' ELSE Served(k)'
    <2>1. cache'[k] = None
      BY <1>2 DEF Expire, TypeOK
    <2>2. ASSUME NEW u \in Requests, req'[u].key = k
          PROVE  req'[u].pc = "done" /\ req'[u].did # "ok"
      <3>1. req[u] \in RequestRecord
        BY DEF TypeOK
      <3>2. req[u].key = k
        BY <1>2, <2>2, OutsideKeeps
      <3>3. req[u].pc = "done"
        BY <1>2, <3>2 DEF Expire, InFlight
      <3> QED
        BY <1>2, <3>1, <3>2, <3>3 DEF Expire, RequestRecord
    <2> QED
      BY <2>1, <2>2 DEF Unserved
  <1>3. ASSUME NEW kk \in Keys, kk # k, Expire(kk)
        PROVE  IF cache'[k] = None THEN Unserved(k)' ELSE Served(k)'
    <2>1. cache'[k] = cache[k] /\ inflight' = inflight
      BY <1>3 DEF Expire, TypeOK
    <2>2. ASSUME NEW u \in Requests, req'[u].key = k PROVE req'[u] = req[u]
      <3>1. req[u].key = k
        BY <1>3, <2>2, OutsideKeeps
      <3> QED
        BY <1>3, <3>1 DEF Expire
    <2> QED
      BY <1>m, <2>1, <2>2 DEF Unserved, Served
  <1> QED
    BY <1>1, <1>2, <1>3

\* Two requests of one key have a handler that succeeds or still runs, whichever
\* locks the map has dropped in between, only when some request of that key was not
\* a 2xx, was a stream or was cut off by a crash.  Handlers that raised do not count.
THEOREM DuplicatesNeedMiss == Spec => []DuplicateNeedsMiss
  <1>1. Init => MissInv
    BY IdempotencyAssumption DEF Init, MissInv, Unserved
  <1>2. ASSUME TypeOK, PhaseInv, HoldInv, MissInv, [Next]_vars
        PROVE  MissInv'
    <2>1. CASE UNCHANGED vars
      BY <1>2, <2>1 DEF vars, MissInv, Missed, Served, Unserved
    <2>2. ASSUME NEW r \in Requests, Acts(r) PROVE MissInv'
      <3> SUFFICES ASSUME NEW k \in Keys, ~Missed(k)'
                   PROVE  IF cache'[k] = None THEN Unserved(k)' ELSE Served(k)'
        BY DEF MissInv
      <3>1. IF cache[k] = None THEN Unserved(k) ELSE Served(k)
        BY <1>2, <2>2, MissStays DEF MissInv
      <3>2. CASE req'[r].key # k
        <4>1. /\ inflight'[k] = inflight[k] /\ cache'[k] = cache[k]
              /\ \A u \in Requests : req'[u].key = k => req'[u] = req[u]
          BY <1>2, <2>2, <3>2, OtherKey
        <4> QED
          BY <3>1, <4>1 DEF Served, Unserved
      <3>3. CASE req'[r].key = k
        BY <1>2, <2>2, <3>1, <3>3, StepUnserved, StepServed
      <3> QED
        BY <3>2, <3>3
    <2> QED
      BY <1>2, <2>1, <2>2, NextIs, OutsideMisses
  <1>3. ASSUME TypeOK, PhaseInv, HoldInv, MissInv PROVE DuplicateNeedsMiss
    <2> SUFFICES ASSUME NEW r \in Requests, NEW u \in Requests, r # u,
                        req[r].key = req[u].key, Effective(r), Effective(u),
                        ~Missed(req[r].key)
                 PROVE  FALSE
      BY DEF DuplicateNeedsMiss, Missed
    <2> DEFINE k == req[r].key
    <2>1. k \in Keys /\ PhaseOK(req[r]) /\ PhaseOK(req[u])
      BY <1>3 DEF PhaseInv, PhaseOK, Effective
    <2> HIDE DEF k
    <2>2. CASE cache[k] = None
      <3>1. Unserved(k)
        BY <1>3, <2>1, <2>2 DEF MissInv, k
      <3>2. req[r].pc \in {"run", "store"} /\ req[u].pc \in {"run", "store"}
        BY <3>1 DEF Unserved, Effective, k
      <3> QED
        BY <1>3, <2>1, <3>1, <3>2, OneUnderLock DEF k
    <2>3. CASE cache[k] # None
      <3>1. Served(k)
        BY <1>3, <2>1, <2>3 DEF MissInv, k
      <3>2. req[r].did = "ok" /\ req[u].did = "ok"
        BY <2>1, <3>1 DEF Served, Effective, PhaseOK, k
      <3> QED
        BY <3>1, <3>2 DEF Served, k
    <2> QED
      BY <2>2, <2>3
  <1> QED
    BY <1>1, <1>2, <1>3, TypeCorrect, PTL DEF Spec

=============================================================================
