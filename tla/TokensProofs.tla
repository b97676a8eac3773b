----------------------------- MODULE TokensProofs -----------------------------
(***************************************************************************)
(* Proofs about Tokens, for any tenants, tokens and requests: rotations    *)
(* keep scopes and tenant, a revocation is final, the admin is seeded, and *)
(* a deleted tenant stays closed.                                          *)
(***************************************************************************)
EXTENDS Tokens, TLAPS

-----------------------------------------------------------------------------
(* The invariant *)

\* What a request carries from its look-up to its writes.
RequestOK(r, rows) ==
  /\ r.pc = "grace" => r.op = "rotate"
  /\ r.pc = "insert" => r.op \in {"rotate", "issue"}
  /\ r.op = "rotate" =>
       /\ r.tok \in Tokens /\ rows[r.tok].tenant # None
       /\ r.scopes = rows[r.tok].scopes
       /\ r.tenant = rows[r.tok].tenant
  /\ r.op = "issue" => r.tok = None
  /\ r.op \in AdminOps => r.tenant \in Tenants
  /\ r.op = "revoke" \/ r.pc = "revoke" => r.tok \in Tokens
  /\ r.pc \in {"create", "drop", "revokeAll"} => r.op \in AdminOps

RequestsOK == \A t \in Requests : RequestOK(req[t], token)

ParentsExist == \A k \in Tokens : token[k].from # None => Exists(token[k].from)

\* A second row for the admin's bearer is never attempted.
BootOK == AdminSeeded /\ (boot = "adminToken" => ~Exists(AdminToken))

Inv == TypeOK /\ RequestsOK /\ ParentsExist /\ ScopesInherited /\ BootOK

-----------------------------------------------------------------------------
(* What a step does to the rows *)

\* The rows keep their names, scopes and origin; only revoked_at may change.
SameRows ==
  /\ token' \in [Tokens -> TokenRow]
  /\ \A j \in Tokens : /\ token'[j].tenant = token[j].tenant
                       /\ token'[j].scopes = token[j].scopes
                       /\ token'[j].from = token[j].from

\* Revoking a token leaves the rest of the rows as they are.
LEMMA RevokeKeeps ==
  ASSUME TypeOK, NEW k \in Tokens, NEW when \in Revocations, Revoke(k, when)
  PROVE  SameRows
  BY DEF TypeOK, Revoke, SameRows, TokenRow

\* Rows that stay keep their lineage.
LEMMA LineageKept ==
  ASSUME Inv, SameRows
  PROVE  /\ ParentsExist' /\ ScopesInherited'
         /\ \A r \in Request : RequestOK(r, token) => RequestOK(r, token')
  <1>1. \A j \in Tokens : Exists(j)' = Exists(j)
    BY DEF SameRows, Exists
  <1>2. \A j \in Tokens : token[j].from \in Tokens \cup {None}
    BY DEF Inv, TypeOK, TokenRow
  <1>3. ParentsExist'
    BY <1>1, <1>2 DEF Inv, ParentsExist, SameRows
  <1>4. ScopesInherited'
    BY <1>2 DEF Inv, ScopesInherited, SameRows
  <1>5. ASSUME NEW r \in Request, RequestOK(r, token)
        PROVE  RequestOK(r, token')
    BY <1>1, <1>5 DEF RequestOK, SameRows
  <1>6. QED
    BY <1>3, <1>4, <1>5

\* A new row leaves the others alone and keeps the lineage, when it has no
\* origin or the scopes and the tenant of its origin.
LEMMA InsertKeeps ==
  ASSUME Inv, NEW k \in Tokens, ~Exists(k), NEW tn \in Tenants, NEW scopes \in Scopes,
         NEW from \in Tokens \cup {None},
         from # None => Exists(from) /\ scopes = token[from].scopes /\ tn = token[from].tenant,
         InsertToken(k, tn, scopes, from)
  PROVE  /\ token' \in [Tokens -> TokenRow]
         /\ \A j \in Tokens \ {k} : token'[j] = token[j]
         /\ Exists(k)'
         /\ ParentsExist' /\ ScopesInherited'
         /\ \A r \in Request : RequestOK(r, token) => RequestOK(r, token')
  <1>1. token \in [Tokens -> TokenRow] /\ None \notin Tenants
    BY TokensAssumption DEF Inv, TypeOK
  <1> DEFINE new == [tenant |-> tn, revoked |-> "no", scopes |-> scopes, from |-> from]
  <1>2. new \in TokenRow
    BY DEF TokenRow, Revocations
  <1>3. token' = [token EXCEPT ![k] = new]
    BY DEF InsertToken
  <1>4. /\ token' \in [Tokens -> TokenRow] /\ token'[k] = new
        /\ \A j \in Tokens \ {k} : token'[j] = token[j]
    BY <1>1, <1>2, <1>3
  <1>5. token'[k].tenant = tn /\ token'[k].scopes = scopes /\ token'[k].from = from
    BY <1>4
  <1>6. \A j \in Tokens : Exists(j) => j # k /\ Exists(j)'
    BY <1>4 DEF Exists
  <1>7. Exists(k)'
    BY <1>1, <1>5 DEF Exists
  <1>8. \A j \in Tokens : token[j].from \in Tokens \cup {None}
    BY <1>1 DEF TokenRow
  <1> HIDE DEF new
  <1>9. ParentsExist'
    BY <1>4, <1>5, <1>6, <1>8 DEF Inv, ParentsExist
  <1>10. ScopesInherited'
    <2>1. SUFFICES ASSUME NEW j \in Tokens, token'[j].from # None
                   PROVE  /\ token'[j].scopes = token'[token'[j].from].scopes
                          /\ token'[j].tenant = token'[token'[j].from].tenant
      BY DEF ScopesInherited
    <2>2. CASE j = k
      <3>1. /\ from \in Tokens /\ Exists(from) /\ from # k
            /\ scopes = token[from].scopes /\ tn = token[from].tenant
        BY <2>1, <2>2, <1>5, <1>6
      <3>2. token'[from] = token[from]
        BY <3>1, <1>4
      <3>3. token'[j].from = from /\ token'[j].scopes = scopes /\ token'[j].tenant = tn
        BY <2>2, <1>5
      <3>4. QED
        BY <3>1, <3>2, <3>3
    <2>3. CASE j # k
      <3>1. token'[j] = token[j] /\ token[j].from \in Tokens
        BY <2>1, <2>3, <1>4, <1>8
      <3>2. Exists(token[j].from) /\ token[j].from # k
        BY <2>1, <3>1, <1>6 DEF Inv, ParentsExist
      <3>3. token'[token[j].from] = token[token[j].from]
        BY <3>1, <3>2, <1>4
      <3>4. QED
        BY <2>1, <3>1, <3>3 DEF Inv, ScopesInherited
    <2>4. QED
      BY <2>2, <2>3
  <1>11. ASSUME NEW r \in Request, RequestOK(r, token)
         PROVE  RequestOK(r, token')
    BY <1>4, <1>6, <1>11 DEF RequestOK, Exists
  <1>12. QED
    BY <1>4, <1>7, <1>9, <1>10, <1>11

-----------------------------------------------------------------------------
(* The invariant is kept *)

\* The bootstrap's facts survive a step that removes no row and does not touch
\* the bootstrap.
LEMMA BootKept ==
  ASSUME Inv, boot' = boot, Exists(AdminToken)' = Exists(AdminToken)
  PROVE  BootOK'
  BY DEF Inv, BootOK, AdminSeeded

\* A step that writes no token, and moves requests to records that are right.
LEMMA NoTokenWritten ==
  ASSUME Inv, token' = token, tenants' \subseteq Tenants,
         req' \in [Requests -> Request],
         \A t \in Requests : RequestOK(req'[t], token),
         boot' \in {"down", "default", "admin", "adminToken", "serving"}, BootOK'
  PROVE  Inv'
  <1>1. TypeOK'
    BY DEF Inv, TypeOK
  <1>2. RequestsOK'
    BY DEF RequestsOK, RequestOK, Exists
  <1>3. ParentsExist' /\ ScopesInherited'
    BY DEF Inv, ParentsExist, ScopesInherited, Exists
  <1>4. QED
    BY <1>1, <1>2, <1>3 DEF Inv

\* A request that ends, or goes on to another step, has the record it had.
LEMMA RecordsMove ==
  ASSUME Inv, NEW t \in Requests
  PROVE  /\ Finish(t) => /\ req' \in [Requests -> Request]
                         /\ \A u \in Requests : RequestOK(req'[u], token)
         /\ \A pc \in {"insert", "grace", "revoke", "revokeAll", "drop", "create"} :
              Go(t, pc) =>
                /\ req' \in [Requests -> Request]
                /\ \A u \in Requests \ {t} : RequestOK(req'[u], token)
                /\ req'[t] = [req[t] EXCEPT !.pc = pc]
  <1>1. req \in [Requests -> Request] /\ \A u \in Requests : RequestOK(req[u], token)
    BY DEF Inv, TypeOK, RequestsOK
  <1>2. Idle \in Request /\ RequestOK(Idle, token)
    BY DEF Idle, Request, Scopes, RequestOK, AdminOps
  <1>3. ASSUME Finish(t)
        PROVE  /\ req' \in [Requests -> Request]
               /\ \A u \in Requests : RequestOK(req'[u], token)
    <2>1. req' \in [Requests -> Request] /\ req'[t] = Idle
          /\ \A u \in Requests \ {t} : req'[u] = req[u]
      BY <1>1, <1>2, <1>3 DEF Finish
    <2>2. SUFFICES ASSUME NEW u \in Requests
                   PROVE  RequestOK(req'[u], token)
      BY <2>1
    <2>3. CASE u = t
      BY <2>1, <2>3, <1>2
    <2>4. CASE u # t
      BY <2>1, <2>4, <1>1
    <2>5. QED
      BY <2>3, <2>4
  <1>4. ASSUME NEW pc \in {"insert", "grace", "revoke", "revokeAll", "drop", "create"}, Go(t, pc)
        PROVE  /\ req' \in [Requests -> Request]
               /\ \A u \in Requests \ {t} : RequestOK(req'[u], token)
               /\ req'[t] = [req[t] EXCEPT !.pc = pc]
    <2>1. [req[t] EXCEPT !.pc = pc] \in Request
      BY <1>1 DEF Request
    <2>2. /\ req' \in [Requests -> Request] /\ req'[t] = [req[t] EXCEPT !.pc = pc]
          /\ \A u \in Requests \ {t} : req'[u] = req[u]
      BY <1>1, <1>4, <2>1 DEF Go
    <2>3. SUFFICES ASSUME NEW u \in Requests \ {t}
                   PROVE  RequestOK(req'[u], token)
      BY <2>2
    <2>4. QED
      BY <2>2, <1>1
  <1>5. QED
    BY <1>3, <1>4

\* A request that arrives.
LEMMA ArriveKeeps ==
  ASSUME Inv, NEW t \in Requests, NEW r \in Request, RequestOK(r, token), Arrive(t, r),
         UNCHANGED <<tenants, token, boot>>
  PROVE  Inv'
  <1>1. req \in [Requests -> Request] /\ \A u \in Requests : RequestOK(req[u], token)
    BY DEF Inv, TypeOK, RequestsOK
  <1>2. req' \in [Requests -> Request] /\ req'[t] = r
        /\ \A u \in Requests \ {t} : req'[u] = req[u]
    BY <1>1 DEF Arrive
  <1>3. \A u \in Requests : RequestOK(req'[u], token)
    <2>1. SUFFICES ASSUME NEW u \in Requests
                   PROVE  RequestOK(req'[u], token)
      OBVIOUS
    <2>2. CASE u = t
      BY <2>2, <1>2
    <2>3. CASE u # t
      BY <2>3, <1>1, <1>2
    <2>4. QED
      BY <2>2, <2>3
  <1>4. BootOK' /\ tenants' \subseteq Tenants
        /\ boot' \in {"down", "default", "admin", "adminToken", "serving"}
    BY BootKept DEF Exists, Inv, TypeOK
  <1>5. QED
    BY <1>2, <1>3, <1>4, NoTokenWritten

\* rotate: the record has the scopes and the tenant of the token.
LEMMA RotateKeeps ==
  ASSUME Inv, NEW t \in Requests, NEW k \in Tokens, Rotate(t, k)
  PROVE  Inv'
  <1> DEFINE r == [op |-> "rotate", pc |-> "insert", tenant |-> token[k].tenant, tok |-> k,
                   scopes |-> token[k].scopes]
  <1>1. token[k] \in TokenRow /\ Exists(k)
    BY DEF Inv, TypeOK, Rotate, Live
  <1>2. r \in Request
    BY <1>1 DEF Request, TokenRow, AdminOps
  <1>3. RequestOK(r, token)
    BY <1>1 DEF RequestOK, AdminOps, Exists
  <1>4. Arrive(t, r) /\ UNCHANGED <<tenants, token, boot>>
    BY DEF Rotate
  <1> HIDE DEF r
  <1>5. QED
    BY <1>2, <1>3, <1>4, ArriveKeeps

\* The admin's requests.
LEMMA AskKeeps ==
  ASSUME Inv, NEW t \in Requests, Ask(t)
  PROVE  Inv'
  <1>1. ASSUME NEW op \in AdminOps, NEW tn \in Tenants, NEW k \in Tokens \cup {None},
               NEW scopes \in Scopes, op = "issue" => k = None, op = "revoke" => k \in Tokens,
               AdminRequest(t, op, tn, k, scopes)
        PROVE  Inv'
    <2> DEFINE r == [op |-> op, pc |-> "get", tenant |-> tn, tok |-> k, scopes |-> scopes]
    <2>1. r \in Request
      BY DEF Request
    <2>2. RequestOK(r, token)
      BY <1>1 DEF RequestOK, AdminOps
    <2>3. Arrive(t, r) /\ UNCHANGED <<tenants, token, boot>>
      BY <1>1 DEF AdminRequest
    <2> HIDE DEF r
    <2>4. QED
      BY <2>1, <2>2, <2>3, ArriveKeeps
  <1>2. CASE \E op \in {"create", "delete"}, tn \in Tenants : AdminRequest(t, op, tn, None, "all")
    BY <1>1, <1>2 DEF AdminOps, Scopes
  <1>3. CASE \E tn \in Tenants, scopes \in Scopes : AdminRequest(t, "issue", tn, None, scopes)
    BY <1>1, <1>3 DEF AdminOps
  <1>4. CASE \E k \in Tokens : Exists(k) /\ AdminRequest(t, "revoke", token[k].tenant, k, "all")
    <2>1. PICK k \in Tokens : Exists(k) /\ AdminRequest(t, "revoke", token[k].tenant, k, "all")
      BY <1>4
    <2>2. token[k].tenant \in Tenants
      BY <2>1 DEF Inv, TypeOK, TokenRow, Exists
    <2>3. QED
      BY <1>1, <2>1, <2>2 DEF AdminOps, Scopes
  <1>5. QED
    BY <1>2, <1>3, <1>4 DEF Ask

\* The look-ups of the admin's requests, and the writes to the tenants.
LEMMA TenantStepsKeep ==
  ASSUME Inv, NEW t \in Requests, Get(t) \/ CreateTenant(t) \/ DropTenant(t)
  PROVE  Inv'
  <1>1. req[t] \in Request /\ RequestOK(req[t], token)
    BY DEF Inv, TypeOK, RequestsOK
  <1>2. token' = token /\ boot' = boot
    BY DEF Get, CreateTenant, DropTenant
  <1>3. BootOK' /\ boot' \in {"down", "default", "admin", "adminToken", "serving"}
    BY <1>2, BootKept DEF Exists, Inv, TypeOK
  <1>4. tenants' \subseteq Tenants
    BY <1>1 DEF Get, CreateTenant, DropTenant, RequestOK, Inv, TypeOK
  <1>5. CASE Finish(t)
    BY <1>2, <1>3, <1>4, <1>5, RecordsMove, NoTokenWritten
  <1>6. CASE Get(t) /\ ~Finish(t)
    <2>1. PICK pc \in {"insert", "revoke", "revokeAll", "create"} :
            /\ Go(t, pc)
            /\ pc = "insert" => req[t].op = "issue"
            /\ pc = "revoke" => req[t].op = "revoke"
            /\ pc = "revokeAll" => req[t].op = "delete"
            /\ pc = "create" => req[t].op = "create"
      BY <1>6 DEF Get
    <2>2. /\ req' \in [Requests -> Request]
          /\ \A u \in Requests \ {t} : RequestOK(req'[u], token)
          /\ req'[t] = [req[t] EXCEPT !.pc = pc]
      BY <2>1, RecordsMove
    <2>3. pc = "revoke" => req[t].tok \in Tokens
      BY <2>1, <1>1 DEF RequestOK
    <2>4. RequestOK(req'[t], token)
      BY <1>1, <2>1, <2>2, <2>3 DEF RequestOK, Request, AdminOps
    <2>5. \A u \in Requests : RequestOK(req'[u], token)
      BY <2>2, <2>4
    <2>6. QED
      BY <1>2, <1>3, <1>4, <2>2, <2>5, NoTokenWritten
  <1>7. QED
    BY <1>5, <1>6 DEF CreateTenant, DropTenant

\* A step that writes to the rows of tokens and leaves tenants and bootstrap.
LEMMA RowsWritten ==
  ASSUME Inv, token' \in [Tokens -> TokenRow], ParentsExist', ScopesInherited',
         UNCHANGED <<tenants, boot>>, Exists(AdminToken)' = Exists(AdminToken),
         req' \in [Requests -> Request],
         \A u \in Requests : RequestOK(req'[u], token')
  PROVE  Inv'
  <1>1. TypeOK'
    BY DEF Inv, TypeOK
  <1>2. RequestsOK'
    BY DEF RequestsOK
  <1>3. BootOK'
    BY BootKept
  <1>4. QED
    BY <1>1, <1>2, <1>3 DEF Inv

\* The new row of a rotation or an issue.
LEMMA InsertNewKeeps ==
  ASSUME Inv, NEW t \in Requests, InsertNew(t)
  PROVE  Inv'
  <1>1. req[t] \in Request /\ RequestOK(req[t], token)
    BY DEF Inv, TypeOK, RequestsOK
  <1>2. PICK k \in Tokens \ {ApiToken, AdminToken} :
          ~Exists(k) /\ InsertToken(k, req[t].tenant, req[t].scopes, req[t].tok)
    BY DEF InsertNew
  <1>3. /\ req[t].op \in {"rotate", "issue"} /\ req[t].scopes \in Scopes
        /\ req[t].tok \in Tokens \cup {None}
        /\ req[t].tok # None => /\ Exists(req[t].tok)
                               /\ req[t].scopes = token[req[t].tok].scopes
                               /\ req[t].tenant = token[req[t].tok].tenant
    BY <1>1 DEF InsertNew, RequestOK, Request, Exists
  <1>4. req[t].tenant \in Tenants
    <2>1. CASE req[t].op = "rotate"
      BY <1>1, <2>1 DEF RequestOK, Exists, Inv, TypeOK, TokenRow
    <2>2. CASE req[t].op = "issue"
      BY <1>1, <2>2 DEF RequestOK, AdminOps
    <2>3. QED
      BY <1>3, <2>1, <2>2
  <1>5. /\ token' \in [Tokens -> TokenRow]
        /\ \A j \in Tokens \ {k} : token'[j] = token[j]
        /\ ParentsExist' /\ ScopesInherited'
        /\ \A r \in Request : RequestOK(r, token) => RequestOK(r, token')
    BY <1>2, <1>3, <1>4, InsertKeeps
  <1>6. Exists(AdminToken)' = Exists(AdminToken)
    BY <1>2, <1>5, TokensAssumption DEF Exists
  <1>7. req' \in [Requests -> Request] /\ \A u \in Requests : RequestOK(req'[u], token)
    <2>1. CASE Finish(t)
      BY <2>1, RecordsMove
    <2>2. CASE req[t].op = "rotate" /\ Go(t, "grace")
      <3>1. /\ req' \in [Requests -> Request]
            /\ \A u \in Requests \ {t} : RequestOK(req'[u], token)
            /\ req'[t] = [req[t] EXCEPT !.pc = "grace"]
        BY <2>2, RecordsMove
      <3>2. RequestOK(req'[t], token)
        BY <1>1, <2>2, <3>1 DEF RequestOK, Request, AdminOps
      <3>3. QED
        BY <3>1, <3>2
    <2>3. QED
      BY <2>1, <2>2 DEF InsertNew
  <1>8. \A u \in Requests : req'[u] \in Request
    BY <1>7
  <1>9. \A u \in Requests : RequestOK(req'[u], token')
    <2>1. SUFFICES ASSUME NEW u \in Requests
                   PROVE  RequestOK(req'[u], token')
      OBVIOUS
    <2>2. QED
      BY <1>5, <1>7, <1>8
  <1>10. QED
    BY <1>5, <1>6, <1>7, <1>9, RowsWritten DEF InsertNew

\* The three ways to write revoked_at.
LEMMA RevocationsKeep ==
  ASSUME Inv, NEW t \in Requests, GiveGrace(t) \/ RevokeNow(t) \/ RevokeAll(t)
  PROVE  Inv'
  <1>1. req[t] \in Request /\ RequestOK(req[t], token) /\ TypeOK
    BY DEF Inv, TypeOK, RequestsOK
  <1>2. SameRows
    <2>1. CASE GiveGrace(t)
      <3>1. req[t].tok \in Tokens
        BY <1>1, <2>1 DEF GiveGrace, RequestOK
      <3>2. QED
        BY <1>1, <2>1, <3>1, RevokeKeeps DEF GiveGrace, Revocations
    <2>2. CASE RevokeNow(t)
      <3>1. req[t].tok \in Tokens
        BY <1>1, <2>2 DEF RevokeNow, RequestOK
      <3>2. QED
        BY <1>1, <2>2, <3>1, RevokeKeeps DEF RevokeNow, Revocations
    <2>3. CASE RevokeAll(t)
      BY <1>1, <2>3 DEF RevokeAll, SameRows, TypeOK, TokenRow, Revocations
    <2>4. QED
      BY <2>1, <2>2, <2>3
  <1>3. UNCHANGED <<tenants, boot>> /\ Exists(AdminToken)' = Exists(AdminToken)
    BY <1>2, TokensAssumption DEF GiveGrace, RevokeNow, RevokeAll, SameRows, Exists
  <1>4. /\ ParentsExist' /\ ScopesInherited'
        /\ \A r \in Request : RequestOK(r, token) => RequestOK(r, token')
    BY <1>2, LineageKept
  <1>5. req' \in [Requests -> Request] /\ \A u \in Requests : RequestOK(req'[u], token)
    <2>1. CASE Finish(t)
      BY <2>1, RecordsMove
    <2>2. CASE req[t].pc = "revokeAll" /\ Go(t, "drop")
      <3>1. /\ req' \in [Requests -> Request]
            /\ \A u \in Requests \ {t} : RequestOK(req'[u], token)
            /\ req'[t] = [req[t] EXCEPT !.pc = "drop"]
        BY <2>2, RecordsMove
      <3>2. RequestOK(req'[t], token)
        BY <1>1, <2>2, <3>1 DEF RequestOK, Request, AdminOps
      <3>3. QED
        BY <3>1, <3>2
    <2>3. QED
      BY <2>1, <2>2 DEF GiveGrace, RevokeNow, RevokeAll
  <1>6. \A u \in Requests : RequestOK(req'[u], token')
    BY <1>4, <1>5
  <1>7. QED
    BY <1>2, <1>3, <1>4, <1>5, <1>6, RowsWritten DEF SameRows

\* The end of a grace period.
LEMMA ExpireKeeps ==
  ASSUME Inv, NEW k \in Tokens, Expire(k)
  PROVE  Inv'
  <1>1. SameRows
    BY DEF Expire, SameRows, Inv, TypeOK, TokenRow, Revocations
  <1>2. /\ ParentsExist' /\ ScopesInherited'
        /\ \A r \in Request : RequestOK(r, token) => RequestOK(r, token')
    BY <1>1, LineageKept
  <1>3. req' = req /\ req \in [Requests -> Request] /\ \A u \in Requests : RequestOK(req[u], token)
    BY DEF Expire, Inv, TypeOK, RequestsOK
  <1>4. \A u \in Requests : RequestOK(req'[u], token')
    BY <1>2, <1>3
  <1>5. UNCHANGED <<tenants, boot>> /\ Exists(AdminToken)' = Exists(AdminToken)
    BY <1>1, TokensAssumption DEF Expire, SameRows, Exists
  <1>6. QED
    BY <1>1, <1>2, <1>3, <1>4, <1>5, RowsWritten DEF SameRows

\* The bootstrap, and a crash.
LEMMA BootKeeps ==
  ASSUME Inv, BootTenants \/ BootDefault \/ BootAdmin \/ BootAdminToken \/ Crash
  PROVE  Inv'
  <1>1. /\ req \in [Requests -> Request] /\ \A u \in Requests : RequestOK(req[u], token)
        /\ TypeOK /\ AdminToken \in Tokens /\ ApiToken \in Tokens /\ ApiToken # AdminToken
        /\ Default \in Tenants /\ Admin \in Tenants
    BY TokensAssumption DEF Inv, TypeOK, RequestsOK
  <1>2. CASE Crash
    <2>1. req' \in [Requests -> Request] /\ \A u \in Requests : RequestOK(req'[u], token)
      BY <1>2 DEF Crash, Idle, Request, Scopes, RequestOK, AdminOps
    <2>2. BootOK'
      BY <1>2 DEF Crash, BootOK, AdminSeeded
    <2>3. QED
      BY <1>1, <1>2, <2>1, <2>2, NoTokenWritten DEF Crash, TypeOK
  <1>3. CASE token' = token /\ (BootTenants \/ BootDefault \/ BootAdmin)
    <2>1. BootOK'
      BY <1>3 DEF BootTenants, BootDefault, BootAdmin, BootOK, AdminSeeded, Exists
    <2>2. /\ req' = req /\ tenants' \subseteq Tenants
          /\ boot' \in {"down", "default", "admin", "adminToken", "serving"}
      BY <1>1, <1>3 DEF BootTenants, BootDefault, BootAdmin, TypeOK
    <2>3. QED
      BY <1>1, <1>3, <2>1, <2>2, NoTokenWritten
  <1>4. ASSUME NEW k \in {ApiToken, AdminToken}, NEW tn \in {Default, Admin}, ~Exists(k),
               InsertToken(k, tn, "all", None), UNCHANGED <<tenants, req>>,
               boot' \in {"admin", "serving"}, boot' = "serving" => k = AdminToken
        PROVE  Inv'
    <2>1. /\ token' \in [Tokens -> TokenRow]
          /\ \A j \in Tokens \ {k} : token'[j] = token[j]
          /\ Exists(k)'
          /\ ParentsExist' /\ ScopesInherited'
          /\ \A r \in Request : RequestOK(r, token) => RequestOK(r, token')
      BY <1>1, <1>4, InsertKeeps DEF Scopes
    <2>2. TypeOK'
      BY <1>1, <1>4, <2>1 DEF TypeOK
    <2>3. RequestsOK'
      BY <1>1, <1>4, <2>1 DEF RequestsOK
    <2>4. BootOK'
      BY <1>4, <2>1 DEF BootOK, AdminSeeded
    <2>5. QED
      BY <2>1, <2>2, <2>3, <2>4 DEF Inv
  <1>5. CASE BootDefault /\ ~Exists(ApiToken)
    BY <1>4, <1>5 DEF BootDefault
  <1>6. CASE BootAdminToken
    <2>1. ~Exists(AdminToken)
      BY <1>6 DEF BootAdminToken, Inv, BootOK
    <2>2. QED
      BY <1>4, <1>6, <2>1 DEF BootAdminToken
  <1>7. QED
    BY <1>2, <1>3, <1>5, <1>6 DEF BootTenants, BootDefault, BootAdmin

-----------------------------------------------------------------------------
(* The theorems *)

\* Every step keeps the invariant.
LEMMA InvKept == Inv /\ [Next]_vars => Inv'
  <1>1. SUFFICES ASSUME Inv, [Next]_vars
                 PROVE  Inv'
    OBVIOUS
  <1>2. ASSUME NEW t \in Requests, NEW k \in Tokens, Rotate(t, k)
        PROVE  Inv'
    BY <1>1, <1>2, RotateKeeps
  <1>3. ASSUME NEW t \in Requests, InsertNew(t)
        PROVE  Inv'
    BY <1>1, <1>3, InsertNewKeeps
  <1>4. ASSUME NEW t \in Requests, GiveGrace(t) \/ RevokeNow(t) \/ RevokeAll(t)
        PROVE  Inv'
    BY <1>1, <1>4, RevocationsKeep
  <1>5. ASSUME NEW t \in Requests, Ask(t)
        PROVE  Inv'
    BY <1>1, <1>5, AskKeeps
  <1>6. ASSUME NEW t \in Requests, Get(t) \/ CreateTenant(t) \/ DropTenant(t)
        PROVE  Inv'
    BY <1>1, <1>6, TenantStepsKeep
  <1>7. ASSUME NEW k \in Tokens, Expire(k)
        PROVE  Inv'
    BY <1>1, <1>7, ExpireKeeps
  <1>8. CASE BootTenants \/ BootDefault \/ BootAdmin \/ BootAdminToken \/ Crash
    BY <1>1, <1>8, BootKeeps
  <1>9. CASE UNCHANGED vars
    BY <1>1, <1>9 DEF vars, Inv, TypeOK, RequestsOK, RequestOK, ParentsExist,
                      ScopesInherited, BootOK, AdminSeeded, Exists
  <1>10. QED
    BY <1>1, <1>2, <1>3, <1>4, <1>5, <1>6, <1>7, <1>8, <1>9 DEF Next

\* The invariant holds from the start.
LEMMA InvAlways == Spec => []Inv
  <1>1. Init => Inv
    BY TokensAssumption DEF Init, Inv, TypeOK, NoRow, TokenRow, Revocations, Scopes, Idle,
       Request, AdminOps, RequestsOK, RequestOK, ParentsExist, ScopesInherited, BootOK, AdminSeeded
  <1>2. QED
    BY <1>1, InvKept, PTL DEF Spec

\* A chain of rotations, however they overlap with each other, revocations,
\* deletions and restarts, never widens a token or moves it to another tenant.
THEOREM RotationKeepsScopes == Spec => [](TypeOK /\ ScopesInherited)
  <1>1. Inv => TypeOK /\ ScopesInherited
    BY DEF Inv
  <1>2. QED
    BY <1>1, InvAlways, PTL

\* Wherever a start is cut off between the admin's tenant and the admin's token,
\* requests are served only once the token is there.
THEOREM AdminIsSeeded == Spec => []AdminSeeded
  <1>1. Inv => AdminSeeded
    BY DEF Inv, BootOK
  <1>2. QED
    BY <1>1, InvAlways, PTL

\* A token that is over.
Over(k) == Exists(k) /\ ~Live(k) /\ ~Rotating(k)

\* A step rotates a token only if it is live.
LEMMA OnlyLiveRotate ==
  ASSUME Inv, NEW k \in Tokens, Over(k), [Next]_vars
  PROVE  ~Rotating(k)'
  <1>1. req \in [Requests -> Request] /\ \A u \in Requests : ~(req[u].op = "rotate" /\ req[u].tok = k)
    BY DEF Inv, TypeOK, Over, Rotating
  <1>2. ASSUME NEW t \in Requests, NEW r, req' = [req EXCEPT ![t] = r],
               ~(r.op = "rotate" /\ r.tok = k)
        PROVE  ~Rotating(k)'
    <2>1. req'[t] = r /\ \A u \in Requests \ {t} : req'[u] = req[u]
      BY <1>1, <1>2
    <2>2. \A u \in Requests : ~(req'[u].op = "rotate" /\ req'[u].tok = k)
      BY <1>1, <1>2, <2>1
    <2>3. QED
      BY <2>2 DEF Rotating
  <1>3. ASSUME NEW t \in Requests, Finish(t)
        PROVE  ~Rotating(k)'
    BY <1>2, <1>3 DEF Finish, Idle
  <1>4. ASSUME NEW t \in Requests, NEW pc, Go(t, pc)
        PROVE  ~Rotating(k)'
    <2>1. req' = [req EXCEPT ![t] = [req[t] EXCEPT !.pc = pc]]
      BY <1>4 DEF Go
    <2>2. req[t] \in Request
      BY <1>1
    <2>3. [req[t] EXCEPT !.pc = pc].op = req[t].op /\ [req[t] EXCEPT !.pc = pc].tok = req[t].tok
      BY <2>2 DEF Request
    <2>4. QED
      BY <1>1, <1>2, <2>1, <2>3
  <1>5. ASSUME NEW t \in Requests, NEW j \in Tokens, Rotate(t, j)
        PROVE  ~Rotating(k)'
    <2>1. j # k
      BY <1>5 DEF Rotate, Over
    <2>2. QED
      BY <1>2, <1>5, <2>1 DEF Rotate, Arrive
  <1>6. ASSUME NEW t \in Requests, NEW op \in AdminOps, NEW tn, NEW j, NEW scopes,
               AdminRequest(t, op, tn, j, scopes)
        PROVE  ~Rotating(k)'
    BY <1>2, <1>6 DEF AdminRequest, Arrive, AdminOps
  <1>7. ASSUME NEW t \in Requests, Ask(t)
        PROVE  ~Rotating(k)'
    BY <1>6, <1>7 DEF Ask, AdminOps
  <1>8. ASSUME NEW t \in Requests,
               \/ InsertNew(t) \/ GiveGrace(t) \/ Get(t)
               \/ CreateTenant(t) \/ RevokeNow(t) \/ RevokeAll(t) \/ DropTenant(t)
        PROVE  ~Rotating(k)'
    BY <1>3, <1>4, <1>8 DEF InsertNew, GiveGrace, Get, CreateTenant, RevokeNow, RevokeAll, DropTenant
  <1>9. CASE Crash
    BY <1>9 DEF Crash, Rotating, Idle
  <1>10. CASE UNCHANGED req
    BY <1>1, <1>10 DEF Rotating
  <1>11. QED
    BY <1>5, <1>7, <1>8, <1>9, <1>10
       DEF Next, Expire, BootTenants, BootDefault, BootAdmin, BootAdminToken, vars

\* No step makes a token live that is over.
LEMMA OverStaysRevoked ==
  ASSUME Inv, NEW k \in Tokens, Over(k), [Next]_vars
  PROVE  ~Live(k)'
  <1>1. token \in [Tokens -> TokenRow] /\ token[k].revoked = "past" /\ Exists(k)
    BY DEF Inv, TypeOK, Over, Live
  <1>2. ASSUME NEW j \in Tokens, ~Exists(j), NEW tn, NEW scopes, NEW from,
               InsertToken(j, tn, scopes, from)
        PROVE  ~Live(k)'
    BY <1>1, <1>2 DEF InsertToken, Live
  <1>3. ASSUME NEW t \in Requests, InsertNew(t)
        PROVE  ~Live(k)'
    BY <1>2, <1>3 DEF InsertNew
  <1>4. ASSUME NEW t \in Requests, GiveGrace(t)
        PROVE  ~Live(k)'
    <2>1. req[t].tok # k
      BY <1>4 DEF GiveGrace, Inv, RequestsOK, RequestOK, Over, Rotating
    <2>2. QED
      BY <1>1, <1>4, <2>1 DEF GiveGrace, Revoke, Live
  <1>5. ASSUME NEW t \in Requests, RevokeNow(t) \/ RevokeAll(t)
        PROVE  ~Live(k)'
    BY <1>1, <1>5 DEF RevokeNow, RevokeAll, Revoke, Live, TokenRow
  <1>6. ASSUME NEW j \in Tokens, Expire(j)
        PROVE  ~Live(k)'
    BY <1>1, <1>6 DEF Expire, Live
  <1>7. CASE BootDefault \/ BootAdminToken
    <2>1. BootAdminToken => ~Exists(AdminToken)
      BY DEF BootAdminToken, Inv, BootOK
    <2>2. CASE UNCHANGED token
      BY <1>1, <2>2 DEF Live
    <2>3. QED
      BY <1>2, <1>7, <2>1, <2>2, TokensAssumption DEF BootDefault, BootAdminToken
  <1>8. CASE UNCHANGED token
    BY <1>1, <1>8 DEF Live
  <1>9. QED
    BY <1>3, <1>4, <1>5, <1>6, <1>7, <1>8
       DEF Next, Rotate, Ask, AdminRequest, Get, CreateTenant, DropTenant, BootTenants, BootAdmin,
           Crash, vars

\* Nothing brings a token back that is over, unless a rotation of it was already
\* under way: no later rotation, no deletion, no bootstrap after a restart.
THEOREM RevocationsAreFinal == Spec => RevocationIsFinal
  <1>1. Inv /\ [Next]_vars =>
          [\A k \in Tokens :
             Exists(k) /\ ~Live(k) /\ ~Rotating(k) => ~Live(k)' /\ ~Rotating(k)']_vars
    BY OnlyLiveRotate, OverStaysRevoked DEF Over
  <1>2. QED
    BY <1>1, InvAlways, PTL DEF Spec, RevocationIsFinal

\* The rows of tokens and the requests keep the registry's shape: a token has a
\* tenant's name also when the tenant is deleted under the request that makes it.
THEOREM TypeCorrect == Spec => []TypeOK
  <1>1. Inv => TypeOK
    BY DEF Inv
  <1>2. QED
    BY <1>1, InvAlways, PTL

-----------------------------------------------------------------------------
(* Deleted tenants *)

\* While the bootstrap runs nobody is served, so the tenant it has just inserted
\* is not deleted before its token is written.
StartInv ==
  /\ boot # "serving" => \A t \in Requests : req[t] = Idle
  /\ boot = "default" => Default \in tenants
  /\ boot = "adminToken" => Admin \in tenants

\* Every step keeps that.
LEMMA StartKept ==
  ASSUME TypeOK, StartInv, [Next]_vars
  PROVE  StartInv'
  <1>1. ASSUME NEW t \in Requests,
               \/ \E k \in Tokens : Rotate(t, k)
               \/ InsertNew(t) \/ GiveGrace(t) \/ Ask(t) \/ Get(t)
               \/ CreateTenant(t) \/ RevokeNow(t) \/ RevokeAll(t) \/ DropTenant(t)
        PROVE  StartInv'
    <2>1. boot' = boot
      BY <1>1 DEF Rotate, InsertNew, GiveGrace, Ask, AdminRequest, Get, CreateTenant, RevokeNow,
                  RevokeAll, DropTenant
    <2>2. boot = "serving"
      BY <1>1 DEF StartInv, Idle, Rotate, InsertNew, GiveGrace, Ask, AdminRequest, Arrive, Get,
                  CreateTenant, RevokeNow, RevokeAll, DropTenant
    <2>3. QED
      BY <2>1, <2>2 DEF StartInv
  <1>2. ASSUME NEW k \in Tokens, Expire(k)
        PROVE  StartInv'
    BY <1>2 DEF Expire, StartInv
  <1>3. CASE BootTenants \/ BootDefault
    BY <1>3 DEF BootTenants, BootDefault, StartInv
  <1>4. CASE BootAdmin \/ BootAdminToken
    BY <1>4 DEF BootAdmin, BootAdminToken, StartInv
  <1>5. CASE Crash
    BY <1>5 DEF Crash, StartInv
  <1>6. CASE UNCHANGED vars
    BY <1>6 DEF vars, StartInv
  <1>7. QED
    BY <1>1, <1>2, <1>3, <1>4, <1>5, <1>6 DEF Next

\* The bootstrap inserts a token only for a tenant that is there.
LEMMA StartAlways == Spec => []StartInv
  <1>1. Init => StartInv
    BY DEF Init, StartInv
  <1>2. QED
    BY <1>1, StartKept, TypeCorrect, PTL DEF Spec

\* No step gives a closed tenant without a row a live token.
LEMMA NoTokenForDeleted ==
  ASSUME Inv, StartInv, [Next]_vars, NEW tn \in Tenants, tn \notin tenants, Closed(tn),
         NEW k \in Tokens, token'[k].tenant = tn
  PROVE  ~Live(k)'
  <1>1. token \in [Tokens -> TokenRow] /\ req \in [Requests -> Request]
    BY DEF Inv, TypeOK
  <1>2. token[k].tenant = tn => ~Live(k)
    BY DEF Closed, LiveOf
  <1>3. ASSUME NEW t \in Requests, InsertNew(t)
        PROVE  ~Live(k)'
    <2>1. req[t].tenant # tn
      BY <1>3 DEF Closed, InsertNew
    <2>2. PICK j \in Tokens : InsertToken(j, req[t].tenant, req[t].scopes, req[t].tok)
      BY <1>3 DEF InsertNew
    <2>3. CASE k = j
      BY <1>1, <2>1, <2>2, <2>3 DEF InsertToken
    <2>4. CASE k # j
      BY <1>1, <1>2, <2>2, <2>4 DEF InsertToken, Live, Exists
    <2>5. QED
      BY <2>3, <2>4
  <1>4. ASSUME NEW t \in Requests, GiveGrace(t)
        PROVE  ~Live(k)'
    <2>1. req[t].tenant # tn
      BY <1>4 DEF Closed, GiveGrace
    <2>2. req[t].tok \in Tokens /\ token[req[t].tok].tenant = req[t].tenant
      BY <1>4 DEF GiveGrace, Inv, RequestsOK, RequestOK
    <2>3. k # req[t].tok
      BY <1>1, <1>4, <2>1, <2>2 DEF GiveGrace, Revoke, TokenRow
    <2>4. QED
      BY <1>1, <1>2, <1>4, <2>3 DEF GiveGrace, Revoke, Live, Exists
  <1>5. ASSUME NEW t \in Requests, RevokeNow(t) \/ RevokeAll(t)
        PROVE  ~Live(k)'
    BY <1>1, <1>2, <1>5 DEF RevokeNow, RevokeAll, Revoke, Live, Exists, TokenRow
  <1>6. ASSUME NEW j \in Tokens, Expire(j)
        PROVE  ~Live(k)'
    BY <1>1, <1>2, <1>6 DEF Expire, Live, Exists, TokenRow
  <1>7. CASE BootDefault
    <2>1. CASE UNCHANGED token
      BY <1>2, <2>1 DEF Live, Exists
    <2>2. CASE InsertToken(ApiToken, Default, "all", None)
      <3>1. tn # Default
        BY <1>7 DEF BootDefault, StartInv
      <3>2. k # ApiToken
        BY <1>1, <2>2, <3>1 DEF InsertToken
      <3>3. QED
        BY <1>1, <1>2, <2>2, <3>2 DEF InsertToken, Live, Exists
    <2>3. QED
      BY <1>7, <2>1, <2>2 DEF BootDefault
  <1>8. CASE BootAdminToken
    <2>1. tn # Admin
      BY <1>8 DEF BootAdminToken, StartInv
    <2>2. k # AdminToken
      BY <1>1, <1>8, <2>1 DEF BootAdminToken, InsertToken
    <2>3. QED
      BY <1>1, <1>2, <1>8, <2>2 DEF BootAdminToken, InsertToken, Live, Exists
  <1>9. CASE UNCHANGED token
    BY <1>2, <1>9 DEF Live, Exists
  <1>10. QED
    BY <1>3, <1>4, <1>5, <1>6, <1>7, <1>8, <1>9
       DEF Next, Rotate, Ask, AdminRequest, Get, CreateTenant, DropTenant, BootTenants, BootAdmin,
           Crash, vars

\* No step starts a write of a token for a closed tenant without a row: the
\* tenant has no token to rotate, and issue looks for its row.
LEMMA NoWriterForDeleted ==
  ASSUME Inv, [Next]_vars, NEW tn \in Tenants, tn \notin tenants, Closed(tn),
         NEW t \in Requests, req'[t].tenant = tn
  PROVE  req'[t].pc \notin {"insert", "grace"}
  <1>1. req \in [Requests -> Request]
    BY DEF Inv, TypeOK
  <1>2. req'[t] = req[t] => req'[t].pc \notin {"insert", "grace"}
    BY DEF Closed
  <1>3. ASSUME NEW s \in Requests, NEW k \in Tokens, Rotate(s, k)
        PROVE  req'[t].pc \notin {"insert", "grace"}
    <2>1. token[k].tenant # tn
      BY <1>3 DEF Rotate, Closed, LiveOf
    <2>2. QED
      BY <1>1, <1>2, <1>3, <2>1 DEF Rotate, Arrive
  <1>4. ASSUME NEW s \in Requests, InsertNew(s)
        PROVE  req'[t].pc \notin {"insert", "grace"}
    <2>1. req[s].tenant # tn
      BY <1>4 DEF Closed, InsertNew
    <2>2. QED
      BY <1>1, <1>2, <1>4, <2>1 DEF InsertNew, Go, Finish, Idle, Request
  <1>5. ASSUME NEW s \in Requests, Get(s)
        PROVE  req'[t].pc \notin {"insert", "grace"}
    BY <1>1, <1>2, <1>5 DEF Get, Go, Finish, Idle, Request
  <1>6. ASSUME NEW s \in Requests, Ask(s)
        PROVE  req'[t].pc \notin {"insert", "grace"}
    BY <1>1, <1>2, <1>6 DEF Ask, AdminRequest, Arrive
  <1>7. ASSUME NEW s \in Requests,
               GiveGrace(s) \/ CreateTenant(s) \/ RevokeNow(s) \/ RevokeAll(s) \/ DropTenant(s)
        PROVE  req'[t].pc \notin {"insert", "grace"}
    BY <1>1, <1>2, <1>7 DEF GiveGrace, CreateTenant, RevokeNow, RevokeAll, DropTenant, Go, Finish,
                            Idle, Request
  <1>8. CASE Crash
    BY <1>8 DEF Crash, Idle
  <1>9. CASE UNCHANGED req
    BY <1>2, <1>9
  <1>10. QED
    BY <1>3, <1>4, <1>5, <1>6, <1>7, <1>8, <1>9
       DEF Next, Expire, BootTenants, BootDefault, BootAdmin, BootAdminToken, vars

\* A deleted tenant without a live token, and without a request that will write
\* one, stays so through rotations, admin routes, crashes and bootstraps: only
\* its creation opens it again.
THEOREM DeletedTenantsStayClosed == Spec => DeletedStaysClosed
  <1>1. ASSUME Inv, StartInv, [Next]_vars, NEW tn \in Tenants, tn \notin tenants, Closed(tn)
        PROVE  Closed(tn)'
    <2>1. \A k \in Tokens : token'[k].tenant = tn => ~Live(k)'
      BY <1>1, NoTokenForDeleted
    <2>2. \A t \in Requests : req'[t].tenant = tn => req'[t].pc \notin {"insert", "grace"}
      BY <1>1, NoWriterForDeleted
    <2>3. QED
      BY <2>1, <2>2 DEF Closed, LiveOf
  <1>2. Inv /\ StartInv /\ [Next]_vars =>
          [\A tn \in Tenants : tn \notin tenants /\ Closed(tn) => Closed(tn)']_vars
    BY <1>1
  <1>3. QED
    BY <1>2, InvAlways, StartAlways, PTL DEF Spec, DeletedStaysClosed

=============================================================================
