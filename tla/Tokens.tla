------------------------------- MODULE Tokens --------------------------------
(***************************************************************************)
(* Tenants and their bearer tokens: authentication, rotation with a grace  *)
(* period, the admin's routes and the bootstrap from the environment.      *)
(*                                                                         *)
(* An action is what a request does from one await to the next.  The rows  *)
(* of tokens are never deleted.  revoked_at is kept as what the clock says *)
(* of it.  A row stands for its bearer: hashes are unique.                 *)
(***************************************************************************)
EXTENDS FiniteSets, Naturals

CONSTANTS
  Tenants,     \* names of tenants
  Default,     \* the tenant "default"
  Admin,       \* the tenant "__admin__"
  Tokens,      \* ids of token rows
  ApiToken,    \* the row of the bearer SANDBOX_API_TOKEN
  AdminToken,  \* the row of the bearer SANDBOX_ADMIN_TOKEN
  Requests,    \* requests in flight at once
  None         \* no tenant, no token

ASSUME TokensAssumption ==
  /\ {Default, Admin} \subseteq Tenants /\ Default # Admin
  /\ {ApiToken, AdminToken} \subseteq Tokens /\ ApiToken # AdminToken
  /\ None \notin Tenants \cup Tokens

VARIABLES
  tenants,  \* registry: the names that have a row
  token,    \* registry: the row of each token
  req,      \* what each request is doing
  boot      \* startup: "down", three steps of the bootstrap, "serving"

vars == <<tenants, token, req, boot>>

Scopes == {"all", "some"}   \* NULL, or an explicit list

Revocations == {"no", "grace", "past"}   \* revoked_at: NULL, in the future, over

NoRow == [tenant |-> None, revoked |-> "no", scopes |-> "all", from |-> None]

TokenRow == [tenant  : Tenants \cup {None},
             revoked : Revocations,
             scopes  : Scopes,
             from    : Tokens \cup {None}]   \* the token it replaced (history)

Idle == [op |-> "none", pc |-> "idle", tenant |-> None, tok |-> None, scopes |-> "all"]

AdminOps == {"create", "delete", "issue", "revoke"}

Request == [op     : {"none", "rotate"} \cup AdminOps,
            pc     : {"idle", "get", "insert", "grace", "revoke", "revokeAll", "drop", "create"},
            tenant : Tenants \cup {None},
            tok    : Tokens \cup {None},   \* the token to rotate or to revoke
            scopes : Scopes]

Go(t, pc) == req' = [req EXCEPT ![t].pc = pc]

Finish(t) == req' = [req EXCEPT ![t] = Idle]

Exists(k) == token[k].tenant # None

-----------------------------------------------------------------------------
(* Authentication *)

\* The tenant's row is not looked at.
Live(k) == Exists(k) /\ token[k].revoked # "past"

LiveOf(tn) == {k \in Tokens : Live(k) /\ token[k].tenant = tn}

Arrive(t, r) == boot = "serving" /\ req[t].pc = "idle" /\ req' = [req EXCEPT ![t] = r]

\* The grace period of a token ends.
Expire(k) ==
  /\ token[k].revoked = "grace"
  /\ token' = [token EXCEPT ![k].revoked = "past"]
  /\ UNCHANGED <<tenants, req, boot>>

-----------------------------------------------------------------------------
(* Rows of tokens *)

\* Mutant of InsertToken: a token of a tenant without a row has no tenant.
InsertOrphan(k, tn, scopes, from) ==
  token' = [token EXCEPT ![k] =
    [tenant |-> IF tn \in tenants THEN tn ELSE "NULL", revoked |-> "no",
     scopes |-> scopes, from |-> from]]

\* insert_token: SQLite does not enforce the reference to the tenant.
InsertToken(k, tn, scopes, from) ==
  token' = [token EXCEPT ![k] =
    [tenant |-> tn, revoked |-> "no", scopes |-> scopes, from |-> from]]

\* revoke_token overwrites whatever revoked_at is.
Revoke(k, when) == token' = [token EXCEPT ![k].revoked = when]

-----------------------------------------------------------------------------
(* rotate *)

\* Mutants of Rotate: any token that has a row may rotate; the replacement has
\* all scopes.
RotateAny(t, k) ==
  /\ Exists(k)
  /\ Arrive(t, [op |-> "rotate", pc |-> "insert", tenant |-> token[k].tenant, tok |-> k,
                scopes |-> token[k].scopes])
  /\ UNCHANGED <<tenants, token, boot>>

RotateToAll(t, k) ==
  /\ Live(k)
  /\ Arrive(t, [op |-> "rotate", pc |-> "insert", tenant |-> token[k].tenant, tok |-> k,
                scopes |-> "all"])
  /\ UNCHANGED <<tenants, token, boot>>

\* The token authenticates and its scopes are read.
Rotate(t, k) ==
  /\ Live(k)
  /\ Arrive(t, [op |-> "rotate", pc |-> "insert", tenant |-> token[k].tenant, tok |-> k,
                scopes |-> token[k].scopes])
  /\ UNCHANGED <<tenants, token, boot>>

\* The new row of a rotate or an issue.
InsertNew(t) ==
  /\ req[t].pc = "insert"
  /\ \E k \in Tokens \ {ApiToken, AdminToken} :
       ~Exists(k) /\ InsertToken(k, req[t].tenant, req[t].scopes, req[t].tok)
  /\ IF req[t].op = "rotate" THEN Go(t, "grace") ELSE Finish(t)
  /\ UNCHANGED <<tenants, boot>>

\* The old token is good for the grace period.
GiveGrace(t) ==
  /\ req[t].pc = "grace"
  /\ Revoke(req[t].tok, "grace")
  /\ Finish(t)
  /\ UNCHANGED <<tenants, boot>>

-----------------------------------------------------------------------------
(* The admin's routes *)

\* require_admin: a live token of the admin's tenant.
AdminRequest(t, op, tn, k, scopes) ==
  /\ LiveOf(Admin) # {}
  /\ Arrive(t, [op |-> op, pc |-> "get", tenant |-> tn, tok |-> k, scopes |-> scopes])
  /\ UNCHANGED <<tenants, token, boot>>

\* What the admin names.
Ask(t) ==
  \/ \E op \in {"create", "delete"}, tn \in Tenants : AdminRequest(t, op, tn, None, "all")
  \/ \E tn \in Tenants, scopes \in Scopes : AdminRequest(t, "issue", tn, None, scopes)
  \/ \E k \in Tokens : Exists(k) /\ AdminRequest(t, "revoke", token[k].tenant, k, "all")

\* Mutant of Get: issue does not ask for the tenant.
GetUnchecked(t) ==
  /\ req[t].pc = "get"
  /\ \/ req[t].op = "create" /\ req[t].tenant \notin tenants /\ Go(t, "create")
     \/ req[t].op = "delete" /\ req[t].tenant \in tenants /\ Go(t, "revokeAll")
     \/ req[t].op = "issue" /\ Go(t, "insert")
     \/ req[t].op = "revoke" /\ Go(t, "revoke")
     \/ req[t].op = "create" /\ req[t].tenant \in tenants /\ Finish(t)
     \/ req[t].op = "delete" /\ req[t].tenant \notin tenants /\ Finish(t)
  /\ UNCHANGED <<tenants, token, boot>>

\* The row that the request names: a tenant, which must be there (for create,
\* must not), or a token.
Get(t) ==
  /\ req[t].pc = "get"
  /\ \/ req[t].op = "create" /\ req[t].tenant \notin tenants /\ Go(t, "create")
     \/ req[t].op = "delete" /\ req[t].tenant \in tenants /\ Go(t, "revokeAll")
     \/ req[t].op = "issue" /\ req[t].tenant \in tenants /\ Go(t, "insert")
     \/ req[t].op = "revoke" /\ Go(t, "revoke")
     \/ req[t].op = "create" /\ req[t].tenant \in tenants /\ Finish(t)
     \/ req[t].op \in {"delete", "issue"} /\ req[t].tenant \notin tenants /\ Finish(t)
  /\ UNCHANGED <<tenants, token, boot>>

\* INSERT OR IGNORE.
CreateTenant(t) ==
  /\ req[t].pc = "create"
  /\ tenants' = tenants \cup {req[t].tenant}
  /\ Finish(t)
  /\ UNCHANGED <<token, boot>>

RevokeNow(t) ==
  /\ req[t].pc = "revoke"
  /\ Revoke(req[t].tok, "past")
  /\ Finish(t)
  /\ UNCHANGED <<tenants, boot>>

RevokeAll(t) ==
  /\ req[t].pc = "revokeAll"
  /\ token' = [k \in Tokens |->
                 [token[k] EXCEPT !.revoked = IF k \in LiveOf(req[t].tenant) THEN "past" ELSE @]]
  /\ Go(t, "drop")
  /\ UNCHANGED <<tenants, boot>>

\* The tenant's sessions have been destroyed in between (SessionLifecycle).
DropTenant(t) ==
  /\ req[t].pc = "drop"
  /\ tenants' = tenants \ {req[t].tenant}
  /\ Finish(t)
  /\ UNCHANGED <<token, boot>>

-----------------------------------------------------------------------------
(* Startup *)

\* A tenant that is there, whatever its tokens, ends the bootstrap of the default.
\* SANDBOX_API_TOKEN is set: the control plane refuses to start without it.
BootTenants ==
  /\ boot = "down"
  /\ \/ tenants = {} /\ tenants' = {Default} /\ boot' = "default"
     \/ tenants # {} /\ boot' = "admin" /\ UNCHANGED tenants
  /\ UNCHANGED <<token, req>>

\* A bearer that has a row is refused by UNIQUE and the start fails.
BootDefault ==
  /\ boot = "default"
  /\ \/ ~Exists(ApiToken) /\ InsertToken(ApiToken, Default, "all", None) /\ boot' = "admin"
     \/ Exists(ApiToken) /\ boot' = "down" /\ UNCHANGED token
  /\ UNCHANGED <<tenants, req>>

\* Mutant of BootAdmin: it asks for the tenant in place of the token.
BootAdminByTenant ==
  /\ boot = "admin"
  /\ \/ Admin \notin tenants /\ tenants' = tenants \cup {Admin} /\ boot' = "adminToken"
     \/ Admin \in tenants /\ boot' = "serving" /\ UNCHANGED tenants
  /\ UNCHANGED <<token, req>>

BootAdmin ==
  /\ boot = "admin"
  /\ \/ ~Exists(AdminToken) /\ tenants' = tenants \cup {Admin} /\ boot' = "adminToken"
     \/ Exists(AdminToken) /\ boot' = "serving" /\ UNCHANGED tenants
  /\ UNCHANGED <<token, req>>

BootAdminToken ==
  /\ boot = "adminToken"
  /\ InsertToken(AdminToken, Admin, "all", None)
  /\ boot' = "serving"
  /\ UNCHANGED <<tenants, req>>

Crash ==
  /\ boot' = "down"
  /\ req' = [t \in Requests |-> Idle]
  /\ UNCHANGED <<tenants, token>>

-----------------------------------------------------------------------------

Init ==
  /\ tenants = {}
  /\ token = [k \in Tokens |-> NoRow]
  /\ req = [t \in Requests |-> Idle]
  /\ boot = "down"

Next ==
  \/ \E t \in Requests :
       \/ \E k \in Tokens : Rotate(t, k)
       \/ InsertNew(t) \/ GiveGrace(t)
       \/ Ask(t) \/ Get(t)
       \/ CreateTenant(t) \/ RevokeNow(t) \/ RevokeAll(t) \/ DropTenant(t)
  \/ \E k \in Tokens : Expire(k)
  \/ BootTenants \/ BootDefault \/ BootAdmin \/ BootAdminToken \/ Crash

Spec == Init /\ [][Next]_vars

-----------------------------------------------------------------------------
(* Properties *)

\* Every row and every request is of the registry's shape: a token always has a
\* tenant's name, also when the tenant is deleted under the request that makes it.
TypeOK ==
  /\ tenants \subseteq Tenants
  /\ token \in [Tokens -> TokenRow]
  /\ req \in [Requests -> Request]
  /\ boot \in {"down", "default", "admin", "adminToken", "serving"}

Rotating(k) == \E t \in Requests : req[t].op = "rotate" /\ req[t].tok = k

\* A token that is over, by its grace period, the admin or the deletion of its
\* tenant, never authenticates again: no rotation, bootstrap or restart brings
\* it back.  The exception is a rotation of it that is already under way: its
\* UPDATE gives the revoked token a grace period.
RevocationIsFinal ==
  [][\A k \in Tokens :
       Exists(k) /\ ~Live(k) /\ ~Rotating(k) => ~Live(k)' /\ ~Rotating(k)']_vars

\* A chain of rotations never changes what a token may do or for whom.
ScopesInherited ==
  \A k \in Tokens :
    token[k].from # None =>
      /\ token[k].scopes = token[token[k].from].scopes
      /\ token[k].tenant = token[token[k].from].tenant

Closed(tn) ==
  /\ LiveOf(tn) = {}
  /\ \A t \in Requests : req[t].tenant = tn => req[t].pc \notin {"insert", "grace"}

\* Once no request of a deleted tenant is left that will write a token, nothing
\* gives access to the tenant, restarts included, until it is created again.
DeletedStaysClosed ==
  [][\A tn \in Tenants : tn \notin tenants /\ Closed(tn) => Closed(tn)']_vars

\* When requests are served the admin's bearer has been seeded, wherever earlier
\* starts were cut off.
AdminSeeded == boot = "serving" => Exists(AdminToken)

=============================================================================
