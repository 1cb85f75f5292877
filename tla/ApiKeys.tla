------------------------------- MODULE ApiKeys -------------------------------
(***************************************************************************)
(* API keys: ApiKeyService (app/services/api_keys.py), called by the       *)
(* command line (app/cli.py) to create, rotate and revoke, and by the      *)
(* HTTP dependencies (app/dependencies.py) and the MCP token verifier      *)
(* (app/mcp/server.py, app/mcp/tools.py) to admit requests.                *)
(*                                                                         *)
(* Every process has a session of its own.  A session writes the columns   *)
(* it has changed, not the row it has read.  A secret stands for its hash. *)
(***************************************************************************)
EXTENDS Naturals

CONSTANTS
    Key,        \* the api_keys rows that are created during a behaviour
    Secret,     \* the secrets generate_api_key can return
    Request,    \* the requests, over HTTP or MCP
    Admin,      \* the processes that rotate keys
    Tenant,
    Scope,
    Rights,     \* the tenant, scope (or None) and role that keys are created with
    Need,       \* what requests ask for: an operation on a tenant and scope, by a door
    MaxTime,    \* the last instant of a behaviour
    Interval,   \* LAST_USED_UPDATE_INTERVAL_SECONDS
    None        \* no row, no scope, no time

Role == {"read", "write", "admin"}
Door == {"http", "mcp"}
Operation == {"read", "ingest", "reindex", "delete"}   \* read: search, list, get
Time == 0..MaxTime

ASSUME RightsAssumption ==
    /\ Rights \subseteq [tenant: Tenant, scope: Scope \union {None}, role: Role]
    /\ Need \subseteq [door: Door, operation: Operation, tenant: Tenant, scope: Scope]
ASSUME TimeAssumption == MaxTime \in Nat /\ Interval \in Nat

VARIABLES
    keys,      \* the api_keys table
    issued,    \* the secrets that were handed out so far
    admin,     \* the rotation a process has begun: what it has loaded
    request,   \* where a request is and what it has read
    now

vars == <<keys, issued, admin, request, now>>

ApiKey == [secret: Secret, rights: Rights, active: BOOLEAN, revoked: BOOLEAN,
           expires: Time \union {None}, lastUsed: Time \union {None}]

ASSUME NoneAssumption ==
    /\ None \notin Key \union Secret \union Tenant \union Scope \union Nat
    /\ None \notin Rights \union Need /\ None \notin ApiKey

Idle == [key |-> None, lastUsed |-> None]
NoRequest == [place |-> "idle", secret |-> None, need |-> None, key |-> None,
              rights |-> None, seen |-> 0, late |-> FALSE]

Init ==
    /\ keys = [k \in Key |-> None]
    /\ issued = {}
    /\ admin = [a \in Admin |-> Idle]
    /\ request = [r \in Request |-> NoRequest]
    /\ now = 0

\* ROLE_RANK
Rank(role) == IF role = "read" THEN 1 ELSE IF role = "write" THEN 2 ELSE 3

RoleAllows(actual, required) == Rank(actual) >= Rank(required)

\* The role each route of app/routers/documents.py requires, and each tool.
RouteRole(operation) ==
    CASE operation = "read" -> "read"
      [] operation \in {"ingest", "reindex"} -> "write"
      [] operation = "delete" -> "admin"

ToolRole(operation) ==
    CASE operation = "read" -> "read"
      [] operation = "ingest" -> "write"
      [] operation = "reindex" -> "write"
      [] operation = "delete" -> "admin"

\* _is_usable
Usable(row) == /\ row.active /\ ~row.revoked
               /\ row.expires # None => row.expires > now

\* A request with this secret that is verified now is admitted.
Opens(secret) == \E k \in Key : keys[k] # None /\ keys[k].secret = secret /\ Usable(keys[k])

-----------------------------------------------------------------------------
(* The command line.                                                       *)

CreateKey(k) ==
    /\ keys[k] = None
    /\ \E secret \in Secret \ issued, rights \in Rights, expires \in Time \union {None} :
          /\ keys' = [keys EXCEPT ![k] =
                [secret |-> secret, rights |-> rights, active |-> TRUE, revoked |-> FALSE, expires |-> expires, lastUsed |-> None]]
          /\ issued' = issued \union {secret}
    /\ UNCHANGED <<admin, request, now>>

\* Whatever it has loaded, a revocation writes these two columns.
RevokeKey(k) ==
    /\ keys[k] # None
    /\ keys' = [keys EXCEPT ![k].active = FALSE, ![k].revoked = TRUE]
    /\ UNCHANGED <<issued, admin, request, now>>

\* rotate_key loads the row; a revoked key is refused.
RotateLoad(a, k) ==
    /\ admin[a] = Idle
    /\ keys[k] # None /\ ~keys[k].revoked
    /\ admin' = [admin EXCEPT ![a] = [key |-> k, lastUsed |-> keys[k].lastUsed]]
    /\ UNCHANGED <<keys, issued, request, now>>

\* Mutant: the rotation writes the whole row as it was loaded, not revoked.
RotateWholeRow(a) ==
    /\ admin[a] # Idle
    /\ \E secret \in Secret \ issued :
          /\ keys' = [keys EXCEPT ![admin[a].key].secret = secret,
                                  ![admin[a].key].active = TRUE,
                                  ![admin[a].key].revoked = FALSE,
                                  ![admin[a].key].lastUsed = None]
          /\ issued' = issued \union {secret}
    /\ admin' = [admin EXCEPT ![a] = Idle]
    /\ UNCHANGED <<request, now>>

\* The new secret is committed.  last_used_at is reset if it was set when the
\* row was loaded; otherwise the session sees no change and does not write it.
RotateCommit(a) ==
    /\ admin[a] # Idle
    /\ \E secret \in Secret \ issued :
          /\ keys' = [keys EXCEPT ![admin[a].key].secret = secret,
                                  ![admin[a].key].lastUsed =
                                        IF admin[a].lastUsed = None THEN @ ELSE None]
          /\ issued' = issued \union {secret}
    /\ admin' = [admin EXCEPT ![a] = Idle]
    /\ UNCHANGED <<request, now>>

-----------------------------------------------------------------------------
(* Requests.                                                               *)

\* A client presents a secret it was given, with what it needs.  (late is
\* only looked at by a property.)
Send(r) ==
    /\ request[r].place = "idle"
    /\ \E secret \in issued, need \in Need :
          request' = [request EXCEPT ![r] =
              [place |-> "sent", secret |-> secret, need |-> need, key |-> None,
               rights |-> None, seen |-> 0, late |-> ~Opens(secret)]]
    /\ UNCHANGED <<keys, issued, admin, now>>

\* _should_update_last_used
ShouldUpdateLastUsed(row) == row.lastUsed = None \/ now - row.lastUsed >= Interval

\* Mutant: the row is not checked.
VerifyKeyUnchecked(r) ==
    /\ request[r].place = "sent"
    /\ \E k \in Key :
          /\ keys[k] # None /\ keys[k].secret = request[r].secret
          /\ request' = [request EXCEPT
                ![r].place = IF ShouldUpdateLastUsed(keys[k]) THEN "touch" ELSE "verified",
                ![r].key = k,
                ![r].rights = keys[k].rights,
                ![r].seen = now]
    /\ UNCHANGED <<keys, issued, admin, now>>

\* verify_key reads the row of the secret and checks it.
VerifyKey(r) ==
    /\ request[r].place = "sent"
    /\ \E k \in Key :
          /\ keys[k] # None /\ keys[k].secret = request[r].secret /\ Usable(keys[k])
          /\ request' = [request EXCEPT
                ![r].place = IF ShouldUpdateLastUsed(keys[k]) THEN "touch" ELSE "verified",
                ![r].key = k,
                ![r].rights = keys[k].rights,
                ![r].seen = now]
    /\ UNCHANGED <<keys, issued, admin, now>>

\* No row has the secret, or the row is not usable: 401.
RefuseKey(r) ==
    /\ request[r].place = "sent"
    /\ ~Opens(request[r].secret)
    /\ request' = [request EXCEPT ![r].place = "401"]
    /\ UNCHANGED <<keys, issued, admin, now>>

\* Mutant: the time is recorded at which the next update is due.
TouchAhead(r) ==
    /\ request[r].place = "touch"
    /\ keys' = [keys EXCEPT ![request[r].key].lastUsed = request[r].seen + Interval]
    /\ request' = [request EXCEPT ![r].place = "verified"]
    /\ UNCHANGED <<issued, admin, now>>

\* Mutant: the row is written as it was read, with the secret of that time.
TouchRestoresSecret(r) ==
    /\ request[r].place = "touch"
    /\ keys' = [keys EXCEPT ![request[r].key].lastUsed = request[r].seen,
                            ![request[r].key].secret = request[r].secret]
    /\ request' = [request EXCEPT ![r].place = "verified"]
    /\ UNCHANGED <<issued, admin, now>>

\* The time of the use is committed and the row is read again, without
\* checking it again.
Touch(r) ==
    /\ request[r].place = "touch"
    /\ keys' = [keys EXCEPT ![request[r].key].lastUsed = request[r].seen]
    /\ request' = [request EXCEPT ![r].place = "verified",
                                  ![r].rights = keys[request[r].key].rights]
    /\ UNCHANGED <<issued, admin, now>>

\* Mutant: a key without a scope and a key with one are treated alike.
ContextIgnoringScope(rights, need) == rights.tenant = need.tenant

\* ensure_api_key_context; the same tests of the claims in _ensure_mcp_access.
InContext(rights, need) ==
    /\ rights.tenant = need.tenant
    /\ rights.scope \in {None, need.scope}

\* require_api_key and then the route, on the row that verify_key returned.
AuthorizeRoute(r) ==
    /\ request[r].place = "verified" /\ request[r].need.door = "http"
    /\ LET rights == request[r].rights
           need == request[r].need
       IN request' = [request EXCEPT ![r].place =
             IF ~RoleAllows(rights.role, RouteRole(need.operation)) THEN "403"
             ELSE IF ~InContext(rights, need) THEN "403"
             ELSE "granted"]
    /\ UNCHANGED <<keys, issued, admin, now>>

\* _ensure_mcp_access, on the claims that verify_token took from the row.
AuthorizeTool(r) ==
    /\ request[r].place = "verified" /\ request[r].need.door = "mcp"
    /\ LET rights == request[r].rights
           need == request[r].need
       IN request' = [request EXCEPT ![r].place =
             IF InContext(rights, need) /\ RoleAllows(rights.role, ToolRole(need.operation))
             THEN "granted" ELSE "toolError"]
    /\ UNCHANGED <<keys, issued, admin, now>>

Tick == now < MaxTime /\ now' = now + 1 /\ UNCHANGED <<keys, issued, admin, request>>

Next ==
    \/ Tick
    \/ \E k \in Key : CreateKey(k) \/ RevokeKey(k)
    \/ \E a \in Admin : RotateCommit(a) \/ \E k \in Key : RotateLoad(a, k)
    \/ \E r \in Request : Send(r) \/ VerifyKey(r) \/ RefuseKey(r) \/ Touch(r)
                            \/ AuthorizeRoute(r) \/ AuthorizeTool(r)

Spec == Init /\ [][Next]_vars

-----------------------------------------------------------------------------
(* Properties.                                                             *)

\* Every variable has its type.
TypeOK ==
    /\ keys \in [Key -> ApiKey \union {None}]
    /\ issued \subseteq Secret
    /\ admin \in [Admin -> [key: Key \union {None}, lastUsed: Time \union {None}]]
    /\ request \in [Request ->
          [place: {"idle", "sent", "touch", "verified", "granted", "401", "403", "toolError"},
           secret: Secret \union {None}, need: Need \union {None}, key: Key \union {None},
           rights: Rights \union {None}, seen: Time, late: BOOLEAN]]
    /\ now \in Time

\* A key that was revoked stays revoked, also when a rotation or a request
\* that had read it before commits afterwards.
RevocationIsPermanent ==
    [][\A k \in Key : keys[k] # None /\ keys[k].revoked => keys'[k].revoked]_vars

\* A secret that has been rotated away, or whose key was revoked or expired,
\* never opens a key again, whatever is still in flight.
DeadSecretsStayDead ==
    [][\A secret \in issued : ~Opens(secret) => ~Opens(secret)']_vars

\* A request that was sent when its secret was already dead is not granted:
\* what a process answers from is never older than the request.
LateRequestsAreRefused ==
    \A r \in Request : request[r].late => request[r].place \in {"sent", "401"}

\* A granted request stays inside the rights of its key as they stand in the
\* table now, by whichever door it came: its tenant, its scope if it has one,
\* no writing with a read key, and deletion with an admin key only.
GrantsStayWithinRights ==
    \A r \in Request : request[r].place = "granted" =>
        LET rights == keys[request[r].key].rights
            need == request[r].need
        IN /\ rights.tenant = need.tenant
           /\ rights.scope \in {None, need.scope}
           /\ need.operation # "read" => rights.role # "read"
           /\ need.operation = "delete" => rights.role = "admin"
=============================================================================
