---------------------------- MODULE ApiKeysProofs ----------------------------
(***************************************************************************)
(* Proofs about ApiKeys, for any number of keys, secrets, requests and     *)
(* processes, any rights, and any length of the throttling interval.       *)
(***************************************************************************)
EXTENDS ApiKeys, TLAPS

Created(k) == keys[k] # None

\* The secret of a key was handed out; a rotation has loaded an existing key.
KeysOK == \A k \in Key : Created(k) => keys[k].secret \in issued
AdminOK == \A a \in Admin : admin[a] # Idle => admin[a].key \in Key /\ Created(admin[a].key)

\* A request holds a secret that was handed out; once verified it holds the
\* rights of an existing key, as they are in the table.
RequestsOK ==
    \A r \in Request :
        /\ request[r].place # "idle" => request[r].secret \in issued /\ request[r].need \in Need
        /\ request[r].place \in {"touch", "verified", "granted"}
           => /\ request[r].key \in Key /\ Created(request[r].key)
              /\ request[r].rights = keys[request[r].key].rights

\* A request that was sent too late can only be refused.
LateOK ==
    \A r \in Request : request[r].late =>
        request[r].place \in {"sent", "401"} /\ ~Opens(request[r].secret)

IInv == TypeOK /\ KeysOK /\ AdminOK /\ RequestsOK /\ LateOK /\ GrantsStayWithinRights

\* What a step does to the rows: an existing one stays, with its rights, and
\* stays revoked; a secret that is new in a row is handed out by that step.
RowsKept ==
    \A k \in Key : Created(k) =>
        /\ keys'[k] # None
        /\ keys'[k].rights = keys[k].rights
        /\ keys'[k].expires = keys[k].expires
        /\ keys[k].revoked => keys'[k].revoked
        /\ keys[k].active = FALSE => keys'[k].active = FALSE

NewSecretsAreFresh ==
    \A k \in Key : keys'[k] # None =>
        \/ Created(k) /\ keys'[k].secret = keys[k].secret
        \/ keys'[k].secret \in issued' \ issued

\* What a request is, and what TypeOK says with it.
RequestType ==
    [place: {"idle", "sent", "touch", "verified", "granted", "401", "403", "toolError"},
     secret: Secret \union {None}, need: Need \union {None}, key: Key \union {None},
     rights: Rights \union {None}, seen: Time, late: BOOLEAN]

LEMMA RequestTypes ==
    /\ TypeOK => request \in [Request -> RequestType]
    /\ TypeOK /\ UNCHANGED <<keys, issued, admin, now>> /\ request' \in [Request -> RequestType]
       => TypeOK'
BY DEF TypeOK, RequestType

\* What a row has in it.
LEMMA RowType ==
    ASSUME TypeOK, NEW k \in Key, Created(k)
    PROVE  keys[k] \in ApiKey
BY DEF TypeOK, Created

-----------------------------------------------------------------------------
LEMMA InitHolds == Init => IInv
<1> SUFFICES ASSUME Init PROVE IInv
    OBVIOUS
<1>1. 0 \in Time
    BY TimeAssumption DEF Time
<1>2. TypeOK
    BY <1>1 DEF Init, TypeOK, Idle, NoRequest
<1>3. KeysOK /\ AdminOK
    BY DEF Init, KeysOK, AdminOK, Created
<1>4. RequestsOK /\ LateOK /\ GrantsStayWithinRights
    BY DEF Init, NoRequest, RequestsOK, LateOK, GrantsStayWithinRights
<1> QED
    BY <1>2, <1>3, <1>4 DEF IInv

\* A step keeps the types, the rows and the freshness of secrets.
LEMMA StepKeepsRows ==
    ASSUME IInv, [Next]_vars
    PROVE  TypeOK' /\ RowsKept /\ NewSecretsAreFresh /\ issued \subseteq issued' /\ now <= now'
<1> USE TimeAssumption, NoneAssumption DEF Time
<1>0. TypeOK /\ now \in Nat
    BY DEF IInv, TypeOK
<1>1. CASE Tick
    <2>1. TypeOK'
        BY <1>1, <1>0 DEF Tick, TypeOK
    <2> QED
        BY <2>1, <1>1, <1>0 DEF Tick, RowsKept, NewSecretsAreFresh, Created
<1>2. ASSUME NEW k \in Key, CreateKey(k)
      PROVE  TypeOK' /\ RowsKept /\ NewSecretsAreFresh /\ issued \subseteq issued' /\ now <= now'
    <2>1. PICK secret \in Secret \ issued, rights \in Rights, expires \in Time \union {None} :
             /\ keys' = [keys EXCEPT ![k] =
                   [secret |-> secret, rights |-> rights, active |-> TRUE, revoked |-> FALSE,
                    expires |-> expires, lastUsed |-> None]]
             /\ issued' = issued \union {secret}
        BY <1>2 DEF CreateKey
    <2>2. keys' \in [Key -> ApiKey \union {None}]
        BY <2>1, <1>0 DEF TypeOK, ApiKey
    <2>3. TypeOK'
        BY <2>1, <2>2, <1>2, <1>0 DEF CreateKey, TypeOK
    <2>4. RowsKept /\ NewSecretsAreFresh
        BY <2>1, <1>2, <1>0 DEF CreateKey, TypeOK, RowsKept, NewSecretsAreFresh, Created
    <2> QED
        BY <2>1, <2>3, <2>4, <1>2, <1>0 DEF CreateKey
<1>3. ASSUME NEW k \in Key, RevokeKey(k)
      PROVE  TypeOK' /\ RowsKept /\ NewSecretsAreFresh /\ issued \subseteq issued' /\ now <= now'
    <2>1. keys[k] \in ApiKey
        BY <1>3, <1>0, RowType DEF RevokeKey, Created
    <2>2. keys' = [keys EXCEPT ![k] = [keys[k] EXCEPT !.active = FALSE, !.revoked = TRUE]]
        BY <1>3 DEF RevokeKey
    <2>3. [keys[k] EXCEPT !.active = FALSE, !.revoked = TRUE] \in ApiKey
        BY <2>1 DEF ApiKey
    <2>4. TypeOK'
        BY <2>2, <2>3, <1>3, <1>0 DEF RevokeKey, TypeOK
    <2>5. RowsKept /\ NewSecretsAreFresh
        BY <2>1, <2>2, <2>3, <1>0
        DEF TypeOK, RowsKept, NewSecretsAreFresh, Created, ApiKey
    <2> QED
        BY <2>4, <2>5, <1>3, <1>0 DEF RevokeKey
<1>4. ASSUME NEW a \in Admin, NEW k \in Key, RotateLoad(a, k)
      PROVE  TypeOK' /\ RowsKept /\ NewSecretsAreFresh /\ issued \subseteq issued' /\ now <= now'
    <2>1. keys[k] \in ApiKey
        BY <1>4, <1>0, RowType DEF RotateLoad, Created
    <2>2. TypeOK'
        BY <2>1, <1>4, <1>0 DEF RotateLoad, TypeOK, ApiKey
    <2> QED
        BY <2>2, <1>4, <1>0 DEF RotateLoad, RowsKept, NewSecretsAreFresh, Created
<1>5. ASSUME NEW a \in Admin, RotateCommit(a)
      PROVE  TypeOK' /\ RowsKept /\ NewSecretsAreFresh /\ issued \subseteq issued' /\ now <= now'
    <2> DEFINE k == admin[a].key
    <2>1. k \in Key /\ Created(k) /\ keys[k] \in ApiKey
        BY <1>5, <1>0, RowType DEF RotateCommit, IInv, AdminOK
    <2>2. PICK secret \in Secret \ issued :
             /\ keys' = [keys EXCEPT ![k].secret = secret,
                                     ![k].lastUsed = IF admin[a].lastUsed = None THEN @ ELSE None]
             /\ issued' = issued \union {secret}
        BY <1>5 DEF RotateCommit
    <2>3. PICK used \in Time \union {None} :
             keys' = [keys EXCEPT ![k] = [keys[k] EXCEPT !.secret = secret, !.lastUsed = used]]
        BY <2>1, <2>2 DEF ApiKey
    <2>4. [keys[k] EXCEPT !.secret = secret, !.lastUsed = used] \in ApiKey
        BY <2>1 DEF ApiKey
    <2>5. TypeOK'
        BY <2>1, <2>2, <2>3, <2>4, <1>5, <1>0 DEF RotateCommit, TypeOK, Idle
    <2>7. issued' = issued \union {secret}
        BY <2>2
    <2>6. RowsKept /\ NewSecretsAreFresh
        BY <2>1, <2>3, <2>4, <2>7, <1>0 DEF TypeOK, RowsKept, NewSecretsAreFresh, Created, ApiKey
    <2> QED
        BY <2>2, <2>5, <2>6, <1>5, <1>0 DEF RotateCommit
<1>6. ASSUME NEW r \in Request,
               Send(r) \/ VerifyKey(r) \/ RefuseKey(r) \/ AuthorizeRoute(r) \/ AuthorizeTool(r)
      PROVE  TypeOK' /\ RowsKept /\ NewSecretsAreFresh /\ issued \subseteq issued' /\ now <= now'
    <2>1. UNCHANGED <<keys, issued, admin, now>>
        BY <1>6 DEF Send, VerifyKey, RefuseKey, AuthorizeRoute, AuthorizeTool
    <2>2. CASE Send(r)
        <3>1. PICK secret \in issued, need \in Need :
                 request' = [request EXCEPT ![r] =
                     [place |-> "sent", secret |-> secret, need |-> need, key |-> None,
                      rights |-> None, seen |-> 0, late |-> ~Opens(secret)]]
            BY <2>2 DEF Send
        <3>2. PICK late \in BOOLEAN : late = ~Opens(secret)
            BY Zenon
        <3>3. request' = [request EXCEPT ![r] =
                     [place |-> "sent", secret |-> secret, need |-> need, key |-> None,
                      rights |-> None, seen |-> 0, late |-> late]]
            BY <3>1, <3>2, Zenon
        <3>4. secret \in Secret
            BY <1>0 DEF TypeOK
        <3> DEFINE new == [place |-> "sent", secret |-> secret, need |-> need, key |-> None,
                          rights |-> None, seen |-> 0, late |-> late]
        <3>5. 0 \in Time /\ need \in Need /\ secret \in Secret \union {None}
            BY <3>4
        <3>6. new \in RequestType
            <4> HIDE DEF Time
            <4> QED
                BY <3>2, <3>5, Zenon DEF RequestType
        <3>7. request' = [request EXCEPT ![r] = new]
            BY <3>3
        <3> HIDE DEF new
        <3>8. request' \in [Request -> RequestType]
            BY <3>6, <3>7, <1>0, RequestTypes
        <3>9. TypeOK'
            BY <3>8, <2>1, <1>0, RequestTypes
        <3> QED
            BY <3>9, <2>1, <1>0 DEF RowsKept, NewSecretsAreFresh, Created
    <2>3. CASE VerifyKey(r)
        <3>1. PICK k \in Key :
                 /\ Created(k)
                 /\ request' = [request EXCEPT
                       ![r].place = IF ShouldUpdateLastUsed(keys[k]) THEN "touch" ELSE "verified",
                       ![r].key = k, ![r].rights = keys[k].rights, ![r].seen = now]
            BY <2>3 DEF VerifyKey, Created
        <3>2. keys[k].rights \in Rights
            BY <3>1, <1>0, RowType DEF ApiKey
        <3>3. PICK place \in {"touch", "verified"} :
                 request' = [request EXCEPT ![r].place = place, ![r].key = k,
                                            ![r].rights = keys[k].rights, ![r].seen = now]
            BY <3>1, Zenon
        <3> DEFINE new == [request[r] EXCEPT !.place = place, !.key = k,
                                             !.rights = keys[k].rights, !.seen = now]
        <3>5. now \in Time
            BY <1>0 DEF TypeOK
        <3>6. new \in RequestType
            BY <3>2, <3>5, <1>0, RequestTypes DEF RequestType
        <3>7. request' = [request EXCEPT ![r] = new]
            BY <3>3
        <3> HIDE DEF new
        <3>8. request' \in [Request -> RequestType]
            BY <3>6, <3>7, <1>0, RequestTypes
        <3>4. TypeOK'
            BY <3>8, <2>1, <1>0, RequestTypes
        <3> QED
            BY <3>4, <2>1, <1>0 DEF RowsKept, NewSecretsAreFresh, Created
    <2>4. CASE RefuseKey(r)
        BY <2>4, <2>1, <1>0 DEF RefuseKey, TypeOK, RowsKept, NewSecretsAreFresh, Created
    <2>5. CASE AuthorizeRoute(r) \/ AuthorizeTool(r)
        BY <2>5, <2>1, <1>0
        DEF AuthorizeRoute, AuthorizeTool, TypeOK, RowsKept, NewSecretsAreFresh, Created
    <2> QED
        BY <1>6, <2>2, <2>3, <2>4, <2>5
<1>7. ASSUME NEW r \in Request, Touch(r)
      PROVE  TypeOK' /\ RowsKept /\ NewSecretsAreFresh /\ issued \subseteq issued' /\ now <= now'
    <2> DEFINE k == request[r].key
    <2>1. k \in Key /\ Created(k) /\ keys[k] \in ApiKey /\ request[r].seen \in Time
        BY <1>7, <1>0, RowType DEF Touch, IInv, RequestsOK, TypeOK
    <2>2. keys' = [keys EXCEPT ![k] = [keys[k] EXCEPT !.lastUsed = request[r].seen]]
        BY <1>7 DEF Touch
    <2>3. [keys[k] EXCEPT !.lastUsed = request[r].seen] \in ApiKey
        BY <2>1 DEF ApiKey
    <2>6. keys[k].rights \in Rights
        BY <2>1 DEF ApiKey
    <2> DEFINE new == [request[r] EXCEPT !.place = "verified", !.rights = keys[k].rights]
    <2>7. request' = [request EXCEPT ![r] = new] /\ new \in RequestType
        <3>0. request[r] \in RequestType
            BY <1>0, RequestTypes
        <3>1. new \in RequestType
            BY <2>6, <3>0 DEF RequestType
        <3>2. request' = [request EXCEPT ![r].place = "verified", ![r].rights = keys[k].rights]
            BY <1>7, Zenon DEF Touch
        <3>3. request' = [request EXCEPT ![r] = new]
            BY <3>2
        <3> QED
            BY <3>1, <3>3
    <2>8. keys' \in [Key -> ApiKey \union {None}]
        BY <2>2, <2>3, <1>0 DEF TypeOK
    <2>9. request' \in [Request -> RequestType]
        <3> HIDE DEF new
        <3> QED
            BY <2>7, <1>0, RequestTypes
    <2>4. TypeOK'
        BY <2>8, <2>9, <1>7, <1>0 DEF Touch, TypeOK, RequestType
    <2>5. RowsKept /\ NewSecretsAreFresh
        BY <2>1, <2>2, <2>3, <1>0 DEF TypeOK, RowsKept, NewSecretsAreFresh, Created, ApiKey
    <2> QED
        BY <2>4, <2>5, <1>7, <1>0 DEF Touch
<1>8. CASE UNCHANGED vars
    BY <1>8, <1>0 DEF vars, TypeOK, RowsKept, NewSecretsAreFresh, Created
<1> QED
    BY <1>1, <1>2, <1>3, <1>4, <1>5, <1>6, <1>7, <1>8 DEF Next


-----------------------------------------------------------------------------
(* A secret that does not open a key now will not do so after a step: it     *)
(* does not return into a row, and no row becomes usable again.              *)
LEMMA DeadStayDead ==
    ASSUME IInv, [Next]_vars, NEW secret \in issued, ~Opens(secret)
    PROVE  ~Opens(secret)'
<1>0. /\ TypeOK /\ TypeOK' /\ RowsKept /\ NewSecretsAreFresh /\ now <= now'
      /\ now \in Nat /\ now' \in Nat
    BY StepKeepsRows, TimeAssumption DEF IInv, TypeOK, Time
<1> SUFFICES ASSUME Opens(secret)' PROVE FALSE
    OBVIOUS
<1>1. PICK k \in Key : keys'[k] # None /\ keys'[k].secret = secret /\ Usable(keys[k])'
    BY DEF Opens
<1>2. Created(k) /\ keys[k].secret = secret
    BY <1>0, <1>1 DEF NewSecretsAreFresh
<1>3. keys[k] \in ApiKey
    BY <1>0, <1>2, RowType
<1>4. keys[k].active /\ ~keys[k].revoked
    <2>1. keys'[k].active /\ ~keys'[k].revoked
        BY <1>1 DEF Usable
    <2> QED
        BY <2>1, <1>0, <1>2, <1>3 DEF RowsKept, ApiKey
<1>5. keys[k].expires # None => keys[k].expires > now
    <2>1. keys'[k].expires = keys[k].expires
        BY <1>0, <1>2 DEF RowsKept
    <2>2. keys'[k].expires # None => keys'[k].expires > now'
        BY <1>1 DEF Usable
    <2>3. keys[k].expires # None => keys[k].expires \in Nat
        BY <1>3, TimeAssumption DEF ApiKey, Time
    <2> QED
        BY <2>1, <2>2, <2>3, <1>0
<1>6. Usable(keys[k])
    BY <1>4, <1>5 DEF Usable
<1> QED
    BY <1>2, <1>6 DEF Opens, Created

\* What the invariant says of one request.
RequestOK(r) ==
    /\ request[r].place # "idle" => request[r].secret \in issued /\ request[r].need \in Need
    /\ request[r].place \in {"touch", "verified", "granted"}
       => /\ request[r].key \in Key /\ Created(request[r].key)
          /\ request[r].rights = keys[request[r].key].rights
    /\ request[r].late =>
          request[r].place \in {"sent", "401"} /\ ~Opens(request[r].secret)
    /\ request[r].place = "granted" =>
          LET rights == keys[request[r].key].rights
              need == request[r].need
          IN /\ rights.tenant = need.tenant
             /\ rights.scope \in {None, need.scope}
             /\ need.operation # "read" => rights.role # "read"
             /\ need.operation = "delete" => rights.role = "admin"

LEMMA RequestsAreOK ==
    RequestsOK /\ LateOK /\ GrantsStayWithinRights <=> \A r \in Request : RequestOK(r)
BY Zenon DEF RequestsOK, LateOK, GrantsStayWithinRights, RequestOK

\* A request that has nothing to do with a step stays as it should be.
LEMMA OthersStayOK ==
    ASSUME IInv, [Next]_vars, NEW r \in Request, request'[r] = request[r]
    PROVE  RequestOK(r)'
<1>0. RowsKept /\ issued \subseteq issued'
    BY StepKeepsRows
<1>1. RequestOK(r)
    BY RequestsAreOK DEF IInv
<1> DEFINE k == request[r].key
<1>2. request[r].place # "idle" => request[r].secret \in issued' /\ request[r].need \in Need
    BY <1>0, <1>1 DEF RequestOK
<1>3. request[r].place \in {"touch", "verified", "granted"}
      => /\ k \in Key /\ keys'[k] # None /\ request[r].rights = keys'[k].rights
         /\ keys'[k].rights = keys[k].rights
    BY <1>0, <1>1 DEF RequestOK, RowsKept
<1>4. request[r].late =>
          request[r].place \in {"sent", "401"} /\ ~Opens(request[r].secret)'
    <2> SUFFICES ASSUME request[r].late
                 PROVE  request[r].place \in {"sent", "401"} /\ ~Opens(request[r].secret)'
        OBVIOUS
    <2>1. /\ request[r].place \in {"sent", "401"} /\ ~Opens(request[r].secret)
          /\ request[r].secret \in issued
        BY <1>1 DEF RequestOK
    <2> DEFINE secret == request[r].secret
    <2>2. secret \in issued /\ ~Opens(secret)
        BY <2>1
    <2>3. secret' = secret
        OBVIOUS
    <2>4. ASSUME NEW s \in issued, ~Opens(s) PROVE ~Opens(s)'
        BY <2>4, DeadStayDead
    <2>5. ~(\E q \in Key : keys'[q] # None /\ keys'[q].secret = secret /\ Usable(keys[q])')
        <3> HIDE DEF secret
        <3> QED
            BY <2>2, <2>4 DEF Opens
    <2> QED
        BY <2>1, <2>3, <2>5 DEF Opens
<1> QED
    BY <1>1, <1>2, <1>3, <1>4 DEF RequestOK, Created


\* Each action of a request leaves that request as it should be.
LEMMA SendOK ==
    ASSUME IInv, NEW r \in Request, Send(r)
    PROVE  /\ RequestOK(r)'
           /\ \A other \in Request \ {r} : request'[other] = request[other]
<1>1. PICK secret \in issued, need \in Need :
         request' = [request EXCEPT ![r] =
             [place |-> "sent", secret |-> secret, need |-> need, key |-> None,
              rights |-> None, seen |-> 0, late |-> ~Opens(secret)]]
    BY DEF Send
<1>2. request \in [Request -> RequestType]
    BY RequestTypes DEF IInv
<1>3. UNCHANGED <<keys, issued, now>>
    BY DEF Send
<1>4. /\ request'[r].place = "sent" /\ request'[r].secret = secret /\ request'[r].need = need
    BY <1>1, <1>2
<1>5. PICK late \in BOOLEAN : late = ~Opens(secret)
    BY Zenon
<1>8. request' = [request EXCEPT ![r] =
             [place |-> "sent", secret |-> secret, need |-> need, key |-> None,
              rights |-> None, seen |-> 0, late |-> late]]
    BY <1>1, <1>5, Zenon
<1>9. request'[r].late = late
    BY <1>2, <1>8
<1>6. Opens(request[r].secret)' <=> Opens(secret)
    BY <1>3, <1>4 DEF Opens, Usable
<1>7. request'[r].late => ~Opens(request[r].secret)'
    BY <1>5, <1>6, <1>9
<1> QED
    BY <1>1, <1>2, <1>3, <1>4, <1>7 DEF RequestOK

LEMMA VerifyKeyOK ==
    ASSUME IInv, NEW r \in Request, VerifyKey(r)
    PROVE  /\ RequestOK(r)'
           /\ \A other \in Request \ {r} : request'[other] = request[other]
<1>1. PICK k \in Key :
         /\ keys[k] # None /\ keys[k].secret = request[r].secret /\ Usable(keys[k])
         /\ request' = [request EXCEPT
               ![r].place = IF ShouldUpdateLastUsed(keys[k]) THEN "touch" ELSE "verified",
               ![r].key = k, ![r].rights = keys[k].rights, ![r].seen = now]
    BY DEF VerifyKey
<1>2. request \in [Request -> RequestType] /\ request[r] \in RequestType
    BY RequestTypes DEF IInv
<1>3. UNCHANGED <<keys, issued, now>> /\ request[r].place = "sent"
    BY DEF VerifyKey
<1>4. RequestOK(r)
    BY RequestsAreOK DEF IInv
<1>5. /\ request'[r].place \in {"touch", "verified"} /\ request'[r].key = k
      /\ request'[r].rights = keys[k].rights
      /\ request'[r].secret = request[r].secret /\ request'[r].need = request[r].need
      /\ request'[r].late = request[r].late
    BY <1>1, <1>2 DEF RequestType
<1>6. Opens(request[r].secret)
    BY <1>1 DEF Opens
<1>7. ~request[r].late
    BY <1>4, <1>6 DEF RequestOK
<1>8. ~request'[r].late
    BY <1>5, <1>7
<1> QED
    BY <1>1, <1>2, <1>3, <1>4, <1>5, <1>8 DEF RequestOK, Created

LEMMA RefuseKeyOK ==
    ASSUME IInv, NEW r \in Request, RefuseKey(r)
    PROVE  /\ RequestOK(r)'
           /\ \A other \in Request \ {r} : request'[other] = request[other]
<1>1. request \in [Request -> RequestType] /\ request[r] \in RequestType
    BY RequestTypes DEF IInv
<1>2. RequestOK(r)
    BY RequestsAreOK DEF IInv
<1>3. /\ request'[r].place = "401" /\ UNCHANGED <<keys, issued, now>>
      /\ request'[r].secret = request[r].secret /\ request'[r].need = request[r].need
      /\ \A other \in Request \ {r} : request'[other] = request[other]
    BY <1>1 DEF RefuseKey, RequestType
<1>4. request[r].place # "idle" /\ ~Opens(request[r].secret)
    BY DEF RefuseKey
<1>5. ~Opens(request[r].secret)'
    BY <1>3, <1>4 DEF Opens, Usable
<1> QED
    BY <1>2, <1>3, <1>4, <1>5 DEF RequestOK

LEMMA TouchOK ==
    ASSUME IInv, NEW r \in Request, Touch(r)
    PROVE  /\ RequestOK(r)'
           /\ \A other \in Request \ {r} : request'[other] = request[other]
<1>1. request \in [Request -> RequestType] /\ request[r] \in RequestType
    BY RequestTypes DEF IInv
<1>2. RequestOK(r)
    BY RequestsAreOK DEF IInv
<1> DEFINE k == request[r].key
<1>3. /\ request[r].place = "touch" /\ k \in Key /\ Created(k)
      /\ UNCHANGED issued
    BY <1>2 DEF Touch, RequestOK
<1>4. RowsKept
    BY StepKeepsRows DEF Next
<1>5. keys'[k] # None /\ keys'[k].rights = keys[k].rights
    BY <1>3, <1>4 DEF RowsKept
<1>6. /\ request'[r].place = "verified" /\ request'[r].key = k
      /\ request'[r].rights = keys[k].rights
      /\ request'[r].secret = request[r].secret /\ request'[r].need = request[r].need
      /\ request'[r].late = request[r].late
      /\ \A other \in Request \ {r} : request'[other] = request[other]
    BY <1>1 DEF Touch, RequestType
<1>7. ~request'[r].late
    BY <1>2, <1>3, <1>6 DEF RequestOK
<1> QED
    BY <1>2, <1>3, <1>5, <1>6, <1>7 DEF RequestOK, Created

\* What a door lets through, the role of the key covers.
LEMMA RolesCover ==
    ASSUME NEW role \in Role, NEW operation \in Operation,
           RoleAllows(role, RouteRole(operation)) \/ RoleAllows(role, ToolRole(operation))
    PROVE  /\ operation # "read" => role # "read"
           /\ operation = "delete" => role = "admin"
BY DEF Role, Operation, RoleAllows, RouteRole, ToolRole, Rank

LEMMA AuthorizeOK ==
    ASSUME IInv, NEW r \in Request, AuthorizeRoute(r) \/ AuthorizeTool(r)
    PROVE  /\ RequestOK(r)'
           /\ \A other \in Request \ {r} : request'[other] = request[other]
<1> DEFINE rights == request[r].rights
           need == request[r].need
<1>1. request \in [Request -> RequestType] /\ request[r] \in RequestType
    BY RequestTypes DEF IInv
<1>2. RequestOK(r)
    BY RequestsAreOK DEF IInv
<1>3. request[r].place = "verified" /\ UNCHANGED <<keys, issued, now>>
    BY DEF AuthorizeRoute, AuthorizeTool
<1>4. PICK place \in {"granted", "403", "toolError"} :
         /\ request' = [request EXCEPT ![r].place = place]
         /\ place = "granted" =>
               /\ InContext(rights, need)
               /\ \/ RoleAllows(rights.role, RouteRole(need.operation))
                  \/ RoleAllows(rights.role, ToolRole(need.operation))
    <2>1. CASE AuthorizeRoute(r)
        BY <2>1, Zenon DEF AuthorizeRoute
    <2>2. CASE AuthorizeTool(r)
        BY <2>2, Zenon DEF AuthorizeTool
    <2> QED
        BY <2>1, <2>2
<1>5. /\ request'[r].place = place /\ request'[r].key = request[r].key
      /\ request'[r].rights = rights /\ request'[r].need = need
      /\ request'[r].secret = request[r].secret /\ request'[r].late = request[r].late
      /\ \A other \in Request \ {r} : request'[other] = request[other]
    BY <1>1, <1>4 DEF RequestType
<1>6. rights.role \in Role /\ need.operation \in Operation
    <2>1. /\ request[r].key \in Key /\ Created(request[r].key) /\ need \in Need
          /\ rights = keys[request[r].key].rights
        BY <1>2, <1>3 DEF RequestOK
    <2>2. rights \in Rights
        BY <2>1, RowType DEF IInv, ApiKey
    <2> QED
        BY <2>1, <2>2, RightsAssumption
<1>7. ~request'[r].late
    BY <1>2, <1>3, <1>5 DEF RequestOK
<1>8. place = "granted" =>
         /\ rights.tenant = need.tenant /\ rights.scope \in {None, need.scope}
         /\ need.operation # "read" => rights.role # "read"
         /\ need.operation = "delete" => rights.role = "admin"
    BY <1>4, <1>6, RolesCover DEF InContext
<1> QED
    BY <1>2, <1>3, <1>5, <1>7, <1>8 DEF RequestOK, Created

-----------------------------------------------------------------------------
LEMMA StepKeepsIInv ==
    ASSUME IInv, [Next]_vars
    PROVE  IInv'
<1>0. TypeOK' /\ RowsKept /\ NewSecretsAreFresh /\ issued \subseteq issued'
    BY StepKeepsRows
<1>1. KeysOK'
    BY <1>0 DEF IInv, KeysOK, Created, NewSecretsAreFresh
<1>2. AdminOK'
    <2>0. TypeOK /\ AdminOK
        BY DEF IInv
    <2>1. ASSUME NEW a \in Admin, admin'[a] = admin[a]
          PROVE  admin'[a] # Idle => admin'[a].key \in Key /\ keys'[admin'[a].key] # None
        BY <2>0, <2>1, <1>0 DEF AdminOK, RowsKept
    <2>2. ASSUME NEW a \in Admin, admin'[a] # admin[a]
          PROVE  admin'[a] # Idle => admin'[a].key \in Key /\ keys'[admin'[a].key] # None
        <3>1. \/ \E k \in Key : RotateLoad(a, k)
              \/ RotateCommit(a)
            BY <2>0, <2>2 DEF Next, vars, Tick, CreateKey, RevokeKey, RotateLoad, RotateCommit,
                              Send, VerifyKey, RefuseKey, Touch, AuthorizeRoute, AuthorizeTool, TypeOK
        <3> QED
            BY <3>1, <2>0 DEF RotateLoad, RotateCommit, TypeOK
    <2> QED
        BY <2>1, <2>2 DEF AdminOK, Created
<1>3. \A r \in Request : RequestOK(r)'
    <2>1. CASE \E r \in Request :
                  Send(r) \/ VerifyKey(r) \/ RefuseKey(r) \/ Touch(r) \/ AuthorizeRoute(r) \/ AuthorizeTool(r)
        <3>1. PICK r \in Request :
                 Send(r) \/ VerifyKey(r) \/ RefuseKey(r) \/ Touch(r) \/ AuthorizeRoute(r) \/ AuthorizeTool(r)
            BY <2>1
        <3>2. /\ RequestOK(r)'
              /\ \A other \in Request \ {r} : request'[other] = request[other]
            BY <3>1, SendOK, VerifyKeyOK, RefuseKeyOK, TouchOK, AuthorizeOK
        <3> QED
            BY <3>2, OthersStayOK
    <2>2. CASE UNCHANGED request
        BY <2>2, OthersStayOK
    <2> QED
        BY <2>1, <2>2 DEF Next, vars, Tick, CreateKey, RevokeKey, RotateLoad, RotateCommit
<1>4. (RequestsOK /\ LateOK /\ GrantsStayWithinRights)'
    BY <1>3, Zenon DEF RequestsOK, LateOK, GrantsStayWithinRights, RequestOK
<1> QED
    BY <1>0, <1>1, <1>2, <1>4 DEF IInv

-----------------------------------------------------------------------------
\* Every state is well typed, every key's secret was handed out, and what a
\* process holds of a key agrees with the table.
THEOREM KeysInvariant == Spec => []IInv
<1>1. Init => IInv
    BY InitHolds
<1>2. IInv /\ [Next]_vars => IInv'
    BY StepKeepsIInv
<1> QED
    BY <1>1, <1>2, PTL DEF Spec

\* Every variable has its type, the rights of requests and rows among them.
THEOREM KeyTypes == Spec => []TypeOK
<1>1. IInv => TypeOK
    BY DEF IInv
<1> QED
    BY <1>1, KeysInvariant, PTL

\* A request sent with a secret that was already dead when it was sent is
\* never granted, whatever the other processes do meanwhile.
THEOREM LateRefused == Spec => []LateRequestsAreRefused
<1>1. IInv => LateRequestsAreRefused
    BY DEF IInv, LateOK, LateRequestsAreRefused
<1> QED
    BY <1>1, KeysInvariant, PTL

\* A granted request is within the tenant, scope and role that its key has in
\* the table: the rights that verify_key returned cannot have become stale.
THEOREM GrantsHold == Spec => []GrantsStayWithinRights
<1>1. IInv => GrantsStayWithinRights
    BY DEF IInv
<1> QED
    BY <1>1, KeysInvariant, PTL

\* No rotation or request that had read a key before its revocation undoes it.
THEOREM RevocationHolds == Spec => RevocationIsPermanent
<1>1. IInv /\ [Next]_vars
      => [\A k \in Key : keys[k] # None /\ keys[k].revoked => keys'[k].revoked]_vars
    <2> SUFFICES ASSUME IInv, [Next]_vars, NEW k \in Key, keys[k] # None, keys[k].revoked
                 PROVE  keys'[k].revoked
        OBVIOUS
    <2>1. RowsKept
        BY StepKeepsRows
    <2> QED
        BY <2>1 DEF RowsKept, Created
<1> QED
    BY <1>1, KeysInvariant, PTL DEF Spec, RevocationIsPermanent

\* A secret that was rotated away, revoked or has expired never opens a key
\* again, for every interleaving of rotations, revocations and requests.
THEOREM DeadSecretsHold == Spec => DeadSecretsStayDead
<1>1. IInv /\ [Next]_vars
      => [\A secret \in issued : ~Opens(secret) => ~Opens(secret)']_vars
    <2>1. ASSUME IInv, [Next]_vars
          PROVE  \A secret \in issued : ~Opens(secret) => ~Opens(secret)'
        BY <2>1, DeadStayDead
    <2> QED
        BY <2>1
<1> QED
    BY <1>1, KeysInvariant, PTL DEF Spec, DeadSecretsStayDead
=============================================================================
