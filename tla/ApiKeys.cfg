CONSTANTS
    Key = {k1}
    Secret = {s1, s2, s3}
    Request = {r1, r2}
    Admin = {a1, a2}
    Tenant = {"t1", "t2"}
    Scope = {"x1", "x2"}
    Rights <- MCRights
    Need <- MCNeed
    MaxTime = 2
    Interval = 1
    None = None
SPECIFICATION Spec
SYMMETRY MCSymmetry
INVARIANTS
    TypeOK
    LateRequestsAreRefused
    GrantsStayWithinRights
PROPERTIES
    RevocationIsPermanent
    DeadSecretsStayDead
\* The secrets run out, the clock stops and every request is answered.
CHECK_DEADLOCK FALSE
