------------------------------ MODULE MCApiKeys ------------------------------
(* ApiKeys for TLC: nothing tells secrets, requests or processes apart; the  *)
(* rights and needs agree and differ in each of tenant, scope and role.      *)
EXTENDS ApiKeys, TLC

Rts(tenant, scope, role) == [tenant |-> tenant, scope |-> scope, role |-> role]

MCRights == {Rts("t1", None, "admin"), Rts("t1", "x1", "write"), Rts("t2", "x2", "read")}

Nd(door, operation, tenant, scope) ==
    [door |-> door, operation |-> operation, tenant |-> tenant, scope |-> scope]

MCNeed == {Nd("http", "delete", "t1", "x1"), Nd("mcp", "delete", "t1", "x1"),
           Nd("http", "ingest", "t1", "x2"), Nd("mcp", "reindex", "t2", "x2"),
           Nd("http", "read", "t2", "x2")}

MCSymmetry == Permutations(Secret) \union Permutations(Request) \union Permutations(Admin)
=============================================================================
