----------------------------- MODULE MCPlanGate -----------------------------
(* PlanGate for TLC: small backends of each kind. *)
EXTENDS PlanGate

CONSTANTS p1, p2, w1, w2, lockfile, table, lock

\* One S3 backend with use_lockfile and dynamodb_table: everybody takes both,
\* but for a legacy writer that knows the table only.
S3Order == <<lockfile, table>>
S3Uses == [c \in Clients |-> IF c = w1 THEN {table} ELSE {lockfile, table}]

\* Every other backend: one lock.
OneOrder == <<lock>>
OneUses == [c \in Clients |-> {lock}]

\* Everybody on unix; or one Windows machine among them.
AllUnix == [p \in Plans |-> "unix"]
Mixed == [p \in Plans |-> IF p = p2 THEN "windows" ELSE "unix"]
=============================================================================
