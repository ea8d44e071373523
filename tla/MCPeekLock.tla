----------------------------- MODULE MCPeekLock -----------------------------
(* PeekLock for TLC: backends of every type, each beside one that may take    *)
(* its place.                                                                 *)
EXTENDS PeekLock, TLC

Cache(t, attributes) == [type |-> t, config |-> attributes]

S3(attributes) == Cache("s3", attributes)
Bucket == <<"bucket">>
Key == <<"key">>
On == <<"true">>

\* In a ring: each may be replaced by the one behind it.
Ring == <<
    S3([bucket |-> Bucket, key |-> Key, use_lockfile |-> On]),
    S3([bucket |-> Bucket, key |-> Key, dynamodb_table |-> <<"table">>,
        workspace_key_prefix |-> <<"prefix">>]),
    S3([bucket |-> <<"bucket 2">>, key |-> Key, use_lockfile |-> On,
        dynamodb_table |-> <<"table">>]),
    S3([bucket |-> Bucket, key |-> <<"key 2">>]),
    Cache("gcs", [bucket |-> Bucket]),
    Cache("gcs", [bucket |-> Bucket, prefix |-> <<"prefix">>]),
    Cache("cos", [bucket |-> Bucket, region |-> <<"region">>]),
    Cache("oci", [bucket |-> Bucket, namespace |-> <<"space">>]),
    Cache("oss", [bucket |-> Bucket, tablestore_table |-> <<"table">>,
                  tablestore_instance_name |-> <<"instance">>,
                  tablestore_endpoint |-> <<"endpoint">>]),
    Cache("consul", [path |-> <<"path">>]),
    Cache("consul", [path |-> <<"path">>, lock |-> <<"false">>]),
    Cache("kubernetes", [secret_suffix |-> <<"suffix">>]),
    Cache("azurerm", [storage_account_name |-> <<"account">>,
                      container_name |-> <<"container">>, key |-> Key]),
    Cache("remote", "organization" :> <<"org">> @@ "workspaces" :> <<"block">>
                      @@ "workspaces: prefix" :> <<"app-">>),
    Cache("cloud", "organization" :> <<"org">> @@ "workspaces" :> <<"block">>
                      @@ "workspaces: name" :> <<"app-", "dev">>),
    Cache("cloud", "organization" :> <<"org">> @@ "workspaces" :> <<"block">>),
    Cache("local", "path: base" :> <<"state">>),
    Cache("local", "path: dir" :> <<"/", "states">>),
    Cache("pg", [schema_name |-> <<"schema">>]),
    Cache("pg", [conn_str |-> <<"elsewhere">>]),
    Cache("http", [address |-> <<"address">>])>>

MCBackends == {Ring[i] : i \in 1..Len(Ring)}

NextInRing ==
    [c \in MCBackends \cup {NoBackend} |->
        IF c = NoBackend THEN {Ring[1]}
        ELSE {Ring[(i % Len(Ring)) + 1] :
                 i \in {j \in 1..Len(Ring) : Ring[j] = c}}]

OCIOnly == {c \in MCBackends : c.type = "oci"}
OCIRivals == [c \in OCIOnly \cup {NoBackend} |-> OCIOnly]

LocalOnly == {c \in MCBackends : c.type = "local"}
LocalRivals == [c \in LocalOnly \cup {NoBackend} |-> LocalOnly]

SomeWorkspaces == {Default, <<"dev">>, <<"app-", "dev">>}

Plan == <<<<"plan">>>>
PlanIn(dir) == <<<<"-chdir=">> \o dir, <<"plan">>>>

NoEnv == [x \in {} |-> <<>>]
Tokens == "TF_TOKEN" :> <<"token">> @@ "PG_CONN_STR" :> <<"connection">>

SomeSettings ==
    {[argv |-> Plan, env |-> Tokens],
     [argv |-> PlanIn(<<"sub">>),
      env |-> "TF_DATA_DIR" :> <<"data">> @@ "PG_SCHEMA_NAME" :> <<"other">>
                @@ Tokens],
     [argv |-> PlanIn(<<"/", "else">>),
      env |-> "TF_DATA_DIR" :> <<"/", "data">> @@ "TF_WORKSPACE" :> <<"dev">>
                @@ "credentials.tfrc.json" :> <<"token">>]}

MyCwd == <<"/", "cwd">>

MCFragments ==
    Own \cup {"true", "false", "block", "token", "cwd", "sub", "else",
              "bucket", "bucket 2", "key", "key 2", "table", "prefix", "region",
              "space", "instance", "endpoint", "path", "suffix", "account",
              "container", "org", "state", "states", "schema", "elsewhere",
              "address", "dev", "app-"}
=============================================================================
