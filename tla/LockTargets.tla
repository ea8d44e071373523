----------------------------- MODULE LockTargets -----------------------------
(* Which lock belongs to a backend configuration and a workspace: the         *)
(* *LockTarget functions of src/internal/lockcheck and the naming of state    *)
(* paths under them.                                                          *)
(*                                                                           *)
(* A text is a sequence of fragments, characters for instance; "" is <<>>.    *)
(* A configuration is a record of the backend's type, its attributes, the     *)
(* directory it was found in and the selected workspace; an attribute that is *)
(* not there, or not of the type the code asks for, reads as <<>>.  Paths are *)
(* clean, so path.Join puts one "/" between the elements that are not empty.  *)
(* The name of a lock is the sequence of texts that identify it, NoTarget if  *)
(* it has none.                                                               *)
EXTENDS Naturals, Sequences
LOCAL INSTANCE SequencesExt

CONSTANT Fragments

\* The fragments this package puts into names.
Own == {"/", "-", "default", "env:", "-env:", "tf-state-env", "lock-tfstate-",
        "terraform.tfstate", "terraform.tfstate.d", ".tflock", ".lock",
        "/.lockinfo"}

ASSUME FragmentsAssumption == Own \subseteq Fragments

Text == Seq(Fragments)

NoTarget == <<>>

Get(attributes, name) ==
    IF name \in DOMAIN attributes THEN attributes[name] ELSE <<>>

OrElse(text, fallback) == IF text = <<>> THEN fallback ELSE text

Slash(a, b) == IF a = <<>> \/ b = <<>> THEN a \o b ELSE a \o <<"/">> \o b

IsAbs(path) == path # <<>> /\ path[1] = "/"

Default == <<"default">>
IsDefault(workspace) == workspace \in {<<>>, Default}

\* No name without the attributes that must be there.
Named(required, name) ==
    IF \E i \in 1..Len(required) : required[i] = <<>> THEN NoTarget ELSE name

-----------------------------------------------------------------------------
\* Wrong: the workspace is forgotten.
S3KeyBare(key, workspace, prefix) == key

\* workspaceObjectKey
S3Key(key, workspace, prefix) ==
    IF IsDefault(workspace) THEN key
    ELSE OrElse(prefix, <<"env:">>) \o <<"/">> \o workspace \o <<"/">> \o key

UsesLockfile(c) == Get(c.config, "use_lockfile") = <<"true">>
UsesTable(c)    == Get(c.config, "dynamodb_table") # <<>>

S3LockTarget(c) ==
    LET bucket == Get(c.config, "bucket")
        key    == Get(c.config, "key")
    IN  IF ~UsesLockfile(c) /\ ~UsesTable(c) THEN NoTarget
        ELSE Named(<<bucket, key>>,
                   <<bucket, S3Key(key, c.workspace,
                                   Get(c.config, "workspace_key_prefix"))>>)

\* gcsLockObject
GCSLockTarget(c) ==
    LET bucket == Get(c.config, "bucket")
    IN  Named(<<bucket>>,
              <<bucket, Slash(Get(c.config, "prefix"),
                              OrElse(c.workspace, Default) \o <<".tflock">>)>>)

\* prefix/key, or prefix/workspace/key: cosLockObjectKey, ossStateFile.
Nested(prefix, workspace, key) ==
    IF IsDefault(workspace) THEN Slash(prefix, key)
    ELSE Slash(Slash(prefix, workspace), key)

COSLockTarget(c) ==
    LET bucket == Get(c.config, "bucket")
        region == Get(c.config, "region")
        key    == OrElse(Get(c.config, "key"), <<"terraform.tfstate">>)
    IN  Named(<<bucket, region>>,
              <<bucket, region,
                Nested(Get(c.config, "prefix"), c.workspace, key)
                  \o <<".tflock">>>>)

\* ociLockObjectName: the prefix is for workspaces only.
OCIObject(prefix, workspace, key) ==
    IF IsDefault(workspace) THEN key ELSE Nested(prefix, workspace, key)

OCILockTarget(c) ==
    LET bucket    == Get(c.config, "bucket")
        namespace == Get(c.config, "namespace")
        key       == OrElse(Get(c.config, "key"), <<"terraform.tfstate">>)
        prefix    == OrElse(Get(c.config, "workspace_key_prefix"),
                            <<"tf-state-env">>)
    IN  Named(<<bucket, namespace>>,
              <<bucket, namespace,
                OCIObject(prefix, c.workspace, key) \o <<".lock">>>>)

OSSLockTarget(c) ==
    LET table    == Get(c.config, "tablestore_table")
        bucket   == Get(c.config, "bucket")
        instance == Get(c.config, "tablestore_instance_name")
        endpoint == Get(c.config, "tablestore_endpoint")
        prefix   == OrElse(Get(c.config, "prefix"), <<"env:">>)
        key      == OrElse(Get(c.config, "key"), <<"terraform.tfstate">>)
    IN  Named(<<table, bucket, instance, endpoint>>,
              <<table, instance, endpoint,
                bucket \o <<"/">> \o Nested(prefix, c.workspace, key)>>)

\* azurermBlobName, consulStatePath: a mark and the workspace behind the key.
Suffixed(key, mark, workspace) ==
    IF IsDefault(workspace) THEN key ELSE key \o <<mark>> \o workspace

AzurermLockTarget(c) ==
    LET account   == Get(c.config, "storage_account_name")
        container == Get(c.config, "container_name")
        key       == Get(c.config, "key")
    IN  Named(<<account, container, key>>,
              <<account, container, Suffixed(key, "env:", c.workspace)>>)

\* No lock is taken with lock = false.  The suffix is peekConsulLockInfo's.
ConsulLockTarget(c) ==
    LET path == Get(c.config, "path")
    IN  IF Get(c.config, "lock") = <<"false">> THEN NoTarget
        ELSE Named(<<path>>,
                   <<Suffixed(path, "-env:", c.workspace) \o <<"/.lockinfo">>>>)

\* kubernetesLeaseName
KubernetesLockTarget(c) ==
    LET namespace == OrElse(Get(c.config, "namespace"), Default)
        suffix    == Get(c.config, "secret_suffix")
    IN  Named(<<suffix>>,
              <<namespace,
                <<"lock-tfstate-">> \o OrElse(c.workspace, Default)
                  \o <<"-">> \o suffix>>)

\* The path is given as its directory and its base; workspaceStatePath puts the
\* workspace between them.
LocalLockTarget(c) ==
    LET dir  == Get(c.config, "path: dir")
        base == OrElse(Get(c.config, "path: base"), <<"terraform.tfstate">>)
        root == IF IsAbs(dir) THEN dir ELSE Slash(c.dir, dir)
    IN  <<IF IsDefault(c.workspace) THEN Slash(root, base)
          ELSE Slash(Slash(Slash(root, <<"terraform.tfstate.d">>), c.workspace),
                     base)>>

\* The row of the workspace; both attributes fall back to the environment.
PGLockTarget(c, env) ==
    LET conn   == OrElse(Get(c.config, "conn_str"), Get(env, "PG_CONN_STR"))
        schema == OrElse(Get(c.config, "schema_name"), Get(env, "PG_SCHEMA_NAME"))
    IN  Named(<<conn>>,
              <<conn, OrElse(schema, <<"terraform_remote_state">>),
                OrElse(c.workspace, Default)>>)

\* tfeWorkspaceName with extractNestedBlock: the one name of a block, or, in a
\* remote backend with a prefix, the workspace under that prefix.
TFEWorkspaceName(c) ==
    LET name   == Get(c.config, "workspaces: name")
        prefix == Get(c.config, "workspaces: prefix")
    IN  IF Get(c.config, "workspaces") # <<"block">> THEN <<>>
        ELSE IF name # <<>> THEN name
        ELSE IF c.type # "remote" \/ prefix = <<>> \/ IsDefault(c.workspace)
        THEN <<>>
        ELSE IF IsPrefix(prefix, c.workspace) THEN c.workspace
        ELSE prefix \o c.workspace

\* tfeToken with credentialsFileToken: TF_TOKEN_<host>, the attribute, or what
\* terraform login left behind.
TFEToken(c, env) ==
    OrElse(Get(env, "TF_TOKEN"),
           OrElse(Get(c.config, "token"), Get(env, "credentials.tfrc.json")))

TFELockTarget(c, env) ==
    LET org  == Get(c.config, "organization")
        host == OrElse(Get(c.config, "hostname"), <<"app.terraform.io">>)
        name == TFEWorkspaceName(c)
    IN  Named(<<org, name, TFEToken(c, env)>>, <<host, org, name>>)

-----------------------------------------------------------------------------
\* The lock of a configuration, for the types that have a checker.
LockTarget(c, env) ==
    CASE c.type = "s3" -> S3LockTarget(c)
      [] c.type = "gcs" -> GCSLockTarget(c)
      [] c.type = "cos" -> COSLockTarget(c)
      [] c.type = "oci" -> OCILockTarget(c)
      [] c.type = "oss" -> OSSLockTarget(c)
      [] c.type = "consul" -> ConsulLockTarget(c)
      [] c.type = "kubernetes" -> KubernetesLockTarget(c)
      [] c.type = "azurerm" -> AzurermLockTarget(c)
      [] c.type \in {"remote", "cloud"} -> TFELockTarget(c, env)
      [] c.type = "local" -> LocalLockTarget(c)
      [] c.type = "pg" -> PGLockTarget(c, env)
      [] OTHER -> NoTarget

\* Two workspaces that are one state by the backends' own rules: no name is the
\* default; a block that names its workspace has only that one; a remote
\* workspace may be called with or without its prefix.
SameState(c, v, w) ==
    LET prefix == Get(c.config, "workspaces: prefix")
    IN  \/ v = w
        \/ IsDefault(v) /\ IsDefault(w)
        \/ /\ c.type \in {"remote", "cloud"}
           /\ Get(c.config, "workspaces: name") # <<>>
        \/ c.type = "remote" /\ (v = prefix \o w \/ w = prefix \o v)
=============================================================================
