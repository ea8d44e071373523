--------------------------- MODULE PeekLockProofs ---------------------------
(* The verdicts of peekLock, for every backend configuration, workspace,      *)
(* setting and bound.                                                         *)
EXTENDS PeekLock, LockTargetsProofs, TLAPS

Mechanisms == Deleting \cup Marking

-----------------------------------------------------------------------------
(* Checkers *)

\* Which check each checker comes to.
LEMMA VerdictByKind ==
    ASSUME NEW a
    PROVE  /\ \A m \in {"s3", "gcs", "oci", "cos"} :
                 Verdict(m, a) = ErrorOr(a, "held")
           /\ \A m \in {"dynamodb", "oss", "consul"} :
                 Verdict(m, a) = LockItem(a)
           /\ \A m \in {"kubernetes", "azurerm", "local", "pg"} :
                 Verdict(m, a) = ErrorOr(a, LockMark(a))
           /\ Verdict("tfe", a) = FailOr(a, LockMark(a))
<1>1. \A m \in {"s3", "gcs", "oci", "cos"} : Verdict(m, a) = ErrorOr(a, "held")
  BY DEF Verdict, PeekS3Lockfile, PeekGCSLockfile, PeekOCILockObject,
         PeekCOSLockObject, LockObject
<1>2. \A m \in {"dynamodb", "oss", "consul"} : Verdict(m, a) = LockItem(a)
  BY DEF Verdict, PeekDynamoDBLock, PeekOSSLockRow, PeekConsulLockInfo
<1>3. \A m \in {"kubernetes", "azurerm", "local", "pg"} :
         Verdict(m, a) = ErrorOr(a, LockMark(a))
  BY DEF Verdict, PeekKubernetesLease, PeekAzurermLease, PeekLocal,
         PeekPgAdvisoryLock
<1>4. Verdict("tfe", a) = FailOr(a, LockMark(a))
  BY DEF Verdict, PeekTFEWorkspaceLock
<1>5. QED
  BY <1>1, <1>2, <1>3, <1>4

LEMMA MechanismKinds ==
    ASSUME NEW m \in Mechanisms
    PROVE  \/ m \in {"s3", "gcs", "oci", "cos"}
           \/ m \in {"dynamodb", "oss", "consul"}
           \/ m \in {"kubernetes", "azurerm", "local", "pg"}
           \/ m = "tfe"
  BY DEF Mechanisms, Deleting, Marking

\* No checker takes a failure for a verdict.
LEMMA FailureTellsNothing ==
    ASSUME NEW m \in Mechanisms
    PROVE  Verdict(m, Failure) = "unknown"
<1>1. Failure.error = "other"
  BY DEF Failure, Answer
<1>2. \A found : /\ ErrorOr(Failure, found) = "unknown"
                 /\ FailOr(Failure, found) = "unknown"
  BY <1>1 DEF ErrorOr, FailOr
<1>3. LockItem(Failure) = "unknown"
  BY <1>2 DEF LockItem
<1>4. QED
  BY <1>2, <1>3, VerdictByKind, MechanismKinds

\* The records there are of a lock.
Possible(m, record, held) ==
    /\ record \in {"absent", "blank", "marked"}
    /\ record = "marked" <=> held
    /\ record = "blank" => m \in Marking

\* Where the record may be read, a read tells whether the lock is held.
LEMMA AnswerTellsLock ==
    ASSUME NEW m \in Mechanisms, NEW container \in BOOLEAN,
           NEW allowed \in BOOLEAN, NEW record, NEW held \in BOOLEAN,
           Possible(m, record, held), held => container,
           NEW a, a = AnswerToRead(m, container, allowed, record)
    PROVE  allowed =>
               /\ a.error = "none" => (a.marked <=> held)
               /\ a.error = "notFound" => ~held
               /\ a.error = "none" /\ m \notin Marking => (a.present <=> held)
               /\ a.error = "none" => a.present \/ m \in EmptyAnswer
<1>1. allowed /\ container /\ record = "marked" =>
         a.error = "none" /\ a.present /\ a.marked
  BY DEF AnswerToRead, Answer
<1>2. allowed /\ container /\ record = "blank" =>
         a.error = "none" /\ a.present /\ ~a.marked
  BY DEF AnswerToRead, Answer
<1>3. allowed /\ container /\ record = "absent" =>
         \/ m \notin EmptyAnswer /\ a.error # "none"
         \/ m \in EmptyAnswer /\ a.error = "none" /\ ~a.present /\ ~a.marked
  BY DEF AnswerToRead, Answer
<1>4. allowed /\ ~container => a.error # "none"
  BY DEF AnswerToRead, Answer
<1>5. QED
  BY <1>1, <1>2, <1>3, <1>4 DEF Possible

\* Without leave to read, an error is all there is.
LEMMA NoLeaveNoAnswer ==
    ASSUME NEW m, NEW container, NEW record, NEW allowed \in BOOLEAN,
           NEW a, a = AnswerToRead(m, container, allowed, record)
    PROVE  ~allowed => a.error # "none"
  BY DEF AnswerToRead, Answer

\* The verdict on an answered read.
LEMMA AnsweredVerdict ==
    ASSUME NEW m \in Mechanisms, NEW container \in BOOLEAN,
           NEW allowed \in BOOLEAN, NEW record, NEW held \in BOOLEAN,
           Possible(m, record, held), held => container
    PROVE  LET v == Verdict(m, AnswerToRead(m, container, allowed, record))
           IN  /\ v = "held" => held
               /\ v = "free" /\ allowed => ~held
<1> DEFINE a == AnswerToRead(m, container, allowed, record)
<1>1. /\ allowed /\ a.error = "none" => (a.marked <=> held)
      /\ allowed /\ a.error = "notFound" => ~held
      /\ allowed /\ a.error = "none" /\ m \notin Marking => (a.present <=> held)
      /\ allowed /\ a.error = "none" => a.present \/ m \in EmptyAnswer
      /\ ~allowed => a.error # "none"
  BY AnswerTellsLock, NoLeaveNoAnswer
<1> HIDE DEF a
<1>2. CASE m \in {"s3", "gcs", "oci", "cos"}
  <2>1. Verdict(m, a) = ErrorOr(a, "held")
    BY <1>2, VerdictByKind
  <2>2. m \notin EmptyAnswer /\ m \notin Marking
    BY <1>2 DEF EmptyAnswer, Marking
  <2>3. Verdict(m, a) = "held" => a.error = "none"
    BY <2>1 DEF ErrorOr
  <2>4. Verdict(m, a) = "free" => a.error = "notFound"
    BY <2>1 DEF ErrorOr
  <2>5. QED
    BY <1>1, <2>2, <2>3, <2>4 DEF a
<1>3. CASE m \in {"dynamodb", "oss", "consul"}
  <2>1. Verdict(m, a) = LockItem(a)
    BY <1>3, VerdictByKind
  <2>2. m \notin Marking
    BY <1>3 DEF Marking
  <2>3. Verdict(m, a) = "held" => a.error = "none" /\ a.present
    BY <2>1 DEF LockItem, FailOr
  <2>4. Verdict(m, a) = "free" => a.error = "none" /\ ~a.present
    BY <2>1 DEF LockItem, FailOr
  <2>5. QED
    BY <1>1, <2>2, <2>3, <2>4 DEF a
<1>4. CASE m \in {"kubernetes", "azurerm", "local", "pg"} \/ m = "tfe"
  <2>1. \/ Verdict(m, a) = ErrorOr(a, LockMark(a))
        \/ Verdict(m, a) = FailOr(a, LockMark(a))
    BY <1>4, VerdictByKind
  <2>2. Verdict(m, a) = "held" => a.error = "none" /\ a.marked
    BY <2>1 DEF ErrorOr, FailOr, LockMark
  <2>3. Verdict(m, a) = "free" =>
           a.error = "notFound" \/ (a.error = "none" /\ ~a.marked)
    BY <2>1 DEF ErrorOr, FailOr, LockMark
  <2>4. QED
    BY <1>1, <2>2, <2>3 DEF a
<1>5. QED
  BY <1>2, <1>3, <1>4, MechanismKinds

-----------------------------------------------------------------------------
(* One read of the lock *)

\* A failed read is unknown.
LEMMA FailedVerdict ==
    ASSUME NEW m \in Mechanisms, NEW container, NEW allowed
    PROVE  VerdictOn(m, "failed", container, allowed) = "unknown"
  BY FailureTellsNothing DEF VerdictOn, Misleading

\* A misled one is never free.
LEMMA MisledVerdict ==
    ASSUME NEW m \in {"local", "pg"}, NEW outcome \in Misleading,
           NEW container, NEW allowed
    PROVE  VerdictOn(m, outcome, container, allowed) = "held"
<1>1. VerdictOn(m, outcome, container, allowed) = Verdict(m, Misled)
  BY DEF VerdictOn, Misleading
<1>2. Misled.error = "none" /\ Misled.marked
  BY DEF Misled, Answer
<1>3. ErrorOr(Misled, LockMark(Misled)) = "held"
  BY <1>2 DEF ErrorOr, LockMark
<1>4. QED
  BY <1>1, <1>3, VerdictByKind

\* Where it is not allowed to read, every checker but one has an error.
LEMMA ForbiddenVerdict ==
    ASSUME NEW m \in Mechanisms, m # "oci", NEW container
    PROVE  VerdictOn(m, "answered", container, FALSE) = "unknown"
<1>1. AnswerToRead(m, container, FALSE, Record(m)) = Failure
  BY DEF AnswerToRead, Failure
<1>2. VerdictOn(m, "answered", container, FALSE)
        = Verdict(m, AnswerToRead(m, container, FALSE, Record(m)))
  BY DEF VerdictOn, Misleading
<1>3. QED
  BY <1>1, <1>2, FailureTellsNothing

LEMMA ReadVerdict ==
    ASSUME NEW m \in Mechanisms, NEW container \in BOOLEAN,
           NEW allowed \in BOOLEAN, Target \in locked => container
    PROVE  LET v == VerdictOn(m, "answered", container, allowed)
           IN  /\ v = "held" => Target \in locked
               /\ v = "free" /\ allowed => Target \notin locked
<1>1. PICK held \in BOOLEAN : held <=> Target \in locked
  OBVIOUS
<1>2. Possible(m, Record(m), held)
  BY <1>1 DEF Possible, Record
<1>3. held => container
  BY <1>1
<1>4. VerdictOn(m, "answered", container, allowed)
        = Verdict(m, AnswerToRead(m, container, allowed, Record(m)))
  BY DEF VerdictOn, Misleading
<1>5. QED
  BY <1>1, <1>2, <1>3, <1>4, AnsweredVerdict

\* Who has a lock has a checker.
LEMMA TargetsHaveCheckers ==
    Target # NoTarget =>
        /\ config.type \in {"s3", "remote", "cloud"} \cup Mechanisms
        /\ config.type = "s3" => UsesLockfile(config) \/ UsesTable(config)
<1>1. Target # NoTarget =>
         config.type \in {"s3", "gcs", "cos", "oci", "oss", "consul",
                          "kubernetes", "azurerm", "remote", "cloud", "local",
                          "pg"}
  BY DEF Target, LockTarget
<1>2. Target # NoTarget /\ config.type = "s3" =>
         UsesLockfile(config) \/ UsesTable(config)
  BY DEF Target, LockTarget, S3LockTarget
<1>3. QED
  BY <1>1, <1>2 DEF Mechanisms, Deleting, Marking

\* What Peek returns, whatever the type.
LEMMA PeekTells ==
    ASSUME NEW outcome \in {"answered", "failed"} \cup Misleading,
           NEW container \in BOOLEAN, NEW allowed \in BOOLEAN,
           Target # NoTarget, Target \in locked => container,
           outcome \in Misleading => config.type \in {"local", "pg"}
    PROVE  LET v == PeekVerdict(outcome, container, allowed)
           IN  /\ outcome = "failed" => v = "unknown"
               /\ outcome = "answered" /\ ~allowed /\ config.type # "oci"
                    => v = "unknown"
               /\ v = "held" /\ outcome = "answered" => Target \in locked
               /\ v = "free" /\ allowed => Target \notin locked
<1> DEFINE on(m) == VerdictOn(m, outcome, container, allowed)
<1>1. ASSUME NEW m \in Mechanisms,
             outcome \in Misleading => m \in {"local", "pg"}
      PROVE  /\ outcome = "failed" => on(m) = "unknown"
             /\ outcome = "answered" /\ ~allowed /\ m # "oci"
                  => on(m) = "unknown"
             /\ on(m) = "held" /\ outcome = "answered" => Target \in locked
             /\ on(m) = "free" /\ allowed => Target \notin locked
  <2>1. CASE outcome = "answered"
    BY <2>1, ReadVerdict, ForbiddenVerdict
  <2>2. CASE outcome = "failed"
    BY <2>2, FailedVerdict
  <2>3. CASE outcome \in Misleading
    <3>1. on(m) = "held"
      <4>1. m \in {"local", "pg"}
        BY <1>1, <2>3
      <4>2. QED
        BY <2>3, <4>1, MisledVerdict
    <3>2. QED
      BY <2>3, <3>1 DEF Misleading
  <2>4. QED
    BY <2>1, <2>2, <2>3
<1> HIDE DEF on
<1>2. CASE config.type = "s3"
  <2>1. {"s3", "dynamodb"} \subseteq Mechanisms \ {"oci"}
    BY DEF Mechanisms, Deleting
  <2>2. PeekVerdict(outcome, container, allowed) =
           IF UsesLockfile(config) /\ on("s3") # "free" THEN on("s3")
           ELSE IF UsesTable(config) THEN on("dynamodb") ELSE "free"
    BY <1>2 DEF PeekVerdict, PeekS3Locks, on
  <2>3. UsesLockfile(config) \/ UsesTable(config)
    BY <1>2, TargetsHaveCheckers
  <2>4. outcome \notin Misleading
    BY <1>2
  <2>5. QED
    BY <1>1, <2>1, <2>2, <2>3, <2>4
<1>3. CASE config.type # "s3"
  <2>1. PICK m \in Mechanisms :
           /\ PeekVerdict(outcome, container, allowed) = on(m)
           /\ m = "oci" => config.type = "oci"
           /\ outcome \in Misleading => m \in {"local", "pg"}
    <3>1. CASE config.type \in {"remote", "cloud"}
      BY <1>3, <3>1 DEF PeekVerdict, on, Mechanisms, Marking
    <3>2. CASE config.type \notin {"remote", "cloud"}
      <4>1. config.type \in Mechanisms
        BY <1>3, <3>2, TargetsHaveCheckers
      <4>2. PeekVerdict(outcome, container, allowed) = on(config.type)
        BY <1>3, <3>2 DEF PeekVerdict, on
      <4>3. QED
        BY <4>1, <4>2
    <3>3. QED
      BY <3>1, <3>2
  <2>2. QED
    BY <1>1, <2>1
<1>4. QED
  BY <1>2, <1>3

-----------------------------------------------------------------------------
(* What Discover puts together *)

\* parraform reads where terraform does, ...
LEMMA SameDataDir ==
    DataDir(env, Directory(argv)) = Here
<1>1. ~IsAbs(<<".terraform">>)
  BY DEF IsAbs
<1>2. QED
  BY <1>1 DEF Here, DataDir, TerraformDataDir, Resolve, OrElse

\* ... and names the workspace as terraform does.
LEMMA SameWorkspace ==
    CurrentWorkspace(env, Directory(argv)) = Found.workspace
  BY SameDataDir
  DEF CurrentWorkspace, Found, TerraformConfig, Here, OrElse

\* The configuration that Discover found, with another workspace.
With(c, w) ==
    [type |-> c.type, config |-> c.config, dir |-> c.dir, workspace |-> w]

LEMMA FoundFields ==
    /\ Found = [type |-> cache[Here].type, config |-> cache[Here].config,
                dir |-> Directory(argv), workspace |-> Found.workspace]
    /\ Get(env, "TF_WORKSPACE") # <<>> =>
          Found.workspace = Get(env, "TF_WORKSPACE")
  BY DEF Found, TerraformConfig, Here

\* Where Discover has read the cache: nothing else yet.
HalfRead ==
    pc = "workspace" => config = With(config, <<>>)

\* It agrees with terraform's as long as the files stay.
ConfigAgrees ==
    /\ pc = "workspace" /\ "cache" \notin stale =>
          With(config, Found.workspace) = Found
    /\ pc \in {"peek", "decided"} /\ seen.outcome # "skipped"
         /\ stale \subseteq Immaterial => config = Found

\* The verdict, told of what was read.
SeenTells ==
    /\ pc # "decided" => seen.verdict = "none" /\ seen.outcome = "none"
    /\ seen.verdict = "held" /\ seen.outcome = "answered" =>
          Target \in seen.locked
    /\ seen.verdict = "free" /\ seen.allowed => Target \notin seen.locked
    /\ seen.outcome = "flockFailed" => config.type = "local"
    /\ ErrorsAreUnknown

VerdictInv == HalfRead /\ ConfigAgrees /\ SeenTells

\* Steps that leave the two files alone.
LEMMA FilesStay ==
    ASSUME UNCHANGED <<inputs, cache, selected>>
    PROVE  Found' = Found /\ Here' = Here
  BY DEF Found, Here, TerraformConfig, TerraformDataDir, Directory, inputs

LEMMA TargetStays ==
    ASSUME config' = config, env' = env
    PROVE  Target' = Target
  BY DEF Target

LEMMA VerdictInvInit == Init => VerdictInv
  BY DEF Init, VerdictInv, HalfRead, ConfigAgrees, SeenTells,
         ErrorsAreUnknown, Uncertain, Swallowed, Seen

LEMMA ReadCacheKeepsVerdicts ==
    ASSUME VerdictInv, ReadCache
    PROVE  VerdictInv'
<1> DEFINE here == cache[Here]
<1>1. Found' = Found
  BY FilesStay DEF ReadCache, files
<1>2. CASE here.type = ""
  <2>1. /\ pc' = "decided" /\ seen' = Seen("unknown", "skipped", TRUE)
    BY <1>2, SameDataDir DEF ReadCache, Decide
  <2>2. QED
    BY <2>1 DEF VerdictInv, HalfRead, ConfigAgrees, SeenTells,
                ErrorsAreUnknown, Uncertain, Swallowed, Seen
<1>3. CASE here.type # ""
  <2>1. /\ pc = "cache" /\ pc' = "workspace" /\ seen' = seen
        /\ config' = [type |-> here.type, config |-> here.config,
                      dir |-> Directory(argv), workspace |-> <<>>]
    BY <1>3, SameDataDir DEF ReadCache
  <2>2. HalfRead'
    BY <2>1 DEF HalfRead, With
  <2>3. With(config', Found.workspace) = Found
    BY <2>1, FoundFields DEF With
  <2>4. ConfigAgrees'
    BY <1>1, <2>1, <2>3 DEF ConfigAgrees
  <2>5. SeenTells'
    BY <2>1 DEF VerdictInv, SeenTells, ErrorsAreUnknown, Uncertain, Swallowed
  <2>6. QED
    BY <2>2, <2>4, <2>5 DEF VerdictInv
<1>4. QED
  BY <1>2, <1>3

LEMMA WorkspaceCompletes ==
    ASSUME HalfRead, ReadWorkspace
    PROVE  config' = With(config, Found.workspace)
<1>1. config = With(config, <<>>)
  BY DEF HalfRead, ReadWorkspace
<1>2. config' = [config EXCEPT !.workspace = Found.workspace]
  BY SameWorkspace DEF ReadWorkspace
<1>3. QED
  BY <1>1, <1>2 DEF With

LEMMA ReadWorkspaceKeepsVerdicts ==
    ASSUME VerdictInv, ReadWorkspace
    PROVE  VerdictInv'
<1>1. /\ pc = "workspace" /\ pc' = "peek"
      /\ UNCHANGED <<inputs, files, backend, seen>>
  BY DEF ReadWorkspace
<1>2. Found' = Found /\ Immaterial' = Immaterial /\ stale' = stale
  BY <1>1, FilesStay DEF files, inputs, Immaterial
<1>3. stale \subseteq Immaterial => config' = Found
  <2>1. config' = With(config, Found.workspace)
    BY WorkspaceCompletes DEF VerdictInv
  <2>2. stale \subseteq Immaterial => "cache" \notin stale
    BY DEF Immaterial
  <2>3. QED
    BY <1>1, <2>1, <2>2 DEF VerdictInv, ConfigAgrees
<1>4. HalfRead' /\ ConfigAgrees'
  BY <1>1, <1>2, <1>3 DEF HalfRead, ConfigAgrees
<1>5. SeenTells'
  BY <1>1 DEF VerdictInv, SeenTells, ErrorsAreUnknown, Uncertain, Swallowed
<1>6. QED
  BY <1>4, <1>5 DEF VerdictInv

LEMMA NotSupportedKeepsVerdicts ==
    ASSUME VerdictInv, NotSupported
    PROVE  VerdictInv'
<1>1. /\ pc = "peek" /\ pc' = "decided"
      /\ seen' = Seen("unknown", "unsupported", TRUE)
      /\ UNCHANGED <<inputs, files, backend, config>>
  BY DEF NotSupported, Decide
<1>2. Found' = Found /\ Immaterial' = Immaterial /\ stale' = stale
  BY <1>1, FilesStay DEF files, inputs, Immaterial
<1>3. seen.outcome # "skipped"
  BY <1>1 DEF VerdictInv, SeenTells
<1>4. HalfRead' /\ ConfigAgrees'
  BY <1>1, <1>2, <1>3 DEF VerdictInv, HalfRead, ConfigAgrees
<1>5. SeenTells'
  BY <1>1 DEF SeenTells, ErrorsAreUnknown, Uncertain, Swallowed, Seen
<1>6. QED
  BY <1>4, <1>5 DEF VerdictInv

LEMMA ReadLockKeepsVerdicts ==
    ASSUME VerdictInv,
           NEW outcome \in {"answered", "failed"} \cup Misleading,
           NEW container \in BOOLEAN, NEW allowed \in BOOLEAN,
           ReadLock(outcome, container, allowed)
    PROVE  VerdictInv'
<1> DEFINE v == PeekVerdict(outcome, container, allowed)
<1>1. /\ pc = "peek" /\ pc' = "decided"
      /\ Target # NoTarget /\ (Target \in locked => container)
      /\ outcome \in Misleading => config.type \in {"local", "pg"}
      /\ outcome = "flockFailed" => config.type = "local"
      /\ seen' = Seen(v, outcome, allowed)
      /\ UNCHANGED <<inputs, files, backend, config>>
  BY DEF ReadLock, Misleading
<1>2. /\ outcome = "failed" => v = "unknown"
      /\ outcome = "answered" /\ ~allowed /\ config.type # "oci"
           => v = "unknown"
      /\ v = "held" /\ outcome = "answered" => Target \in locked
      /\ v = "free" /\ allowed => Target \notin locked
  BY <1>1, PeekTells
<1> HIDE DEF v
<1>3. /\ Found' = Found /\ Immaterial' = Immaterial /\ stale' = stale
      /\ Target' = Target
  BY <1>1, FilesStay, TargetStays DEF files, inputs, Immaterial
<1>4. seen.outcome # "skipped"
  BY <1>1 DEF VerdictInv, SeenTells
<1>5. HalfRead' /\ ConfigAgrees'
  BY <1>1, <1>3, <1>4 DEF VerdictInv, HalfRead, ConfigAgrees
<1>6. /\ seen'.verdict = v /\ seen'.outcome = outcome
      /\ seen'.allowed = allowed /\ seen'.locked = locked
  BY <1>1 DEF Seen
<1>7. SeenTells'
  BY <1>1, <1>2, <1>3, <1>6
  DEF SeenTells, ErrorsAreUnknown, Uncertain, Swallowed, Misleading
<1>8. QED
  BY <1>5, <1>7 DEF VerdictInv

\* Steps that leave alone what the verdict rests on.
LEMMA OthersKeepVerdicts ==
    ASSUME VerdictInv,
           UNCHANGED <<inputs, cache, selected, stale, pc, config, seen>>
    PROVE  VerdictInv'
<1>1. Found' = Found /\ Immaterial' = Immaterial /\ Target' = Target
  BY FilesStay, TargetStays DEF inputs, Immaterial
<1>2. HalfRead' /\ ConfigAgrees'
  BY <1>1 DEF VerdictInv, HalfRead, ConfigAgrees
<1>3. SeenTells'
  BY <1>1 DEF VerdictInv, SeenTells, ErrorsAreUnknown, Uncertain, Swallowed
<1>4. QED
  BY <1>2, <1>3 DEF VerdictInv

LEMMA InitBackendKeepsVerdicts ==
    ASSUME VerdictInv, NEW c \in Configs, InitBackend(c)
    PROVE  VerdictInv'
<1>1. /\ UNCHANGED <<inputs, backend, pc, config, seen>>
      /\ pc # "cache" => "cache" \in stale'
  BY DEF InitBackend, Change
<1>2. HalfRead'
  BY <1>1 DEF VerdictInv, HalfRead
<1>3. "cache" \notin Immaterial'
  BY DEF Immaterial
<1>4. ConfigAgrees'
  BY <1>1, <1>3 DEF ConfigAgrees
<1>5. SeenTells'
  BY <1>1, TargetStays
  DEF VerdictInv, SeenTells, ErrorsAreUnknown, Uncertain, Swallowed, inputs
<1>6. QED
  BY <1>2, <1>4, <1>5 DEF VerdictInv

LEMMA SelectWorkspaceKeepsVerdicts ==
    ASSUME VerdictInv, NEW w \in Workspaces, SelectWorkspace(w)
    PROVE  VerdictInv'
<1>1. /\ UNCHANGED <<inputs, backend, pc, config, seen, cache>>
      /\ stale' = IF pc \in {"cache", "workspace"} THEN stale
                  ELSE stale \cup {"selected"}
  BY DEF SelectWorkspace, Change
<1>2. Here' = Here /\ Immaterial' = Immaterial
  BY <1>1 DEF Here, TerraformDataDir, Directory, Immaterial, inputs
<1>3. HalfRead'
  BY <1>1 DEF VerdictInv, HalfRead
<1>4. ASSUME pc = "workspace", "cache" \notin stale
      PROVE  With(config, Found.workspace)' = Found'
  <2>1. With(config, Found.workspace) = Found
    BY <1>4 DEF VerdictInv, ConfigAgrees
  <2>2. /\ config.type = cache[Here].type /\ config.config = cache[Here].config
        /\ config.dir = Directory(argv)
    BY <2>1, FoundFields DEF With
  <2>3. Found' = [type |-> cache[Here].type, config |-> cache[Here].config,
                  dir |-> Directory(argv), workspace |-> Found'.workspace]
    BY <1>1, <1>2 DEF Found, TerraformConfig, Here, inputs, Directory
  <2>4. QED
    BY <1>1, <2>2, <2>3 DEF With
<1>5. ASSUME pc \in {"peek", "decided"}, seen.outcome # "skipped",
             stale' \subseteq Immaterial
      PROVE  config' = Found'
  <2>1. "selected" \in Immaterial /\ stale \subseteq Immaterial
    BY <1>1, <1>5
  <2>2. Get(env, "TF_WORKSPACE") # <<>>
    BY <2>1 DEF Immaterial
  <2>3. config = Found
    BY <1>5, <2>1 DEF VerdictInv, ConfigAgrees
  <2>4. Found' = Found
    BY <1>1, <1>2, <2>2 DEF Found, TerraformConfig, Here, inputs, Directory
  <2>5. QED
    BY <1>1, <2>3, <2>4
<1>6. ConfigAgrees'
  <2>1. (pc = "workspace" /\ "cache" \notin stale =>
           With(config, Found.workspace) = Found)'
    BY <1>1, <1>4
  <2>2. (pc \in {"peek", "decided"} /\ seen.outcome # "skipped"
           /\ stale \subseteq Immaterial => config = Found)'
    BY <1>1, <1>2, <1>5
  <2>3. QED
    BY <2>1, <2>2 DEF ConfigAgrees
<1>7. SeenTells'
  BY <1>1, TargetStays
  DEF VerdictInv, SeenTells, ErrorsAreUnknown, Uncertain, Swallowed, inputs
<1>8. QED
  BY <1>3, <1>6, <1>7 DEF VerdictInv

LEMMA SkipPeekKeepsVerdicts ==
    ASSUME VerdictInv, SkipPeek
    PROVE  VerdictInv'
  BY DEF SkipPeek, Decide, VerdictInv, HalfRead, ConfigAgrees, SeenTells,
         ErrorsAreUnknown, Uncertain, Swallowed, Seen

LEMMA VerdictInvariant == Spec => []VerdictInv
<1>1. Init => VerdictInv
  BY VerdictInvInit
<1>2. VerdictInv /\ [Next]_vars => VerdictInv'
  <2> SUFFICES ASSUME VerdictInv, [Next]_vars
               PROVE  VerdictInv'
    OBVIOUS
  <2>1. CASE SkipPeek
    BY <2>1, SkipPeekKeepsVerdicts
  <2>2. CASE ReadCache
    BY <2>2, ReadCacheKeepsVerdicts
  <2>3. CASE ReadWorkspace
    BY <2>3, ReadWorkspaceKeepsVerdicts
  <2>4. CASE NotSupported
    BY <2>4, NotSupportedKeepsVerdicts
  <2>5. ASSUME NEW outcome \in {"answered", "failed"} \cup Misleading,
               NEW container \in BOOLEAN, NEW allowed \in BOOLEAN,
               ReadLock(outcome, container, allowed)
        PROVE  VerdictInv'
    BY <2>5, ReadLockKeepsVerdicts
  <2>6. ASSUME NEW c \in Configs, InitBackend(c)
        PROVE  VerdictInv'
    BY <2>6, InitBackendKeepsVerdicts
  <2>7. ASSUME NEW w \in Workspaces, SelectWorkspace(w)
        PROVE  VerdictInv'
    BY <2>7, SelectWorkspaceKeepsVerdicts
  <2>8. CASE Lock \/ Unlock
    BY <2>8, OthersKeepVerdicts DEF Lock, Unlock, files
  <2>9. CASE UNCHANGED vars
    BY <2>9, OthersKeepVerdicts DEF vars, files
  <2>10. QED
    BY <2>1, <2>2, <2>3, <2>4, <2>5, <2>6, <2>7, <2>8, <2>9 DEF Next
<1>3. QED
  BY <1>1, <1>2, PTL DEF Spec

(* If nobody changes the backend or the workspace behind parraform's back, a  *)
(* verdict of peekLock is true of the lock of the state terraform plans on,   *)
(* whatever the backend and wherever -chdir and the environment lead.         *)
THEOREM VerdictsAreTruthful == Spec => []VerdictTruthful
<1>1. VerdictInv => VerdictTruthful
  <2> SUFFICES ASSUME VerdictInv, pc = "decided", stale \subseteq Immaterial,
                      seen.verdict \in {"held", "free"}
               PROVE  VerdictTruthful
    BY DEF VerdictTruthful
  <2>1. seen.outcome # "skipped"
    BY DEF VerdictInv, SeenTells, ErrorsAreUnknown, Uncertain, Swallowed
  <2>2. config = Found
    BY <2>1 DEF VerdictInv, ConfigAgrees
  <2>3. QED
    BY <2>2 DEF VerdictInv, SeenTells, VerdictTruthful, Target
<1>2. QED
  BY <1>1, VerdictInvariant, PTL

(* Nothing that goes wrong becomes a verdict but for a failing flock and for  *)
(* what oci hides, whatever the backend and whatever went before.             *)
THEOREM ErrorsTellNothing == Spec => []ErrorsAreUnknown
<1>1. VerdictInv => ErrorsAreUnknown
  BY DEF VerdictInv, SeenTells
<1>2. QED
  BY <1>1, VerdictInvariant, PTL
-----------------------------------------------------------------------------
(* A pair that was real *)

PastInv ==
    /\ pc = "cache" => config.type = ""
    /\ pc \in {"cache", "workspace"} => Found \in past
    /\ pc = "workspace" /\ ~torn => With(config, Found.workspace) \in past
    /\ PairWasReal

RealInv == VerdictInv /\ PastInv

\* What a change of the files adds to the past.
LEMMA PastGrows ==
    ASSUME NEW cache_, NEW selected_, Change(cache_, selected_),
           pc \in {"cache", "workspace"}
    PROVE  past' = past \cup {Found'}
  BY DEF Change, Found, inputs

LEMMA InitBackendKeepsPast ==
    ASSUME RealInv, NEW c \in Configs, InitBackend(c)
    PROVE  PastInv'
<1>1. /\ UNCHANGED <<inputs, backend, pc, config, seen, selected, torn>>
      /\ past \subseteq past'
      /\ pc \in {"cache", "workspace"} => Found' \in past'
  BY PastGrows DEF InitBackend, Change
<1>2. Found'.workspace = Found.workspace
  BY <1>1 DEF Found, TerraformConfig, TerraformDataDir, Directory, inputs
<1>3. PairWasReal'
  BY <1>1 DEF RealInv, PastInv, PairWasReal
<1>4. (pc = "workspace" /\ ~torn => With(config, Found.workspace) \in past)'
  BY <1>1, <1>2 DEF RealInv, PastInv, With
<1>5. QED
  BY <1>1, <1>3, <1>4 DEF RealInv, PastInv

LEMMA SelectWorkspaceKeepsPast ==
    ASSUME RealInv, NEW w \in Workspaces, SelectWorkspace(w)
    PROVE  PastInv'
<1>1. /\ UNCHANGED <<inputs, backend, pc, config, seen>>
      /\ past \subseteq past'
      /\ pc \in {"cache", "workspace"} => Found' \in past'
      /\ pc \in {"cache", "workspace"} => stale' = stale
      /\ ~torn' => ~torn /\ ~(pc = "workspace" /\ "cache" \in stale)
  BY PastGrows DEF SelectWorkspace, Change
<1>2. PairWasReal'
  BY <1>1 DEF RealInv, PastInv, PairWasReal
<1>3. (pc = "workspace" /\ ~torn => With(config, Found.workspace) \in past)'
  <2> SUFFICES ASSUME pc = "workspace", ~torn'
               PROVE  With(config', Found'.workspace) \in past'
    BY <1>1
  <2>1. "cache" \notin stale'
    BY <1>1
  <2>2. VerdictInv'
    BY SelectWorkspaceKeepsVerdicts DEF RealInv
  <2>3. With(config', Found'.workspace) = Found'
    BY <1>1, <2>1, <2>2 DEF VerdictInv, ConfigAgrees
  <2>4. QED
    BY <1>1, <2>3
<1>4. QED
  BY <1>1, <1>2, <1>3 DEF RealInv, PastInv

LEMMA OthersKeepPast ==
    ASSUME PastInv,
           UNCHANGED <<inputs, cache, selected, torn, past, pc, config>>
    PROVE  PastInv'
  BY FilesStay DEF PastInv, PairWasReal, With

\* Each read of Discover.
LEMMA DiscoverKeepsPast ==
    ASSUME RealInv, ReadCache \/ ReadWorkspace
    PROVE  PastInv'
<1>1. Found' = Found /\ past' = past /\ torn' = torn
  BY FilesStay DEF ReadCache, ReadWorkspace, files
<1>2. CASE ReadCache
  <2>1. pc = "cache" /\ SeenTells /\ Found \in past
    BY <1>2 DEF ReadCache, RealInv, VerdictInv, PastInv
  <2>2. CASE pc' = "workspace"
    <3>1. config' = [type |-> cache[Here].type, config |-> cache[Here].config,
                     dir |-> Directory(argv), workspace |-> <<>>]
      BY <1>2, <2>2, SameDataDir DEF ReadCache, Decide
    <3>2. With(config', Found.workspace) = Found
      BY <3>1, FoundFields DEF With
    <3>3. QED
      BY <1>1, <2>1, <2>2, <3>2 DEF PastInv, PairWasReal
  <2>3. CASE pc' # "workspace"
    <3>1. pc' = "decided" /\ config' = config
      BY <1>2, <2>3 DEF ReadCache, Decide
    <3>2. QED
      BY <1>1, <2>1, <3>1 DEF RealInv, PastInv, PairWasReal
  <2>4. QED
    BY <2>2, <2>3
<1>3. CASE ReadWorkspace
  <2>1. pc = "workspace" /\ pc' = "peek"
    BY <1>3 DEF ReadWorkspace
  <2>2. config' = With(config, Found.workspace)
    BY <1>3, WorkspaceCompletes DEF RealInv, VerdictInv
  <2>3. QED
    BY <1>1, <2>1, <2>2 DEF RealInv, PastInv, PairWasReal
<1>4. QED
  BY <1>2, <1>3
\* Each of the other steps that end the peek.
LEMMA DecisionKeepsPast ==
    ASSUME PastInv, UNCHANGED <<inputs, files, config>>,
           pc' = "decided", pc = "peek" \/ pc = "cache"
    PROVE  PastInv'
<1>1. Found' = Found /\ past' = past /\ torn' = torn
  BY FilesStay DEF files
<1>2. QED
  BY <1>1 DEF PastInv, PairWasReal

LEMMA PastInvariant == Spec => []PastInv
<1>1. Init => PastInv
  <2>1. Init => pc = "cache" /\ config = NoConfig /\ past = {Found}
    BY DEF Init
  <2>2. NoConfig.type = ""
    BY DEF NoConfig
  <2>3. QED
    BY <2>1, <2>2 DEF PastInv, PairWasReal
<1>2. VerdictInv /\ PastInv /\ [Next]_vars => PastInv'
  <2> SUFFICES ASSUME RealInv, [Next]_vars
               PROVE  PastInv'
    BY DEF RealInv
  <2>1. CASE SkipPeek \/ NotSupported
    BY <2>1, DecisionKeepsPast DEF RealInv, SkipPeek, NotSupported, Decide
  <2>2. CASE ReadCache \/ ReadWorkspace
    BY <2>2, DiscoverKeepsPast
  <2>3. ASSUME NEW outcome, NEW container, NEW allowed,
               ReadLock(outcome, container, allowed)
        PROVE  PastInv'
    BY <2>3, DecisionKeepsPast DEF RealInv, ReadLock
  <2>4. ASSUME NEW c \in Configs, InitBackend(c)
        PROVE  PastInv'
    BY <2>4, InitBackendKeepsPast
  <2>5. ASSUME NEW w \in Workspaces, SelectWorkspace(w)
        PROVE  PastInv'
    BY <2>5, SelectWorkspaceKeepsPast
  <2>6. CASE Lock \/ Unlock
    BY <2>6, OthersKeepPast DEF RealInv, Lock, Unlock, files
  <2>7. CASE UNCHANGED vars
    BY <2>7, OthersKeepPast DEF RealInv, vars, files
  <2>8. QED
    BY <2>1, <2>2, <2>3, <2>4, <2>5, <2>6, <2>7 DEF Next
<1>3. QED
  BY <1>1, <1>2, VerdictInvariant, PTL DEF Spec

(* Unless first the backend and then the workspace changed between the two    *)
(* reads, what Discover returns is what terraform would have found at some    *)
(* moment of them.                                                            *)
THEOREM DiscoveredPairWasReal == Spec => []PairWasReal
<1>1. PastInv => PairWasReal
  BY DEF PastInv
<1>2. QED
  BY <1>1, PastInvariant, PTL

-----------------------------------------------------------------------------
(* Types *)

LEMMA HereIsADirectory ==
    ASSUME NEW s \in Settings, argv = s.argv, env = s.env
    PROVE  Here \in Directories
  BY DEF Here, Directories

LEMMA VerdictTypes ==
    ASSUME NEW outcome \in {"answered", "failed"} \cup Misleading,
           NEW container, NEW allowed, Target # NoTarget
    PROVE  PeekVerdict(outcome, container, allowed)
              \in {"unknown", "free", "held"}
<1> DEFINE verdicts == {"unknown", "free", "held"}
<1>1. ASSUME NEW a, NEW found \in {"free", "held"}
      PROVE  ErrorOr(a, found) \in verdicts /\ FailOr(a, found) \in verdicts
  BY DEF ErrorOr, FailOr
<1>2. ASSUME NEW a
      PROVE  /\ ErrorOr(a, LockMark(a)) \in verdicts
             /\ FailOr(a, LockMark(a)) \in verdicts
             /\ LockItem(a) \in verdicts
  BY <1>1 DEF LockMark, LockItem
<1>3. ASSUME NEW a, NEW m \in Mechanisms
      PROVE  Verdict(m, a) \in verdicts
  BY <1>1, <1>2, VerdictByKind, MechanismKinds
<1>4. ASSUME NEW m \in Mechanisms
      PROVE  VerdictOn(m, outcome, container, allowed) \in verdicts
  BY <1>3 DEF VerdictOn
<1>5. {"s3", "dynamodb", "tfe"} \subseteq Mechanisms
  BY DEF Mechanisms, Deleting, Marking
<1>6. CASE config.type = "s3"
  BY <1>4, <1>5, <1>6 DEF PeekVerdict, PeekS3Locks
<1>7. CASE config.type \in {"remote", "cloud"}
  BY <1>4, <1>5, <1>7 DEF PeekVerdict
<1>8. CASE config.type \notin {"s3", "remote", "cloud"}
  <2>1. config.type \in Mechanisms
    BY <1>8, TargetsHaveCheckers
  <2>2. PeekVerdict(outcome, container, allowed)
           = VerdictOn(config.type, outcome, container, allowed)
    BY <1>8 DEF PeekVerdict
  <2>3. QED
    BY <1>4, <2>1, <2>2
<1>9. QED
  BY <1>6, <1>7, <1>8

\* Discover always names a workspace.
LEMMA WorkspaceNamed == Found.workspace # <<>>
  BY DEF Found, TerraformConfig, Default

TypeInv ==
    /\ TypeOK
    /\ pc = "workspace" => config.type # ""
LEMMA TypeInvInit == Init => TypeInv
<1> SUFFICES ASSUME Init
             PROVE  TypeInv
  OBVIOUS
<1>1. PICK s \in Settings : argv = s.argv /\ env = s.env
  BY DEF Init
<1>2. cache \in [Directories -> Configs \cup {NoBackend}]
  <2>1. PICK c \in Configs \cup {NoBackend} : \E other \in Rivals[c] :
           cache = [d \in Directories |-> IF d = Here THEN c ELSE other]
    BY DEF Init
  <2>2. PICK other \in Rivals[c] :
           cache = [d \in Directories |-> IF d = Here THEN c ELSE other]
    BY <2>1
  <2>3. other \in Configs
    BY RivalsAssumption, <2>2
  <2>4. QED
    BY <2>2, <2>3
<1>3. seen.verdict = "none" /\ seen.outcome = "none"
  BY DEF Init, Seen
<1>4. /\ locked = {} /\ blank = {} /\ pc = "cache" /\ stale = {}
  BY DEF Init
<1>5. QED
  BY <1>1, <1>2, <1>3, <1>4 DEF TypeInv, TypeOK, Outcomes

LEMMA TypeInvChange ==
    ASSUME TypeInv, NEW cache_, NEW selected_, Change(cache_, selected_),
           cache' \in [Directories -> Configs \cup {NoBackend}],
           stale' \subseteq {"cache", "selected"}
    PROVE  TypeInv'
  BY DEF TypeInv, TypeOK, Change, inputs, backend

LEMMA TypeInvDecided ==
    ASSUME TypeInv, UNCHANGED <<inputs, files, backend>>, pc' = "decided",
           seen'.verdict \in {"unknown", "free", "held"},
           seen'.outcome \in Outcomes \ {"none"}
    PROVE  TypeInv'
  BY DEF TypeInv, TypeOK, inputs, files, backend

(* Types of peekLock, for every set of configurations, directories and        *)
(* workspaces; when it reads a lock it has a backend and a workspace.         *)
THEOREM PeekTypeCorrect == Spec => []TypeOK
<1>1. Init => TypeInv
  BY TypeInvInit
<1>2. VerdictInv /\ TypeInv /\ [Next]_vars => TypeInv'
  <2> SUFFICES ASSUME VerdictInv, TypeInv, [Next]_vars
               PROVE  TypeInv'
    OBVIOUS
  <2>1. CASE SkipPeek \/ NotSupported
    <3>1. /\ seen'.verdict = "unknown"
          /\ seen'.outcome \in {"skipped", "unsupported"}
      BY <2>1 DEF SkipPeek, NotSupported, Decide, Seen
    <3>2. pc' = "decided" /\ UNCHANGED <<inputs, files, backend>>
      BY <2>1 DEF SkipPeek, NotSupported, Decide
    <3>3. QED
      BY <3>1, <3>2, TypeInvDecided DEF Outcomes
  <2>2. CASE ReadCache
    <3>1. UNCHANGED <<inputs, files, backend>>
      BY <2>2 DEF ReadCache
    <3>2. CASE cache[Here].type = ""
      <4>1. pc' = "decided" /\ seen' = Seen("unknown", "skipped", TRUE)
        BY <2>2, <3>2, SameDataDir DEF ReadCache, Decide
      <4>2. seen'.verdict = "unknown" /\ seen'.outcome = "skipped"
        BY <4>1 DEF Seen
      <4>3. QED
        BY <3>1, <4>1, <4>2, TypeInvDecided DEF Outcomes
    <3>3. CASE cache[Here].type # ""
      <4>1. /\ pc = "cache" /\ pc' = "workspace" /\ seen' = seen
            /\ config' =
                 [type |-> cache[Here].type, config |-> cache[Here].config,
                  dir |-> Directory(argv), workspace |-> <<>>]
        BY <2>2, <3>3, SameDataDir DEF ReadCache
      <4>2. config'.type # ""
        BY <3>3, <4>1
      <4>3. QED
        BY <3>1, <4>1, <4>2 DEF TypeInv, TypeOK, inputs, files, backend
    <3>4. QED
      BY <3>2, <3>3
  <2>3. CASE ReadWorkspace
    <3>1. /\ UNCHANGED <<inputs, files, backend, seen>>
          /\ pc = "workspace" /\ pc' = "peek"
      BY <2>3 DEF ReadWorkspace
    <3>2. config'.type = config.type /\ config'.workspace # <<>>
      BY <2>3, WorkspaceCompletes, WorkspaceNamed DEF VerdictInv, With
    <3>3. QED
      BY <3>1, <3>2 DEF TypeInv, TypeOK, inputs, files, backend
  <2>4. ASSUME NEW outcome \in {"answered", "failed"} \cup Misleading,
               NEW container \in BOOLEAN, NEW allowed \in BOOLEAN,
               ReadLock(outcome, container, allowed)
        PROVE  TypeInv'
    <3>1. /\ UNCHANGED <<inputs, files, backend>> /\ pc' = "decided"
          /\ seen' = Seen(PeekVerdict(outcome, container, allowed),
                          outcome, allowed)
          /\ Target # NoTarget
      BY <2>4 DEF ReadLock
    <3>2. seen'.verdict \in {"unknown", "free", "held"}
      BY <3>1, VerdictTypes DEF Seen
    <3>3. seen'.outcome = outcome
      BY <3>1 DEF Seen
    <3>4. QED
      BY <3>1, <3>2, <3>3, TypeInvDecided DEF Outcomes, Misleading
  <2>5. ASSUME NEW c \in Configs, InitBackend(c)
        PROVE  TypeInv'
    <3>1. cache' = [cache EXCEPT ![Here] = c]
      BY <2>5 DEF InitBackend, Change
    <3>2. cache' \in [Directories -> Configs \cup {NoBackend}]
      BY <3>1 DEF TypeInv, TypeOK
    <3>3. stale' \subseteq {"cache", "selected"}
      BY <2>5 DEF InitBackend, TypeInv, TypeOK
    <3>4. QED
      BY <2>5, <3>2, <3>3, TypeInvChange DEF InitBackend
  <2>6. ASSUME NEW w \in Workspaces, SelectWorkspace(w)
        PROVE  TypeInv'
    <3>1. cache' = cache /\ stale' \subseteq {"cache", "selected"}
      BY <2>6 DEF SelectWorkspace, Change, TypeInv, TypeOK
    <3>2. QED
      BY <2>6, <3>1, TypeInvChange DEF SelectWorkspace, TypeInv, TypeOK
  <2>7. CASE Lock
    BY <2>7 DEF Lock, TypeInv, TypeOK, inputs, files
  <2>8. CASE Unlock
    BY <2>8 DEF Unlock, TypeInv, TypeOK, inputs, files
  <2>9. CASE UNCHANGED vars
    BY <2>9 DEF vars, TypeInv, TypeOK, inputs, files, backend
  <2>10. QED
    BY <2>1, <2>2, <2>3, <2>4, <2>5, <2>6, <2>7, <2>8, <2>9 DEF Next
<1>3. TypeInv => TypeOK
  BY DEF TypeInv
<1>4. QED
  BY <1>1, <1>2, <1>3, VerdictInvariant, PTL DEF Spec

\* Only what terraform init left in the cache is ever peeked at.
TypeWasCached == config.type \in {""} \cup {c.type : c \in Configs}

LEMMA TypeWasCachedHolds == Spec => []TypeWasCached
<1>1. Init => TypeWasCached
  <2>1. NoConfig.type = ""
    BY DEF NoConfig
  <2>2. Init => config = NoConfig
    BY DEF Init
  <2>3. QED
    BY <2>1, <2>2 DEF TypeWasCached
<1>2. TypeOK /\ TypeWasCached /\ [Next]_vars => TypeWasCached'
  <2> SUFFICES ASSUME TypeOK, TypeWasCached, [Next]_vars
               PROVE  TypeWasCached'
    OBVIOUS
  <2>1. CASE ReadCache
    <3>1. \/ config' = config
          \/ cache[Here].type # "" /\ config'.type = cache[Here].type
      <4>1. CASE cache[Here].type = ""
        BY <2>1, <4>1, SameDataDir DEF ReadCache
      <4>2. CASE cache[Here].type # ""
        <5>1. config' = [type |-> cache[Here].type,
                         config |-> cache[Here].config,
                         dir |-> Directory(argv), workspace |-> <<>>]
          BY <2>1, <4>2, SameDataDir DEF ReadCache
        <5>2. QED
          BY <4>2, <5>1
      <4>3. QED
        BY <4>1, <4>2
    <3>2. Here \in Directories
      BY HereIsADirectory DEF TypeOK
    <3>3. cache[Here] \in Configs \cup {NoBackend} /\ NoBackend.type = ""
      BY <3>2 DEF TypeOK, NoBackend
    <3>4. QED
      BY <3>1, <3>3 DEF TypeWasCached
  <2>2. CASE ReadWorkspace
    <3>1. config'.type = config.type
      BY <2>2 DEF ReadWorkspace
    <3>2. QED
      BY <3>1 DEF TypeWasCached
  <2>3. CASE config' = config
    BY <2>3 DEF TypeWasCached
  <2>4. QED
    BY <2>1, <2>2, <2>3
    DEF Next, SkipPeek, NotSupported, ReadLock, InitBackend, SelectWorkspace,
        Change, Lock, Unlock, vars
<1>3. QED
  BY <1>1, <1>2, PeekTypeCorrect, PTL DEF Spec

(* With every other backend than local and oci, whatever goes wrong is        *)
(* unknown: the comment on peekLock is true of them, and these two are the    *)
(* only ones that run flock and run hidden can show.                          *)
THEOREM OnlyTwoSwallow ==
    ASSUME \A c \in Configs : c.type \notin {"local", "oci"}
    PROVE  Spec => []UncertaintyIsUnknown
<1>1. VerdictInv /\ TypeWasCached => UncertaintyIsUnknown
  <2> SUFFICES ASSUME VerdictInv, TypeWasCached, Uncertain
               PROVE  seen.verdict = "unknown"
    BY DEF UncertaintyIsUnknown
  <2>1. config.type \notin {"local", "oci"}
    BY DEF TypeWasCached
  <2>2. ~Swallowed /\ ErrorsAreUnknown
    BY <2>1 DEF VerdictInv, SeenTells, Swallowed
  <2>3. QED
    BY <2>2 DEF ErrorsAreUnknown
<1>2. QED
  BY <1>1, VerdictInvariant, TypeWasCachedHolds, PTL

-----------------------------------------------------------------------------
(* Names *)

(* No workspace of a backend has the lock of another one, whatever characters *)
(* attributes, workspaces and paths are made of.                              *)
THEOREM NamesAreApart == Spec => []NamesApart
<1>1. TypeOK => NamesApart
  <2> SUFFICES ASSUME TypeOK, NEW v \in Workspaces, NEW w \in Workspaces,
                      LockOf(Found, v) = LockOf(Found, w),
                      LockOf(Found, v) # NoTarget
               PROVE  SameState(Found, v, w)
    BY DEF NamesApart
  <2>1. PICK s \in Settings : argv = s.argv /\ env = s.env
    BY DEF TypeOK
  <2>2. cache[Here] \in Configs \cup {NoBackend}
    BY <2>1, HereIsADirectory DEF TypeOK
  <2>3. \A n : Get(cache[Here].config, n) \in Text
    <3>1. <<>> \in Text
      BY EmptySeq DEF Text
    <3>2. CASE cache[Here] \in Configs
      BY <3>1, <3>2, TextsAssumption DEF Get
    <3>3. CASE cache[Here] = NoBackend
      <4>1. cache[Here].config = <<>>
        <5>1. NoBackend.config = <<>>
          BY DEF NoBackend
        <5>2. QED
          BY <3>3, <5>1
      <4>2. \A n : Get(<<>>, n) = <<>>
        BY DEF Get
      <4>3. QED
        BY <3>1, <4>1, <4>2
    <3>4. QED
      BY <2>2, <3>2, <3>3
  <2>4. Directory(argv) \in Text /\ v \in Text /\ w \in Text
    BY <2>1, TextsAssumption
  <2> DEFINE c == With(Found, v)
             d == With(Found, w)
  <2>5. [Found EXCEPT !.workspace = v] = c /\ [Found EXCEPT !.workspace = w] = d
    BY FoundFields DEF With
  <2>6. LockTarget(c, env) = LockTarget(d, env) /\ LockTarget(c, env) # NoTarget
    BY <2>5 DEF LockOf
  <2>7. /\ c.workspace = v /\ d.workspace = w
        /\ c.config = cache[Here].config /\ d.config = cache[Here].config
        /\ c.dir = Directory(argv) /\ d.dir = Directory(argv)
        /\ c.type = Found.type /\ d.type = Found.type
        /\ c.config = Found.config
    BY FoundFields DEF With
  <2> HIDE DEF c, d
  <2>8. Siblings(c, d)
    BY <2>3, <2>4, <2>7 DEF Siblings
  <2>9. SameState(c, v, w)
    BY <2>6, <2>7, <2>8, LocksApart
  <2>10. QED
    BY <2>7, <2>9 DEF SameState
<1>2. QED
  BY <1>1, PeekTypeCorrect, PTL
=============================================================================
