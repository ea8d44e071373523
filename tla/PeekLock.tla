------------------------------ MODULE PeekLock ------------------------------
(* From a command line to a verdict: peekLock (src/cmd/parraform/main.go)     *)
(* finds the backend and the workspace in two files (src/internal/backendcfg),*)
(* derives the lock from them (LockTargets) and reads it (Checkers), and      *)
(* terraform then finds backend and workspace for itself.  Beside it others   *)
(* run terraform init and terraform workspace select in the same directory,   *)
(* and terraform processes anywhere lock and unlock states.                   *)
EXTENDS LockTargets, Checkers, TFArgs, FiniteSets

CONSTANTS
    Configs,     \* what terraform init may leave in the cache
    Rivals,      \* for each of them those that may take its place
    Workspaces,  \* the workspaces there are
    Settings,    \* pairs of a command line and an environment
    Cwd,         \* the working directory
    MaxChanges,  \* bound on changes of the two files
    MaxLocked,   \* bound on locks held at a time
    MaxRecords   \* bound on lock records there are at a time

\* A cache that is missing, cannot be read or names no backend.
NoBackend == [type |-> "", config |-> <<>>]

ASSUME RivalsAssumption ==
    Rivals \in [Configs \cup {NoBackend} -> SUBSET Configs]

VARIABLES
    argv, env,  \* parraform's arguments and environment
    cache,      \* terraform.tfstate in each data directory
    selected,   \* the file "environment" in each, <<>> if there is none
    locked,     \* the locks held
    blank,      \* lock records without a mark
    pc,         \* where peekLock is
    config,     \* what Discover found
    seen,       \* the verdict, and history of the read it rests on
    changes,    \* how often the two files changed
    stale,      \* history: the files that changed after parraform read them
    torn,       \* history: the cache and then the workspace changed between
                \* parraform's two reads
    past        \* history: what terraform would have found at any moment of
                \* the two reads

files   == <<cache, selected, changes, stale, torn, past>>
backend == <<locked, blank>>
inputs  == <<argv, env>>
vars    == <<inputs, files, backend, pc, config, seen>>

-----------------------------------------------------------------------------
\* Where the command runs (peekLock), and its data directory (dataDir).
Resolve(dir, path) == IF IsAbs(path) THEN path ELSE Slash(dir, path)

Directory(a) == Resolve(Cwd, Chdir(a))

ASSUME TextsAssumption ==
    /\ \A c \in Configs : \A n \in DOMAIN c.config : c.config[n] \in Text
    /\ Workspaces \subseteq Text
    /\ \A s \in Settings : Directory(s.argv) \in Text

\* Wrong: TF_DATA_DIR is not looked at.
DataDirFixed(e, dir) == Slash(dir, <<".terraform">>)

DataDir(e, dir) ==
    LET d == Get(e, "TF_DATA_DIR")
    IN  IF d # <<>> THEN Resolve(dir, d) ELSE Slash(dir, <<".terraform">>)

\* Wrong: the file goes before TF_WORKSPACE.
CurrentWorkspaceFile(e, dir) ==
    OrElse(selected[DataDir(e, dir)], OrElse(Get(e, "TF_WORKSPACE"), Default))

\* Wrong: an empty file, or none, gives an empty name.
CurrentWorkspaceEmpty(e, dir) ==
    OrElse(Get(e, "TF_WORKSPACE"), selected[DataDir(e, dir)])

CurrentWorkspace(e, dir) ==
    OrElse(Get(e, "TF_WORKSPACE"), OrElse(selected[DataDir(e, dir)], Default))

\* Terraform for itself, as the comments on dataDir, currentWorkspace and Chdir
\* tell: first -chdir, then TF_DATA_DIR from there, then TF_WORKSPACE or the
\* file; no file is the default workspace.
TerraformDataDir(a, e) ==
    Resolve(Directory(a), OrElse(Get(e, "TF_DATA_DIR"), <<".terraform">>))

TerraformConfig(a, e, files_) ==
    LET here == files_.cache[TerraformDataDir(a, e)]
        file == files_.selected[TerraformDataDir(a, e)]
    IN  [type |-> here.type, config |-> here.config, dir |-> Directory(a),
         workspace |-> IF Get(e, "TF_WORKSPACE") # <<>>
                       THEN Get(e, "TF_WORKSPACE")
                       ELSE IF file = <<>> THEN Default ELSE file]

Here == TerraformDataDir(argv, env)
Found == TerraformConfig(argv, env, [cache |-> cache, selected |-> selected])

NoConfig == [type |-> "", config |-> <<>>, dir |-> <<>>, workspace |-> <<>>]

Seen(verdict, outcome, allowed) ==
    [verdict |-> verdict, outcome |-> outcome, allowed |-> allowed,
     locked |-> locked]

Directories ==
    {TerraformDataDir(s.argv, s.env) : s \in Settings}
      \cup {Slash(Directory(s.argv), <<".terraform">>) : s \in Settings}

\* The other data directories hold what another project left there.
Init ==
    /\ \E s \in Settings : argv = s.argv /\ env = s.env
    /\ \E c \in Configs \cup {NoBackend} : \E other \in Rivals[c] :
         cache = [d \in Directories |-> IF d = Here THEN c ELSE other]
    /\ \E w \in Workspaces :
         selected = [d \in Directories |-> IF d = Here /\ w # Default THEN w
                                           ELSE <<>>]
    /\ locked = {} /\ blank = {}
    /\ pc = "cache"
    /\ config = NoConfig
    /\ seen = Seen("none", "none", TRUE)
    /\ changes = 0
    /\ stale = {} /\ torn = FALSE
    /\ past = {Found}

-----------------------------------------------------------------------------
(* parraform *)

Decide(outcome) ==
    /\ pc' = "decided"
    /\ seen' = Seen("unknown", outcome, TRUE)

\* A timeout of 0, or no working directory.
SkipPeek ==
    /\ pc = "cache"
    /\ Decide("skipped")
    /\ UNCHANGED <<inputs, files, backend, config>>

\* Discover: the cache file, which may not give a backend.
ReadCache ==
    /\ pc = "cache"
    /\ LET here == cache[DataDir(env, Directory(argv))]
       IN  IF here.type = ""
           THEN Decide("skipped") /\ config' = config
           ELSE /\ pc' = "workspace"
                /\ config' = [type |-> here.type, config |-> here.config,
                              dir |-> Directory(argv), workspace |-> <<>>]
                /\ seen' = seen
    /\ UNCHANGED <<inputs, files, backend>>

\* currentWorkspace
ReadWorkspace ==
    /\ pc = "workspace"
    /\ pc' = "peek"
    /\ config' = [config EXCEPT !.workspace =
                     CurrentWorkspace(env, Directory(argv))]
    /\ UNCHANGED <<inputs, files, backend, seen>>

Target == LockTarget(config, env)

\* No checker for the type (For), or a configuration without a lock.
NotSupported ==
    /\ pc = "peek"
    /\ Target = NoTarget
    /\ Decide("unsupported")
    /\ UNCHANGED <<inputs, files, backend, config>>

Record(mechanism) ==
    IF Target \in locked THEN "marked"
    ELSE IF mechanism \in Marking /\ Target \in blank THEN "blank"
    ELSE "absent"

\* A lock that another parraform has taken for a moment to probe it, and a
\* flock that fails for a reason of its own (ENOLCK, EBADF), look like a lock
\* held.
Misleading == {"probed", "flockFailed"}
Misled == Answer("none", TRUE, TRUE)

\* The verdict on one lock, and on what the configuration locks with:
\* checker.Peek.  peekS3Locks stops at the first lock that is not free.
VerdictOn(mechanism, outcome, container, allowed) ==
    Verdict(mechanism,
        CASE outcome = "failed" -> Failure
          [] outcome \in Misleading -> Misled
          [] outcome = "answered" ->
                AnswerToRead(mechanism, container, allowed, Record(mechanism)))

PeekS3Locks(outcome, container, allowed) ==
    LET lockfile == VerdictOn("s3", outcome, container, allowed)
    IN  IF UsesLockfile(config) /\ lockfile # "free" THEN lockfile
        ELSE IF UsesTable(config)
        THEN VerdictOn("dynamodb", outcome, container, allowed)
        ELSE "free"

PeekVerdict(outcome, container, allowed) ==
    CASE config.type = "s3" -> PeekS3Locks(outcome, container, allowed)
      [] config.type \in {"remote", "cloud"} ->
            VerdictOn("tfe", outcome, container, allowed)
      [] OTHER -> VerdictOn(config.type, outcome, container, allowed)

\* What others have in the backend decides whether the container can be
\* missing; the rest is up to the network, the service and the permissions.
ReadLock(outcome, container, allowed) ==
    /\ pc = "peek"
    /\ Target # NoTarget
    /\ Target \in locked \cup blank => container
    /\ outcome = "probed" => config.type \in {"local", "pg"}
    /\ outcome = "flockFailed" => config.type = "local"
    /\ outcome # "answered" => container /\ allowed
    /\ pc' = "decided"
    /\ seen' = Seen(PeekVerdict(outcome, container, allowed), outcome, allowed)
    /\ UNCHANGED <<inputs, files, backend, config>>

-----------------------------------------------------------------------------
(* Others *)

Change(cache_, selected_) ==
    /\ changes < MaxChanges
    /\ changes' = changes + 1
    /\ cache' = cache_
    /\ selected' = selected_
    /\ LET files_ == [cache |-> cache_, selected |-> selected_]
       IN  past' = IF pc \in {"peek", "decided"} THEN past
                   ELSE past \cup {TerraformConfig(argv, env, files_)}
    /\ UNCHANGED <<inputs, backend, pc, config, seen>>

\* terraform init with another backend.
InitBackend(c) ==
    /\ c \in Rivals[cache[Here]]
    /\ Change([cache EXCEPT ![Here] = c], selected)
    /\ stale' = IF pc = "cache" THEN stale ELSE stale \cup {"cache"}
    /\ torn' = torn

\* terraform workspace select
SelectWorkspace(w) ==
    /\ Change(cache,
              [selected EXCEPT ![Here] = IF w = Default THEN <<>> ELSE w])
    /\ stale' = IF pc \in {"cache", "workspace"} THEN stale
                ELSE stale \cup {"selected"}
    /\ torn' = (torn \/ (pc = "workspace" /\ "cache" \in stale))

LockNames ==
    LET dir == Directory(argv)
    IN  {LockTarget([type |-> c.type, config |-> c.config, dir |-> dir,
                     workspace |-> w], env) :
            c \in {cache[Here]} \cup Rivals[cache[Here]], w \in Workspaces}

\* A terraform process takes a lock.  What comes before and after the moment in
\* which parraform reads does not matter to it.
Lock ==
    /\ pc = "peek"
    /\ Cardinality(locked) < MaxLocked
    /\ \E name \in LockNames \ (locked \cup {NoTarget}) :
         /\ Cardinality(locked \cup blank \cup {name}) <= MaxRecords
         /\ locked' = locked \cup {name}
         /\ blank' = blank \ {name}
    /\ UNCHANGED <<inputs, files, pc, config, seen>>

\* It gives the lock back.  The record stays if it is of the marking kind (see
\* Record), or somebody removes it.
Unlock ==
    /\ pc = "peek"
    /\ \E name \in locked :
         /\ locked' = locked \ {name}
         /\ blank' \in {blank, blank \cup {name}}
    /\ UNCHANGED <<inputs, files, pc, config, seen>>

Next ==
    \/ SkipPeek
    \/ ReadCache
    \/ ReadWorkspace
    \/ NotSupported
    \/ \E outcome \in {"answered", "failed"} \cup Misleading,
          container, allowed \in BOOLEAN :
             ReadLock(outcome, container, allowed)
    \/ \E c \in Configs : InitBackend(c)
    \/ \E w \in Workspaces : SelectWorkspace(w)
    \/ Lock
    \/ Unlock

Spec == Init /\ [][Next]_vars

-----------------------------------------------------------------------------
Outcomes ==
    {"none", "skipped", "unsupported", "answered", "failed"} \cup Misleading

TypeOK ==
    /\ \E s \in Settings : argv = s.argv /\ env = s.env
    /\ cache \in [Directories -> Configs \cup {NoBackend}]
    /\ NoTarget \notin locked \cup blank /\ locked \cap blank = {}
    /\ pc \in {"cache", "workspace", "peek", "decided"}
    /\ seen.verdict \in {"none", "unknown", "free", "held"}
    /\ seen.outcome \in Outcomes
    /\ seen.outcome = "none" <=> pc \in {"cache", "workspace", "peek"}
    /\ stale \subseteq {"cache", "selected"}
    /\ pc = "peek" => config.type # "" /\ config.workspace # <<>>

(* "Lock checkers must fold [the workspace] into whatever state path/key they *)
(* derive" (backendcfg.go): two workspaces have the same lock only if the     *)
(* backend takes them for the same state, so that nobody's lock can be taken  *)
(* for another workspace's.                                                   *)
LockOf(c, w) == LockTarget([c EXCEPT !.workspace = w], env)

NamesApart ==
    LET c == Found
    IN  \A v, w \in Workspaces :
            LockOf(c, v) = LockOf(c, w) /\ LockOf(c, v) # NoTarget
                => SameState(c, v, w)

\* With TF_WORKSPACE nobody reads the file.
Immaterial == IF Get(env, "TF_WORKSPACE") = <<>> THEN {} ELSE {"selected"}

(* "lockFree: the peek positively observed that the lock is not held.         *)
(* lockHeld: the peek positively observed a held lock" (main.go:107-110): if  *)
(* the cache and the workspace stay as parraform found them, a verdict is     *)
(* true, at the moment of the read, of the lock of the very state that        *)
(* terraform finds, wherever -chdir, TF_DATA_DIR and TF_WORKSPACE lead and    *)
(* whatever the lock record went through.                                     *)
VerdictTruthful ==
    pc = "decided" /\ stale \subseteq Immaterial =>
        LET lock == LockTarget(Found, env)
        IN  /\ seen.verdict = "held" /\ seen.outcome = "answered"
                 => lock \in seen.locked
            /\ seen.verdict = "free" /\ seen.allowed => lock \notin seen.locked

(* Discover reads two files one after the other, and either may change in     *)
(* between.  What it puts together is still what terraform would have found   *)
(* at some moment, unless first the backend and then the workspace changed    *)
(* between the two reads.                                                     *)
PairWasReal ==
    pc \notin {"cache", "workspace"} /\ config.type # "" /\ ~torn
        => config \in past

\* What went wrong for parraform: there was nothing to peek at, or the peek met
\* an error, a read that was not allowed and a failing flock among them.
Uncertain ==
    \/ seen.outcome \in {"skipped", "unsupported", "failed", "flockFailed"}
    \/ seen.outcome = "answered" /\ ~seen.allowed

(* "It reports lockHeld or lockFree only when the peek definitively observed  *)
(* one; any uncertainty (missing cache file, unsupported backend, timeout, or *)
(* peek error) is lockUnknown" (main.go:187-191).                             *)
UncertaintyIsUnknown == Uncertain => seen.verdict = "unknown"

\* The errors that a checker takes for an answer: local.go:38 any error of
\* flock for a holder, oci.go:140 the 404 of a read that is not allowed for a
\* lock object that is not there.
Swallowed ==
    \/ seen.outcome = "flockFailed"
    \/ seen.outcome = "answered" /\ ~seen.allowed /\ config.type = "oci"

(* But for the two errors that a checker swallows, nothing that goes wrong is *)
(* taken for a verdict: no other error of any backend, and no read that was   *)
(* not allowed, whichever way the checker tells "not found" from the rest.    *)
ErrorsAreUnknown == Uncertain /\ ~Swallowed => seen.verdict = "unknown"

(* "a plan can only proceed once the lock has positively been seen unheld"    *)
(* (main.go:90-93): "free" is never the verdict on a lock that is held.       *)
FreeOnlyIfSeen == seen.verdict = "free" => Target \notin seen.locked
=============================================================================
