# A verification project for parraform

parraform wraps the `terraform` command. It hands every command on unchanged,
except `plan`, which runs without the state lock; before that it may look
("peek") at the lock of the configured backend and, depending on
`-lock-check=warn|strict|require`, warn, refuse or go on. For GitHub Actions a
bash script captures its output and forwards signals to it.

This directory holds TLA+ modules translated from that code, the TLC
configurations that check them, and proofs checked by TLAPS.
`PROJECT.json` maps every definition to the lines it stands for.

    tlc -config MCPlanGate_s3.cfg MCPlanGate      # a run
    tlapm PlanGateProofs.tla                      # a proof module

## The system

| Part | State | Operations | Interacts with |
|---|---|---|---|
| `cmd/parraform` (main.go) | argv, environment, the peek's context, channel and goroutine | `runTerraform`, `checkLock`, `peekLock`, `peekWithTimeout`, `decideLockAction` | calls everything below; becomes terraform |
| `internal/tfargs` | none (pure) | `Subcommand`, `Chdir`, `LockCheckMode`, `PlanEnv`, `LockOverride` | terraform reads what it writes |
| `internal/lockcheck` | none of its own; the backend's lock record, or the lock itself for a moment (local, pg) | `Peek` and `*LockTarget` of 12 checkers, `For` | the backend, and through it every terraform on the same state |
| `internal/backendcfg` | two files of the data directory, `TF_WORKSPACE`, `TF_DATA_DIR` | `Discover`, `currentWorkspace` | files that other terraform commands write |
| `internal/tfbin`, `internal/execwrap` | PATH, the running file | `Resolve`, `Run` | what is executed may be a parraform again |
| `internal/cli` | none | cobra tree | calls `runTerraform` |
| `wrapper/parraform` | child pid, exit code, two capture files | start, wait loop, traps, outputs | the child, two `tee`s, the runner's signals |
| `action.yml`, workflows | none | install, build, release | `gh`, `tar` |

What is hard here, and hardly reached by the repository's tests:

* **concurrency** - the peek goroutine against the timer; the peek against
  terraform processes that lock and unlock meanwhile; two lock mechanisms read one
  after the other; the wrapper's commands against signals and the child's death;
* **a probe that is a lock** - local and pg peeks take the lock they look at;
* **failure** - each step of a peek may fail and must count as "cannot tell";
* **ordering** - which of several `-lock` and `-lock-check` settings, from argv and
  from `TF_CLI_ARGS_plan`, wins, and whether the printed warning predicts it;
* **stale inputs** - backend and workspace come from two files that terraform commands
  in other shells rewrite, at a place that `-chdir` and `TF_DATA_DIR` decide together;
* **unbounded delegation** - parraform under the name `terraform` calling itself.

`PROJECT.json` lists these as hazards, each at its line, with the properties that
watch it.

## The modules

    LockDecision        the decision table            (pure)
      GateSpec          what the gate promises        (abstract)
      PlanGate          the gate                      implements GateSpec
        MCPlanGate, PlanGateProofs
    TFArgs              reading command lines         (pure)
      TFArgsProofs      what its loops compute
      RunTerraform      one run, argv to terraform    with LockDecision
        MCRunTerraform, RunTerraformProofs
      ArgScan           the loop of LockCheckMode
        MCArgScan, ArgScanProofs
    LockTargets         the name of a lock            (pure)
      LockTargetsProofs
    Checkers            an answer turned to a verdict (pure)
      PeekLock          from files to a verdict       with LockTargets and TFArgs
        MCPeekLock, PeekLockProofs
    ExecChain           finding terraform             MCExecChain, ExecChainProofs
    Wrapper             the bash script               WrapperProofs

PlanGate and PeekLock are two views of one peek. PlanGate has its concurrency: goroutine,
timer, several plans, a backend with several mechanisms, but only one lock. PeekLock has
its data: which lock it is, of which state, and what an answer of the backend means.
RunTerraform has what comes before and after it, with any verdict.

Definitions whose comment begins with "Wrong:" are plausible mistakes in the code,
used to see that a property notices them; no specification uses them. The loops of
tfargs.go are folds (`FoldLeft`), which both TLC and the provers can unfold.

### PlanGate (main.go, execwrap, local.go, pg.go, s3.go)

Several `parraform plan` processes (`Plans`) and terraform processes that always lock
(`Writers`). Each plan has a main thread, `pc`, and a goroutine, `peeker`, that meet in
the channel `chan` of capacity one; `expired` is the timer of the context.

| Code | Action |
|---|---|
| `peekLock` returns before the peek | `SkipPeek` |
| `peekWithTimeout` up to `select` | `BeginPeek` |
| `case r := <-ch`, `case <-ctx.Done()` | `SelectResult`, `SelectTimeout` (both possible when both are ready) |
| `decideLockAction` errors / returns nil and `execwrap.Run` | `Refuse`, `RunTerraform` |
| `cmd.Run` returns (windows) | `ParentExits` |
| a checker that reads one record, `peekS3Locks` for two | `ReadMechanism` |
| local, pg: nothing to lock; try; unlock | `FindNoState`, `TryLock`, `Unlock` |
| any error or unsupported configuration | `PeekFails` |
| the end of a pg session | `DropSession` |

A backend's lock is a sequence of mechanisms (`Order`): one for all backends but s3 with
`use_lockfile` and `dynamodb_table`. `kind`, chosen at the start from `PeekKinds`, says how
a checker looks at it: "object" reads a record, "flock" and "advisory" take the lock and
give it back. Each terraform process takes the mechanisms it knows (`Uses`) one at a time
and gives up when one is taken. `UsesAssumption` says that some mechanism is known to all:
otherwise terraform itself could not exclude two writers. What terraform does is external:
it is known from the comments of the checkers.

`freeSeen` and `heldSeen` are history: whether, while the plan waited for its peek, there
was a moment at which no process held the state lock, or one owned a mechanism. They say
what a verdict can be worth - the world may change right after it - and the properties
and `GateSpec` are stated with them.

### RunTerraform and TFArgs (main.go, tfargs.go)

A text is a sequence of fragments: a word, a flag up to and including its `=`, or one of
the single characters that the splitters of `TF_CLI_ARGS_plan` look at. One and two
dashes are alike to every function, and so are blank and tab. `Splitter` is one character
of `splitPlanArgsPreservingQuotes`, which keeps quotes and knows no backslash; `Shell` is
one character of terraform's go-shellwords, which removes quotes, ends a word at a newline
too, and lets a backslash take the next character as it is. The peek is any verdict here.
`ShellWords`, `TerraformArgs`, `TerraformRejects` and `TerraformLocks` are external, from
the comments in tfargs.go, so that the properties can compare what terraform makes of its
input with what parraform took away and said. Abstracted: the text of other flags, and
`strconv.ParseBool` beyond true, false and neither.

### ArgScan (tfargs.go)

The loop of `LockCheckMode`, a round per step, with the positions that were kept as
history. `ScanCorrect` says without a loop what it returns, but for the mode of a list that
gives a value and ends in a bare flag (`EndsBare`), where code and documentation disagree;
`FoldAgrees` ties the loop to the fold that `RunTerraform` uses.

### LockTargets (the `*LockTarget` functions of lockcheck)

For each of the twelve types the texts that identify the lock of a configuration and a
workspace, or `NoTarget`: which attributes must be there, what they fall back to, and how
the workspace is folded into a key. `SameState` says which workspaces are one state by the
backends' own rules (no name is `default`; a `remote` workspace with and without its
prefix; a block that names its workspace).

### PeekLock and Checkers (main.go, backendcfg, lockcheck)

| Code | Action |
|---|---|
| `-lock-check-timeout=0`, no working directory | `SkipPeek` |
| `Discover`: the cache file, or none | `ReadCache` |
| `currentWorkspace` | `ReadWorkspace` |
| `For` finds no checker, `Peek` no lock to look at | `NotSupported` |
| `checker.Peek` | `ReadLock`, which goes through `AnswerToRead` (external) and `Verdict` |
| terraform init, workspace select, in another shell | `InitBackend`, `SelectWorkspace` |
| terraform processes anywhere | `Lock`, `Unlock` |

`dataDir`, `Chdir` and `TF_WORKSPACE` are in `DataDir`, `Directory` and
`CurrentWorkspace`; `TerraformConfig` is where terraform finds the same things, as the
comments on these functions tell it. A lock record vanishes with the lock (`Deleting`) or
stays and loses its mark (`Marking`: a lease without holder, an unleased blob, a workspace
flag); the container may be missing, the caller may not be allowed to read, a read may fail,
a flock may fail for a reason of its own, and the lock may be another parraform's probe
(`Misleading`). `AnswerToRead` is what the SDK says of that, the `Peek...`
operators of Checkers are the code's reading of it.

`stale`, `torn` and `past` are history: which file changed after it was read, whether the
cache and then the workspace changed between the two reads, and what terraform would have
found at any moment so far.

### ExecChain (tfbin, execwrap)

Files are identified as `filepath.EvalSymlinks` does, PATH is what its directories have
under the name. The chain goes on for as long as the executed file is a parraform.

### Wrapper (wrapper/parraform)

One action per command of the script that a signal can meet, the traps between commands
and inside the two waits, the child and its collection by bash, the tees. bash is modelled
as its manual describes it: a trapped signal interrupts `wait` at once (128+signum) and
otherwise waits for the current command; `kill -0` fails once the child is collected.

## The runs

| Run | Shows | Instance |
|---|---|---|
| `gate_s3` | warn always runs; strict refuses only what was held; require runs only what was seen free, although the two mechanisms are read at different times; PlanGate implements GateSpec | 1 plan in every mode, 2 writers, one of which takes only the second mechanism |
| `gate_probe` | with probes that are locks, flocks that fail for any reason and sessions that linger: require runs only what was seen free, no probe outlives its process but a pg session's, a unix plan's probe is always given back, every plan is decided though a peek may hang | a unix and a windows plan, 1 writer, both kinds of probe |
| `run_terraform` | without `-lock` on the command line plan never locks; the warning tells the truth; no flag is left, none reaches terraform that the splitter can see, and nothing else is taken away; no given flag is ignored | all lists of up to 3 of 10 arguments with 11 values; all values of up to 4 of 9 fragments with 3 command lines |
| `arg_scan` | the loop returns what `ScanCorrect` says without one and what the fold returns | all lists of up to 5 of 8 arguments |
| `peek` | the verdict is true of the lock of the state that terraform finds; the pair of backend and workspace was real; two workspaces share a lock only where they are one state; no error is a verdict but the two of `flock` and `hidden` | 21 configurations of all types, 3 workspaces, 3 ways to say where, 2 changes of the files, 1 lock held at a time |
| `exec_chain` | the terraform reached is the first of PATH or the override; when the delegation ends | PATH of up to 4, 2 parraforms, 2 terraforms, an unusable file |
| `wrapper` | never green for a failed run, no child left behind, outputs exact without a signal, a cancelled job ends | 2 streams, 2 pieces each, 2 signals |

Bounds.

* `Plans`, `Writers`: plans do not depend on one another except through the lock, so two
  of them and one writer give every pairwise interference; two writers matter where
  mechanisms differ. Writers come back without limit.
* `MaxArgs`, `MaxEnv`, `MaxLen`: three arguments hold the subcommand, a flag and its
  value, or two conflicting settings; four fragments a flag, a blank, its value and what
  follows, or a quoted blank; a further one adds no new neighbourhood, and `arg_scan` goes
  to five for the loop.
* `MaxChanges`: with two, each file changes, in either order, or one changes and changes
  back, before, between and after the two reads. `MCBackends` are in a ring and each may be
  replaced by the next: configurations with the same key in another bucket, with and
  without a prefix, of another type. A third change adds a longer way to the same pairs.
* `MaxLocked`, `MaxRecords`: a verdict is about one name, so one lock on it, or on another
  one in its place, is all that it can confuse; the record without a mark is the other
  state of the same name.
* `MaxSignals`: a signal can be lost, interrupt one wait or interrupt it twice: two are
  enough, and the safety of the script is proved for any number. `MaxOutput`: two pieces
  can be captured in part.
* A chain of execs shows its loop with two parraforms.

Five runs end in a violation: the code does not do what a comment says.

* `contention` - a peek "must never block or fail" anything (lockcheck.go:1-5), but the
  local and pg peeks take the lock: an apply that asks for it at that moment fails. For
  the same reason two strict plans at once may refuse each other.
* `hidden` - require proceeds only when the lock "has positively been seen unheld"
  (main.go:90-93), but a lock object that oci answers with 404, because it may not be
  read, counts as free. That oci does so is a fact of that service, not of this code.
  `VerdictTruthful` leaves exactly this case out (`seen.allowed`).
* `flock` - "any uncertainty (... or peek error) is lockUnknown" (main.go:187-191), but the
  local checker takes any error of flock for a holder (local.go:38), ENOLCK as well.
  `ErrorsAreUnknown` leaves out exactly this case and the one of `hidden` (`Swallowed`);
  of the other backends the comment is true (theorem `OnlyTwoSwallow`).
* `splitters` - the splitter is "like strings.Fields" and mirrors terraform's "well enough
  for token-boundary purposes" (tfargs.go:113-117), but a backslash or a newline in
  `TF_CLI_ARGS_plan` makes them see different tokens, and removing the flag changes other
  arguments. Without those two characters `PlanArgsKept` holds (`run_terraform`).
* `status` - `exit_code` "always ends up holding its real, final exit status"
  (wrapper:70-73), but a child that is collected between the interrupted wait and
  `kill -0` leaves 143 behind.

Seen in the models without a run of its own, and outside of what the properties claim:

* a bare `-lock-check` at the end of the arguments gives the mode `""`, "so callers can
  reject" it (tfargs.go:51-54), but behind `-lock-check=warn` it leaves the mode `warn`.
  `ScanCorrect` says nothing of the mode there, and `ModeHonoured` takes the mode the code
  has, so that such a plan runs in mode `warn`.
* terraform "must never see" the flag (tfargs.go:95), but `-lock-check strict plan` is
  taken for the subcommand `strict`, and a flag quoted as a whole in the environment is not
  found. `PlanNeverSeesLockCheck` leaves these two out; `NothingElseLeaks` proves the rest.
* a signal between lines 67 and 68 of the wrapper finds no child pid and is lost; a signal
  during the wait for the tees makes the captured outputs incomplete (line 84).
* a pg session may hold its probe after parraform is gone (main.go:255 says no resource
  outlives the process).
* when terraform init and then terraform workspace select run between the two reads of
  `Discover`, it puts together a backend and a workspace that never belonged together
  (`PairWasReal` leaves this case, `torn`, out).

### Fairness

* PlanGate: weak fairness of each main thread, which only `select` can block, and of the
  timer; none of the goroutine, since an SDK call may ignore its context, and none of
  terraform. For pg, the server ends dead sessions some time. `ProbeReleased` is stated for
  unix only, where the process ends with the exec.
* Wrapper: bash runs its commands, traps and SIGCHLD handler, the tees run. The child may
  run for ever unless it is signalled; `CancelEnds` rests on terraform ending some time
  after a signal, `ScriptEnds` on nothing of the child.
* ExecChain: no step waits for anything.
* The sequential models (RunTerraform, ArgScan) and PeekLock, which has nothing that must
  happen beyond what PlanGate says of a peek, state safety only.

`CHECK_DEADLOCK FALSE` stands where the modelled program ends; the gates have writers that
go on for ever.

## The proofs

All theorems hold for every value of the constants under the assumptions the modules name.

**PlanGateProofs.** `TypeCorrect`; then `GateInvariant`: `GateInv` is inductive together
with the types. It says that a locked process owns all its mechanisms
(`LockedOwnsAll`), that nothing is owned where no state exists (`NoStateNoOwner`), and
that each stage of a peek has its evidence (`Evidence`): once the reader is past a
mechanism that all share, or probes, or a "free" is in the channel or in `status`,
`freeSeen` is already true. `RequireSawFree` alone is not inductive, since nothing in it
says where a "free" comes from. The core is `FreeShared`: if a mechanism that everyone
takes is unowned, nobody is locked. From it follow `RequireRunsOnlyUnlocked` and, for
every kind of peek, `ProbeEndsWithParraform`. `HeldInvariant`, `StrictRefusesOnlyHeld` and
`GateImplementsSpec`, the refinement step by step, assume `PeekKinds = {"object"}`: a
probe or a failing flock can say "held" with no holder.

**TFArgsProofs.** What the folds over command lines and over `TF_CLI_ARGS_plan` compute,
for lists and values of any length. The provers cannot instantiate an induction theorem
that takes an operator, so induction is stated for a set: a set of sequences that contains
`<<>>` and each `Append` of a member contains them all (`SequenceInduction`, from the
well-foundedness of `<` on the naturals). A second obstacle is that the community modules
define `FoldLeft` by a function that is defined through itself, by CHOOSE, and nothing says
that there is one: `WalkExists` builds it, and `FoldSteps` draws from it the two equations
of a fold. `ScanUnfolds`, `SplitUnfolds`, `ShellUnfolds` and `JoinUnfolds` are these
equations for `LockCheckMode`, the two splitters and `strings.Join`; everything after them
is by induction over their last argument or character. `SplitParts` and `SplitJoin`: a
token splits into itself, and joined tokens split into the same tokens again, also if the
last one has a quote open. `SplittersAgree`: of a value with no backslash and no line break
(`Escapes`) go-shellwords makes, token for token, the words of what parraform's splitter
sees, and a quote is open for the one just if it is for the other (`ReadsAs` is the
invariant of the two running side by side). `ScanReads`: if in addition each word that is
the flag is one for the splitter too, taking the flag out of the tokens and out of the
words comes to the same. `PlanEnvStripped` and `PlanEnvKeeps` put these together.

**RunTerraformProofs.** `RunInv` says what each stage of a run has done with what the
caller gave; with it each property is a fact about the operators of TFArgs.
`RunTypeCorrect`, `ModeIsHonoured` and `PlanIsStripped` hold for all command lines and all
values, an unclosed quote that swallows `-lock=false` included. `ArgsAreKept` and
`NothingElseLeaks` assume `NoEscapes`: a backslash or a line break makes the splitters
disagree, which is what run `splitters` shows. `RunsUnlocked` and `WarningIsTruthful`
assume `EndsPlain` only, that the value without the flag does not end in a backslash that
escapes: this would take the blank in front of `-lock=false` for a character, and the two
become one word. A value without backslashes ends plain (`NoBackslashEndsPlain`). Their core is
`CommandLineDecides`: of what terraform accepts every `-lock` stands behind the
subcommand, `-lock=false` is the last word of the environment, and so the last `-lock` of
all is the caller's last one, if there is one - which is the one `ExplicitLockTrue` goes
by. `InputsAssumption` says that arguments are sequences of texts. `NoEscapes` and
`EndsPlain` hold of every input of `run_terraform`.

**ArgScanProofs.** `ScanTypeCorrect` (the loop stays within its list) and `FlagStripped`,
that the kept arguments are a subsequence without the flag, for all lists. `LoopIsFold`:
after each round the loop has what the fold has at that position (`FoldSoFar`), where a
bare flag is one round of the loop and two steps of the fold, so the two are compared
between rounds only; `EndsAtEnd` says that the loop is done only behind the last argument.
`LoopIsCorrect`: `ScanCorrect` speaks of the whole list, `ScanSoFar` says it of what has
been read, and there without an exception for a bare flag at the end: the last value given
is the mode, which is what the code does. Whether an argument is a
flag or a flag's value is the parity of the bare flags right in front of it, and
`BareRunStep` is how their number goes on.

**LockTargetsProofs, PeekLockProofs.** The lemmas of LockTargetsProofs say for each way of
naming that equal names have equal workspaces: the parts around the workspace are the same
in both, so they can be cancelled, and the default one cannot be mistaken for another,
since its name is shorter. They need no induction; texts are sequences over any
`Fragments` that contain the package's own. `NamesAreApart` puts the twelve types together.
`VerdictsAreTruthful` follows from `VerdictInv`: while parraform reads, what it has found
so far is what terraform finds, but for files in `stale`; once decided, the verdict is what
`Checkers` makes of the record at that moment. The decision and the change of a file are
different steps, so the invariant must speak of every stage between. `ErrorsTellNothing`
comes from the same invariant, `PeekTypeCorrect` needs it. `OnlyTwoSwallow` assumes that
there is no `local` and no `oci` backend and has then what the comment on `peekLock` says,
without an exception. `DiscoveredPairWasReal` follows
from `PastInv`: whatever was read is still in `past` with each workspace that came after it.

**WrapperProofs.** `WrapperTypeCorrect`; `WrapperInv` adds to `ChildNotOrphaned` where
`exit_code` can come from; it gives `ChildIsAwaited` and `GreenMeansSuccess` for any number
of signals. `UndisturbedInv` follows an undisturbed script command by command and gives
`UndisturbedRunIsFaithful`.

**ExecChainProofs.** `DelegatesToFirstFound`: however long the chain, each hop keeps that
only parraforms have been passed over. `OnlySaneChainsEnd`: `SaneInv` keeps that each
search has passed over at most one parraform, the one that searched, so that a chain that
reached terraform had a PATH or an override under which it can end.

Only model-checked: everything temporal under fairness (`PlanDecided`, `WarnPlanRuns`,
`ProbeReleased`, `ScriptEnds`, `CancelEnds`, `ChainEnds`) and the fairness part of
`GateKept`. Every invariant of a passing run is a theorem.

## Not modelled

* `internal/cli`: a static table that calls one function.
* `action.yml`: a linear script; workflows: build automation.
* credentials, default endpoints and regions, client construction: an error there is one of
  the failures of a read. Only the token of `remote` and `cloud` decides whether there is a
  lock to look at, and is in LockTargets.
* a holder that cannot be read behind a lock object that is there (held all the same), and
  an `environment` file that is there but cannot be read (the default workspace to
  `currentWorkspace`, backendcfg.go:94-97; here a missing file).
* the holder's name in messages, and every other wording.
* in LockTargets: `path.Join` cleaning a path, so keys, prefixes and workspaces have no
  `..` or doubled separator; in PeekLock: `TrimSpace` of the workspace file.
* terraform's own naming of locks: there is no source of it here, so `VerdictTruthful`
  says that parraform looks at the name LockTargets gives to the state that terraform
  finds, not that every backend gives it that name; that names tell states apart is
  checked and proved.
* the lost signal at wrapper:68 has no property: no line of the script promises anything
  before the child's pid is known.

## Plan

1. **Composition** - PlanGate with the lock that PeekLock finds, in place of one lock for
   all: two plans in two workspaces, and files that change while a peek waits.
2. **Names** - paths that are not clean, TrimSpace of the workspace file.
3. **Proofs** - the safety half of `WarnPlanRuns` (a warn plan is never refused) for every
   kind of peek; the composition's refinement of one PlanGate per lock.
