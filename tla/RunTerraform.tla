---------------------------- MODULE RunTerraform ----------------------------
(* One run of parraform from its command line to the terraform it becomes:    *)
(* runTerraform, checkLock and decideLockAction (src/cmd/parraform/main.go)   *)
(* over the operators of TFArgs.  The peek is any verdict; PlanGate says how  *)
(* it comes about.                                                            *)
EXTENDS LockDecision, TFArgs, FiniteSets

CONSTANTS
    Inputs  \* pairs of a command line and a value of TF_CLI_ARGS_plan, which
            \* is <<>> when not set

ASSUME InputsAssumption ==
    Inputs \subseteq [argv: Seq(Seq(STRING)), env: Seq(STRING)]

VARIABLES
    argv,     \* os.Args[1:], later without parraform's own flag
    env,      \* TF_CLI_ARGS_plan, as it will be handed to terraform
    pc,       \* where runTerraform is
    asked,    \* what resolveLockCheckMode found
    warning,  \* what was printed
    given     \* history: the argv and the environment value of the caller

vars == <<argv, env, pc, asked, warning, given>>

NotAsked == [mode |-> <<>>, present |-> FALSE]

Init ==
    /\ \E input \in Inputs : argv = input.argv /\ env = input.env
    /\ pc = "resolve"
    /\ asked = NotAsked
    /\ warning = "none"
    /\ given = [argv |-> argv, env |-> env]

\* tfbin.Resolve finds no terraform.
NoBinary ==
    /\ pc = "resolve"
    /\ pc' = "failed"
    /\ UNCHANGED <<argv, env, asked, warning, given>>

\* Any command but plan goes to exec untouched.
PassThrough ==
    /\ pc = "resolve"
    /\ Subcommand(argv) # <<"plan">>
    /\ pc' = "exec"
    /\ UNCHANGED <<argv, env, asked, warning, given>>

\* Wrong: argv keeps the flag.
ResolveModeUnstripped ==
    /\ pc = "resolve"
    /\ Subcommand(argv) = <<"plan">>
    /\ LET found == ResolveLockCheckMode(argv, env)
       IN  asked' = [mode |-> found.mode, present |-> found.present]
    /\ pc' = "check"
    /\ UNCHANGED <<argv, env, warning, given>>

\* plan: the flag is taken out of argv.
ResolveMode ==
    /\ pc = "resolve"
    /\ Subcommand(argv) = <<"plan">>
    /\ LET found == ResolveLockCheckMode(argv, env)
       IN  /\ asked' = [mode |-> found.mode, present |-> found.present]
           /\ argv' = found.rest
    /\ pc' = "check"
    /\ UNCHANGED <<env, warning, given>>

\* Wrong: a missing mode is the default, flag or no flag.
CheckLockLenient(state) ==
    LET mode == IF asked.mode = <<>> THEN "warn" ELSE AsWord(asked.mode)
    IN  /\ pc = "check"
        /\ ~Refuses(mode, state)
        /\ warning' = Warning(mode, state, ExplicitLockTrue(argv))
        /\ env' = PlanEnv(env)
        /\ pc' = "exec"
        /\ UNCHANGED <<argv, asked, given>>

\* checkLock lets plan pass, perhaps with a warning, and PlanEnv is applied.
CheckLock(state) ==
    LET mode == EffectiveMode(AsWord(asked.mode), asked.present)
    IN  /\ pc = "check"
        /\ ~Refuses(mode, state)
        /\ warning' = Warning(mode, state, ExplicitLockTrue(argv))
        /\ env' = PlanEnv(env)
        /\ pc' = "exec"
        /\ UNCHANGED <<argv, asked, given>>

\* checkLock returns an error: a refusal or a usage error.
RefusePlan(state) ==
    /\ pc = "check"
    /\ Refuses(EffectiveMode(AsWord(asked.mode), asked.present), state)
    /\ pc' = "failed"
    /\ UNCHANGED <<argv, env, asked, warning, given>>

\* execwrap.Run: terraform cannot be started.
ExecFails ==
    /\ pc = "exec"
    /\ pc' = "failed"
    /\ UNCHANGED <<argv, env, asked, warning, given>>

\* execwrap.Run.
Exec ==
    /\ pc = "exec"
    /\ pc' = "terraform"
    /\ UNCHANGED <<argv, env, asked, warning, given>>

Next ==
    \/ NoBinary
    \/ PassThrough
    \/ ResolveMode
    \/ \E state \in LockStates : CheckLock(state) \/ RefusePlan(state)
    \/ ExecFails
    \/ Exec

Spec == Init /\ [][Next]_vars

-----------------------------------------------------------------------------
Seen == TerraformArgs(argv, env)

TypeOK ==
    /\ pc \in {"resolve", "check", "exec", "failed", "terraform"}
    /\ warning \in {"none", "unlocked", "willLock"}
    /\ asked.present \in BOOLEAN
    /\ pc \in {"exec", "terraform"} /\ Subcommand(given.argv) = <<"plan">> =>
         asked.present \/ asked.mode = <<>>

\* The run became terraform for the plan command of its caller, and terraform
\* has no reason to reject what it was given.
PlanRan == pc = "terraform" /\ Subcommand(given.argv) = <<"plan">>
PlanAccepted ==
    /\ PlanRan
    /\ ShellWords(env).ok
    /\ Subcommand(Seen) = <<"plan">>
    /\ ~TerraformRejects(Seen)

\* The user says something of -lock on the command line itself.
OwnLock == LockSettings(given.argv) # {}

\* Where an argument list has parraform's flag.
OwnFlags(args) ==
    {i \in 1..Len(args) : HasLockCheckValue(args[i]) \/ IsLockCheckFlag(args[i])}

\* The splitter finds as many flags in the caller's value as terraform would.
FlagVisible ==
    LET before == ShellWords(given.env)
        tokens == SplitPlanArgs(given.env)
    IN  /\ before.ok
        /\ Cardinality(OwnFlags(before.words)) <= Cardinality(OwnFlags(tokens))

(* Once the run is recognised as a plan, nothing of the flag is left of what  *)
(* came by argv, nor among the tokens of the environment value.               *)
PlanStripped ==
    PlanRan => OwnFlags(argv) = {} /\ OwnFlags(SplitPlanArgs(env)) = {}

(* "the string with just that flag's token(s) removed"                        *)
(* (lockCheckModeFromPlanArgsValue): of the words terraform would have made   *)
(* of the caller's value it still gets every one, as it was and in its order, *)
(* but for the flag and its value; then -lock=false.  Said of values whose    *)
(* flag the splitter can see at all.                                          *)
PlanArgsKept ==
    PlanRan /\ FlagVisible =>
        /\ ShellWords(env).ok
        /\ ShellWords(env).words =
             Append(LockCheckMode(ShellWords(given.env).words).rest, LockFalse)

(* "terraform must never see -lock-check however it arrived" (tfargs.go:95,   *)
(* main.go:65), said of what terraform itself makes of its command line and   *)
(* the environment.  The code does not keep it in two ways, which are left    *)
(* out here: with -lock-check MODE in front of plan the run is taken for      *)
(* another command, and a flag quoted as a whole in the environment is not    *)
(* seen by the splitter.                                                      *)
PlanNeverSeesLockCheck ==
    PlanRan /\ FlagVisible => OwnFlags(Seen) = {}

(* What the tool is for (README.md:8): plan does not lock unless the command  *)
(* line itself says -lock, even if TF_CLI_ARGS_plan says -lock=true.          *)
PlanRunsUnlocked ==
    PlanAccepted /\ ~OwnLock => ~TerraformLocks(Seen)

(* The warning tells what terraform will do (decideLockAction,                *)
(* LockOverride): "unlocked" only when it does not lock, the other text only  *)
(* when it does.                                                              *)
WarningTruthful ==
    PlanAccepted =>
        /\ warning = "unlocked" => ~TerraformLocks(Seen)
        /\ warning = "willLock" => TerraformLocks(Seen)

(* A -lock-check that was given somewhere is never taken for one that was not *)
(* (checkLock): if the flag ends up without a usable value, plan does not     *)
(* run; if argv gives it, what the environment says does not matter.          *)
ModeHonoured ==
    PlanRan =>
        LET own == LockCheckMode(given.argv)
            its == LockCheckModeFromPlanArgs(given.env)
        IN  /\ own.present =>
                 AsWord(own.mode) \in ValidModes /\ asked.mode = own.mode
            /\ ~own.present /\ its.present => AsWord(its.mode) \in ValidModes
=============================================================================
