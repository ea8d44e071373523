------------------------------ MODULE Wrapper ------------------------------
(* wrapper/parraform, the bash script of the GitHub Action that runs the real *)
(* parraform, captures its output and its exit code, and forwards SIGINT and  *)
(* SIGTERM to it.                                                             *)
(*                                                                           *)
(* Four kinds of processes: the script, the child (parraform-bin, then        *)
(* terraform in its place), one tee for each stream, and whoever sends        *)
(* signals.  What bash does with them is modelled as its manual describes it: *)
(* a trap runs between two commands, except that it interrupts the wait       *)
(* builtin at once; a dead child is a zombie until bash has collected it,     *)
(* wait answers its status then, and kill -0 finds it only until then.        *)
EXTENDS Integers

CONSTANTS
    Streams,     \* the captured streams: stdout and stderr
    Codes,       \* exit codes of the child
    MaxOutput,   \* bound: pieces of output the child writes to a stream
    MaxSignals   \* bound: signals sent to the script

SignalCode == 143  \* 128 + signum, what an interrupted wait returns

ASSUME CodesAssumption == Codes \subseteq 0..127
ASSUME BoundsAssumption == MaxOutput \in Nat /\ MaxSignals \in Nat

VARIABLES
    pc,         \* the command the script is at
    childPid,   \* whether child_pid has been assigned
    exitCode,   \* exit_code
    outputs,    \* what was written to GITHUB_OUTPUT
    final,      \* the exit code of the script itself
    pending,    \* a trapped signal has arrived and its trap has not run
    sent,       \* signals sent so far
    signalled,  \* the child has been sent a signal
    child,      \* the child process
    childCode,  \* its exit code, once it is dead
    written,    \* pieces written by the child, by stream
    copied,     \* pieces tee has copied to the capture file
    teeDone     \* tee has seen the end of its stream and has exited

vars == <<pc, childPid, exitCode, outputs, final, pending, sent,
          signalled, child, childCode, written, copied, teeDone>>
scriptVars == <<pc, childPid, exitCode, outputs, final>>
signalVars == <<pending, sent, signalled>>
childVars  == <<child, childCode, written>>
teeVars    == <<copied, teeDone>>

NoOutputs == [code |-> -1, captured |-> [s \in Streams |-> 0]]

TypeOK ==
    /\ pc \in {"start", "assign", "wait", "check", "tees", "write", "exit"}
    /\ childPid \in BOOLEAN
    /\ exitCode \in Codes \cup {0, SignalCode}
    /\ final \in Codes \cup {0, SignalCode}
    /\ outputs = NoOutputs \/ outputs.code \in Codes \cup {SignalCode}
    /\ pending \in BOOLEAN
    /\ sent \in 0..MaxSignals
    /\ signalled \in BOOLEAN
    /\ child \in {"none", "running", "zombie", "collected"}
    /\ written \in [Streams -> 0..MaxOutput]
    /\ \A s \in Streams : copied[s] \in 0..written[s]
    /\ teeDone \in [Streams -> BOOLEAN]

\* The fifos exist and both tees have been started.
Init ==
    /\ pc = "start"
    /\ childPid = FALSE
    /\ exitCode = 0
    /\ outputs = NoOutputs
    /\ final = 0
    /\ pending = FALSE
    /\ sent = 0
    /\ signalled = FALSE
    /\ child = "none"
    /\ childCode = 0
    /\ written = [s \in Streams |-> 0]
    /\ copied = [s \in Streams |-> 0]
    /\ teeDone = [s \in Streams |-> FALSE]

-----------------------------------------------------------------------------
\* "$real_bin" "$@" >... 2>... &
StartChild ==
    /\ pc = "start"
    /\ pc' = "assign"
    /\ child' = "running"
    /\ UNCHANGED <<childPid, exitCode, outputs, final, childCode, written>>
    /\ UNCHANGED <<signalVars, teeVars>>

\* child_pid=$!
AssignPid ==
    /\ pc = "assign"
    /\ pc' = "wait"
    /\ childPid' = TRUE
    /\ UNCHANGED <<exitCode, outputs, final, signalVars, childVars, teeVars>>

\* wait "$child_pid"; exit_code=$?
WaitChild ==
    /\ pc = "wait"
    /\ child = "collected"
    /\ pc' = "check"
    /\ exitCode' = childCode
    /\ UNCHANGED <<childPid, outputs, final, signalVars, childVars, teeVars>>

\* Wrong: the script goes on after the first wait.
CheckOnce ==
    /\ pc = "check"
    /\ pc' = "tees"
    /\ UNCHANGED <<childPid, exitCode, outputs, final>>
    /\ UNCHANGED <<signalVars, childVars, teeVars>>

\* Wrong: exit_code=$? behind the loop is the status of the loop.
CheckThenStatus ==
    /\ pc = "check"
    /\ pc' = IF child = "collected" THEN "tees" ELSE "wait"
    /\ exitCode' = IF child = "collected" THEN 0 ELSE exitCode
    /\ UNCHANGED <<childPid, outputs, final, signalVars, childVars, teeVars>>

\* Wrong: the loop runs until kill -0 succeeds.
CheckUntil ==
    /\ pc = "check"
    /\ pc' = IF child # "collected" THEN "tees" ELSE "wait"
    /\ UNCHANGED <<childPid, exitCode, outputs, final>>
    /\ UNCHANGED <<signalVars, childVars, teeVars>>

\* while kill -0 "$child_pid": the wait is repeated until the child is gone.
CheckGone ==
    /\ pc = "check"
    /\ pc' = IF child = "collected" THEN "tees" ELSE "wait"
    /\ UNCHANGED <<childPid, exitCode, outputs, final>>
    /\ UNCHANGED <<signalVars, childVars, teeVars>>

\* Wrong: the tees are not waited for.
SkipTees ==
    /\ pc = "tees"
    /\ pc' = "write"
    /\ UNCHANGED <<childPid, exitCode, outputs, final>>
    /\ UNCHANGED <<signalVars, childVars, teeVars>>

\* wait "$tee_out_pid" "$tee_err_pid"
WaitTees ==
    /\ pc = "tees"
    /\ \A s \in Streams : teeDone[s]
    /\ pc' = "write"
    /\ UNCHANGED <<childPid, exitCode, outputs, final>>
    /\ UNCHANGED <<signalVars, childVars, teeVars>>

\* Three times write_output, then exit: 0 and 2 both leave the step green.
WriteAndExit ==
    /\ pc = "write"
    /\ pc' = "exit"
    /\ outputs' = [code |-> exitCode, captured |-> copied]
    /\ final' = IF exitCode \in {0, 2} THEN 0 ELSE exitCode
    /\ UNCHANGED <<childPid, exitCode, signalVars, childVars, teeVars>>

Script ==
    StartChild \/ AssignPid \/ WaitChild \/ CheckGone \/ WaitTees \/ WriteAndExit

-----------------------------------------------------------------------------
\* Someone cancels the job: SIGINT or SIGTERM for the script.
SendSignal ==
    /\ sent < MaxSignals
    /\ pc # "exit"
    /\ sent' = sent + 1
    /\ pending' = TRUE
    /\ UNCHANGED <<scriptVars, signalled, childVars, teeVars>>

\* Wrong: the signal is swallowed.
ForwardNothing ==
    /\ pending' = FALSE
    /\ UNCHANGED signalled

\* forward_signal: the child is sent the signal if its pid is known.
ForwardSignal ==
    /\ pending' = FALSE
    /\ signalled' = (signalled \/ (childPid /\ child = "running"))

\* The trap runs between two commands.
Trap ==
    /\ pending
    /\ pc # "exit"
    /\ ForwardSignal
    /\ UNCHANGED <<scriptVars, sent, childVars, teeVars>>

\* The trap interrupts the wait for the child, which returns 128+signum.
TrapInWaitChild ==
    /\ pending
    /\ pc = "wait"
    /\ ForwardSignal
    /\ exitCode' = SignalCode
    /\ pc' = "check"
    /\ UNCHANGED <<childPid, outputs, final, sent, childVars, teeVars>>

\* The trap interrupts the wait for the tees.
TrapInWaitTees ==
    /\ pending
    /\ pc = "tees"
    /\ ForwardSignal
    /\ pc' = "write"
    /\ UNCHANGED <<childPid, exitCode, outputs, final, sent, childVars, teeVars>>

Traps == Trap \/ TrapInWaitChild \/ TrapInWaitTees

-----------------------------------------------------------------------------
ChildWrites(s) ==
    /\ child = "running"
    /\ written[s] < MaxOutput
    /\ written' = [written EXCEPT ![s] = @ + 1]
    /\ UNCHANGED <<scriptVars, signalVars, child, childCode, teeVars>>

ChildExits(code) ==
    /\ child = "running"
    /\ child' = "zombie"
    /\ childCode' = code
    /\ UNCHANGED <<scriptVars, signalVars, written, teeVars>>

\* bash's SIGCHLD handler.
Collect ==
    /\ child = "zombie"
    /\ child' = "collected"
    /\ UNCHANGED <<scriptVars, signalVars, childCode, written, teeVars>>

\* Wrong: the capture file also gets what did not come through the fifo.
TeeInvents(s) ==
    /\ copied[s] <= written[s]
    /\ copied' = [copied EXCEPT ![s] = @ + 1]
    /\ UNCHANGED <<scriptVars, signalVars, childVars, teeDone>>

\* tee "$..._capture" <"$..._fifo"
TeeCopies(s) ==
    /\ copied[s] < written[s]
    /\ copied' = [copied EXCEPT ![s] = @ + 1]
    /\ UNCHANGED <<scriptVars, signalVars, childVars, teeDone>>

\* The child held the only write end.
TeeEnds(s) ==
    /\ child \in {"zombie", "collected"}
    /\ copied[s] = written[s]
    /\ ~teeDone[s]
    /\ teeDone' = [teeDone EXCEPT ![s] = TRUE]
    /\ UNCHANGED <<scriptVars, signalVars, childVars, copied>>

ChildExit == \E code \in Codes : ChildExits(code)
Tee(s) == TeeCopies(s) \/ TeeEnds(s)

Next ==
    \/ Script
    \/ SendSignal \/ Traps
    \/ ChildExit \/ Collect
    \/ \E s \in Streams : ChildWrites(s) \/ Tee(s)

\* bash, its traps, its SIGCHLD handler and the tees run.  The child may run
\* for ever, unless it is sent a signal: then it ends some time.
Fairness ==
    /\ WF_vars(Script)
    /\ WF_vars(Traps)
    /\ WF_vars(Collect)
    /\ WF_vars(signalled /\ ChildExit)
    /\ \A s \in Streams : WF_vars(Tee(s))

Spec == Init /\ [][Next]_vars
FairSpec == Spec /\ Fairness

-----------------------------------------------------------------------------
(* The step is green only if the real program succeeded (wrapper:8-15), no    *)
(* matter which signals arrive when.                                          *)
NeverFalseSuccess ==
    pc = "exit" /\ final = 0 => child = "collected" /\ childCode \in {0, 2}

(* "a cancelled job must still let a running apply release its lock on its    *)
(* own way out" (wrapper:22): the script never leaves a running child behind. *)
ChildNotOrphaned ==
    pc \in {"tees", "write", "exit"} => child = "collected"

(* "so exit_code always ends up holding its real, final exit status"          *)
(* (wrapper:70-73).                                                           *)
RealExitStatus ==
    pc = "exit" => outputs.code = childCode

(* Left alone, the script reports the real exit status (wrapper:70-73) and    *)
(* "the capture files are complete before reading them below" (wrapper:81-83),*)
(* however the child, its collection and the tees interleave.                 *)
UndisturbedIsFaithful ==
    pc = "exit" /\ sent = 0 =>
        outputs = [code |-> childCode, captured |-> written]

(* The script ends once the child has ended, signals or not.                  *)
ScriptEnds == child = "zombie" ~> pc = "exit"

(* "a cancelled job must still let a running apply release its lock on its    *)
(* own way out, rather than have this wrapper swallow the signal"             *)
(* (wrapper:22): from child_pid=$! on, cancelling ends the child and then the *)
(* script, whatever command the signal finds it at.                           *)
CancelEnds == pending /\ childPid ~> pc = "exit"
=============================================================================
