------------------------------ MODULE ArgScan ------------------------------
(* The loop that takes parraform's own flag out of an argument list, one      *)
(* round per step: LockCheckMode for argv, and the same loop again in         *)
(* lockCheckModeFromPlanArgsValue for TF_CLI_ARGS_plan                        *)
(* (src/internal/tfargs/tfargs.go).                                           *)
EXTENDS TFArgs, FiniteSets

CONSTANTS
    Fragments,  \* what texts are made of
    Inputs      \* the argument lists to scan

Text == Seq(Fragments)

ASSUME InputsAssumption == Inputs \subseteq Seq(Text)

VARIABLES
    args,     \* the argument list
    i,        \* the loop's index
    mode,     \* the last value seen
    present,  \* whether the flag was seen
    rest,     \* what is kept
    from,     \* history: where each kept argument was
    done      \* the loop has ended

vars == <<args, i, mode, present, rest, from, done>>

TypeOK ==
    /\ args \in Seq(Text)
    /\ i \in 1..(Len(args) + 1)
    /\ mode \in Text
    /\ present \in BOOLEAN
    /\ rest \in Seq(Text)
    /\ from \in Seq(Nat)
    /\ done \in BOOLEAN

Init ==
    /\ args \in Inputs
    /\ i = 1
    /\ mode = <<>>
    /\ present = FALSE
    /\ rest = <<>>
    /\ from = <<>>
    /\ done = FALSE

\* "-lock-check=MODE"
WithValue ==
    /\ i <= Len(args)
    /\ HasLockCheckValue(args[i])
    /\ mode' = Tail(args[i])
    /\ present' = TRUE
    /\ i' = i + 1
    /\ UNCHANGED <<args, rest, from, done>>

\* Wrong: the value that follows stays where it is.
BareFlagOnly ==
    /\ i <= Len(args)
    /\ IsLockCheckFlag(args[i])
    /\ present' = TRUE
    /\ mode' = IF i < Len(args) THEN args[i + 1] ELSE mode
    /\ i' = i + 1
    /\ UNCHANGED <<args, rest, from, done>>

\* Wrong: the value is skipped even where the list ends before it.
BareFlagPastEnd ==
    /\ i <= Len(args)
    /\ IsLockCheckFlag(args[i])
    /\ present' = TRUE
    /\ mode' = IF i < Len(args) THEN args[i + 1] ELSE mode
    /\ i' = i + 2
    /\ UNCHANGED <<args, rest, from, done>>

\* "-lock-check MODE": the next argument is the mode, whatever it is; at the
\* end of the list there is none.
BareFlag ==
    /\ i <= Len(args)
    /\ IsLockCheckFlag(args[i])
    /\ present' = TRUE
    /\ IF i < Len(args)
       THEN mode' = args[i + 1] /\ i' = i + 2
       ELSE mode' = mode /\ i' = i + 1
    /\ UNCHANGED <<args, rest, from, done>>

\* Wrong: the form with a value is not recognised here.
KeepWithValue ==
    /\ i <= Len(args)
    /\ ~IsLockCheckFlag(args[i])
    /\ rest' = Append(rest, args[i])
    /\ from' = Append(from, i)
    /\ i' = i + 1
    /\ UNCHANGED <<args, mode, present, done>>

\* Anything else is kept.
Keep ==
    /\ i <= Len(args)
    /\ ~HasLockCheckValue(args[i])
    /\ ~IsLockCheckFlag(args[i])
    /\ rest' = Append(rest, args[i])
    /\ from' = Append(from, i)
    /\ i' = i + 1
    /\ UNCHANGED <<args, mode, present, done>>

Return ==
    /\ i > Len(args)
    /\ ~done
    /\ done' = TRUE
    /\ UNCHANGED <<args, i, mode, present, rest, from>>

Next == WithValue \/ BareFlag \/ Keep \/ Return

Spec == Init /\ [][Next]_vars

-----------------------------------------------------------------------------
\* How many bare flags stand in a row right before position j.
BareRun(j) ==
    Cardinality({k \in 1..(j - 1) :
                   (\A n \in k..(j - 1) : IsLockCheckFlag(args[n]))})

\* Of bare flags in a row each second one is the value of the one before it,
\* so a position is a value if an odd number of them precedes it.
IsValue(j) == BareRun(j) % 2 = 1

\* The positions the flag occupies, and the ones that give a mode.
IsFlag(j) == ~IsValue(j) /\ (HasLockCheckValue(args[j]) \/ IsLockCheckFlag(args[j]))
Givers == {j \in 1..Len(args) :
             IsValue(j) \/ HasLockCheckValue(args[j])}

\* "a bare -lock-check at the end of args"
EndsBare ==
    /\ args # <<>>
    /\ ~IsValue(Len(args))
    /\ IsLockCheckFlag(args[Len(args)])

(* What LockCheckMode returns, said without a loop: every occurrence of the   *)
(* flag and its value is gone and everything else kept; the mode is the last  *)
(* value given, and empty if there is none.  It says nothing of the mode of a *)
(* list that gives a value and then ends in a bare flag: the code keeps the   *)
(* value, and tfargs.go:51-54 documents an empty mode for a missing one "so   *)
(* callers can reject" it.                                                    *)
ScanCorrect ==
    done =>
        /\ {from[k] : k \in 1..Len(from)} =
             {j \in 1..Len(args) : ~IsValue(j) /\ ~IsFlag(j)}
        /\ present <=> \E j \in 1..Len(args) : IsFlag(j)
        /\ Givers = {} => mode = <<>>
        /\ ~EndsBare =>
             \A j \in Givers :
                (\A k \in Givers : k <= j) =>
                    mode = IF IsValue(j) THEN args[j] ELSE Tail(args[j])

(* The loop and the fold over tokens that RunTerraform uses agree.            *)
FoldAgrees ==
    done => LET s == LockCheckMode(args)
            IN  s.mode = mode /\ s.present = present /\ s.rest = rest

(* The kept arguments are the arguments at increasing positions of the list,  *)
(* none of them the flag: nothing is reordered, duplicated or left over.      *)
KeptInOrder ==
    /\ Len(from) = Len(rest)
    /\ \A k \in 1..Len(from) :
         /\ from[k] \in 1..(i - 1)
         /\ rest[k] = args[from[k]]
         /\ ~HasLockCheckValue(rest[k])
         /\ ~IsLockCheckFlag(rest[k])
    /\ \A k, l \in 1..Len(from) : k < l => from[k] < from[l]
=============================================================================
