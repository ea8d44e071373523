---------------------------- MODULE LockDecision ----------------------------
(* What parraform does with the verdict of a lock peek: the -lock-check       *)
(* modes, the three lock states and the decision table that turns them into   *)
(* a refusal, a warning or silence (src/cmd/parraform/main.go).               *)

\* lockCheckWarn, lockCheckStrict, lockCheckRequire
ValidModes == {"warn", "strict", "require"}

\* "unknown" is the zero value of lockState
LockStates == {"unknown", "free", "held"}

\* checkLock: only a flag that was not given at all defaults to warn
EffectiveMode(mode, present) ==
    IF mode = "" /\ ~present THEN "warn" ELSE mode

\* Two wrong tables: strict that fails closed, and a held lock that stops warn.
RefusesStrictUnknown(mode, state) ==
    \/ mode \notin ValidModes
    \/ state = "held" /\ mode \in {"strict", "require"}
    \/ state = "unknown" /\ mode \in {"strict", "require"}

RefusesAllHeld(mode, state) ==
    \/ mode \notin ValidModes
    \/ state = "held"
    \/ state = "unknown" /\ mode = "require"

\* decideLockAction returns an error: plan is not run
Refuses(mode, state) ==
    \/ mode \notin ValidModes
    \/ state = "held" /\ mode \in {"strict", "require"}
    \/ state = "unknown" /\ mode = "require"

\* what decideLockAction prints when it returns nil
Warning(mode, state, explicitLockTrue) ==
    IF mode = "warn" /\ state = "held"
    THEN IF explicitLockTrue THEN "willLock" ELSE "unlocked"
    ELSE "none"
=============================================================================
