------------------------------ MODULE GateSpec ------------------------------
(* What the lock gate promises, without saying how it looks at the lock.      *)
(*                                                                           *)
(* While a plan is pending it may see the lock free or held; once decided it  *)
(* stays decided and learns nothing more.  Which evidence each decision needs *)
(* is what the comments on the -lock-check modes say (main.go):               *)
(* warn always runs plan, strict refuses only what it saw held, require runs  *)
(* only what it saw free, anything else is a usage error.                     *)
EXTENDS LockDecision

CONSTANTS Plans, Modes

VARIABLES mode, outcome, sawFree, sawHeld

vars == <<mode, outcome, sawFree, sawHeld>>

Init ==
    /\ mode \in [Plans -> Modes]
    /\ outcome = [p \in Plans |-> "pending"]
    /\ sawFree = [p \in Plans |-> FALSE]
    /\ sawHeld = [p \in Plans |-> FALSE]

\* Evidence is only gathered, and only before the decision.
Gather(saw, new) ==
    \A p \in Plans :
        /\ saw[p] => new[p]
        /\ saw[p] # new[p] => outcome[p] = "pending"

Watch ==
    /\ sawFree' \in [Plans -> BOOLEAN]
    /\ sawHeld' \in [Plans -> BOOLEAN]
    /\ Gather(sawFree, sawFree')
    /\ Gather(sawHeld, sawHeld')
    /\ UNCHANGED mode

Look == Watch /\ UNCHANGED outcome

Run(p) ==
    /\ outcome[p] = "pending"
    /\ mode[p] \in ValidModes
    /\ mode[p] = "require" => sawFree[p]
    /\ outcome' = [outcome EXCEPT ![p] = "run"]
    /\ Watch

Refuse(p) ==
    /\ outcome[p] = "pending"
    /\ mode[p] # "warn"
    /\ mode[p] = "strict" => sawHeld[p]
    /\ outcome' = [outcome EXCEPT ![p] = "refused"]
    /\ Watch

Next == Look \/ \E p \in Plans : Run(p) \/ Refuse(p)

Spec == Init /\ [][Next]_vars

\* The gate always decides.
Live == \A p \in Plans : <>(outcome[p] # "pending")
=============================================================================
