------------------------------ MODULE PlanGate ------------------------------
(* The plan-only lock gate of parraform, run by several "parraform plan"      *)
(* processes next to terraform processes that lock the same state.           *)
(*                                                                           *)
(* Each plan has a main thread (checkLock, peekLock, the select of            *)
(* peekWithTimeout, decideLockAction, execwrap.Run) and the goroutine that    *)
(* peekWithTimeout starts to run checker.Peek.  The two meet in a channel of  *)
(* capacity one, and the timer of the context races them.                     *)
(*                                                                           *)
(* A backend keeps its state lock in one or more lock mechanisms: the S3      *)
(* backend may use a lockfile and a DynamoDB item at once.  Three kinds of    *)
(* peek exist: "object" checkers read a lock record, "flock" (local.go) and   *)
(* "advisory" (pg.go) ones try to take the lock and give it back.             *)
EXTENDS LockDecision, Naturals, Sequences

CONSTANTS
    Plans,     \* parraform plan processes; each becomes a terraform plan
    Writers,   \* terraform processes that always lock (apply, ...)
    NoOne,     \* the owner of a free mechanism
    Modes,     \* the effective -lock-check modes the users ask for
    LockArgs,  \* whether their own arguments say -lock=true
    Order,     \* the lock mechanisms the peek looks at, in its order
    Uses,      \* the mechanisms each terraform process takes
    PeekKinds, \* which of "object", "flock" and "advisory" there may be
    FlockFails, \* flock may fail where nobody holds the lock (ENOLCK, EBADF)
    Platform   \* "unix": exec replaces parraform; "windows": it stays as
               \* parent, for each plan

Clients == Plans \cup Writers
Mechs == {Order[i] : i \in 1..Len(Order)}

ASSUME OrderAssumption ==
    /\ Order \in Seq(Mechs)
    /\ Len(Order) > 0

\* Every process that locks this state takes at least one mechanism they all
\* share, or terraform itself could not exclude two of them.
ASSUME UsesAssumption ==
    /\ Uses \in [Clients -> SUBSET Mechs]
    /\ \E m \in Mechs : \A c \in Clients : m \in Uses[c]

ASSUME KindAssumption ==
    /\ PeekKinds \subseteq {"object", "flock", "advisory"}
    /\ PeekKinds \subseteq {"object"} \/ Len(Order) = 1
    /\ FlockFails \in BOOLEAN
    /\ Platform \in [Plans -> {"unix", "windows"}]

ASSUME NoOneAssumption == NoOne \notin Clients

ASSUME InputAssumption ==
    /\ Modes \subseteq ValidModes \cup {"invalid"}
    /\ LockArgs \subseteq BOOLEAN

VARIABLES
    mode,      \* the effective -lock-check mode of each plan
    lockTrue,  \* whether its own arguments say -lock=true
    kind,      \* the kind of peek the backend calls for
    pc,        \* its main thread
    status,    \* lockStatus.state once the peek has answered
    peeker,    \* its peek goroutine
    at,        \* the mechanism in Order the goroutine looks at
    probe,     \* whether its peek holds the backend's lock at the moment
    chan,      \* the result channel, or "empty"
    expired,   \* whether the timer of its context has fired
    owner,     \* the terraform process that holds each mechanism
    tf,        \* each terraform process
    exists,    \* local, pg: the state file or states row has been created
    freeSeen,  \* history: the lock was free at some moment of this plan's peek
    heldSeen   \* history: a terraform process held one at some moment of it

mainVars  == <<pc, status>>
peekVars  == <<peeker, at, probe, chan>>
tfVars    == <<owner, tf, exists>>
inputs    == <<mode, lockTrue, kind>>
history   == <<freeSeen, heldSeen>>
vars      == <<inputs, mainVars, peekVars, expired, tfVars, history>>

Results == {"empty", "unknown", "free", "held"}

TypeOK ==
    /\ mode \in [Plans -> Modes]
    /\ lockTrue \in [Plans -> LockArgs]
    /\ kind \in PeekKinds
    /\ pc \in [Plans -> {"start", "peek", "decide", "refused", "terraform"}]
    /\ status \in [Plans -> LockStates]
    /\ peeker \in [Plans -> {"idle", "reading", "probing", "ended"}]
    /\ at \in [Plans -> 1..Len(Order)]
    /\ probe \in [Plans -> BOOLEAN]
    /\ chan \in [Plans -> Results]
    /\ expired \in [Plans -> BOOLEAN]
    /\ owner \in [Mechs -> Clients \cup {NoOne}]
    /\ tf \in [Clients -> {"idle", "running", "acquiring", "locked",
                           "releasing", "done"}]
    /\ exists \in BOOLEAN
    /\ freeSeen \in [Plans -> BOOLEAN]
    /\ heldSeen \in [Plans -> BOOLEAN]

Init ==
    /\ mode \in [Plans -> Modes]
    /\ lockTrue \in [Plans -> LockArgs]
    /\ kind \in PeekKinds
    /\ pc = [p \in Plans |-> "start"]
    /\ status = [p \in Plans |-> "unknown"]
    /\ peeker = [p \in Plans |-> "idle"]
    /\ at = [p \in Plans |-> 1]
    /\ probe = [p \in Plans |-> FALSE]
    /\ chan = [p \in Plans |-> "empty"]
    /\ expired = [p \in Plans |-> FALSE]
    /\ owner = [m \in Mechs |-> NoOne]
    /\ tf = [c \in Clients |-> "idle"]
    /\ exists \in (IF kind = "object" THEN {TRUE} ELSE BOOLEAN)
    /\ freeSeen = [p \in Plans |-> FALSE]
    /\ heldSeen = [p \in Plans |-> FALSE]

-----------------------------------------------------------------------------
(* The lock, as the processes that use it see it. *)

\* No terraform process holds the state lock: one that is still acquiring or
\* already releasing has only some of its mechanisms.
StateUnlocked == \A c \in Clients : tf[c] # "locked"

\* A mechanism can be taken: no process owns it and no peek has it for a moment.
Available(m) == owner[m] = NoOne /\ \A p \in Plans : ~probe[p]

\* What happened while the peek of a plan was being waited for, whatever step
\* the system takes now.
Observe ==
    /\ freeSeen' = [p \in Plans |-> \/ freeSeen[p]
                                    \/ pc[p] = "peek" /\ StateUnlocked]
    /\ heldSeen' = [p \in Plans |->
                      \/ heldSeen[p]
                      \/ pc[p] = "peek" /\ \E m \in Mechs : owner[m] # NoOne]

-----------------------------------------------------------------------------
(* The main thread of a plan. *)

\* Wrong: nothing to check is taken for a free lock.
SkipPeekAsFree(p) ==
    /\ pc[p] = "start"
    /\ pc' = [pc EXCEPT ![p] = "decide"]
    /\ status' = [status EXCEPT ![p] = "free"]
    /\ UNCHANGED <<inputs, peekVars, expired, tfVars>>
    /\ Observe

\* peekLock returns before it starts a peek: the timeout is not positive, the
\* working directory or the backend cache cannot be read, there is no
\* backend, or no checker for it.
SkipPeek(p) ==
    /\ pc[p] = "start"
    /\ pc' = [pc EXCEPT ![p] = "decide"]
    /\ UNCHANGED <<inputs, status, peekVars, expired, tfVars>>
    /\ Observe

\* peekWithTimeout makes the context and the channel and starts the goroutine.
\* local.go is built !windows: there, no checker is registered for "local".
BeginPeek(p) ==
    /\ pc[p] = "start"
    /\ kind = "flock" => Platform[p] = "unix"
    /\ pc' = [pc EXCEPT ![p] = "peek"]
    /\ peeker' = [peeker EXCEPT ![p] = "reading"]
    /\ UNCHANGED <<inputs, status, at, probe, chan, expired, tfVars>>
    /\ Observe

\* Wrong: a receive that does not wait for the send.
SelectResultEarly(p) ==
    /\ pc[p] = "peek"
    /\ status' = [status EXCEPT ![p] = chan[p]]
    /\ chan' = [chan EXCEPT ![p] = "empty"]
    /\ pc' = [pc EXCEPT ![p] = "decide"]
    /\ UNCHANGED <<inputs, peeker, at, probe, expired, tfVars>>
    /\ Observe

\* select receives the result; peekLock turns it into a lockStatus.  When the
\* timer has fired too, Go picks either ready case.
SelectResult(p) ==
    /\ pc[p] = "peek"
    /\ chan[p] # "empty"
    /\ status' = [status EXCEPT ![p] = chan[p]]
    /\ chan' = [chan EXCEPT ![p] = "empty"]
    /\ pc' = [pc EXCEPT ![p] = "decide"]
    /\ UNCHANGED <<inputs, peeker, at, probe, expired, tfVars>>
    /\ Observe

\* Wrong: the peek itself is relied on to end with its context.
SelectTimeoutWaits(p) ==
    /\ pc[p] = "peek"
    /\ expired[p] /\ peeker[p] = "ended"
    /\ pc' = [pc EXCEPT ![p] = "decide"]
    /\ UNCHANGED <<inputs, status, peekVars, expired, tfVars>>
    /\ Observe

\* select sees ctx.Done: the verdict is unknown and the goroutine is abandoned.
SelectTimeout(p) ==
    /\ pc[p] = "peek"
    /\ expired[p]
    /\ pc' = [pc EXCEPT ![p] = "decide"]
    /\ UNCHANGED <<inputs, status, peekVars, expired, tfVars>>
    /\ Observe

\* Wrong: the descriptor of the state file is inherited by terraform.
GoroutineGoneFileOpen(p) ==
    /\ peeker' = [peeker EXCEPT ![p] = "ended"]
    /\ UNCHANGED <<probe, at, chan>>

\* The process is gone, and with it its goroutine.  Closing the state file
\* drops a flock; the server keeps an advisory lock until it notices that the
\* session has ended.
GoroutineGone(p) ==
    /\ peeker' = [peeker EXCEPT ![p] = "ended"]
    /\ probe' = [probe EXCEPT ![p] = @ /\ kind = "advisory"]
    /\ UNCHANGED <<at, chan>>

\* decideLockAction returns an error and main exits with code 1.
Refuse(p) ==
    /\ pc[p] = "decide"
    /\ Refuses(mode[p], status[p])
    /\ pc' = [pc EXCEPT ![p] = "refused"]
    /\ GoroutineGone(p)
    /\ UNCHANGED <<inputs, status, expired, tfVars>>
    /\ Observe

\* execwrap.Run: exec replaces the process on unix; on windows terraform is a
\* child and an abandoned goroutine goes on beside it.
RunTerraform(p) ==
    /\ pc[p] = "decide"
    /\ ~Refuses(mode[p], status[p])
    /\ pc' = [pc EXCEPT ![p] = "terraform"]
    /\ tf' = [tf EXCEPT ![p] = "running"]
    /\ IF Platform[p] = "unix" THEN GoroutineGone(p) ELSE UNCHANGED peekVars
    /\ UNCHANGED <<inputs, status, expired, owner, exists>>
    /\ Observe

\* On windows cmd.Run returns when terraform has ended, and parraform exits
\* with its exit code.
ParentExits(p) ==
    /\ Platform[p] = "windows"
    /\ pc[p] = "terraform"
    /\ tf[p] = "done"
    /\ peeker[p] # "ended"
    /\ GoroutineGone(p)
    /\ UNCHANGED <<inputs, mainVars, expired, tfVars>>
    /\ Observe

\* The deadline of context.WithTimeout passes.
TimerFires(p) ==
    /\ pc[p] = "peek"
    /\ ~expired[p]
    /\ expired' = [expired EXCEPT ![p] = TRUE]
    /\ UNCHANGED <<inputs, mainVars, peekVars, tfVars>>
    /\ Observe

-----------------------------------------------------------------------------
(* The peek goroutine: checker.Peek, then one send on the channel. *)

Answer(p, result) ==
    /\ chan' = [chan EXCEPT ![p] = result]
    /\ peeker' = [peeker EXCEPT ![p] = "ended"]

\* Wrong: the first mechanism that is free settles it.
ReadFirstMechanism(p) ==
    /\ kind = "object"
    /\ peeker[p] = "reading"
    /\ Answer(p, IF owner[Order[at[p]]] = NoOne THEN "free" ELSE "held")
    /\ UNCHANGED <<inputs, mainVars, at, probe, expired, tfVars>>
    /\ Observe

\* An "object" checker reads the lock record of one mechanism.  A held one
\* ends the peek, a free one leads on to the next (peekS3Locks).
ReadMechanism(p) ==
    /\ kind = "object"
    /\ peeker[p] = "reading"
    /\ LET m == Order[at[p]]
       IN  \/ /\ owner[m] # NoOne
              /\ Answer(p, "held")
              /\ UNCHANGED at
           \/ /\ owner[m] = NoOne
              /\ at[p] = Len(Order)
              /\ Answer(p, "free")
              /\ UNCHANGED at
           \/ /\ owner[m] = NoOne
              /\ at[p] < Len(Order)
              /\ at' = [at EXCEPT ![p] = @ + 1]
              /\ UNCHANGED <<chan, peeker>>
    /\ UNCHANGED <<inputs, mainVars, probe, expired, tfVars>>
    /\ Observe

\* local, pg: no state file or no states row yet, so there is nothing to lock.
FindNoState(p) ==
    /\ kind # "object"
    /\ peeker[p] = "reading"
    /\ ~exists
    /\ Answer(p, "free")
    /\ UNCHANGED <<inputs, mainVars, at, probe, expired, tfVars>>
    /\ Observe

\* local, pg: flock(LOCK_EX|LOCK_NB) or pg_try_advisory_lock.  Any error of
\* flock counts as a held lock.
TryLock(p) ==
    /\ kind # "object"
    /\ peeker[p] = "reading"
    /\ exists
    /\ \/ /\ Available(Order[at[p]])
          /\ probe' = [probe EXCEPT ![p] = TRUE]
          /\ peeker' = [peeker EXCEPT ![p] = "probing"]
          /\ UNCHANGED chan
       \/ /\ ~Available(Order[at[p]]) \/ (kind = "flock" /\ FlockFails)
          /\ Answer(p, "held")
          /\ UNCHANGED probe
    /\ UNCHANGED <<inputs, mainVars, at, expired, tfVars>>
    /\ Observe

\* local, pg: flock(LOCK_UN) or pg_advisory_unlock, then the peek says free.
Unlock(p) ==
    /\ peeker[p] = "probing"
    /\ probe' = [probe EXCEPT ![p] = FALSE]
    /\ Answer(p, "free")
    /\ UNCHANGED <<inputs, mainVars, at, expired, tfVars>>
    /\ Observe

\* Wrong: an error leaves Info{} behind, and that reads as a free lock.
PeekFailsAsFree(p) ==
    /\ peeker[p] = "reading"
    /\ Answer(p, "free")
    /\ UNCHANGED <<inputs, mainVars, at, probe, expired, tfVars>>
    /\ Observe

\* Wrong: an error counts as a held lock.
PeekFailsAsHeld(p) ==
    /\ peeker[p] = "reading"
    /\ Answer(p, "held")
    /\ UNCHANGED <<inputs, mainVars, at, probe, expired, tfVars>>
    /\ Observe

\* The peek ends in an error or finds its configuration unsupported.  Pg may
\* fail with the lock taken: the answer to pg_try_advisory_lock is lost, or
\* the unlock cannot be sent because the context has ended.
PeekFails(p) ==
    /\ \/ peeker[p] = "reading" /\ UNCHANGED probe
       \/ /\ peeker[p] = "reading"
          /\ kind = "advisory"
          /\ exists
          /\ Available(Order[at[p]])
          /\ probe' = [probe EXCEPT ![p] = TRUE]
       \/ /\ peeker[p] = "probing"
          /\ kind = "advisory"
          /\ UNCHANGED probe
    /\ Answer(p, "unknown")
    /\ UNCHANGED <<inputs, mainVars, at, expired, tfVars>>
    /\ Observe

\* Wrong: the session is closed only while parraform waits for the peek.
DropSessionInPeek(p) ==
    /\ kind = "advisory"
    /\ peeker[p] = "ended" /\ pc[p] = "peek"
    /\ probe[p]
    /\ probe' = [probe EXCEPT ![p] = FALSE]
    /\ UNCHANGED <<inputs, mainVars, peeker, at, chan, expired, tfVars>>
    /\ Observe

\* pg: the session of a peek that is over is closed, and the server gives
\* back what it still holds.
DropSession(p) ==
    /\ kind = "advisory"
    /\ peeker[p] = "ended"
    /\ probe[p]
    /\ probe' = [probe EXCEPT ![p] = FALSE]
    /\ UNCHANGED <<inputs, mainVars, peeker, at, chan, expired, tfVars>>
    /\ Observe

-----------------------------------------------------------------------------
(* The terraform processes, known only from what the checkers say of them.    *)

\* A writer, or a plan with an explicit -lock=true, starts to lock.
StartLocking(c) ==
    /\ \/ c \in Writers /\ tf[c] = "idle"
       \/ c \in Plans /\ tf[c] = "running" /\ lockTrue[c]
    /\ tf' = [tf EXCEPT ![c] = "acquiring"]
    /\ UNCHANGED <<inputs, mainVars, peekVars, expired, owner, exists>>
    /\ Observe

\* It takes one of its mechanisms; with the last one it holds the lock.
Take(c, m) ==
    /\ tf[c] = "acquiring"
    /\ m \in Uses[c]
    /\ Available(m)
    /\ owner' = [owner EXCEPT ![m] = c]
    /\ tf' = [tf EXCEPT ![c] =
                IF \A n \in Uses[c] : owner'[n] = c THEN "locked" ELSE @]
    /\ exists' = TRUE
    /\ UNCHANGED <<inputs, mainVars, peekVars, expired>>
    /\ Observe

\* A mechanism is taken already: it gives up ("Error acquiring the state lock").
Contend(c, m) ==
    /\ tf[c] = "acquiring"
    /\ m \in Uses[c]
    /\ owner[m] # c
    /\ ~Available(m)
    /\ tf' = [tf EXCEPT ![c] = "releasing"]
    /\ UNCHANGED <<inputs, mainVars, peekVars, expired, owner, exists>>
    /\ Observe

\* It has done its work under the lock.
Finish(c) ==
    /\ tf[c] = "locked"
    /\ tf' = [tf EXCEPT ![c] = "releasing"]
    /\ UNCHANGED <<inputs, mainVars, peekVars, expired, owner, exists>>
    /\ Observe

\* It gives one of its mechanisms back.
Give(c, m) ==
    /\ tf[c] = "releasing"
    /\ owner[m] = c
    /\ owner' = [owner EXCEPT ![m] = NoOne]
    /\ UNCHANGED <<inputs, mainVars, peekVars, expired, tf, exists>>
    /\ Observe

\* A writer may come back for another run; a plan has ended.
Exit(c) ==
    /\ \/ /\ tf[c] = "releasing"
          /\ \A m \in Mechs : owner[m] # c
       \/ c \in Plans /\ tf[c] = "running" /\ ~lockTrue[c]
    /\ tf' = [tf EXCEPT ![c] = IF c \in Writers THEN "idle" ELSE "done"]
    /\ UNCHANGED <<inputs, mainVars, peekVars, expired, owner, exists>>
    /\ Observe

-----------------------------------------------------------------------------
Main(p) ==
    \/ SkipPeek(p)
    \/ BeginPeek(p)
    \/ SelectResult(p)
    \/ SelectTimeout(p)
    \/ Refuse(p)
    \/ RunTerraform(p)
    \/ ParentExits(p)

Peeker(p) ==
    \/ ReadMechanism(p)
    \/ FindNoState(p)
    \/ TryLock(p)
    \/ Unlock(p)
    \/ PeekFails(p)
    \/ DropSession(p)

Terraform(c) ==
    \/ StartLocking(c)
    \/ \E m \in Mechs : Take(c, m) \/ Contend(c, m) \/ Give(c, m)
    \/ Finish(c)
    \/ Exit(c)

Next ==
    \/ \E p \in Plans : Main(p) \/ TimerFires(p) \/ Peeker(p)
    \/ \E c \in Clients : Terraform(c)

\* The main thread is never blocked except in select, and the timer fires.
\* Nothing is assumed of the goroutine, whose SDK call may never return, nor
\* of terraform.  The Postgres server notices that a session has ended.
Fairness ==
    \A p \in Plans :
        /\ WF_vars(Main(p))
        /\ WF_vars(TimerFires(p))
        /\ WF_vars(DropSession(p))

Spec == Init /\ [][Next]_vars
FairSpec == Spec /\ Fairness

-----------------------------------------------------------------------------
(* -lock-check=require: "a plan can only proceed once the lock has            *)
(* positively been seen unheld" (main.go).  The mechanisms are read one after *)
(* the other, the goroutine runs beside the timer and writers come and go:    *)
(* still there was a moment of the peek when nobody held the state lock.      *)
RequireSawFree ==
    \A p \in Plans :
        mode[p] = "require" /\ pc[p] = "terraform" => freeSeen[p]

\* Why RequireSawFree holds: a verdict "free" is never further along than the
\* evidence for it.
Shared == {m \in Mechs : \A c \in Clients : m \in Uses[c]}

LockedOwnsAll ==
    \A c \in Clients : tf[c] = "locked" => \A m \in Uses[c] : owner[m] = c

NoStateNoOwner == ~exists => \A m \in Mechs : owner[m] = NoOne

Evidence(p) ==
    /\ pc[p] = "start" => at[p] = 1 /\ peeker[p] = "idle" /\ chan[p] = "empty"
    /\ pc[p] = "peek" =>
         /\ \A i \in 1..Len(Order) :
               Order[i] \in Shared /\ i < at[p] => freeSeen[p]
         /\ peeker[p] = "probing" => freeSeen[p]
         /\ chan[p] = "free" => freeSeen[p]
    /\ status[p] = "free" => freeSeen[p]
    /\ pc[p] = "terraform" => ~Refuses(mode[p], status[p])

FreeHasEvidence == \A p \in Plans : Evidence(p)

(* The inductive invariant behind RequireSawFree: a process that holds the    *)
(* state lock owns all its mechanisms, and every stage of a peek that is past *)
(* a mechanism shared by all has already met a moment without a holder.       *)
GateInv == LockedOwnsAll /\ NoStateNoOwner /\ FreeHasEvidence

(* -lock-check=strict "refuses to run plan at all when the lock is confirmed  *)
(* held" and never "blocks on mere uncertainty": a strict plan is refused     *)
(* only if a terraform process held the lock, or part of it, at some moment   *)
(* of the peek.                                                               *)
StrictRefusalJustified ==
    \A p \in Plans :
        mode[p] = "strict" /\ pc[p] = "refused" => heldSeen[p]

\* Why StrictRefusalJustified holds of a checker that only reads lock records.
HeldEvidence(p) ==
    /\ pc[p] = "start" => peeker[p] = "idle" /\ chan[p] = "empty"
    /\ pc[p] = "peek" /\ chan[p] = "held" => heldSeen[p]
    /\ status[p] = "held" => heldSeen[p]
    /\ pc[p] = "refused" => Refuses(mode[p], status[p])

(* A verdict "held" of an object checker is never further along than its      *)
(* evidence: some process did own a mechanism while the plan waited.          *)
HeldHasEvidence == \A p \in Plans : HeldEvidence(p)

(* "there is nothing to clean up and no leaked resource that outlives the     *)
(* parraform process" (peekWithTimeout): once parraform is gone its peek      *)
(* holds no lock, but for the server of pg, which ends a session in its time. *)
NoProbeOutlivesParraform ==
    \A p \in Plans :
        \/ pc[p] = "refused"
        \/ pc[p] = "terraform" /\ Platform[p] = "unix"
        => ~probe[p] \/ kind = "advisory"

(* A peek "must never block or fail" anything and never takes the lock        *)
(* (package lockcheck): a terraform process fails to lock only because        *)
(* another terraform process holds the mechanism.                             *)
ContentionIsReal ==
    [][\A c \in Clients, m \in Mechs :
          Contend(c, m) => owner[m] # NoOne]_vars

(* The timeout bounds the gate even if the SDK call never returns: every plan *)
(* is refused or becomes terraform.                                           *)
PlanDecided ==
    \A p \in Plans : <>(pc[p] \in {"refused", "terraform"})

(* In warn mode the peek never keeps a plan from running, whatever it says or *)
(* fails to say.                                                              *)
WarnPlanRuns ==
    \A p \in Plans : mode[p] = "warn" ~> pc[p] = "terraform"

(* The gate does what it promises: seen from outside it is GateSpec, with the  *)
(* history of what could be seen during the peek as its evidence.             *)
Outcome == [p \in Plans |->
    CASE pc[p] = "terraform" -> "run"
      [] pc[p] = "refused" -> "refused"
      [] OTHER -> "pending"]

Gate == INSTANCE GateSpec
          WITH outcome <- Outcome, sawFree <- freeSeen, sawHeld <- heldSeen

\* Every run of parraform plan keeps the promise of GateSpec: its safety, and
\* that the gate decides whatever the SDK call does.
GateKept == Gate!Spec /\ Gate!Live

(* A lock a peek took for a moment is given back, by the unlock, by the end   *)
(* of the process or by the server, even if the goroutine never runs again.   *)
(* On windows the process of an abandoned goroutine stays as long as          *)
(* terraform does, so nothing is promised there.                              *)
ProbeReleased ==
    \A p \in Plans : Platform[p] = "unix" => (probe[p] ~> ~probe[p])
=============================================================================
