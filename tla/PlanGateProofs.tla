--------------------------- MODULE PlanGateProofs ---------------------------
(* Theorems about PlanGate for any number of plans and writers, any set of    *)
(* lock mechanisms and any kind of peek, checked by TLAPS.                    *)
EXTENDS PlanGate, TLAPS

(* The peek looks at one mechanism at least, and at finitely many. *)
LEMMA OrderLength == Len(Order) \in Nat /\ Len(Order) > 0
  BY OrderAssumption DEF OrderAssumption

(* Every variable of the gate keeps its type, whatever interleaving of main   *)
(* threads, goroutines, timers and terraform processes happens.               *)
THEOREM TypeCorrect == Spec => []TypeOK
<1>1. Init => TypeOK
  <2> SUFFICES ASSUME Init
               PROVE  TypeOK
    OBVIOUS
  <2>1. at \in [Plans -> 1..Len(Order)]
    BY OrderLength DEF Init
  <2>2. exists \in BOOLEAN
    BY DEF Init
  <2>3. /\ lockTrue \in [Plans -> LockArgs]
        /\ probe \in [Plans -> BOOLEAN]
        /\ expired \in [Plans -> BOOLEAN]
        /\ freeSeen \in [Plans -> BOOLEAN]
        /\ heldSeen \in [Plans -> BOOLEAN]
    BY DEF Init
  <2>4. QED
    BY <2>1, <2>2, <2>3 DEF Init, TypeOK, Results, LockStates
<1>2. TypeOK /\ [Next]_vars => TypeOK'
  <2> SUFFICES ASSUME TypeOK, [Next]_vars
               PROVE  TypeOK'
    OBVIOUS
  <2> USE DEF TypeOK, mainVars, peekVars, tfVars, inputs, Results, LockStates
  <2>1. ASSUME NEW p \in Plans, SkipPeek(p)
        PROVE  TypeOK'
    BY <2>1 DEF SkipPeek, Observe
  <2>2. ASSUME NEW p \in Plans, BeginPeek(p)
        PROVE  TypeOK'
    BY <2>2 DEF BeginPeek, Observe
  <2>3. ASSUME NEW p \in Plans, SelectResult(p)
        PROVE  TypeOK'
    BY <2>3 DEF SelectResult, Observe
  <2>4. ASSUME NEW p \in Plans, SelectTimeout(p)
        PROVE  TypeOK'
    BY <2>4 DEF SelectTimeout, Observe
  <2>5. ASSUME NEW p \in Plans, Refuse(p)
        PROVE  TypeOK'
    BY <2>5 DEF Refuse, GoroutineGone, Observe
  <2>6. ASSUME NEW p \in Plans, RunTerraform(p)
        PROVE  TypeOK'
    BY <2>6 DEF RunTerraform, GoroutineGone, Observe, Clients
  <2>7. ASSUME NEW p \in Plans, TimerFires(p)
        PROVE  TypeOK'
    BY <2>7 DEF TimerFires, Observe
  <2>8. ASSUME NEW p \in Plans, ReadMechanism(p)
        PROVE  TypeOK'
    <3>1. at' \in [Plans -> 1..Len(Order)]
      <4>1. at[p] < Len(Order) => at[p] + 1 \in 1..Len(Order)
        BY OrderLength
      <4>2. QED
        BY <2>8, <4>1 DEF ReadMechanism
    <3>2. QED
      BY <2>8, <3>1 DEF ReadMechanism, Answer, Observe
  <2>9. ASSUME NEW p \in Plans, FindNoState(p)
        PROVE  TypeOK'
    BY <2>9 DEF FindNoState, Answer, Observe
  <2>10. ASSUME NEW p \in Plans, TryLock(p)
         PROVE  TypeOK'
    BY <2>10 DEF TryLock, Answer, Observe
  <2>11. ASSUME NEW p \in Plans, Unlock(p)
         PROVE  TypeOK'
    BY <2>11 DEF Unlock, Answer, Observe
  <2>12. ASSUME NEW p \in Plans, PeekFails(p)
         PROVE  TypeOK'
    BY <2>12 DEF PeekFails, Answer, Observe
  <2>13. ASSUME NEW p \in Plans, DropSession(p)
         PROVE  TypeOK'
    BY <2>13 DEF DropSession, Observe
  <2>14. ASSUME NEW c \in Clients, StartLocking(c)
         PROVE  TypeOK'
    BY <2>14 DEF StartLocking, Observe
  <2>15. ASSUME NEW c \in Clients, NEW m \in Mechs, Take(c, m)
         PROVE  TypeOK'
    BY <2>15 DEF Take, Observe
  <2>16. ASSUME NEW c \in Clients, NEW m \in Mechs, Contend(c, m)
         PROVE  TypeOK'
    BY <2>16 DEF Contend, Observe
  <2>17. ASSUME NEW c \in Clients, Finish(c)
         PROVE  TypeOK'
    BY <2>17 DEF Finish, Observe
  <2>18. ASSUME NEW c \in Clients, NEW m \in Mechs, Give(c, m)
         PROVE  TypeOK'
    BY <2>18 DEF Give, Observe
  <2>19. ASSUME NEW c \in Clients, Exit(c)
         PROVE  TypeOK'
    BY <2>19 DEF Exit, Observe
  <2>20. ASSUME NEW p \in Plans, ParentExits(p)
         PROVE  TypeOK'
    BY <2>20 DEF ParentExits, GoroutineGone, Observe
  <2>21. CASE UNCHANGED vars
    BY <2>21 DEF vars, history
  <2>22. QED
    BY <2>1, <2>2, <2>3, <2>4, <2>5, <2>6, <2>7, <2>8, <2>9, <2>10, <2>11,
       <2>12, <2>13, <2>14, <2>15, <2>16, <2>17, <2>18, <2>19, <2>20,
       <2>21
    DEF Next, Main, Peeker, Terraform
<1>3. QED
  BY <1>1, <1>2, PTL DEF Spec

-----------------------------------------------------------------------------
(* A free shared mechanism means that nobody holds the state lock. *)
LEMMA FreeShared ==
    ASSUME TypeOK, LockedOwnsAll, NEW m \in Shared, owner[m] = NoOne
    PROVE  StateUnlocked
  BY NoOneAssumption
  DEF NoOneAssumption, Shared, LockedOwnsAll, StateUnlocked, TypeOK

(* Only the processes that lock disturb it, and each owns all it uses.        *)
LEMMA LockedOwnsAllStep ==
    TypeOK /\ LockedOwnsAll /\ [Next]_vars => LockedOwnsAll'
<1> SUFFICES ASSUME TypeOK, LockedOwnsAll, [Next]_vars
             PROVE  LockedOwnsAll'
  OBVIOUS
<1> USE UsesAssumption DEF UsesAssumption, TypeOK, LockedOwnsAll, tfVars
<1>1. ASSUME UNCHANGED tfVars
      PROVE  LockedOwnsAll'
  BY <1>1
<1>2. ASSUME NEW p \in Plans, Main(p) \/ TimerFires(p) \/ Peeker(p)
      PROVE  LockedOwnsAll'
  <2>1. ASSUME RunTerraform(p)
        PROVE  LockedOwnsAll'
    BY <2>1 DEF RunTerraform, Clients
  <2>2. ASSUME ~RunTerraform(p)
        PROVE  UNCHANGED tfVars
    BY <1>2, <2>2
    DEF Main, Peeker, SkipPeek, BeginPeek, SelectResult, SelectTimeout,
        Refuse, ParentExits, TimerFires, ReadMechanism, FindNoState, TryLock, Unlock,
        PeekFails, DropSession
  <2>3. QED
    BY <1>1, <2>1, <2>2
<1>3. ASSUME NEW c \in Clients, StartLocking(c) \/ Finish(c) \/ Exit(c)
      PROVE  LockedOwnsAll'
  <2>1. /\ UNCHANGED owner
        /\ \A d \in Clients : tf'[d] = "locked" => tf[d] = "locked"
    BY <1>3 DEF StartLocking, Finish, Exit
  <2>2. QED
    BY <2>1
<1>4. ASSUME NEW c \in Clients, NEW m \in Mechs, Contend(c, m)
      PROVE  LockedOwnsAll'
  BY <1>4 DEF Contend
<1>5. ASSUME NEW c \in Clients, NEW m \in Mechs, Give(c, m)
      PROVE  LockedOwnsAll'
  BY <1>5 DEF Give
<1>6. ASSUME NEW c \in Clients, NEW m \in Mechs, Take(c, m)
      PROVE  LockedOwnsAll'
  <2>1. ASSUME NEW d \in Clients, tf'[d] = "locked", d # c,
               NEW n \in Uses[d]
        PROVE  owner'[n] = d
    <3>1. owner[n] = d
      BY <1>6, <2>1 DEF Take
    <3>2. n # m
      BY <1>6, <2>1, <3>1, NoOneAssumption
      DEF Take, Available, NoOneAssumption
    <3>3. QED
      BY <1>6, <2>1, <3>1, <3>2 DEF Take
  <2>2. tf'[c] = "locked" => \A n \in Uses[c] : owner'[n] = c
    BY <1>6 DEF Take
  <2>3. QED
    BY <2>1, <2>2
<1>7. QED
  BY <1>1, <1>2, <1>3, <1>4, <1>5, <1>6 DEF Next, Terraform, vars

(* A mechanism is taken only together with the file or row it lives in.       *)
LEMMA NoStateNoOwnerStep ==
    TypeOK /\ NoStateNoOwner /\ [Next]_vars => NoStateNoOwner'
<1> SUFFICES ASSUME TypeOK, NoStateNoOwner, [Next]_vars
             PROVE  NoStateNoOwner'
  OBVIOUS
<1> USE DEF TypeOK, NoStateNoOwner, tfVars
<1>1. ASSUME UNCHANGED <<owner, exists>>
      PROVE  NoStateNoOwner'
  BY <1>1
<1>2. ASSUME NEW p \in Plans, Main(p) \/ TimerFires(p) \/ Peeker(p)
      PROVE  UNCHANGED <<owner, exists>>
  BY <1>2
  DEF Main, Peeker, SkipPeek, BeginPeek, SelectResult, SelectTimeout, Refuse,
      RunTerraform, ParentExits, TimerFires, ReadMechanism, FindNoState,
      TryLock, Unlock, PeekFails, DropSession
<1>3. ASSUME NEW c \in Clients, NEW m \in Mechs, Take(c, m) \/ Give(c, m)
      PROVE  NoStateNoOwner'
  BY <1>3 DEF Take, Give
<1>4. ASSUME NEW c \in Clients, NEW m \in Mechs,
             StartLocking(c) \/ Finish(c) \/ Exit(c) \/ Contend(c, m)
      PROVE  UNCHANGED <<owner, exists>>
  BY <1>4 DEF StartLocking, Finish, Exit, Contend
<1>5. Mechs # {}
  BY UsesAssumption DEF UsesAssumption
<1>6. QED
  BY <1>1, <1>2, <1>3, <1>4, <1>5 DEF Next, Terraform, vars

(* What a plan has seen stays seen.                                           *)
LEMMA ObserveKeeps ==
    ASSUME TypeOK, Observe, NEW p \in Plans
    PROVE  /\ freeSeen[p] => freeSeen'[p]
           /\ pc[p] = "peek" /\ StateUnlocked => freeSeen'[p]
           /\ heldSeen[p] => heldSeen'[p]
           /\ pc[p] = "peek" /\ (\E m \in Mechs : owner[m] # NoOne)
                => heldSeen'[p]
  BY DEF Observe, TypeOK

(* The variables of a plan that Evidence speaks of.                           *)
Own(p) ==
    <<pc[p], peeker[p], at[p], chan[p], status[p], mode[p], probe[p]>>

(* A step that leaves them alone leaves the evidence valid.                   *)
LEMMA EvidenceKept ==
    ASSUME NEW p \in Plans, Evidence(p), UNCHANGED Own(p),
           freeSeen[p] => freeSeen'[p]
    PROVE  Evidence(p)'
  BY DEF Evidence, Own

(* The goroutine answers "free" only after it found a shared mechanism free,  *)
(* or no state at all, and main waited for it then: Observe has recorded it.  *)
LEMMA EvidenceOfPeeker ==
    ASSUME TypeOK, GateInv, NEW p \in Plans, Peeker(p), Observe
    PROVE  Evidence(p)'
<1> USE DEF GateInv, FreeHasEvidence
<1>1. PICK s \in Shared : TRUE
  BY UsesAssumption DEF UsesAssumption, Shared
<1>2. PICK k \in 1..Len(Order) : Order[k] = s
  BY <1>1 DEF Shared, Mechs
<1>3. CASE pc[p] # "peek"
  <2>1. /\ pc'[p] = pc[p] /\ status'[p] = status[p] /\ mode'[p] = mode[p]
        /\ freeSeen[p] => freeSeen'[p]
    BY ObserveKeeps
    DEF Peeker, ReadMechanism, FindNoState, TryLock, Unlock, PeekFails,
        DropSession, mainVars, inputs
  <2>2. peeker[p] # "idle"
    BY DEF Peeker, ReadMechanism, FindNoState, TryLock, Unlock, PeekFails,
           DropSession
  <2>3. QED
    BY <1>3, <2>1, <2>2 DEF Evidence
<1>4. CASE pc[p] = "peek"
  <2> USE DEF TypeOK, mainVars
  <2>1. /\ pc'[p] = "peek" /\ status'[p] = status[p]
        /\ freeSeen[p] => freeSeen'[p]
        /\ StateUnlocked => freeSeen'[p]
    BY <1>4, ObserveKeeps
    DEF Peeker, ReadMechanism, FindNoState, TryLock, Unlock, PeekFails,
        DropSession
  <2>2. /\ \A i \in 1..Len(Order) :
             Order[i] \in Shared /\ i < at[p] => freeSeen[p]
        /\ peeker[p] = "probing" => freeSeen[p]
        /\ chan[p] = "free" => freeSeen[p]
        /\ status[p] = "free" => freeSeen[p]
    BY <1>4 DEF Evidence
  <2>3. SUFFICES /\ \A i \in 1..Len(Order) :
                      Order[i] \in Shared /\ i < at'[p] => freeSeen'[p]
                 /\ peeker'[p] = "probing" => freeSeen'[p]
                 /\ chan'[p] = "free" => freeSeen'[p]
    BY <2>1, <2>2 DEF Evidence
  <2>4. ASSUME ReadMechanism(p)
        PROVE  /\ \A i \in 1..Len(Order) :
                    Order[i] \in Shared /\ i < at'[p] => freeSeen'[p]
               /\ peeker'[p] = "probing" => freeSeen'[p]
               /\ chan'[p] = "free" => freeSeen'[p]
    <3>1. at[p] \in 1..Len(Order) /\ Len(Order) \in Nat
      BY OrderLength
    <3>2. ASSUME owner[Order[at[p]]] # NoOne
          PROVE  at' = at /\ chan'[p] = "held" /\ peeker'[p] = "ended"
      BY <2>4, <3>2 DEF ReadMechanism, Answer
    <3>3. ASSUME owner[Order[at[p]]] = NoOne, Order[at[p]] \in Shared
          PROVE  freeSeen'[p]
      BY <2>1, <3>3, FreeShared
    <3>4. ASSUME owner[Order[at[p]]] = NoOne, at[p] = Len(Order)
          PROVE  freeSeen'[p]
      <4>1. k = at[p] \/ k < at[p]
        BY <1>2, <3>1, <3>4
      <4>2. QED
        BY <1>1, <1>2, <2>1, <2>2, <3>3, <3>4, <4>1
    <3>5. ASSUME owner[Order[at[p]]] = NoOne, at[p] < Len(Order),
                 NEW i \in 1..Len(Order), Order[i] \in Shared, i < at[p] + 1
          PROVE  freeSeen'[p]
      <4>1. i = at[p] \/ i < at[p]
        BY <3>1, <3>5
      <4>2. QED
        BY <2>1, <2>2, <3>3, <3>5, <4>1
    <3>6. \/ at' = at
          \/ at'[p] = at[p] + 1 /\ at[p] < Len(Order)
             /\ owner[Order[at[p]]] = NoOne
      BY <2>4 DEF ReadMechanism
    <3>7. peeker[p] = "reading" /\ peeker'[p] \in {"reading", "ended"}
      BY <2>4 DEF ReadMechanism, Answer
    <3>8. \/ chan' = chan
          \/ chan'[p] = "held"
          \/ owner[Order[at[p]]] = NoOne /\ at[p] = Len(Order)
      BY <2>4 DEF ReadMechanism, Answer
    <3>9. QED
      BY <2>1, <2>2, <3>4, <3>5, <3>6, <3>7, <3>8
  <2>5. ASSUME FindNoState(p)
        PROVE  chan'[p] = "free" /\ peeker'[p] = "ended" /\ at' = at
               /\ freeSeen'[p]
    <3>1. owner[s] = NoOne
      BY <1>1, <2>5 DEF FindNoState, NoStateNoOwner, Shared
    <3>2. QED
      BY <2>1, <2>5, <3>1, FreeShared DEF FindNoState, Answer
  <2>6. ASSUME TryLock(p)
        PROVE  /\ at' = at
               /\ peeker'[p] = "probing" => freeSeen'[p]
               /\ chan'[p] = "free" => freeSeen'[p]
    <3>1. Order[at[p]] = s
      <4>1. Len(Order) = 1
        BY <2>6, KindAssumption DEF TryLock, KindAssumption
      <4>2. at[p] \in 1..1 /\ k \in 1..1
        BY <1>2, <4>1
      <4>3. QED
        BY <1>2, <4>2
    <3>2. Available(Order[at[p]]) => freeSeen'[p]
      BY <2>1, <3>1, FreeShared DEF Available
    <3>3. QED
      BY <2>1, <2>2, <2>6, <3>2 DEF TryLock, Answer
  <2>7. ASSUME Unlock(p)
        PROVE  at' = at /\ peeker'[p] = "ended" /\ freeSeen'[p]
    BY <2>1, <2>2, <2>7 DEF Unlock, Answer
  <2>8. ASSUME PeekFails(p)
        PROVE  at' = at /\ peeker'[p] = "ended" /\ chan'[p] = "unknown"
    BY <2>8 DEF PeekFails, Answer
  <2>9. ASSUME DropSession(p)
        PROVE  UNCHANGED <<at, peeker, chan>>
    BY <2>9 DEF DropSession
  <2>10. QED
    BY <2>1, <2>2, <2>4, <2>5, <2>6, <2>7, <2>8, <2>9 DEF Peeker
<1>5. QED
  BY <1>3, <1>4

(* The main thread takes a verdict over with its evidence, and runs terraform *)
(* only when the decision table lets it.                                      *)
LEMMA EvidenceOfMain ==
    ASSUME TypeOK, GateInv, NEW p \in Plans, Main(p) \/ TimerFires(p)
    PROVE  Evidence(p)'
<1> USE DEF TypeOK, mainVars, peekVars, inputs
<1>1. Evidence(p) /\ (freeSeen[p] => freeSeen'[p])
  BY ObserveKeeps
  DEF GateInv, FreeHasEvidence, Main, SkipPeek, BeginPeek, SelectResult,
      SelectTimeout, Refuse, RunTerraform, ParentExits, TimerFires
<1>2. CASE SkipPeek(p)
  BY <1>1, <1>2 DEF SkipPeek, Evidence
<1>3. CASE BeginPeek(p)
  <2>1. at'[p] = 1 /\ peeker'[p] = "reading" /\ chan'[p] = "empty"
    BY <1>1, <1>3 DEF BeginPeek, Evidence
  <2>2. pc'[p] = "peek" /\ status'[p] = status[p]
    BY <1>3 DEF BeginPeek
  <2>3. QED
    BY <1>1, <2>1, <2>2 DEF Evidence
<1>4. CASE SelectResult(p)
  <2>1. chan[p] = "free" => freeSeen[p]
    BY <1>1, <1>4 DEF SelectResult, Evidence
  <2>2. pc'[p] = "decide" /\ status'[p] = chan[p]
    BY <1>4 DEF SelectResult
  <2>3. QED
    BY <1>1, <2>1, <2>2 DEF Evidence
<1>5. CASE SelectTimeout(p)
  BY <1>1, <1>5 DEF SelectTimeout, Evidence
<1>6. CASE Refuse(p)
  BY <1>1, <1>6 DEF Refuse, Evidence
<1>7. CASE RunTerraform(p)
  <2>1. /\ pc'[p] = "terraform" /\ status'[p] = status[p]
        /\ mode'[p] = mode[p] /\ ~Refuses(mode[p], status[p])
    BY <1>7 DEF RunTerraform
  <2>2. QED
    BY <1>1, <2>1 DEF Evidence
<1>8. CASE ParentExits(p)
  BY <1>1, <1>8 DEF ParentExits, Evidence
<1>9. CASE TimerFires(p)
  BY <1>1, <1>9, EvidenceKept DEF TimerFires, Own
<1>10. QED
  BY <1>2, <1>3, <1>4, <1>5, <1>6, <1>7, <1>8, <1>9 DEF Main

(* A step of one plan or of terraform touches no other plan.                  *)
LEMMA OthersKept ==
    ASSUME TypeOK, NEW q \in Plans,
           \/ \E p \in Plans \ {q} : Main(p) \/ TimerFires(p) \/ Peeker(p)
           \/ \E c \in Clients : Terraform(c)
    PROVE  UNCHANGED Own(q)
<1> USE DEF TypeOK, Own, mainVars, peekVars, inputs
<1>1. ASSUME NEW p \in Plans \ {q}, Main(p) \/ TimerFires(p)
      PROVE  UNCHANGED Own(q)
  BY <1>1
  DEF Main, SkipPeek, BeginPeek, SelectResult, SelectTimeout, Refuse,
      RunTerraform, ParentExits, GoroutineGone, TimerFires
<1>2. ASSUME NEW p \in Plans \ {q}, Peeker(p)
      PROVE  UNCHANGED Own(q)
  BY <1>2
  DEF Peeker, ReadMechanism, FindNoState, TryLock, Unlock, PeekFails,
      DropSession, Answer
<1>3. ASSUME NEW c \in Clients, Terraform(c)
      PROVE  UNCHANGED Own(q)
  BY <1>3
  DEF Terraform, StartLocking, Take, Contend, Give, Finish, Exit
<1>4. QED
  BY <1>1, <1>2, <1>3

LEMMA NextObserves == Next => Observe
  BY DEF Next, Main, Peeker, Terraform, SkipPeek, BeginPeek, SelectResult,
         SelectTimeout, Refuse, RunTerraform, ParentExits, TimerFires,
         ReadMechanism, FindNoState, TryLock, Unlock, PeekFails, DropSession,
         StartLocking,
         Take, Contend, Finish, Give, Exit

(* The inductive step for the evidence: the plan that moves, then the others. *)
LEMMA EvidenceStep ==
    TypeOK /\ GateInv /\ [Next]_vars => FreeHasEvidence'
<1> SUFFICES ASSUME TypeOK, GateInv, [Next]_vars, NEW q \in Plans
             PROVE  Evidence(q)'
  BY DEF FreeHasEvidence
<1>1. Evidence(q)
  BY DEF GateInv, FreeHasEvidence
<1>2. CASE UNCHANGED vars
  BY <1>1, <1>2, EvidenceKept
  DEF vars, Own, mainVars, peekVars, inputs, history
<1>3. CASE Next
  <2>1. Observe
    BY <1>3, NextObserves
  <2>2. CASE Main(q) \/ TimerFires(q)
    BY <2>2, EvidenceOfMain
  <2>3. CASE Peeker(q)
    BY <2>1, <2>3, EvidenceOfPeeker
  <2>4. CASE \/ \E p \in Plans \ {q} : Main(p) \/ TimerFires(p) \/ Peeker(p)
             \/ \E c \in Clients : Terraform(c)
    BY <1>1, <2>1, <2>4, OthersKept, ObserveKeeps, EvidenceKept
  <2>5. QED
    BY <1>3, <2>2, <2>3, <2>4 DEF Next
<1>4. QED
  BY <1>2, <1>3

(* The inductive invariant of the gate.                                       *)
THEOREM GateInvariant == Spec => [](TypeOK /\ GateInv)
<1>1. Init => GateInv
  <2>1. ASSUME Init
        PROVE  LockedOwnsAll /\ NoStateNoOwner
    BY <2>1 DEF Init, LockedOwnsAll, NoStateNoOwner
  <2>2. ASSUME Init, NEW p \in Plans
        PROVE  Evidence(p)
    BY <2>2 DEF Init, Evidence
  <2>3. QED
    BY <2>1, <2>2 DEF GateInv, FreeHasEvidence
<1>2. TypeOK /\ GateInv /\ [Next]_vars => GateInv'
  BY LockedOwnsAllStep, NoStateNoOwnerStep, EvidenceStep DEF GateInv
<1>3. QED
  BY <1>1, <1>2, TypeCorrect, PTL DEF Spec

(* -lock-check=require lets plan run only after its peek has met a moment at  *)
(* which no terraform process held the state lock, for every backend, every   *)
(* kind of peek and any number of processes.                                  *)
THEOREM RequireRunsOnlyUnlocked == Spec => []RequireSawFree
<1>1. TypeOK /\ GateInv => RequireSawFree
  <2>1. ASSUME TypeOK, GateInv, NEW p \in Plans,
               mode[p] = "require", pc[p] = "terraform"
        PROVE  freeSeen[p]
    <3>1. Evidence(p) /\ status[p] \in {"unknown", "free", "held"}
      BY <2>1 DEF GateInv, FreeHasEvidence, TypeOK, LockStates
    <3>2. status[p] = "free"
      BY <2>1, <3>1 DEF Evidence, Refuses, ValidModes
    <3>3. QED
      BY <3>1, <3>2 DEF Evidence
  <2>2. QED
    BY <2>1 DEF RequireSawFree
<1>2. QED
  BY <1>1, GateInvariant, PTL

-----------------------------------------------------------------------------
(* Checkers that only read lock records: the other half of the promise.       *)

(* A "held" verdict has its evidence, whichever step is taken.                *)
LEMMA HeldStep ==
    ASSUME PeekKinds = {"object"}, TypeOK, HeldHasEvidence, [Next]_vars
    PROVE  HeldHasEvidence'
<1> SUFFICES ASSUME NEW q \in Plans
             PROVE  HeldEvidence(q)'
  BY DEF HeldHasEvidence
<1>1. HeldEvidence(q)
  BY DEF HeldHasEvidence
<1>2. ASSUME UNCHANGED Own(q), heldSeen[q] => heldSeen'[q]
      PROVE  HeldEvidence(q)'
  BY <1>1, <1>2 DEF HeldEvidence, Own
<1>3. CASE UNCHANGED vars
  BY <1>2, <1>3 DEF vars, Own, mainVars, peekVars, inputs, history
<1>4. CASE Next
  <2> USE DEF TypeOK, mainVars, peekVars, inputs
  <2>1. /\ heldSeen[q] => heldSeen'[q]
        /\ pc[q] = "peek" /\ (\E m \in Mechs : owner[m] # NoOne)
             => heldSeen'[q]
    BY <1>4, NextObserves, ObserveKeeps
  <2>2. CASE SkipPeek(q)
    BY <1>1, <2>1, <2>2 DEF SkipPeek, HeldEvidence
  <2>3. CASE BeginPeek(q)
    <3>1. /\ pc'[q] = "peek" /\ chan'[q] = "empty" /\ status'[q] = status[q]
      BY <1>1, <2>3 DEF BeginPeek, HeldEvidence
    <3>2. QED
      BY <1>1, <2>1, <3>1 DEF HeldEvidence
  <2>4. CASE SelectResult(q)
    <3>1. /\ pc[q] = "peek" /\ pc'[q] = "decide" /\ status'[q] = chan[q]
      BY <2>4 DEF SelectResult
    <3>2. QED
      BY <1>1, <2>1, <3>1 DEF HeldEvidence
  <2>5. CASE SelectTimeout(q)
    BY <1>1, <2>1, <2>5 DEF SelectTimeout, HeldEvidence
  <2>6. CASE Refuse(q)
    <3>1. /\ pc'[q] = "refused" /\ status'[q] = status[q]
          /\ mode'[q] = mode[q] /\ Refuses(mode[q], status[q])
      BY <2>6 DEF Refuse
    <3>2. QED
      BY <1>1, <2>1, <3>1 DEF HeldEvidence
  <2>7. CASE RunTerraform(q)
    BY <1>1, <2>1, <2>7 DEF RunTerraform, HeldEvidence
  <2>8. CASE ParentExits(q)
    BY <1>1, <2>1, <2>8 DEF ParentExits, HeldEvidence
  <2>9. CASE TimerFires(q)
    BY <1>2, <2>1, <2>9 DEF TimerFires, Own
  <2>10. CASE Peeker(q)
    <3>1. /\ pc'[q] = pc[q] /\ status'[q] = status[q] /\ mode'[q] = mode[q]
          /\ peeker[q] # "idle"
      BY <2>10
      DEF Peeker, ReadMechanism, FindNoState, TryLock, Unlock, PeekFails,
          DropSession
    <3>2. pc[q] = "peek" /\ chan'[q] = "held" => heldSeen'[q]
      <4>1. CASE ReadMechanism(q)
        <5>1. Order[at[q]] \in Mechs
          BY DEF Mechs
        <5>2. chan'[q] = "held" =>
                 chan[q] = "held" \/ owner[Order[at[q]]] # NoOne
          BY <4>1 DEF ReadMechanism, Answer
        <5>3. QED
          BY <1>1, <2>1, <5>1, <5>2 DEF HeldEvidence
      <4>2. CASE Unlock(q) \/ PeekFails(q) \/ DropSession(q)
        BY <1>1, <2>1, <4>2
        DEF Unlock, PeekFails, DropSession, Answer, HeldEvidence
      <4>3. QED
        BY <2>10, <4>1, <4>2 DEF Peeker, FindNoState, TryLock
    <3>3. QED
      BY <1>1, <2>1, <3>1, <3>2 DEF HeldEvidence
  <2>11. CASE \/ \E p \in Plans \ {q} : Main(p) \/ TimerFires(p) \/ Peeker(p)
              \/ \E c \in Clients : Terraform(c)
    BY <1>2, <2>1, <2>11, OthersKept
  <2>12. QED
    BY <1>4, <2>2, <2>3, <2>4, <2>5, <2>6, <2>7, <2>8, <2>9, <2>10, <2>11
    DEF Next, Main
<1>5. QED
  BY <1>3, <1>4

(* The verdict "held" of such a checker is never ahead of its evidence.       *)
THEOREM HeldInvariant ==
    ASSUME PeekKinds = {"object"}
    PROVE  Spec => []HeldHasEvidence
<1>1. Init => HeldHasEvidence
  BY DEF Init, HeldHasEvidence, HeldEvidence
<1>2. TypeOK /\ HeldHasEvidence /\ [Next]_vars => HeldHasEvidence'
  BY HeldStep
<1>3. QED
  BY <1>1, <1>2, TypeCorrect, PTL DEF Spec

(* With a checker that only reads lock records, -lock-check=strict refuses a  *)
(* plan only if a terraform process really held a mechanism during the peek.  *)
THEOREM StrictRefusesOnlyHeld ==
    ASSUME PeekKinds = {"object"}
    PROVE  Spec => []StrictRefusalJustified
<1>1. TypeOK /\ HeldHasEvidence => StrictRefusalJustified
  <2>1. ASSUME HeldHasEvidence, NEW p \in Plans,
               mode[p] = "strict", pc[p] = "refused"
        PROVE  heldSeen[p]
    BY <2>1 DEF HeldHasEvidence, HeldEvidence, Refuses, ValidModes
  <2>2. QED
    BY <2>1 DEF StrictRefusalJustified
<1>2. QED
  BY <1>1, TypeCorrect, HeldInvariant, PTL

(* A peek that only reads, or that locks a descriptor of its own process,     *)
(* leaves nothing behind: the goroutine of a process that is gone has ended   *)
(* and can never take the lock again.                                         *)
Gone(p) == pc[p] = "refused" \/ (pc[p] = "terraform" /\ Platform[p] = "unix")

EndedWhenGone ==
    \A p \in Plans :
        Gone(p) => peeker[p] = "ended" /\ (~probe[p] \/ kind = "advisory")

\* What the users and the backend ask for is settled before.
LEMMA InputsAreKept == Next => UNCHANGED inputs
  BY DEF Next, Main, Peeker, Terraform, SkipPeek, BeginPeek, SelectResult,
         SelectTimeout, Refuse, RunTerraform, ParentExits, TimerFires,
         ReadMechanism, FindNoState, TryLock, Unlock, PeekFails, DropSession,
         StartLocking, Take, Contend, Finish, Give, Exit

LEMMA EndedStep ==
    ASSUME TypeOK, EndedWhenGone, [Next]_vars
    PROVE  EndedWhenGone'
<1> SUFFICES ASSUME NEW q \in Plans, Gone(q)'
             PROVE  peeker'[q] = "ended" /\ (~probe'[q] \/ kind' = "advisory")
  BY DEF EndedWhenGone
<1> USE DEF TypeOK, EndedWhenGone, Gone, mainVars, peekVars, inputs
<1>1. CASE UNCHANGED vars
  BY <1>1 DEF vars
<1>2. CASE Next
  <2>1. CASE Refuse(q) \/ RunTerraform(q)
    <3>1. GoroutineGone(q)
      <4>1. CASE Refuse(q)
        BY <4>1 DEF Refuse
      <4>2. CASE RunTerraform(q)
        <5>1. pc'[q] = "terraform"
          BY <4>2 DEF RunTerraform
        <5>2. Platform[q] = "unix"
          BY <5>1
        <5>3. QED
          BY <4>2, <5>2 DEF RunTerraform
      <4>3. QED
        BY <2>1, <4>1, <4>2
    <3>2. peeker'[q] = "ended" /\ (kind # "advisory" => probe'[q] = FALSE)
      BY <3>1 DEF GoroutineGone
    <3>3. kind' = kind
      BY <2>1 DEF Refuse, RunTerraform
    <3>4. QED
      BY <3>2, <3>3
  <2>2. CASE ParentExits(q)
    BY <2>2 DEF ParentExits, GoroutineGone
  <2>3. CASE SkipPeek(q) \/ BeginPeek(q) \/ SelectResult(q) \/ SelectTimeout(q)
    BY <2>3 DEF SkipPeek, BeginPeek, SelectResult, SelectTimeout
  <2>4. CASE TimerFires(q)
    BY <2>4 DEF TimerFires
  <2>5. CASE Peeker(q)
    BY <2>5
    DEF Peeker, ReadMechanism, FindNoState, TryLock, Unlock, PeekFails,
        DropSession
  <2>6. CASE \/ \E p \in Plans \ {q} : Main(p) \/ TimerFires(p) \/ Peeker(p)
             \/ \E c \in Clients : Terraform(c)
    <3>1. kind' = kind
      BY <1>2, InputsAreKept DEF inputs
    <3>2. QED
      BY <2>6, <3>1, OthersKept DEF Own
  <2>7. QED
    BY <1>2, <2>1, <2>2, <2>3, <2>4, <2>5, <2>6 DEF Next, Main
<1>3. QED
  BY <1>1, <1>2

(* Unless the checker is pg, whose server ends a session in its own time, no  *)
(* peek holds the lock once its parraform is gone.                            *)
THEOREM ProbeEndsWithParraform ==
    Spec => []NoProbeOutlivesParraform
<1>1. Init => EndedWhenGone
  BY DEF Init, EndedWhenGone, Gone
<1>2. TypeOK /\ EndedWhenGone /\ [Next]_vars => EndedWhenGone'
  BY EndedStep
<1>3. EndedWhenGone => NoProbeOutlivesParraform
  BY DEF EndedWhenGone, Gone, NoProbeOutlivesParraform
<1>4. QED
  BY <1>1, <1>2, <1>3, TypeCorrect, PTL DEF Spec

(* Evidence grows only while a plan is pending, as GateSpec asks.             *)
LEMMA ObserveWatches ==
    ASSUME TypeOK, Observe, UNCHANGED mode
    PROVE  Gate!Watch
<1> USE DEF TypeOK, Observe
<1>1. /\ freeSeen' \in [Plans -> BOOLEAN]
      /\ heldSeen' \in [Plans -> BOOLEAN]
  OBVIOUS
<1>2. ASSUME NEW p \in Plans
      PROVE  /\ freeSeen[p] => freeSeen'[p]
             /\ freeSeen[p] # freeSeen'[p] => pc[p] = "peek"
             /\ heldSeen[p] => heldSeen'[p]
             /\ heldSeen[p] # heldSeen'[p] => pc[p] = "peek"
  OBVIOUS
<1>3. ASSUME NEW p \in Plans, pc[p] = "peek"
      PROVE  Outcome[p] = "pending"
  BY <1>3 DEF Outcome
<1>4. QED
  BY <1>1, <1>2, <1>3 DEF Gate!Watch, Gate!Gather

(* Every step of the gate is a step of GateSpec or leaves it alone.           *)
LEMMA GateSimulation ==
    ASSUME TypeOK, HeldHasEvidence, GateInv, [Next]_vars
    PROVE  [Gate!Next]_(Gate!vars)
<1>1. CASE UNCHANGED vars
  BY <1>1 DEF vars, inputs, mainVars, history, Gate!vars, Outcome
<1>2. CASE Next
  <2>1. UNCHANGED mode
    BY <1>2, InputsAreKept DEF inputs
  <2>2. Gate!Watch
    BY <1>2, <2>1, NextObserves, ObserveWatches
  <2>3. ASSUME NEW p \in Plans, Refuse(p)
        PROVE  Gate!Refuse(p)
    <3>1. /\ pc[p] = "decide" /\ pc' = [pc EXCEPT ![p] = "refused"]
          /\ Refuses(mode[p], status[p])
      BY <2>3 DEF Refuse
    <3>2. mode[p] # "warn" /\ (mode[p] = "strict" => heldSeen[p])
      BY <3>1 DEF HeldHasEvidence, HeldEvidence, Refuses, ValidModes
    <3>3. Outcome' = [Outcome EXCEPT ![p] = "refused"]
      BY <3>1 DEF Outcome, TypeOK
    <3>4. Outcome[p] = "pending"
      BY <3>1 DEF Outcome
    <3>5. QED
      BY <2>2, <3>2, <3>3, <3>4 DEF Gate!Refuse
  <2>4. ASSUME NEW p \in Plans, RunTerraform(p)
        PROVE  Gate!Run(p)
    <3>1. /\ pc[p] = "decide" /\ pc' = [pc EXCEPT ![p] = "terraform"]
          /\ ~Refuses(mode[p], status[p])
      BY <2>4 DEF RunTerraform
    <3>2. status[p] \in {"unknown", "free", "held"}
      BY DEF TypeOK, LockStates
    <3>3. mode[p] = "require" => status[p] = "free"
      BY <3>1, <3>2 DEF Refuses
    <3>4. mode[p] \in ValidModes /\ (mode[p] = "require" => freeSeen[p])
      BY <3>1, <3>3 DEF GateInv, FreeHasEvidence, Evidence, Refuses
    <3>5. Outcome' = [Outcome EXCEPT ![p] = "run"]
      BY <3>1 DEF Outcome, TypeOK
    <3>6. Outcome[p] = "pending"
      BY <3>1 DEF Outcome
    <3>7. QED
      BY <2>2, <3>4, <3>5, <3>6 DEF Gate!Run, Gate!ValidModes, ValidModes
  <2>5. ASSUME NEW p \in Plans,
               \/ SkipPeek(p) \/ BeginPeek(p) \/ SelectResult(p)
               \/ SelectTimeout(p)
        PROVE  Gate!Look
    <3>1. /\ pc[p] \notin {"refused", "terraform"}
          /\ \/ pc' = [pc EXCEPT ![p] = "decide"]
             \/ pc' = [pc EXCEPT ![p] = "peek"]
      BY <2>5 DEF SkipPeek, BeginPeek, SelectResult, SelectTimeout
    <3>2. UNCHANGED Outcome
      BY <3>1 DEF Outcome, TypeOK
    <3>3. QED
      BY <2>2, <3>2 DEF Gate!Look
  <2>6. ASSUME \/ \E p \in Plans : TimerFires(p) \/ Peeker(p)
               \/ \E p \in Plans : ParentExits(p)
               \/ \E c \in Clients : Terraform(c)
        PROVE  Gate!Look
    <3>1. UNCHANGED pc
      BY <2>6
      DEF mainVars, ParentExits, TimerFires, Peeker, Terraform, ReadMechanism,
          FindNoState, TryLock, Unlock, PeekFails, DropSession, StartLocking, Take,
          Contend, Finish, Give, Exit
    <3>2. QED
      BY <2>2, <3>1 DEF Gate!Look, Outcome
  <2>7. QED
    BY <1>2, <2>3, <2>4, <2>5, <2>6 DEF Next, Main, Gate!Next
<1>3. QED
  BY <1>1, <1>2

(* A gate with a checker that only reads lock records implements GateSpec.    *)
THEOREM GateImplementsSpec ==
    ASSUME PeekKinds = {"object"}
    PROVE  Spec => Gate!Spec
<1>1. Init => Gate!Init
  BY DEF Init, Gate!Init, Outcome
<1>2. QED
  BY <1>1, GateSimulation, TypeCorrect, HeldInvariant, GateInvariant, PTL
  DEF Spec, Gate!Spec
=============================================================================
