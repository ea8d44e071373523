---------------------------- MODULE WrapperProofs ----------------------------
(* What the wrapper keeps whatever signals arrive, for every set of streams   *)
(* and exit codes and any number of signals and pieces of output.             *)
EXTENDS Wrapper, TLAPS

\* The script is past its loop over the child.
PastLoop == pc \in {"tees", "write", "exit"}

\* What exit_code can hold: the status of an interrupted wait, or the child's.
RealOrSignal ==
    pc = "check" \/ PastLoop =>
        exitCode = SignalCode \/ (child = "collected" /\ exitCode = childCode)

FinalFromCode ==
    pc = "exit" => final = IF exitCode \in {0, 2} THEN 0 ELSE exitCode

(* The inductive invariant: the loop ends only behind a collected child, and  *)
(* a status that is no signal is the child's own.                             *)
WrapperInv == ChildNotOrphaned /\ RealOrSignal /\ FinalFromCode

LEMMA WrapperInvStep ==
    WrapperInv /\ [Next]_vars => WrapperInv'
<1> SUFFICES ASSUME WrapperInv, [Next]_vars
             PROVE  WrapperInv'
  OBVIOUS
<1> USE DEF WrapperInv, ChildNotOrphaned, RealOrSignal, FinalFromCode,
        PastLoop, scriptVars, signalVars, childVars, teeVars
<1>1. CASE StartChild \/ AssignPid
  BY <1>1 DEF StartChild, AssignPid
<1>2. CASE WaitChild
  BY <1>2 DEF WaitChild
<1>3. CASE CheckGone
  BY <1>3 DEF CheckGone
<1>4. CASE WaitTees
  BY <1>4 DEF WaitTees
<1>5. CASE WriteAndExit
  BY <1>5 DEF WriteAndExit
<1>6. CASE SendSignal \/ Trap
  BY <1>6 DEF SendSignal, Trap
<1>7. CASE TrapInWaitChild
  BY <1>7 DEF TrapInWaitChild
<1>8. CASE TrapInWaitTees
  BY <1>8 DEF TrapInWaitTees
<1>9. CASE \/ ChildExit \/ Collect
           \/ \E s \in Streams : ChildWrites(s) \/ Tee(s)
  <2>1. UNCHANGED <<pc, exitCode, final>>
    BY <1>9 DEF ChildExit, ChildExits, Collect, ChildWrites, Tee, TeeCopies,
                TeeEnds
  <2>2. child = "collected" => child' = "collected" /\ childCode' = childCode
    BY <1>9 DEF ChildExit, ChildExits, Collect, ChildWrites, Tee, TeeCopies,
                TeeEnds
  <2>3. QED
    BY <2>1, <2>2
<1>10. CASE UNCHANGED vars
  BY <1>10 DEF vars
<1>11. QED
  BY <1>1, <1>2, <1>3, <1>4, <1>5, <1>6, <1>7, <1>8, <1>9, <1>10
  DEF Next, Script, Traps

LEMMA WrapperInvariant == Spec => []WrapperInv
<1>1. Init => WrapperInv
  BY DEF Init, WrapperInv, ChildNotOrphaned, RealOrSignal, FinalFromCode,
         PastLoop
<1>2. QED
  BY <1>1, WrapperInvStep, PTL DEF Spec

(* No signal, however late, makes the script leave a running child behind.    *)
THEOREM ChildIsAwaited == Spec => []ChildNotOrphaned
<1>1. WrapperInv => ChildNotOrphaned
  BY DEF WrapperInv
<1>2. QED
  BY <1>1, WrapperInvariant, PTL

(* The step is green only if the real program exited with 0 or 2: an exit     *)
(* code that stems from a signal is never taken for one of these.             *)
THEOREM GreenMeansSuccess == Spec => []NeverFalseSuccess
<1>1. WrapperInv => NeverFalseSuccess
  BY DEF WrapperInv, ChildNotOrphaned, RealOrSignal, FinalFromCode, PastLoop,
         NeverFalseSuccess, SignalCode
<1>2. QED
  BY <1>1, WrapperInvariant, PTL

-----------------------------------------------------------------------------
\* The parts of the types that the captures need; the script starts one child.
CaptureTypes ==
    /\ sent \in Nat
    /\ written \in [Streams -> Int]
    /\ copied \in [Streams -> Int]
    /\ teeDone \in [Streams -> BOOLEAN]
    /\ pc = "start" => child = "none"

Dead == child \in {"zombie", "collected"}

\* A tee that has ended has copied all there will ever be.
EndedTeesComplete ==
    \A s \in Streams : teeDone[s] => Dead /\ copied[s] = written[s]

\* What a script that gets no signal knows at each command.
UndisturbedStages ==
    sent = 0 =>
        /\ ~pending
        /\ pc \in {"check", "tees", "write", "exit"} =>
              child = "collected" /\ exitCode = childCode
        /\ pc \in {"write", "exit"} => copied = written
        /\ pc = "exit" => outputs = [code |-> childCode, captured |-> written]

(* The inductive invariant behind UndisturbedIsFaithful.                      *)
UndisturbedInv == CaptureTypes /\ EndedTeesComplete /\ UndisturbedStages

LEMMA UndisturbedStep ==
    ASSUME UndisturbedInv, [Next]_vars, MaxSignals \in Nat
    PROVE  UndisturbedInv'
<1> USE DEF UndisturbedInv, CaptureTypes, scriptVars, signalVars, childVars,
        teeVars, Dead
<1>1. ASSUME UNCHANGED <<signalVars, childVars, teeVars>>,
             WaitChild \/ CheckGone \/ WaitTees \/ WriteAndExit
      PROVE  UndisturbedInv'
  <2>1. CaptureTypes' /\ EndedTeesComplete'
    BY <1>1 DEF EndedTeesComplete, WaitChild, CheckGone, WaitTees, WriteAndExit
  <2>2. UndisturbedStages'
    <3>1. CASE WaitChild
      BY <1>1, <3>1 DEF WaitChild, UndisturbedStages
    <3>2. CASE CheckGone
      BY <1>1, <3>2 DEF CheckGone, UndisturbedStages
    <3>3. CASE WaitTees
      <4>1. \A s \in Streams : copied[s] = written[s]
        BY <3>3 DEF WaitTees, EndedTeesComplete
      <4>2. copied = written
        BY <4>1
      <4>3. QED
        BY <1>1, <3>3, <4>2 DEF WaitTees, UndisturbedStages
    <3>4. CASE WriteAndExit
      BY <1>1, <3>4 DEF WriteAndExit, UndisturbedStages
    <3>5. QED
      BY <1>1, <3>1, <3>2, <3>3, <3>4
  <2>3. QED
    BY <2>1, <2>2
<1>2. CASE StartChild
  BY <1>2 DEF StartChild, EndedTeesComplete, UndisturbedStages
<1>3. CASE AssignPid
  BY <1>3 DEF AssignPid, EndedTeesComplete, UndisturbedStages
<1>4. CASE SendSignal \/ Traps
  <2>1. /\ UNCHANGED <<childVars, teeVars>>
        /\ sent' \in Nat
        /\ pc' = "start" => pc = "start"
    BY <1>4 DEF Traps, SendSignal, Trap, TrapInWaitChild, TrapInWaitTees
  <2>2. sent' # 0
    BY <1>4
    DEF Traps, SendSignal, Trap, TrapInWaitChild, TrapInWaitTees,
        UndisturbedStages
  <2>3. QED
    BY <2>1, <2>2 DEF EndedTeesComplete, UndisturbedStages
<1>5. CASE ChildExit \/ Collect
  BY <1>5
  DEF ChildExit, ChildExits, Collect, EndedTeesComplete, UndisturbedStages
<1>6. ASSUME NEW s \in Streams, ChildWrites(s)
      PROVE  UndisturbedInv'
  <2>1. child = "running" /\ child' = "running" /\ ~Dead
    BY <1>6 DEF ChildWrites
  <2>2. CaptureTypes'
    BY <1>6 DEF ChildWrites
  <2>3. EndedTeesComplete'
    BY <1>6, <2>1 DEF ChildWrites, EndedTeesComplete
  <2>4. UndisturbedStages'
    BY <1>6, <2>1 DEF ChildWrites, UndisturbedStages
  <2>5. QED
    BY <2>2, <2>3, <2>4
<1>7. ASSUME NEW s \in Streams, TeeCopies(s)
      PROVE  UndisturbedInv'
  <2>1. /\ copied[s] < written[s]
        /\ copied' = [copied EXCEPT ![s] = @ + 1]
        /\ UNCHANGED <<pc, exitCode, outputs, sent, pending, child, childCode,
                       written, teeDone>>
    BY <1>7 DEF TeeCopies
  <2>2. CaptureTypes'
    BY <2>1
  <2>3. ~teeDone[s]
    BY <2>1 DEF EndedTeesComplete
  <2>4. EndedTeesComplete'
    BY <2>1, <2>3 DEF EndedTeesComplete
  <2>5. copied # written
    BY <2>1
  <2>6. UndisturbedStages'
    BY <2>1, <2>5 DEF UndisturbedStages
  <2>7. QED
    BY <2>2, <2>4, <2>6
<1>8. ASSUME NEW s \in Streams, TeeEnds(s)
      PROVE  UndisturbedInv'
  BY <1>8 DEF TeeEnds, EndedTeesComplete, UndisturbedStages
<1>9. CASE UNCHANGED vars
  BY <1>9 DEF vars, EndedTeesComplete, UndisturbedStages
<1>10. QED
  <2>1. CASE WaitChild \/ CheckGone \/ WaitTees \/ WriteAndExit
    BY <1>1, <2>1 DEF WaitChild, CheckGone, WaitTees, WriteAndExit
  <2>2. QED
    BY <1>2, <1>3, <1>4, <1>5, <1>6, <1>7, <1>8, <1>9, <2>1
    DEF Next, Script, Tee

(* Without a signal the outputs are the real exit code and all of the output, *)
(* however much the child writes and however slow the tees are.               *)
THEOREM UndisturbedRunIsFaithful ==
    ASSUME MaxSignals \in Nat
    PROVE  Spec => []UndisturbedIsFaithful
<1>1. Init => UndisturbedInv
  BY DEF Init, UndisturbedInv, CaptureTypes, EndedTeesComplete,
         UndisturbedStages
<1>2. UndisturbedInv /\ [Next]_vars => UndisturbedInv'
  BY UndisturbedStep
<1>3. UndisturbedInv => UndisturbedIsFaithful
  BY DEF UndisturbedInv, UndisturbedStages, UndisturbedIsFaithful
<1>4. QED
  BY <1>1, <1>2, <1>3, PTL DEF Spec
\* What TypeOK rests on: copied is a function, and a status that was waited
\* for is a signal's or that of a child that has ended.
TypeInv ==
    /\ TypeOK /\ WrapperInv
    /\ copied \in [Streams -> Nat]
    /\ child \in {"zombie", "collected"} => childCode \in Codes

LEMMA TypeStep == TypeInv /\ [Next]_vars => TypeInv'
<1> SUFFICES ASSUME TypeInv, [Next]_vars
             PROVE  TypeOK' /\ (copied \in [Streams -> Nat])'
                    /\ (child \in {"zombie", "collected"} =>
                          childCode \in Codes)'
  BY WrapperInvStep DEF TypeInv
<1> USE BoundsAssumption
    DEF TypeInv, TypeOK, scriptVars, signalVars, childVars, teeVars
<1>1. CASE StartChild \/ AssignPid
  BY <1>1 DEF StartChild, AssignPid
<1>2. CASE WaitChild
  BY <1>2 DEF WaitChild
<1>3. CASE CheckGone \/ WaitTees
  BY <1>3 DEF CheckGone, WaitTees
<1>4. CASE WriteAndExit
  <2>1. exitCode \in Codes \cup {SignalCode}
    BY <1>4 DEF WriteAndExit, WrapperInv, RealOrSignal, PastLoop
  <2>2. outputs'.code = exitCode /\ final' \in {0, exitCode}
    BY <1>4 DEF WriteAndExit
  <2>3. QED
    BY <1>4, <2>1, <2>2 DEF WriteAndExit
<1>5. CASE SendSignal
  BY <1>5 DEF SendSignal
<1>6. CASE Traps
  <2>1. /\ pending' = FALSE /\ exitCode' \in {exitCode, SignalCode}
        /\ pc' \in {pc, "check", "write"} /\ sent' = sent
        /\ UNCHANGED <<childPid, outputs, final, childVars, teeVars>>
    BY <1>6 DEF Traps, Trap, TrapInWaitChild, TrapInWaitTees, ForwardSignal
  <2>2. signalled' \in BOOLEAN
    BY <1>6 DEF Traps, Trap, TrapInWaitChild, TrapInWaitTees, ForwardSignal
  <2>3. QED
    BY <2>1, <2>2
<1>7. CASE ChildExit \/ Collect
  BY <1>7 DEF ChildExit, ChildExits, Collect
<1>8. ASSUME NEW s \in Streams, ChildWrites(s)
      PROVE  TypeOK' /\ copied' = copied /\ child' = child
             /\ childCode' = childCode
  BY <1>8 DEF ChildWrites
<1>9. ASSUME NEW s \in Streams, Tee(s)
      PROVE  /\ TypeOK' /\ copied' \in [Streams -> Nat]
             /\ child' = child /\ childCode' = childCode
  <2>1. CASE TeeCopies(s)
    <3>1. /\ copied' = [copied EXCEPT ![s] = copied[s] + 1]
          /\ copied[s] < written[s]
          /\ UNCHANGED <<scriptVars, signalVars, childVars, teeDone>>
      BY <2>1 DEF TeeCopies
    <3>2. ASSUME NEW t \in Streams
          PROVE  copied'[t] \in Nat /\ copied'[t] \in 0..written[t]
      <4>1. copied[t] \in 0..written[t] /\ written[t] \in 0..MaxOutput
        OBVIOUS
      <4>2. copied'[t] = IF t = s THEN copied[t] + 1 ELSE copied[t]
        BY <3>1
      <4>3. QED
        BY <3>1, <4>1, <4>2
    <3>3. copied' \in [Streams -> Nat]
      BY <3>1, <3>2
    <3>4. \A t \in Streams : copied'[t] \in 0..written'[t]
      BY <3>1, <3>2
    <3>5. QED
      BY <3>1, <3>3, <3>4
  <2>2. CASE TeeEnds(s)
    BY <2>2 DEF TeeEnds
  <2>3. QED
    BY <1>9, <2>1, <2>2 DEF Tee
<1>10. CASE UNCHANGED vars
  BY <1>10 DEF vars
<1>11. QED
  BY <1>1, <1>2, <1>3, <1>4, <1>5, <1>6, <1>7, <1>8, <1>9, <1>10
  DEF Next, Script

(* Every variable keeps to its values: no more is captured than was written,  *)
(* and the exit code reported is one of the child's or a signal's.            *)
THEOREM WrapperTypeCorrect == Spec => []TypeOK
<1>1. Init => TypeInv
  <2>1. Init => WrapperInv
    BY DEF Init, WrapperInv, ChildNotOrphaned, RealOrSignal, FinalFromCode,
           PastLoop
  <2>2. Init => /\ copied \in [Streams -> Nat]
                /\ \A s \in Streams : copied[s] \in 0..written[s]
                /\ written \in [Streams -> 0..MaxOutput]
                /\ sent \in 0..MaxSignals
    BY BoundsAssumption DEF Init
  <2>3. Init => TypeOK
    BY <2>2 DEF Init, TypeOK
  <2>4. QED
    BY <2>1, <2>2, <2>3 DEF Init, TypeInv
<1>2. TypeInv => TypeOK
  BY DEF TypeInv
<1>3. QED
  BY <1>1, <1>2, TypeStep, PTL DEF Spec
=============================================================================
