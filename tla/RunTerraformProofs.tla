------------------------- MODULE RunTerraformProofs -------------------------
(* What a run of any command line with any value of TF_CLI_ARGS_plan hands to *)
(* terraform.                                                                 *)
EXTENDS RunTerraform, TFArgsProofs, FiniteSetTheorems

IsPlan == Subcommand(given.argv) = <<"plan">>
Found  == ResolveLockCheckMode(given.argv, given.env)

Resolved ==
    /\ asked = [mode |-> Found.mode, present |-> Found.present]
    /\ argv = Found.rest

\* checkLock has let the plan pass.
Passed ==
    \E state \in LockStates :
        LET mode == EffectiveMode(AsWord(asked.mode), asked.present)
        IN  /\ ~Refuses(mode, state)
            /\ warning = Warning(mode, state, ExplicitLockTrue(argv))

(* Where a run stands says what it has done with what its caller gave it.     *)
RunInv ==
    /\ given \in Inputs
    /\ pc \in {"resolve", "check", "exec", "failed", "terraform"}
    /\ warning \in {"none", "unlocked", "willLock"}
    /\ asked.present \in BOOLEAN
    /\ pc = "resolve" => argv = given.argv /\ env = given.env /\ asked = NotAsked
    /\ pc = "check" => IsPlan /\ Resolved /\ env = given.env
    /\ pc \in {"exec", "terraform"} /\ IsPlan =>
         Resolved /\ Passed /\ env = PlanEnv(given.env)

LEMMA RunInvHolds == Spec => []RunInv
<1>1. Init => RunInv
  <2> SUFFICES ASSUME Init
               PROVE  RunInv
    OBVIOUS
  <2>1. PICK input \in Inputs : argv = input.argv /\ env = input.env
    BY DEF Init
  <2>2. input = [argv |-> input.argv, env |-> input.env]
    BY InputsAssumption DEF InputsAssumption
  <2>3. QED
    BY <2>1, <2>2 DEF Init, RunInv, NotAsked
<1>2. RunInv /\ [Next]_vars => RunInv'
  <2> SUFFICES ASSUME RunInv, [Next]_vars
               PROVE  RunInv'
    OBVIOUS
  <2> USE DEF RunInv
  <2>1. CASE NoBinary
    BY <2>1 DEF NoBinary
  <2>2. CASE PassThrough
    BY <2>2 DEF PassThrough, IsPlan
  <2>3. CASE ResolveMode
    <3>1. /\ IsPlan' /\ Resolved' /\ env' = given'.env /\ pc' = "check"
          /\ given' = given /\ warning' = warning
      BY <2>3 DEF ResolveMode, IsPlan, Resolved, Found
    <3>2. asked'.present \in BOOLEAN
      BY <2>3 DEF ResolveMode, ResolveLockCheckMode
    <3>3. QED
      BY <3>1, <3>2
  <2>4. ASSUME NEW state \in LockStates, CheckLock(state)
        PROVE  RunInv'
    <3>1. /\ pc = "check" /\ pc' = "exec" /\ given' = given /\ asked' = asked
          /\ argv' = argv /\ env' = PlanEnv(given.env)
      BY <2>4 DEF CheckLock
    <3>2. Resolved' /\ (IsPlan' <=> IsPlan)
      BY <3>1 DEF Resolved, Found, IsPlan
    <3>3. Passed'
      BY <2>4, <3>1 DEF CheckLock, Passed
    <3>4. warning' \in {"none", "unlocked", "willLock"}
      BY <2>4 DEF CheckLock, Warning
    <3>5. QED
      BY <3>1, <3>2, <3>3, <3>4
  <2>5. ASSUME NEW state \in LockStates, RefusePlan(state)
        PROVE  RunInv'
    BY <2>5 DEF RefusePlan
  <2>6. CASE ExecFails
    BY <2>6 DEF ExecFails
  <2>7. CASE Exec
    BY <2>7 DEF Exec, IsPlan, Resolved, Found, Passed
  <2>8. CASE UNCHANGED vars
    BY <2>8 DEF vars, IsPlan, Resolved, Found, Passed
  <2>9. QED
    BY <2>1, <2>2, <2>3, <2>4, <2>5, <2>6, <2>7, <2>8 DEF Next
<1>3. QED
  BY <1>1, <1>2, PTL DEF Spec

-----------------------------------------------------------------------------
\* What texts are made of.  The provers do not know that a literal is in STRING.
Fragment == STRING \cup {Blank, "-lock=", "false"}

LEMMA GivenTyped ==
    ASSUME RunInv
    PROVE  given.argv \in Seq(Seq(Fragment)) /\ given.env \in Seq(Fragment)
<1>1. given.argv \in Seq(Seq(STRING)) /\ given.env \in Seq(STRING)
  BY InputsAssumption DEF RunInv, InputsAssumption
<1>2. Seq(STRING) \subseteq Seq(Fragment)
  BY SeqMonotonic DEF Fragment
<1>3. Seq(Seq(STRING)) \subseteq Seq(Seq(Fragment))
  BY <1>2, SeqMonotonic
<1>4. QED
  BY <1>1, <1>2, <1>3

(* Each variable keeps its type; a mode never comes from nowhere: without the *)
(* flag on the command line or in TF_CLI_ARGS_plan there is none.             *)
THEOREM RunTypeCorrect == Spec => []TypeOK
<1>1. RunInv => TypeOK
  <2> SUFFICES ASSUME RunInv
               PROVE  TypeOK
    OBVIOUS
  <2>1. ASSUME Resolved, ~asked.present
        PROVE  asked.mode = <<>>
    <3>1. Blank \in Fragment
      BY DEF Fragment
    <3>2. SplitPlanArgs(given.env) \in Seq(Seq(Fragment))
      BY <3>1, GivenTyped, RestTyped
    <3>3. LET its == LockCheckMode(SplitPlanArgs(given.env))
          IN  ~its.present => its.mode = <<>>
      BY <3>2, ScanLeaves
    <3>4. QED
      BY <2>1, <3>3 DEF Resolved, Found, ResolveLockCheckMode,
                        LockCheckModeFromPlanArgs
  <2>2. QED
    BY <2>1 DEF RunInv, TypeOK, IsPlan
<1>2. QED
  BY <1>1, RunInvHolds, PTL

(* A plan that runs had a usable mode from the place that counts, if the flag *)
(* was given anywhere.                                                        *)
THEOREM ModeIsHonoured == Spec => []ModeHonoured
<1>1. RunInv => ModeHonoured
  <2> SUFFICES ASSUME RunInv, PlanRan
               PROVE  LET own == LockCheckMode(given.argv)
                          its == LockCheckModeFromPlanArgs(given.env)
                      IN  /\ own.present => /\ AsWord(own.mode) \in ValidModes
                                            /\ asked.mode = own.mode
                          /\ ~own.present /\ its.present =>
                               AsWord(its.mode) \in ValidModes
    BY DEF ModeHonoured
  <2>1. Resolved /\ Passed
    BY DEF RunInv, PlanRan, IsPlan
  <2>2. asked.present => AsWord(asked.mode) \in ValidModes
    BY <2>1 DEF Passed, Refuses, EffectiveMode
  <2>3. QED
    BY <2>1, <2>2 DEF Resolved, Found, ResolveLockCheckMode
<1>2. QED
  BY <1>1, RunInvHolds, PTL

(* A plan that terraform runs has lost parraform's flag, on the command line  *)
(* and among the tokens of TF_CLI_ARGS_plan, for every value of it, a quote   *)
(* that is never closed included.                                             *)
THEOREM PlanIsStripped == Spec => []PlanStripped
<1>1. ASSUME NEW args
      PROVE  OwnFlags(args) = {} <=> NoneOwn(args)
  BY DEF OwnFlags, NoneOwn, Own
<1>2. RunInv => PlanStripped
  <2> SUFFICES ASSUME RunInv, PlanRan
               PROVE  NoneOwn(argv) /\ NoneOwn(SplitPlanArgs(env))
    BY <1>1 DEF PlanStripped
  <2>1. /\ argv = LockCheckMode(given.argv).rest /\ env = PlanEnv(given.env)
    BY DEF RunInv, PlanRan, IsPlan, Resolved, Found, ResolveLockCheckMode
  <2>2. given.argv \in Seq(Seq(Fragment)) /\ given.env \in Seq(Fragment)
    BY GivenTyped
  <2>3. {Blank, "-lock=", "false"} \subseteq Fragment
    BY DEF Fragment
  <2>4. QED
    BY <2>1, <2>2, <2>3, ScanLeaves, PlanEnvStripped
<1>3. QED
  BY <1>2, RunInvHolds, PTL

-----------------------------------------------------------------------------
(* What terraform makes of -lock *)

(* Behind is the first argument without a dash.                               *)
LEMMA BehindFirst ==
    ASSUME NEW B, NEW args \in Seq(B)
    PROVE  /\ Behind(args) \in 0..Len(args)
           /\ Behind(args) = 0 => /\ Subcommand(args) = <<>>
                                  /\ \A k \in 1..Len(args) : HasDash(args[k])
           /\ Behind(args) # 0 =>
                /\ Subcommand(args) = args[Behind(args)]
                /\ ~HasDash(args[Behind(args)])
                /\ \A k \in 1..(Behind(args) - 1) : HasDash(args[k])
<1> DEFINE I == {k \in 1..Len(args) : ~HasDash(args[k])}
<1>1. Behind(args) = IF I # {} THEN Min(I) ELSE 0
  BY DEF Behind, SelectInSeq
<1>2. Subcommand(args) = IF Behind(args) = 0 THEN <<>> ELSE args[Behind(args)]
  BY DEF Behind, Subcommand
<1>3. Len(args) \in Nat
  BY LenProperties
<1>4. CASE I = {}
  BY <1>1, <1>2, <1>3, <1>4
<1>5. CASE I # {}
  <2>1. Min(I) \in I /\ \A k \in I : Min(I) <= k
    BY <1>3, <1>5, FirstPosition
  <2> DEFINE b == Min(I)
  <2>2. b \in 1..Len(args) /\ ~HasDash(args[b])
    BY <2>1
  <2>3. \A k \in 1..(b - 1) : k \in 1..Len(args) /\ ~(b <= k)
    BY <1>3, <2>2
  <2>4. \A k \in 1..(b - 1) : HasDash(args[k])
    BY <2>1, <2>3
  <2> HIDE DEF b
  <2>5. QED
    BY <1>1, <1>2, <1>3, <1>5, <2>2, <2>4 DEF b
<1>6. QED
  BY <1>4, <1>5

(* The subcommand plan is one of the arguments.                               *)
LEMMA PlanIsBehind ==
    ASSUME NEW B, NEW args \in Seq(B), Subcommand(args) = <<"plan">>
    PROVE  Behind(args) \in 1..Len(args) /\ Behind(args) # 0
<1> DEFINE l == Len(args)
           q == Behind(args)
<1>1. q \in 0..l /\ (q = 0 => Subcommand(args) = <<>>) /\ l \in Nat
  BY BehindFirst, LenProperties
<1>2. <<"plan">> # <<>>
  OBVIOUS
<1> HIDE DEF l, q, Behind, Subcommand
<1>3. q # 0
  BY <1>1, <1>2
<1>4. q \in 1..l /\ q # 0
  BY ONLY <1>1, <1>3
<1>5. QED
  BY <1>4 DEF l, q

(* ExplicitLockTrue looks at the last argument that it understands.           *)
Understood == {<<"-lock">>, <<"-lock=", "true">>, <<"-lock=", "false">>}

LEMMA ExplicitIsLast ==
    ASSUME NEW B, NEW args \in Seq(B)
    PROVE  LET I == {k \in 1..Len(args) : args[k] \in Understood}
           IN  /\ I = {} => ~ExplicitLockTrue(args)
               /\ I # {} => \E m \in I :
                    /\ \A k \in I : k <= m
                    /\ ExplicitLockTrue(args) <=> args[m] # <<"-lock=", "false">>
<1> DEFINE I == {k \in 1..Len(args) : args[k] \in Understood}
           i == SelectLastInSeq(args, LAMBDA a : a \in Understood)
<1>1. ExplicitLockTrue(args) <=> i # 0 /\ args[i] # <<"-lock=", "false">>
  BY DEF ExplicitLockTrue, Understood
<1>2. i = IF I # {} THEN Max(I) ELSE 0
  BY DEF SelectLastInSeq
<1>3. Len(args) \in Nat
  BY LenProperties
<1>4. I # {} => Max(I) \in I /\ \A k \in I : k <= Max(I)
  BY <1>3, LastPosition
<1> HIDE DEF i
<1>5. \A m \in I : m # 0
  OBVIOUS
<1> HIDE DEF I
<1>6. /\ I = {} => ~ExplicitLockTrue(args)
      /\ I # {} => \E m \in I :
           /\ \A k \in I : k <= m
           /\ ExplicitLockTrue(args) <=> args[m] # <<"-lock=", "false">>
  BY <1>1, <1>2, <1>4, <1>5
<1>7. QED
  BY <1>6 DEF I

LEMMA OneElement ==
    ASSUME NEW v
    PROVE  Len(<<v>>) = 1 /\ <<v>>[1] = v
  OBVIOUS

(* Of an argument list that terraform accepts it understands every -lock.     *)
LEMMA AcceptedUnderstood ==
    ASSUME NEW B, NEW a \in Seq(B), StartsWith(a, "-lock="), Tail(a) \in Booleans
    PROVE  a \in Understood
<1>1. a # <<>> /\ a[1] = "-lock="
  BY DEF StartsWith
<1>2. PICK v \in {"true", "false"} : Tail(a) = <<v>>
  BY DEF Booleans
<1>3. Len(Tail(a)) = 1 /\ Tail(a)[1] = v
  BY <1>2, OneElement
<1>4. Len(a) = 2 /\ a[2] = v
  <2>1. /\ Len(Tail(a)) = Len(a) - 1 /\ Len(a) \in Nat
        /\ \A i \in 1..Len(Tail(a)) : Tail(a)[i] = a[i + 1]
    BY <1>1, HeadTailProperties, LenProperties
  <2>2. 1 \in 1..Len(Tail(a)) /\ 1 + 1 = 2
    BY <1>3
  <2>3. a[2] = v
    BY <1>3, <2>1, <2>2
  <2>4. Len(a) = 2
    BY <1>3, <2>1
  <2>5. QED
    BY <2>3, <2>4
<1>5. a = <<"-lock=", v>>
  BY <1>1, <1>4
<1>6. QED
  BY <1>2, <1>5 DEF Understood

LEMMA UnderstoodIsSetting ==
    ASSUME NEW a \in Understood
    PROVE  /\ a = <<"-lock">> \/ StartsWith(a, "-lock=")
           /\ a # <<"-lock=", "false">> <=> a \in {<<"-lock">>, <<"-lock=", "true">>}
  BY DEF Understood, StartsWith

\* s is a with w put in behind its element b.
Spliced(s, a, w, b) ==
    /\ b \in 1..Len(a)
    /\ Len(s) = Len(a) + Len(w)
    /\ \A k \in 1..b : s[k] = a[k]
    /\ \A k \in 1..Len(w) : s[b + k] = w[k]
    /\ \A k \in (b + 1)..Len(a) : s[Len(w) + k] = a[k]

LEMMA SpliceElements ==
    ASSUME NEW B, NEW a \in Seq(B), NEW w \in Seq(B), NEW b \in 1..Len(a)
    PROVE  LET s == SubSeq(a, 1, b) \o w \o SubSeq(a, b + 1, Len(a))
           IN  s \in Seq(B) /\ Spliced(s, a, w, b)
<1> DEFINE p == SubSeq(a, 1, b)
           q == SubSeq(a, b + 1, Len(a))
           r == p \o w
           s == r \o q
<1>1. Len(a) \in Nat /\ Len(w) \in Nat /\ b \in Nat /\ b >= 1 /\ b <= Len(a)
  BY LenProperties
<1>2. /\ p \in Seq(B) /\ Len(p) = b /\ \A k \in 1..b : p[k] = a[k]
      /\ q \in Seq(B) /\ Len(q) = Len(a) - b
      /\ \A k \in 1..(Len(a) - b) : q[k] = a[b + k]
  BY <1>1
<1> HIDE DEF p, q
<1>3. /\ r \in Seq(B) /\ Len(r) = b + Len(w)
      /\ \A k \in 1..(b + Len(w)) : r[k] = IF k <= b THEN p[k] ELSE w[k - b]
  BY <1>2, ConcatProperties
<1> HIDE DEF r
<1>4. /\ s \in Seq(B) /\ Len(s) = b + Len(w) + (Len(a) - b)
      /\ \A k \in 1..(b + Len(w) + (Len(a) - b)) :
            s[k] = IF k <= b + Len(w) THEN r[k] ELSE q[k - (b + Len(w))]
  <2>1. /\ s \in Seq(B) /\ Len(s) = Len(r) + Len(q)
        /\ \A k \in 1..(Len(r) + Len(q)) :
              s[k] = IF k <= Len(r) THEN r[k] ELSE q[k - Len(r)]
    <3>1. r \in Seq(B) /\ q \in Seq(B)
      BY <1>2, <1>3
    <3>2. QED
      BY ONLY <3>1, ConcatProperties
  <2> HIDE DEF s
  <2>2. QED
    BY <1>2, <1>3, <2>1
<1> HIDE DEF s
<1>5. ASSUME NEW k \in 1..b
      PROVE  s[k] = a[k]
  <2>1. /\ k \in 1..(b + Len(w) + (Len(a) - b)) /\ k \in 1..(b + Len(w))
        /\ k <= b + Len(w) /\ k <= b
    BY <1>1
  <2>2. QED
    BY <1>2, <1>3, <1>4, <2>1
<1>6. ASSUME NEW k \in 1..Len(w)
      PROVE  s[b + k] = w[k]
  <2>1. /\ b + k \in 1..(b + Len(w) + (Len(a) - b)) /\ b + k \in 1..(b + Len(w))
        /\ b + k <= b + Len(w) /\ ~(b + k <= b) /\ (b + k) - b = k
    BY <1>1
  <2>2. QED
    BY <1>3, <1>4, <2>1
<1>7. ASSUME NEW k \in (b + 1)..Len(a)
      PROVE  s[Len(w) + k] = a[k]
  <2>1. /\ Len(w) + k \in 1..(b + Len(w) + (Len(a) - b))
        /\ ~(Len(w) + k <= b + Len(w))
        /\ (Len(w) + k) - (b + Len(w)) = k - b
        /\ k - b \in 1..(Len(a) - b) /\ b + (k - b) = k
    BY <1>1
  <2>2. s[Len(w) + k] = q[k - b]
    BY <1>4, <2>1
  <2>3. q[k - b] = a[b + (k - b)]
    BY <1>2, <2>1
  <2>4. QED
    BY <2>1, <2>2, <2>3
<1>8. Len(s) = Len(a) + Len(w)
  BY <1>1, <1>4
<1>9. s \in Seq(B) /\ Spliced(s, a, w, b)
  BY <1>4, <1>5, <1>6, <1>7, <1>8 DEF Spliced
<1>10. QED
  BY <1>9 DEF s, r, p, q

(* What is spliced in behind the subcommand does not move it.                 *)
LEMMA SplicedBehind ==
    ASSUME NEW B, NEW a \in Seq(B), NEW w \in Seq(B), NEW s \in Seq(B),
           NEW b, b = Behind(a), b # 0, Spliced(s, a, w, b)
    PROVE  Behind(s) = b
<1>1. /\ b \in 1..Len(a) /\ ~HasDash(a[b]) /\ \A k \in 1..(b - 1) : HasDash(a[k])
      /\ Len(a) \in Nat /\ Len(w) \in Nat /\ Len(s) = Len(a) + Len(w)
      /\ \A k \in 1..b : s[k] = a[k]
  BY BehindFirst, LenProperties DEF Spliced
<1>2. /\ Behind(s) \in 0..Len(s)
      /\ Behind(s) = 0 => \A k \in 1..Len(s) : HasDash(s[k])
      /\ Behind(s) # 0 => /\ ~HasDash(s[Behind(s)])
                          /\ \A k \in 1..(Behind(s) - 1) : HasDash(s[k])
  BY BehindFirst
<1> HIDE DEF Behind
<1>3. b \in 1..Len(s) /\ b \in 1..b /\ b \in Nat
  BY <1>1
<1>4. ~HasDash(s[b])
  BY <1>1, <1>3
<1>5. ASSUME NEW k \in 1..(b - 1)
      PROVE  HasDash(s[k])
  <2>1. k \in 1..b
    BY <1>3
  <2>2. HasDash(a[k]) /\ s[k] = a[k]
    BY <1>1, <2>1
  <2>3. QED
    BY <2>2
<1>6. Behind(s) # 0 /\ Behind(s) \in Nat
  BY <1>1, <1>2, <1>3, <1>4
<1>7. ~(Behind(s) < b)
  BY <1>2, <1>3, <1>5, <1>6
<1>8. ~(b < Behind(s))
  BY <1>2, <1>3, <1>4, <1>6
<1>9. QED
  BY <1>3, <1>6, <1>7, <1>8

(* What terraform accepts: each -lock stands behind the subcommand and is one *)
(* that ExplicitLockTrue understands.                                         *)
LEMMA SettingsUnderstood ==
    ASSUME NEW B, NEW s \in Seq(Seq(B)), ~TerraformRejects(s), Behind(s) # 0,
           NEW k \in LockSettings(s)
    PROVE  k \in 1..Len(s) /\ k > Behind(s) /\ s[k] \in Understood
<1>1. /\ k \in 1..Len(s) /\ ~(k < Behind(s))
      /\ s[k] # <<"-lock">> => Tail(s[k]) \in Booleans
  BY DEF TerraformRejects, LockSettings
<1>2. s[k] = <<"-lock">> \/ StartsWith(s[k], "-lock=")
  BY DEF LockSettings
<1>3. HasDash(s[k])
  <2>1. CASE s[k] = <<"-lock">>
    <3>1. s[k] # <<>> /\ s[k][1] = "-lock"
      BY <2>1
    <3>2. QED
      BY <3>1 DEF HasDash, Flags
  <2>2. CASE StartsWith(s[k], "-lock=")
    BY <2>2 DEF HasDash, StartsWith, Flags
  <2>3. QED
    BY <1>2, <2>1, <2>2
<1>4. /\ Behind(s) \in 0..Len(s) /\ Len(s) \in Nat
      /\ ~HasDash(s[Behind(s)])
  BY BehindFirst, LenProperties
<1>5. k # Behind(s)
  BY <1>3, <1>4
<1>6. s[k] \in Understood
  <2>1. s[k] \in Seq(B)
    BY <1>1, ElementOfSeq
  <2>2. CASE s[k] = <<"-lock">>
    BY <2>2 DEF Understood
  <2>3. CASE s[k] # <<"-lock">>
    BY <1>1, <1>2, <2>1, <2>3, AcceptedUnderstood
  <2>4. QED
    BY <2>2, <2>3
<1>7. QED
  BY <1>1, <1>4, <1>5, <1>6

(* Of a plan command that terraform accepts with -lock=false as the last word *)
(* from the environment, the command line alone says whether it locks.        *)
LEMMA CommandLineDecides ==
    ASSUME NEW B, NEW a \in Seq(Seq(B)), NEW w \in Seq(Seq(B)),
           NEW s \in Seq(Seq(B)), NEW b, b = Behind(a), b # 0,
           Spliced(s, a, w, b), w # <<>>, w[Len(w)] = LockFalse,
           ~TerraformRejects(s)
    PROVE  TerraformLocks(s) <=> ExplicitLockTrue(a)
<1> DEFINE n == Len(w)
           p == b + n
           I == {k \in 1..Len(a) : a[k] \in Understood}
<1>1. /\ Len(a) \in Nat /\ n \in Nat /\ n >= 1 /\ Len(s) = Len(a) + n
      /\ b \in Nat /\ b >= 1 /\ b <= Len(a)
  BY LenProperties, EmptySeq DEF Spliced
<1>2. /\ \A k \in 1..b : s[k] = a[k]
      /\ \A k \in 1..n : s[b + k] = w[k]
      /\ \A k \in (b + 1)..Len(a) : s[n + k] = a[k]
      /\ w[n] = LockFalse
  BY DEF Spliced
<1>3. \A k \in LockSettings(s) : k \in 1..Len(s) /\ k > b /\ s[k] \in Understood
  <2>1. Behind(s) = b
    BY SplicedBehind
  <2>2. QED
    BY <2>1, SettingsUnderstood
<1> HIDE DEF n
<1>4. p \in LockSettings(s) /\ s[p] = LockFalse
  <2>1. p \in 1..Len(s) /\ n \in 1..n
    BY ONLY <1>1
  <2>2. s[p] = LockFalse
    BY <1>2, <2>1
  <2>3. StartsWith(LockFalse, "-lock=")
    BY DEF StartsWith, LockFalse
  <2>4. QED
    BY <2>1, <2>2, <2>3 DEF LockSettings
<1>5. \A k \in I : n + k \in LockSettings(s) /\ s[n + k] = a[k] /\ k > b
  <2> SUFFICES ASSUME NEW k \in I
               PROVE  n + k \in LockSettings(s) /\ s[n + k] = a[k] /\ k > b
    OBVIOUS
  <2>1. k \in 1..Len(a) /\ (a[k] = <<"-lock">> \/ StartsWith(a[k], "-lock="))
    BY UnderstoodIsSetting
  <2>2. ~(k <= b)
    <3> SUFFICES ASSUME k <= b
                 PROVE  FALSE
      OBVIOUS
    <3>1. k \in 1..b /\ k \in 1..Len(s)
      BY <1>1, <1>2, <2>1
    <3>2. k \in LockSettings(s)
      BY <1>2, <2>1, <3>1 DEF LockSettings
    <3>3. QED
      BY <1>1, <1>3, <3>1, <3>2
  <2>3. k \in (b + 1)..Len(a) /\ n + k \in 1..Len(s)
    BY <1>1, <1>2, <2>1, <2>2
  <2>4. s[n + k] = a[k]
    BY <1>2, <2>3
  <2>5. n + k \in LockSettings(s)
    BY <2>1, <2>3, <2>4 DEF LockSettings
  <2>6. k > b
    BY ONLY <1>1, <2>1, <2>2
  <2>7. QED
    BY <2>4, <2>5, <2>6
<1>6. \A k \in LockSettings(s) : k > p => k - n \in I
  <2> SUFFICES ASSUME NEW k \in LockSettings(s), k > p
               PROVE  k - n \in I
    OBVIOUS
  <2>1. k \in 1..Len(s) /\ s[k] \in Understood
    BY <1>3
  <2>2. k - n \in (b + 1)..Len(a) /\ n + (k - n) = k /\ k - n \in 1..Len(a)
    <3>1. k \in 1..(Len(a) + n) /\ k > b + n
      BY <1>1, <2>1
    <3>2. QED
      BY ONLY <1>1, <3>1
  <2>3. s[k] = a[k - n]
    BY <1>2, <2>2
  <2>4. QED
    BY <2>1, <2>2, <2>3
<1>7. p \in Nat /\ \A k \in LockSettings(s) : k \in Nat
  BY <1>1, <1>3
<1> HIDE DEF p
<1>8. CASE I = {}
  <2>1. \A k \in LockSettings(s) : k <= p
    <3>1. \A k \in LockSettings(s) : ~(k > p)
      BY <1>6, <1>8
    <3>2. QED
      BY ONLY <1>7, <3>1
  <2>2. LockFalse \notin {<<"-lock">>, <<"-lock=", "true">>}
    BY DEF LockFalse
  <2>3. ~TerraformLocks(s)
    BY <1>4, <2>1, <2>2 DEF TerraformLocks
  <2>4. QED
    BY <1>8, <2>3, ExplicitIsLast
<1>9. CASE I # {}
  <2>1. PICK m \in I :
          /\ \A k \in I : k <= m
          /\ ExplicitLockTrue(a) <=> a[m] # <<"-lock=", "false">>
    BY <1>9, ExplicitIsLast
  <2>2. /\ n + m \in LockSettings(s) /\ s[n + m] = a[m]
        /\ a[m] \in Understood /\ m \in Nat /\ m > b
    <3>1. m \in 1..Len(a) /\ a[m] \in Understood
      BY ONLY m \in I
    <3>2. n + m \in LockSettings(s) /\ s[n + m] = a[m] /\ m > b
      BY ONLY m \in I, <1>5
    <3>3. m \in Nat
      BY ONLY <1>1, <3>1
    <3>4. QED
      BY <3>1, <3>2, <3>3
  <2>3. p < n + m
    BY <1>1, <2>2 DEF p
  <2> HIDE DEF I
  <2>4. ASSUME NEW k \in LockSettings(s)
        PROVE  k <= n + m
    <3>1. CASE k > p
      <4>1. k - n <= m
        BY <1>6, <2>1, <3>1
      <4>2. QED
        BY <1>1, <1>7, <2>2, <4>1
    <3>2. CASE ~(k > p)
      BY <1>1, <1>7, <2>2, <2>3, <3>2
    <3>3. QED
      BY <3>1, <3>2
  <2>5. TerraformLocks(s) <=> s[n + m] \in {<<"-lock">>, <<"-lock=", "true">>}
    <3>1. ASSUME NEW k \in LockSettings(s), \A j \in LockSettings(s) : j <= k
          PROVE  k = n + m
      <4>1. k <= n + m /\ n + m <= k /\ k \in Nat
        BY <1>7, <2>2, <2>4, <3>1
      <4>2. QED
        BY <1>1, <2>2, <4>1
    <3>2. QED
      BY <2>2, <2>4, <3>1 DEF TerraformLocks
  <2>6. QED
    BY <2>1, <2>2, <2>5, UnderstoodIsSetting
<1>10. QED
  BY <1>8, <1>9

-----------------------------------------------------------------------------
(* A sequence of some kind of elements.                                       *)
LEMMA SeqOfKind ==
    ASSUME NEW S, NEW s \in Seq(S), NEW B, \A k \in 1..Len(s) : s[k] \in B
    PROVE  s \in Seq(B)
<1>1. Len(s) \in Nat /\ s \in [1..Len(s) -> S]
  BY LenProperties
<1>2. s \in [1..Len(s) -> B]
  BY <1>1
<1>3. QED
  BY <1>1, <1>2, SeqDef

\* No value of TF_CLI_ARGS_plan, its flag taken out, ends in a backslash that
\* would escape the blank in front of -lock=false.
EndsPlain ==
    \A input \in Inputs :
        ~ParseShell(LockCheckModeFromPlanArgs(input.env).rest).escaped

(* That is so if there is no backslash at all.                                *)
LEMMA NoBackslashEndsPlain ==
    ASSUME \A input \in Inputs : \A k \in 1..Len(input.env) : input.env[k] # "\\"
    PROVE  EndsPlain
<1> DEFINE F == Fragment \ {"\\"}
<1> SUFFICES ASSUME NEW input \in Inputs
             PROVE  ~ParseShell(LockCheckModeFromPlanArgs(input.env).rest).escaped
  BY DEF EndsPlain
<1>1. Blank \in F /\ "\\" \notin F
  BY DEF Fragment, Blank
<1>2. input.env \in Seq(Fragment)
  <2>1. Seq(STRING) \subseteq Seq(Fragment)
    BY SeqMonotonic DEF Fragment
  <2>2. QED
    BY <2>1, InputsAssumption DEF InputsAssumption
<1>3. input.env \in Seq(F)
  <2>1. \A k \in 1..Len(input.env) : input.env[k] \in F
    BY <1>2, ElementOfSeq
  <2>2. QED
    BY <1>2, <2>1, SeqOfKind
<1> HIDE DEF F
<1>4. LockCheckModeFromPlanArgs(input.env).rest \in Seq(F)
  BY <1>1, <1>3, RestTyped
<1>5. QED
  BY <1>1, <1>4, NeverEscaped

(* A plan that terraform accepts locks just if checkLock has seen an explicit *)
(* -lock=true.                                                                *)
LEMMA LocksAsSeen ==
    ASSUME EndsPlain, RunInv, PlanAccepted
    PROVE  TerraformLocks(Seen) <=> ExplicitLockTrue(argv)
<1> DEFINE rest == LockCheckModeFromPlanArgs(given.env).rest
           w == ShellWords(env).words
<1>1. /\ Resolved /\ env = rest \o <<Blank>> \o LockFalse
      /\ ShellWords(env).ok /\ Subcommand(Seen) = <<"plan">>
      /\ ~TerraformRejects(Seen)
  BY DEF RunInv, PlanAccepted, PlanRan, IsPlan, PlanEnv
<1>5. argv \in Seq(Seq(Fragment))
  <2>1. LockCheckMode(given.argv).rest \in Seq(Seq(Fragment))
    BY GivenTyped, ScanUnfolds DEF ScanStates
  <2>2. QED
    BY <1>1, <2>1 DEF Resolved, Found, ResolveLockCheckMode
<1>6. rest \in Seq(Fragment) /\ ~ParseShell(rest).escaped
  <2>1. Blank \in Fragment /\ given \in Inputs
    BY DEF Fragment, RunInv
  <2>2. QED
    BY <2>1, GivenTyped, RestTyped DEF EndsPlain
<1>7. w \in Seq(Seq(Fragment)) /\ w # <<>> /\ w[Len(w)] = LockFalse
  <2>1. {Blank, "-lock=", "false"} \subseteq Fragment
    BY DEF Fragment
  <2> HIDE DEF rest
  <2>2. /\ ShellWords(rest).words \in Seq(Seq(Fragment))
        /\ w = Append(ShellWords(rest).words, LockFalse)
    BY <1>1, <1>6, <2>1, LockFalseLast
  <2>3. LockFalse \in Seq(Fragment)
    BY <2>1 DEF LockFalse
  <2>4. QED
    BY <2>2, <2>3, AppendProperties
<1> HIDE DEF rest, w
<1> DEFINE b == Behind(argv)
<1>8. Subcommand(argv) = <<"plan">>
  BY <1>1 DEF Seen, TerraformArgs
<1>9. b \in 1..Len(argv) /\ b # 0
  BY <1>5, <1>8, PlanIsBehind
<1>10. Seen = SubSeq(argv, 1, b) \o w \o SubSeq(argv, b + 1, Len(argv))
  BY <1>8 DEF Seen, TerraformArgs, w
<1>11. Seen \in Seq(Seq(Fragment)) /\ Spliced(Seen, argv, w, b)
  <2> HIDE DEF b
  <2>1. QED
    BY <1>5, <1>7, <1>9, <1>10, SpliceElements
<1>12. b = Behind(argv)
  OBVIOUS
<1> HIDE DEF b
<1>13. QED
  BY <1>1, <1>5, <1>7, <1>9, <1>11, <1>12, CommandLineDecides

(* Without a -lock on the command line no plan locks, whatever the value of   *)
(* TF_CLI_ARGS_plan says of -lock, if it does not escape parraform's own.     *)
THEOREM RunsUnlocked ==
    ASSUME EndsPlain
    PROVE  Spec => []PlanRunsUnlocked
<1>1. RunInv => PlanRunsUnlocked
  <2> SUFFICES ASSUME RunInv, PlanAccepted, ~OwnLock
               PROVE  ~TerraformLocks(Seen)
    BY DEF PlanRunsUnlocked
  <2> DEFINE B == {a \in Seq(Fragment) :
                     ~(a = <<"-lock">> \/ StartsWith(a, "-lock="))}
  <2>1. given.argv \in Seq(B)
    <3>1. given.argv \in Seq(Seq(Fragment))
      BY GivenTyped
    <3>2. \A k \in 1..Len(given.argv) : given.argv[k] \in B
      BY <3>1, ElementOfSeq DEF OwnLock, LockSettings
    <3>3. QED
      BY <3>1, <3>2, SeqOfKind
  <2>2. argv \in Seq(B)
    <3>1. LockCheckMode(given.argv).rest \in Seq(B)
      BY <2>1, ScanKeepsElements
    <3>2. QED
      BY <3>1 DEF RunInv, PlanAccepted, PlanRan, IsPlan, Resolved, Found,
                  ResolveLockCheckMode
  <2>3. \A k \in 1..Len(argv) : argv[k] \notin Understood
    BY <2>2, ElementOfSeq, UnderstoodIsSetting
  <2>4. ~ExplicitLockTrue(argv)
    BY <2>2, <2>3, ExplicitIsLast
  <2>5. QED
    BY <2>4, LocksAsSeen
<1>2. QED
  BY <1>1, RunInvHolds, PTL

(* The warning printed by decideLockAction tells what terraform then does.    *)
THEOREM WarningIsTruthful ==
    ASSUME EndsPlain
    PROVE  Spec => []WarningTruthful
<1>1. RunInv => WarningTruthful
  <2> SUFFICES ASSUME RunInv, PlanAccepted
               PROVE  /\ warning = "unlocked" => ~TerraformLocks(Seen)
                      /\ warning = "willLock" => TerraformLocks(Seen)
    BY DEF WarningTruthful
  <2>1. Passed
    BY DEF RunInv, PlanAccepted, PlanRan, IsPlan
  <2>2. /\ warning = "unlocked" => ~ExplicitLockTrue(argv)
        /\ warning = "willLock" => ExplicitLockTrue(argv)
    BY <2>1 DEF Passed, Warning
  <2>3. QED
    BY <2>2, LocksAsSeen
<1>2. QED
  BY <1>1, RunInvHolds, PTL

\* Neither a backslash nor a line break, of which the splitter of parraform knows
\* nothing, in any value of TF_CLI_ARGS_plan.
NoEscapes ==
    \A input \in Inputs : \A k \in 1..Len(input.env) : input.env[k] \notin Escapes

(* Of a value with no backslash and no line break, and whose flag the         *)
(* splitter can see, terraform gets each word that is not the flag's.         *)
LEMMA KeptWords ==
    ASSUME NoEscapes, RunInv, PlanRan, FlagVisible
    PROVE  /\ ShellWords(given.env).words \in Seq(Seq(Fragment))
           /\ ShellWords(env).ok
           /\ ShellWords(env).words =
                Append(LockCheckMode(ShellWords(given.env).words).rest, LockFalse)
<1> DEFINE F == Fragment \ Escapes
           e == given.env
           words == ShellWords(e).words
           ts == SplitPlanArgs(e)
<1>0. /\ ShellWords(e).ok
      /\ Cardinality(OwnFlags(words)) <= Cardinality(OwnFlags(ts))
  BY DEF FlagVisible
<1>1. env = PlanEnv(e)
  BY DEF RunInv, PlanRan, IsPlan
<1>2. {Blank, "-lock=", "false"} \subseteq F /\ Escapes \cap F = {}
  BY DEF Fragment, Escapes, Blank
<1>3. e \in Seq(F)
  <2>1. e \in Seq(Fragment) /\ given \in Inputs
    BY GivenTyped DEF RunInv
  <2>2. \A k \in 1..Len(e) : e[k] \in F
    BY <2>1, ElementOfSeq DEF NoEscapes
  <2>3. QED
    BY <2>1, <2>2, SeqOfKind
<1> HIDE DEF F, e
<1>4. ts \in Seq(Closed(F)) /\ words = Words(ts)
  BY <1>0, <1>2, <1>3, SplittersAgree
<1>5. ts \in Seq(Seq(F)) /\ Len(ts) \in Nat
  <2>1. Closed(F) \subseteq Seq(F)
    BY DEF Closed
  <2>2. QED
    BY <1>4, <2>1, SeqMonotonic, LenProperties
<1>6. /\ words \in Seq(Seq(F)) /\ Len(words) = Len(ts)
      /\ \A k \in 1..Len(ts) : words[k] = Reads(ts[k])
  <2>1. Words(ts) \in Seq(Seq(F)) /\ Len(Words(ts)) = Len(ts)
    <3>1. <<>> \in Seq(F)
      BY EmptySeq
    <3>2. QED
      BY <1>5, <3>1, WordsAppend
  <2>2. QED
    BY <1>4, <2>1 DEF Words
<1>7. words \in Seq(Seq(Fragment))
  <2>1. Seq(F) \subseteq Seq(Fragment)
    BY SeqMonotonic DEF F
  <2>2. QED
    BY <1>6, <2>1, SeqMonotonic
<1> HIDE DEF ts, words
<1>8. /\ OwnFlags(ts) = {k \in 1..Len(ts) : Own(ts[k])}
      /\ OwnFlags(words) = {k \in 1..Len(ts) : Own(Reads(ts[k]))}
  BY <1>6 DEF OwnFlags, Own
<1>9. OwnFlags(ts) \subseteq OwnFlags(words)
  <2>1. ASSUME NEW k \in 1..Len(ts), Own(ts[k])
        PROVE  Own(Reads(ts[k]))
    <3>1. ts[k] \in Closed(F)
      BY <1>4, ElementOfSeq
    <3>2. QED
      BY <1>2, <2>1, <3>1, OwnReads DEF Own
  <2>2. QED
    BY <1>8, <2>1
<1>10. OwnFlags(words) = OwnFlags(ts)
  <2>1. IsFiniteSet(1..Len(ts))
    BY <1>5, FS_Interval
  <2>2. IsFiniteSet(OwnFlags(words))
    BY <1>8, <2>1, FS_Subset
  <2>3. /\ IsFiniteSet(OwnFlags(ts))
        /\ Cardinality(OwnFlags(ts)) <= Cardinality(OwnFlags(words))
        /\ Cardinality(OwnFlags(words)) = Cardinality(OwnFlags(ts))
             => OwnFlags(words) = OwnFlags(ts)
    BY <1>9, <2>2, FS_Subset
  <2>4. /\ Cardinality(OwnFlags(words)) \in Nat
        /\ Cardinality(OwnFlags(ts)) \in Nat
    BY <2>2, <2>3, FS_CardinalityType
  <2>5. Cardinality(OwnFlags(words)) = Cardinality(OwnFlags(ts))
    BY <1>0, <2>3, <2>4
  <2>6. QED
    BY <2>3, <2>5
<1>11. OwnSeen(ts)
  BY <1>8, <1>10 DEF OwnSeen
<1>12. /\ ShellWords(PlanEnv(e)).ok
       /\ ShellWords(PlanEnv(e)).words = Append(LockCheckMode(words).rest, LockFalse)
  BY <1>0, <1>2, <1>3, <1>11, PlanEnvKeeps DEF ts, words
<1>13. QED
  BY <1>1, <1>7, <1>12 DEF words, e

(* Nothing of TF_CLI_ARGS_plan is lost, changed or moved but the flag and its *)
(* value, and -lock=false is its last word.                                   *)
THEOREM ArgsAreKept ==
    ASSUME NoEscapes
    PROVE  Spec => []PlanArgsKept
<1>1. RunInv => PlanArgsKept
  BY KeptWords DEF PlanArgsKept
<1>2. QED
  BY <1>1, RunInvHolds, PTL

LEMMA NoneOwnSpliced ==
    ASSUME NEW B, NEW a \in Seq(B), NEW w \in Seq(B), NEW s \in Seq(B), NEW b,
           Spliced(s, a, w, b), NoneOwn(a), NoneOwn(w)
    PROVE  NoneOwn(s)
<1> DEFINE n == Len(w)
<1>1. /\ Len(a) \in Nat /\ n \in Nat /\ b \in 1..Len(a)
      /\ Len(s) = Len(a) + n
      /\ \A k \in 1..b : s[k] = a[k]
      /\ \A k \in 1..n : s[b + k] = w[k]
      /\ \A k \in (b + 1)..Len(a) : s[n + k] = a[k]
  BY LenProperties DEF Spliced
<1>2. /\ \A k \in 1..Len(a) : ~Own(a[k])
      /\ \A k \in 1..n : ~Own(w[k])
  BY DEF NoneOwn
<1> HIDE DEF n
<1>3. ASSUME NEW k \in 1..Len(s)
      PROVE  ~Own(s[k])
  <2>1. CASE k <= b
    <3>1. k \in 1..b /\ k \in 1..Len(a)
      BY <1>1, <2>1
    <3>2. QED
      BY <1>1, <1>2, <3>1
  <2>2. CASE k > b /\ k <= b + n
    <3>1. k - b \in 1..n /\ b + (k - b) = k
      BY <1>1, <2>2
    <3>2. s[k] = w[k - b]
      BY <1>1, <3>1
    <3>3. QED
      BY <1>2, <3>1, <3>2
  <2>3. CASE k > b + n
    <3>1. /\ k - n \in (b + 1)..Len(a) /\ n + (k - n) = k
          /\ k - n \in 1..Len(a)
      <4>1. k \in 1..(Len(a) + n)
        BY <1>1
      <4>2. QED
        BY ONLY <1>1, <2>3, <4>1
    <3>2. s[k] = a[k - n]
      BY <1>1, <3>1
    <3>3. QED
      BY <1>2, <3>1, <3>2
  <2>4. QED
    BY <1>1, <2>1, <2>2, <2>3
<1>4. QED
  BY <1>3 DEF NoneOwn

(* Of a plan command whose flag the splitter can see, terraform is given no   *)
(* word that is parraform's flag.                                             *)
THEOREM NothingElseLeaks ==
    ASSUME NoEscapes
    PROVE  Spec => []PlanNeverSeesLockCheck
<1>1. RunInv => PlanNeverSeesLockCheck
  <2> DEFINE w == ShellWords(env).words
             b == Behind(argv)
  <2> SUFFICES ASSUME RunInv, PlanRan, FlagVisible
               PROVE  OwnFlags(Seen) = {}
    BY DEF PlanNeverSeesLockCheck
  <2>1. argv \in Seq(Seq(Fragment)) /\ NoneOwn(argv)
    <3>1. argv = LockCheckMode(given.argv).rest
      BY DEF RunInv, PlanRan, IsPlan, Resolved, Found, ResolveLockCheckMode
    <3>2. QED
      BY <3>1, GivenTyped, ScanUnfolds, ScanLeaves DEF ScanStates
  <2>2. w \in Seq(Seq(Fragment)) /\ NoneOwn(w)
    <3> DEFINE words == ShellWords(given.env).words
               kept == LockCheckMode(words).rest
    <3>1. words \in Seq(Seq(Fragment)) /\ w = Append(kept, LockFalse)
      BY KeptWords
    <3> HIDE DEF words
    <3>2. kept \in Seq(Seq(Fragment)) /\ NoneOwn(kept)
      BY <3>1, ScanUnfolds, ScanLeaves DEF ScanStates
    <3> HIDE DEF kept, w
    <3>3. LockFalse \in Seq(Fragment) /\ ~Own(LockFalse)
      BY DEF LockFalse, Fragment, Own, HasLockCheckValue, StartsWith,
             IsLockCheckFlag
    <3>4. QED
      BY <3>1, <3>2, <3>3, NoneOwnAppend, AppendProperties
  <2> HIDE DEF w
  <2>3. NoneOwn(Seen)
    <3>1. CASE Subcommand(argv) # <<"plan">>
      BY <2>1, <3>1 DEF Seen, TerraformArgs
    <3>2. CASE Subcommand(argv) = <<"plan">>
      <4>1. Seen = SubSeq(argv, 1, b) \o w \o SubSeq(argv, b + 1, Len(argv))
        BY <3>2 DEF Seen, TerraformArgs, w
      <4>2. b \in 1..Len(argv)
        BY <2>1, <3>2, PlanIsBehind
      <4> HIDE DEF b
      <4>3. Seen \in Seq(Seq(Fragment)) /\ Spliced(Seen, argv, w, b)
        BY <2>1, <2>2, <4>1, <4>2, SpliceElements
      <4>4. QED
        BY <2>1, <2>2, <4>3, NoneOwnSpliced
    <3>3. QED
      BY <3>1, <3>2
  <2>4. QED
    BY <2>3 DEF OwnFlags, NoneOwn, Own
<1>2. QED
  BY <1>1, RunInvHolds, PTL
=============================================================================
