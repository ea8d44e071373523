---------------------------- MODULE TFArgsProofs ----------------------------
(* What the loops over command lines and over TF_CLI_ARGS_plan compute, for   *)
(* lists and values of any length.  The provers cannot apply an induction     *)
(* theorem that has an operator as its parameter; induction is stated here    *)
(* for a set of numbers or of sequences, which comes to the same.             *)
EXTENDS TFArgs, WellFoundedInduction, SequenceTheorems, TLAPS

(* A set of numbers that is not empty has a least element.                    *)
LEMMA LeastNumber ==
    ASSUME NEW S \in SUBSET Nat, S # {}
    PROVE  \E x \in S : \A y \in S : x <= y
<1>1. PICK x \in S : \A y \in S : <<y, x>> \notin OpToRel(<, Nat)
  BY NatLessThanWellFounded, WFMin
<1>2. \A y \in S : ~(y < x)
  BY <1>1 DEF OpToRel
<1>3. QED
  BY <1>2

(* Induction over the numbers.                                                *)
LEMMA NumberInduction ==
    ASSUME NEW S, 0 \in S, \A n \in Nat : n \in S => n + 1 \in S
    PROVE  Nat \subseteq S
<1> SUFFICES ASSUME Nat \ S # {}
             PROVE  FALSE
  OBVIOUS
<1>1. PICK x \in Nat \ S : \A y \in Nat \ S : x <= y
  BY LeastNumber
<1>2. x # 0 /\ x - 1 \in Nat /\ ~(x <= x - 1)
  BY <1>1
<1>3. QED
  BY <1>1, <1>2

(* Induction over sequences, by what stands at their end.                     *)
LEMMA SequenceInduction ==
    ASSUME NEW B, NEW S, <<>> \in S,
           \A s \in Seq(B), b \in B : s \in S => Append(s, b) \in S
    PROVE  Seq(B) \subseteq S
<1> DEFINE N == {n \in Nat : \A s \in Seq(B) : Len(s) = n => s \in S}
<1>1. 0 \in N
  BY EmptySeq
<1>2. ASSUME NEW n \in Nat, n \in N
      PROVE  n + 1 \in N
  <2>1. ASSUME NEW s \in Seq(B), Len(s) = n + 1
        PROVE  s \in S
    <3>1. s # <<>>
      BY <2>1, EmptySeq
    <3>2. PICK t \in Seq(B), b \in B : s = Append(t, b)
      BY <3>1, SequenceEmptyOrAppend
    <3>3. Len(t) = n
      BY <2>1, <3>2, AppendProperties, LenProperties
    <3>4. QED
      BY <1>2, <3>2, <3>3
  <2>2. QED
    BY <2>1
<1>3. Nat \subseteq N
  <2> HIDE DEF N
  <2>1. QED
    BY <1>1, <1>2, NumberInduction
<1>4. QED
  BY <1>3, LenProperties

(* One element more.                                                          *)
LEMMA AppendElements ==
    ASSUME NEW B, NEW s \in Seq(B), NEW b \in B
    PROVE  /\ Append(s, b) \in Seq(B)
           /\ Len(s) \in Nat /\ Len(Append(s, b)) = Len(s) + 1
           /\ \A k \in 1..Len(s) : Append(s, b)[k] = s[k]
           /\ Append(s, b)[Len(s) + 1] = b
           /\ 1..Len(Append(s, b)) = (1..Len(s)) \cup {Len(s) + 1}
  BY AppendProperties, LenProperties

(* A set of positions that is not empty has a first and a last one.           *)
LEMMA LastPosition ==
    ASSUME NEW n \in Nat, NEW S \in SUBSET (1..n), S # {}
    PROVE  Max(S) \in S /\ \A y \in S : y <= Max(S)
<1> DEFINE U == {u \in Nat : \A y \in S : y <= u}
<1>1. n \in U
  OBVIOUS
<1>2. PICK u \in U : \A v \in U : u <= v
  BY <1>1, LeastNumber
<1>3. u \in S
  <2> SUFFICES ASSUME u \notin S
               PROVE  FALSE
    OBVIOUS
  <2>1. u # 0
    <3>1. PICK y \in S : y \in 1..n
      OBVIOUS
    <3>2. QED
      BY <1>2, <3>1
  <2>2. u - 1 \in U
    BY <1>2, <2>1
  <2>3. QED
    BY <1>2, <2>2
<1>4. \E x \in S : \A y \in S : x >= y
  BY <1>2, <1>3
<1>5. QED
  BY <1>4 DEF Max

LEMMA FirstPosition ==
    ASSUME NEW n \in Nat, NEW S \in SUBSET (1..n), S # {}
    PROVE  Min(S) \in S /\ \A y \in S : Min(S) <= y
<1>1. PICK x \in S : \A y \in S : x <= y
  BY LeastNumber
<1>2. QED
  BY <1>1 DEF Min

-----------------------------------------------------------------------------
(* Folds *)

\* A state and an element make a state.
Foldable(A, B, step, base) == step \in [A \X B -> A] /\ base \in A

\* The walk of FoldLeft over a set of the first n positions, from its last one.
Walks(it, n, A, step, base, s) ==
    /\ it \in [SUBSET (1..n) -> A]
    /\ \A t \in SUBSET (1..n) :
         it[t] = IF t = {} THEN base
                 ELSE step[<<it[t \ {Max(t)}], s[Max(t)]>>]

(* There is such a walk for each step function and each sequence.             *)
LEMMA WalkExists ==
    ASSUME NEW A, NEW B, NEW step, NEW base, NEW s \in Seq(B),
           Foldable(A, B, step, base)
    PROVE  \E it : Walks(it, Len(s), A, step, base, s)
<1> USE DEF Foldable, Walks
<1> DEFINE Walkable(n) == \E it : Walks(it, n, A, step, base, s)
           N == {n \in Nat : n <= Len(s) => Walkable(n)}
<1>0. Len(s) \in Nat
  BY LenProperties
<1>1. 0 \in N
  <2> DEFINE it == [t \in SUBSET (1..0) |-> base]
  <2>1. \A t \in SUBSET (1..0) : t = {}
    OBVIOUS
  <2>2. Walks(it, 0, A, step, base, s)
    BY <2>1
  <2>3. Walkable(0)
    <3> HIDE DEF Walks, it
    <3>1. QED
      BY <2>2
  <2> HIDE DEF Walkable
  <2>4. QED
    BY <2>3
<1>2. ASSUME NEW n \in Nat, n \in N
      PROVE  n + 1 \in N
  <2> SUFFICES ASSUME n + 1 <= Len(s)
               PROVE  Walkable(n + 1)
    <3> HIDE DEF Walkable
    <3>1. QED
      OBVIOUS
  <2>1. PICK old : Walks(old, n, A, step, base, s)
    <3> HIDE DEF Walks
    <3>1. Walkable(n)
      <4> HIDE DEF Walkable
      <4>1. QED
        BY <1>0, <1>2
    <3>2. QED
      BY <3>1
  <2>2. s[n + 1] \in B
    BY <1>0, ElementOfSeq
  <2> DEFINE it == [t \in SUBSET (1..(n + 1)) |->
                      IF n + 1 \in t
                      THEN step[<<old[t \ {n + 1}], s[n + 1]>>]
                      ELSE old[t]]
  <2>3. ASSUME NEW t \in SUBSET (1..(n + 1))
        PROVE  /\ t \ {n + 1} \in SUBSET (1..n)
               /\ n + 1 \notin t => t \in SUBSET (1..n)
    OBVIOUS
  <2>4. it \in [SUBSET (1..(n + 1)) -> A]
    <3>1. ASSUME NEW t \in SUBSET (1..(n + 1))
          PROVE  it[t] \in A
      <4>1. old[t \ {n + 1}] \in A
        BY <2>1, <2>3
      <4>2. n + 1 \notin t => old[t] \in A
        BY <2>1, <2>3
      <4>3. <<old[t \ {n + 1}], s[n + 1]>> \in A \X B
        BY <2>2, <4>1
      <4>4. QED
        BY <4>2, <4>3
    <3>2. QED
      BY <3>1
  <2>5. ASSUME NEW t \in SUBSET (1..(n + 1)), t # {}
        PROVE  it[t] = step[<<it[t \ {Max(t)}], s[Max(t)]>>]
    <3>1. /\ Max(t) \in t /\ \A y \in t : y <= Max(t)
          /\ Max(t) \in 1..(n + 1)
      <4> HIDE DEF it
      <4>1. n + 1 \in Nat
        OBVIOUS
      <4>2. QED
        BY <2>5, <4>1, LastPosition
    <3>2. t \ {Max(t)} \in SUBSET (1..(n + 1))
      OBVIOUS
    <3>3. CASE n + 1 \in t
      <4>1. Max(t) = n + 1
        <5> HIDE DEF it
        <5>1. QED
          BY <3>1, <3>3
      <4>2. it[t \ {Max(t)}] = old[t \ {n + 1}]
        BY <3>2, <4>1
      <4>3. QED
        BY <3>3, <4>1, <4>2
    <3>4. CASE n + 1 \notin t
      <4>1. t \in SUBSET (1..n)
        BY <3>4
      <4>2. it[t \ {Max(t)}] = old[t \ {Max(t)}]
        BY <3>2, <3>4
      <4>3. it[t] = old[t]
        BY <3>4
      <4>4. QED
        BY <2>1, <2>5, <4>1, <4>2, <4>3
    <3>5. QED
      BY <3>3, <3>4
  <2>6. it[{}] = base
    <3>1. {} \in SUBSET (1..(n + 1)) /\ {} \in SUBSET (1..n)
      OBVIOUS
    <3>2. it[{}] = old[{}]
      BY <3>1
    <3>3. QED
      BY <2>1, <3>1, <3>2
  <2> HIDE DEF it
  <2>7. Walks(it, n + 1, A, step, base, s)
    BY <2>4, <2>5, <2>6
  <2> HIDE DEF Walks
  <2>8. QED
    BY <2>7
<1>3. Nat \subseteq N
  <2> HIDE DEF N
  <2>1. QED
    BY <1>1, <1>2, NumberInduction
<1>4. Walkable(Len(s))
  <2> HIDE DEF Walkable
  <2>1. QED
    BY <1>0, <1>3
<1>5. QED
  BY <1>4

LEMMA LastOfInterval ==
    ASSUME NEW n \in Nat, n # 0
    PROVE  1..n # {} /\ Max(1..n) = n /\ (1..n) \ {n} = 1..(n - 1)
<1>1. 1..n # {} /\ n \in 1..n /\ (1..n) \ {n} = 1..(n - 1)
  OBVIOUS
<1>2. Max(1..n) \in 1..n /\ \A y \in 1..n : y <= Max(1..n)
  BY <1>1, LastPosition
<1>3. QED
  BY <1>1, <1>2

\* f gives the state of a fold before and after each element of s.
Folds(f, A, B, step, base, s) ==
    /\ Foldable(A, B, step, base)
    /\ s \in Seq(B)
    /\ f[0] = base
    /\ \A n \in 1..Len(s) : f[n - 1] \in A => f[n] = step[<<f[n - 1], s[n]>>]

LEMMA FoldsTyped ==
    ASSUME NEW A, NEW B, NEW step, NEW base, NEW s, NEW f,
           Folds(f, A, B, step, base, s)
    PROVE  \A n \in 0..Len(s) : f[n] \in A
<1> DEFINE N == {n \in Nat : n <= Len(s) => f[n] \in A}
<1>0. s \in Seq(B) /\ Len(s) \in Nat
  BY LenProperties DEF Folds, Foldable
<1>1. 0 \in N
  BY DEF Folds, Foldable
<1>2. ASSUME NEW n \in Nat, n \in N
      PROVE  n + 1 \in N
  <2> SUFFICES ASSUME n + 1 <= Len(s)
               PROVE  f[n + 1] \in A
    OBVIOUS
  <2>1. n + 1 \in 1..Len(s) /\ (n + 1) - 1 = n /\ f[n] \in A
    BY <1>0, <1>2
  <2>2. s[n + 1] \in B
    BY <1>0, <2>1, ElementOfSeq
  <2>3. f[n + 1] = step[<<f[n], s[n + 1]>>] /\ step \in [A \X B -> A]
    BY <2>1 DEF Folds, Foldable
  <2>4. QED
    BY <2>1, <2>2, <2>3
<1>3. Nat \subseteq N
  <2> HIDE DEF N
  <2>1. QED
    BY <1>1, <1>2, NumberInduction
<1>4. QED
  BY <1>0, <1>3

\* t begins with s.
Begins(s, t) == Len(s) <= Len(t) /\ \A n \in 1..Len(s) : s[n] = t[n]

(* Two folds that begin with the same elements agree on them.                 *)
LEMMA FoldsAgree ==
    ASSUME NEW A, NEW B, NEW step, NEW base, NEW s, NEW t, NEW f, NEW g,
           Folds(f, A, B, step, base, s), Folds(g, A, B, step, base, t),
           Begins(s, t)
    PROVE  f[Len(s)] = g[Len(s)]
<1> DEFINE N == {n \in Nat : n <= Len(s) => f[n] = g[n]}
<1>0. Len(s) \in Nat /\ Len(t) \in Nat /\ Len(s) <= Len(t)
  BY LenProperties DEF Begins, Folds
<1>1. 0 \in N
  BY DEF Folds
<1>2. ASSUME NEW n \in Nat, n \in N
      PROVE  n + 1 \in N
  <2> SUFFICES ASSUME n + 1 <= Len(s)
               PROVE  f[n + 1] = g[n + 1]
    OBVIOUS
  <2>1. /\ n + 1 \in 1..Len(s) /\ n + 1 \in 1..Len(t) /\ (n + 1) - 1 = n
        /\ n \in 0..Len(s) /\ f[n] = g[n] /\ s[n + 1] = t[n + 1]
    BY <1>0, <1>2 DEF Begins
  <2>2. f[n] \in A
    BY <2>1, FoldsTyped
  <2>3. f[n + 1] = step[<<f[n], s[n + 1]>>]
    BY <2>1, <2>2 DEF Folds
  <2>4. g[n + 1] = step[<<g[n], t[n + 1]>>]
    BY <2>1, <2>2 DEF Folds
  <2>5. QED
    BY <2>1, <2>3, <2>4
<1>3. Nat \subseteq N
  <2> HIDE DEF N
  <2>1. QED
    BY <1>1, <1>2, NumberInduction
<1>4. QED
  BY <1>0, <1>3

\* F gives the state at the end of a fold of each sequence.
FoldsAll(F, A, B, step, base) ==
    \A s \in Seq(B) :
        \E f : Folds(f, A, B, step, base, s) /\ F[s] = f[Len(s)]

(* What is a fold on every sequence goes on from the state at the end.        *)
LEMMA FoldSteps ==
    ASSUME NEW A, NEW B, NEW step, NEW base, NEW F,
           Foldable(A, B, step, base), FoldsAll(F, A, B, step, base)
    PROVE  /\ F[<<>>] = base
           /\ \A s \in Seq(B) : F[s] \in A
           /\ \A s \in Seq(B), b \in B : F[Append(s, b)] = step[<<F[s], b>>]
<1>0. \A s \in Seq(B) :
        \E f : Folds(f, A, B, step, base, s) /\ F[s] = f[Len(s)]
  BY DEF FoldsAll
<1>1. F[<<>>] = base
  BY <1>0, EmptySeq DEF Folds
<1>2. ASSUME NEW s \in Seq(B)
      PROVE  F[s] \in A
  <2>1. PICK f : Folds(f, A, B, step, base, s) /\ F[s] = f[Len(s)]
    BY <1>0
  <2>2. Len(s) \in 0..Len(s)
    BY LenProperties
  <2>3. \A n \in 0..Len(s) : f[n] \in A
    BY <2>1, FoldsTyped
  <2>4. QED
    BY <2>1, <2>2, <2>3
<1>3. ASSUME NEW s \in Seq(B), NEW b \in B
      PROVE  F[Append(s, b)] = step[<<F[s], b>>]
  <2> DEFINE t == Append(s, b)
  <2>1. /\ t \in Seq(B) /\ Len(t) = Len(s) + 1 /\ t[Len(s) + 1] = b
        /\ \A n \in 1..Len(s) : s[n] = t[n]
        /\ Len(s) \in Nat
    BY AppendProperties, LenProperties
  <2> HIDE DEF t
  <2>2. PICK f : Folds(f, A, B, step, base, s) /\ F[s] = f[Len(s)]
    BY <1>0
  <2>3. PICK g : Folds(g, A, B, step, base, t) /\ F[t] = g[Len(t)]
    BY <1>0, <2>1
  <2>4. f[Len(s)] = g[Len(s)]
    <3>1. Begins(s, t)
      BY <2>1 DEF Begins
    <3>2. QED
      BY <2>2, <2>3, <3>1, FoldsAgree
  <2>5. f[Len(s)] \in A
    BY <1>2, <2>2
  <2>6. Len(t) \in 1..Len(t) /\ Len(t) - 1 = Len(s)
    BY <2>1
  <2>7. g[Len(t)] = step[<<g[Len(s)], t[Len(t)]>>]
    BY <2>3, <2>4, <2>5, <2>6 DEF Folds
  <2>8. QED
    BY <2>1, <2>2, <2>3, <2>4, <2>7 DEF t
<1>4. QED
  BY <1>1, <1>2, <1>3

\* What a function that satisfies FoldLeft's equation does on the way to n.
WalksUp(o, A, B, step, base, s) ==
    /\ o[{}] = base
    /\ \A n \in 1..Len(s) : o[1..(n - 1)] \in A =>
         o[1..n] = step[<<o[1..(n - 1)], s[n]>>]

(* The walk of FoldLeft is such a fold.                                       *)
LEMMA WalkFolds ==
    ASSUME NEW A, NEW B, NEW step, NEW base, NEW s \in Seq(B), NEW o,
           Foldable(A, B, step, base), WalksUp(o, A, B, step, base, s)
    PROVE  \E f : Folds(f, A, B, step, base, s) /\ o[DOMAIN s] = f[Len(s)]
<1> DEFINE f == [n \in 0..Len(s) |-> o[1..n]]
<1>1. Len(s) \in Nat /\ DOMAIN s = 1..Len(s)
  BY LenProperties
<1>2. f[0] = base /\ f[Len(s)] = o[DOMAIN s]
  <2>1. 1..0 = {}
    OBVIOUS
  <2>2. QED
    BY <1>1, <2>1 DEF WalksUp
<1>3. \A n \in 1..Len(s) : f[n] = o[1..n] /\ f[n - 1] = o[1..(n - 1)]
  BY <1>1
<1> HIDE DEF f
<1>4. Folds(f, A, B, step, base, s)
  BY <1>2, <1>3 DEF Folds, WalksUp
<1>5. QED
  BY <1>2, <1>4

-----------------------------------------------------------------------------
(* The folds of TFArgs *)

(* The loop of LockCheckMode. *)
ScanStates(F) ==
    [mode: Seq(F), present: BOOLEAN, rest: Seq(Seq(F)), take: BOOLEAN]
ScanStep(F) == [p \in ScanStates(F) \X Seq(F) |-> ScanToken(p[1], p[2])]

LEMMA ScanTyped ==
    ASSUME NEW F
    PROVE  /\ ScanStart \in ScanStates(F)
           /\ \A s \in ScanStates(F), a \in Seq(F) :
                /\ ScanToken(s, a) \in ScanStates(F)
                /\ ScanStep(F)[<<s, a>>] = ScanToken(s, a)
           /\ Foldable(ScanStates(F), Seq(F), ScanStep(F), ScanStart)
<1>1. ScanStart \in ScanStates(F)
  BY EmptySeq DEF ScanStart, ScanStates
<1>2. ASSUME NEW s \in ScanStates(F), NEW a \in Seq(F)
      PROVE  ScanToken(s, a) \in ScanStates(F)
  <2>1. HasLockCheckValue(a) => Tail(a) \in Seq(F)
    BY DEF HasLockCheckValue, StartsWith
  <2>2. Append(s.rest, a) \in Seq(Seq(F))
    BY DEF ScanStates
  <2>3. QED
    BY <2>1, <2>2 DEF ScanToken, ScanStates
<1>3. QED
  BY <1>1, <1>2 DEF ScanStep, Foldable

LEMMA ScanFolds ==
    ASSUME NEW F, NEW s \in Seq(Seq(F))
    PROVE  \E f : /\ Folds(f, ScanStates(F), Seq(F), ScanStep(F), ScanStart, s)
                  /\ LockCheckMode(s) = f[Len(s)]
<1> DEFINE A == ScanStates(F)
           B == Seq(F)
           step == ScanStep(F)
           base == ScanStart
           Body(it) ==
             [t \in SUBSET DOMAIN s |->
                IF t = {} THEN base
                ELSE ScanToken(it[t \ {Max(t)}], s[Max(t)])]
           o == CHOOSE it : it = Body(it)
<1>1. LockCheckMode(s) = o[DOMAIN s]
  BY DEF LockCheckMode, FoldLeft, MapThenFoldSet
<1>2. /\ Foldable(A, B, step, base)
      /\ s \in Seq(B)
      /\ \A a \in A, b \in B : step[<<a, b>>] = ScanToken(a, b)
  BY ScanTyped
<1> HIDE DEF A, B, step, base
<1>3. Len(s) \in Nat /\ DOMAIN s = 1..Len(s)
  BY <1>2, LenProperties
<1>4. PICK it : Walks(it, Len(s), A, step, base, s)
  <2> HIDE DEF o
  <2>1. QED
    BY <1>2, WalkExists
<1>5. it = Body(it)
  <2>1. ASSUME NEW t \in SUBSET (1..Len(s)), t # {}
        PROVE  it[t] = ScanToken(it[t \ {Max(t)}], s[Max(t)])
    <3>1. Max(t) \in 1..Len(s)
      BY <1>3, <2>1, LastPosition
    <3>2. s[Max(t)] \in B /\ it[t \ {Max(t)}] \in A
      BY <1>2, <1>4, <3>1, ElementOfSeq DEF Walks
    <3>3. it[t] = step[<<it[t \ {Max(t)}], s[Max(t)]>>]
      BY <1>4, <2>1 DEF Walks
    <3>4. QED
      BY <1>2, <3>2, <3>3
  <2>2. QED
    BY <1>3, <1>4, <2>1 DEF Walks
<1>6. o = Body(o)
  <2> HIDE DEF Body
  <2>1. QED
    BY <1>5
<1> HIDE DEF o
<1>7. o[{}] = base
  BY <1>6
<1>8. ASSUME NEW n \in 1..Len(s), o[1..(n - 1)] \in A
      PROVE  o[1..n] = step[<<o[1..(n - 1)], s[n]>>]
  <2>1. n \in Nat /\ n # 0 /\ s[n] \in B
    BY <1>2, <1>3, ElementOfSeq
  <2>2. 1..n # {} /\ Max(1..n) = n /\ (1..n) \ {n} = 1..(n - 1)
    BY <2>1, LastOfInterval
  <2>3. 1..n \in SUBSET DOMAIN s
    BY <1>3
  <2>4. o[1..n] = ScanToken(o[1..(n - 1)], s[n])
    BY <1>6, <2>2, <2>3
  <2>5. QED
    BY <1>2, <1>8, <2>1, <2>4
<1>9. \E f : Folds(f, A, B, step, base, s) /\ o[DOMAIN s] = f[Len(s)]
  <2> HIDE DEF Body
  <2>1. WalksUp(o, A, B, step, base, s)
    BY <1>7, <1>8 DEF WalksUp
  <2>2. QED
    BY <1>2, <2>1, WalkFolds
<1>10. QED
  BY <1>1, <1>9 DEF A, B, step, base

(* LockCheckMode, argument by argument.                                       *)
LEMMA ScanUnfolds ==
    ASSUME NEW F
    PROVE  /\ LockCheckMode(<<>>) = ScanStart
           /\ \A s \in Seq(Seq(F)) : LockCheckMode(s) \in ScanStates(F)
           /\ \A s \in Seq(Seq(F)), a \in Seq(F) :
                LockCheckMode(Append(s, a)) = ScanToken(LockCheckMode(s), a)
<1> DEFINE A == ScanStates(F)
           B == Seq(F)
           step == ScanStep(F)
           base == ScanStart
           G == [s \in Seq(B) |-> LockCheckMode(s)]
<1>1. FoldsAll(G, A, B, step, base)
  BY ScanFolds DEF FoldsAll
<1>2. \A s \in Seq(B) : G[s] = LockCheckMode(s)
  OBVIOUS
<1>3. /\ Foldable(A, B, step, base)
      /\ \A a \in A, b \in B : step[<<a, b>>] = ScanToken(a, b)
  BY ScanTyped
<1> HIDE DEF A, B, step, base, G
<1>4. /\ G[<<>>] = base
      /\ \A s \in Seq(B) : G[s] \in A
      /\ \A s \in Seq(B), b \in B : G[Append(s, b)] = step[<<G[s], b>>]
  BY <1>1, <1>3, FoldSteps
<1>5. <<>> \in Seq(B) /\ \A s \in Seq(B), b \in B : Append(s, b) \in Seq(B)
  BY EmptySeq, AppendProperties
<1>6. /\ LockCheckMode(<<>>) = base
      /\ \A s \in Seq(B) : LockCheckMode(s) \in A
      /\ \A s \in Seq(B), b \in B :
            LockCheckMode(Append(s, b)) = ScanToken(LockCheckMode(s), b)
  BY <1>2, <1>3, <1>4, <1>5
<1>7. QED
  BY <1>6 DEF A, B, base

(* The loop of splitPlanArgsPreservingQuotes.                                 *)
SplitStates(F) ==
    [tokens: Seq(Seq(F)), text: Seq(F), quote: {"none"} \cup Quotes]
SplitStep(F) == [p \in SplitStates(F) \X F |-> Splitter(p[1], p[2])]

LEMMA SplitTyped ==
    ASSUME NEW F
    PROVE  /\ NoTokens \in SplitStates(F)
           /\ \A s \in SplitStates(F), a \in F :
                /\ Splitter(s, a) \in SplitStates(F)
                /\ SplitStep(F)[<<s, a>>] = Splitter(s, a)
           /\ Foldable(SplitStates(F), F, SplitStep(F), NoTokens)
<1>1. NoTokens \in SplitStates(F)
  BY EmptySeq DEF NoTokens, SplitStates
<1>2. ASSUME NEW s \in SplitStates(F), NEW a \in F
      PROVE  Splitter(s, a) \in SplitStates(F)
  <2>1. /\ s.tokens \in Seq(Seq(F)) /\ s.text \in Seq(F)
        /\ <<>> \in Seq(F)
        /\ Append(s.tokens, s.text) \in Seq(Seq(F))
        /\ Append(s.text, a) \in Seq(F)
    BY EmptySeq, AppendProperties DEF SplitStates
  <2>2. QED
    BY <2>1 DEF Splitter, SplitStates
<1>3. QED
  BY <1>1, <1>2 DEF SplitStep, Foldable

LEMMA SplitFolds ==
    ASSUME NEW F, NEW s \in Seq(F)
    PROVE  \E f : /\ Folds(f, SplitStates(F), F, SplitStep(F), NoTokens, s)
                  /\ Split(s) = f[Len(s)]
<1> DEFINE A == SplitStates(F)
           B == F
           step == SplitStep(F)
           base == NoTokens
           Body(it) ==
             [t \in SUBSET DOMAIN s |->
                IF t = {} THEN base
                ELSE Splitter(it[t \ {Max(t)}], s[Max(t)])]
           o == CHOOSE it : it = Body(it)
<1>1. Split(s) = o[DOMAIN s]
  BY DEF Split, FoldLeft, MapThenFoldSet
<1>2. /\ Foldable(A, B, step, base)
      /\ s \in Seq(B)
      /\ \A a \in A, b \in B : step[<<a, b>>] = Splitter(a, b)
  BY SplitTyped
<1> HIDE DEF A, B, step, base
<1>3. Len(s) \in Nat /\ DOMAIN s = 1..Len(s)
  BY <1>2, LenProperties
<1>4. PICK it : Walks(it, Len(s), A, step, base, s)
  <2> HIDE DEF o
  <2>1. QED
    BY <1>2, WalkExists
<1>5. it = Body(it)
  <2>1. ASSUME NEW t \in SUBSET (1..Len(s)), t # {}
        PROVE  it[t] = Splitter(it[t \ {Max(t)}], s[Max(t)])
    <3>1. Max(t) \in 1..Len(s)
      BY <1>3, <2>1, LastPosition
    <3>2. s[Max(t)] \in B /\ it[t \ {Max(t)}] \in A
      BY <1>2, <1>4, <3>1, ElementOfSeq DEF Walks
    <3>3. it[t] = step[<<it[t \ {Max(t)}], s[Max(t)]>>]
      BY <1>4, <2>1 DEF Walks
    <3>4. QED
      BY <1>2, <3>2, <3>3
  <2>2. QED
    BY <1>3, <1>4, <2>1 DEF Walks
<1>6. o = Body(o)
  <2> HIDE DEF Body
  <2>1. QED
    BY <1>5
<1> HIDE DEF o
<1>7. o[{}] = base
  BY <1>6
<1>8. ASSUME NEW n \in 1..Len(s), o[1..(n - 1)] \in A
      PROVE  o[1..n] = step[<<o[1..(n - 1)], s[n]>>]
  <2>1. n \in Nat /\ n # 0 /\ s[n] \in B
    BY <1>2, <1>3, ElementOfSeq
  <2>2. 1..n # {} /\ Max(1..n) = n /\ (1..n) \ {n} = 1..(n - 1)
    BY <2>1, LastOfInterval
  <2>3. 1..n \in SUBSET DOMAIN s
    BY <1>3
  <2>4. o[1..n] = Splitter(o[1..(n - 1)], s[n])
    BY <1>6, <2>2, <2>3
  <2>5. QED
    BY <1>2, <1>8, <2>1, <2>4
<1>9. \E f : Folds(f, A, B, step, base, s) /\ o[DOMAIN s] = f[Len(s)]
  <2> HIDE DEF Body
  <2>1. WalksUp(o, A, B, step, base, s)
    BY <1>7, <1>8 DEF WalksUp
  <2>2. QED
    BY <1>2, <2>1, WalkFolds
<1>10. QED
  BY <1>1, <1>9 DEF A, B, step, base

(* splitPlanArgsPreservingQuotes, character by character.                     *)
LEMMA SplitUnfolds ==
    ASSUME NEW F
    PROVE  /\ Split(<<>>) = NoTokens
           /\ \A s \in Seq(F) : Split(s) \in SplitStates(F)
           /\ \A s \in Seq(F), a \in F :
                Split(Append(s, a)) = Splitter(Split(s), a)
<1> DEFINE A == SplitStates(F)
           B == F
           step == SplitStep(F)
           base == NoTokens
           G == [s \in Seq(B) |-> Split(s)]
<1>1. FoldsAll(G, A, B, step, base)
  BY SplitFolds DEF FoldsAll
<1>2. \A s \in Seq(B) : G[s] = Split(s)
  OBVIOUS
<1>3. /\ Foldable(A, B, step, base)
      /\ \A a \in A, b \in B : step[<<a, b>>] = Splitter(a, b)
  BY SplitTyped
<1> HIDE DEF A, B, step, base, G
<1>4. /\ G[<<>>] = base
      /\ \A s \in Seq(B) : G[s] \in A
      /\ \A s \in Seq(B), b \in B : G[Append(s, b)] = step[<<G[s], b>>]
  BY <1>1, <1>3, FoldSteps
<1>5. <<>> \in Seq(B) /\ \A s \in Seq(B), b \in B : Append(s, b) \in Seq(B)
  BY EmptySeq, AppendProperties
<1>6. /\ Split(<<>>) = base
      /\ \A s \in Seq(B) : Split(s) \in A
      /\ \A s \in Seq(B), b \in B :
            Split(Append(s, b)) = Splitter(Split(s), b)
  BY <1>2, <1>3, <1>4, <1>5
<1>7. QED
  BY <1>6 DEF A, B, base

(* go-shellwords.                                                             *)
ShellStates(F) ==
    [words: Seq(Seq(F)), word: Seq(F), open: BOOLEAN,
     quote: {"none"} \cup Quotes, escaped: BOOLEAN]
ShellStep(F) == [p \in ShellStates(F) \X F |-> Shell(p[1], p[2])]

LEMMA ShellTyped ==
    ASSUME NEW F
    PROVE  /\ NoWords \in ShellStates(F)
           /\ \A s \in ShellStates(F), a \in F :
                /\ Shell(s, a) \in ShellStates(F)
                /\ ShellStep(F)[<<s, a>>] = Shell(s, a)
           /\ Foldable(ShellStates(F), F, ShellStep(F), NoWords)
<1>1. NoWords \in ShellStates(F)
  BY EmptySeq DEF NoWords, ShellStates
<1>2. ASSUME NEW s \in ShellStates(F), NEW a \in F
      PROVE  Shell(s, a) \in ShellStates(F)
  <2>1. /\ s.words \in Seq(Seq(F)) /\ s.word \in Seq(F)
        /\ <<>> \in Seq(F)
        /\ Append(s.words, s.word) \in Seq(Seq(F))
        /\ Append(s.word, a) \in Seq(F)
    BY EmptySeq, AppendProperties DEF ShellStates
  <2>2. QED
    BY <2>1 DEF Shell, ShellStates
<1>3. QED
  BY <1>1, <1>2 DEF ShellStep, Foldable

LEMMA ShellFolds ==
    ASSUME NEW F, NEW s \in Seq(F)
    PROVE  \E f : /\ Folds(f, ShellStates(F), F, ShellStep(F), NoWords, s)
                  /\ ParseShell(s) = f[Len(s)]
<1> DEFINE A == ShellStates(F)
           B == F
           step == ShellStep(F)
           base == NoWords
           Body(it) ==
             [t \in SUBSET DOMAIN s |->
                IF t = {} THEN base
                ELSE Shell(it[t \ {Max(t)}], s[Max(t)])]
           o == CHOOSE it : it = Body(it)
<1>1. ParseShell(s) = o[DOMAIN s]
  BY DEF ParseShell, FoldLeft, MapThenFoldSet
<1>2. /\ Foldable(A, B, step, base)
      /\ s \in Seq(B)
      /\ \A a \in A, b \in B : step[<<a, b>>] = Shell(a, b)
  BY ShellTyped
<1> HIDE DEF A, B, step, base
<1>3. Len(s) \in Nat /\ DOMAIN s = 1..Len(s)
  BY <1>2, LenProperties
<1>4. PICK it : Walks(it, Len(s), A, step, base, s)
  <2> HIDE DEF o
  <2>1. QED
    BY <1>2, WalkExists
<1>5. it = Body(it)
  <2>1. ASSUME NEW t \in SUBSET (1..Len(s)), t # {}
        PROVE  it[t] = Shell(it[t \ {Max(t)}], s[Max(t)])
    <3>1. Max(t) \in 1..Len(s)
      BY <1>3, <2>1, LastPosition
    <3>2. s[Max(t)] \in B /\ it[t \ {Max(t)}] \in A
      BY <1>2, <1>4, <3>1, ElementOfSeq DEF Walks
    <3>3. it[t] = step[<<it[t \ {Max(t)}], s[Max(t)]>>]
      BY <1>4, <2>1 DEF Walks
    <3>4. QED
      BY <1>2, <3>2, <3>3
  <2>2. QED
    BY <1>3, <1>4, <2>1 DEF Walks
<1>6. o = Body(o)
  <2> HIDE DEF Body
  <2>1. QED
    BY <1>5
<1> HIDE DEF o
<1>7. o[{}] = base
  BY <1>6
<1>8. ASSUME NEW n \in 1..Len(s), o[1..(n - 1)] \in A
      PROVE  o[1..n] = step[<<o[1..(n - 1)], s[n]>>]
  <2>1. n \in Nat /\ n # 0 /\ s[n] \in B
    BY <1>2, <1>3, ElementOfSeq
  <2>2. 1..n # {} /\ Max(1..n) = n /\ (1..n) \ {n} = 1..(n - 1)
    BY <2>1, LastOfInterval
  <2>3. 1..n \in SUBSET DOMAIN s
    BY <1>3
  <2>4. o[1..n] = Shell(o[1..(n - 1)], s[n])
    BY <1>6, <2>2, <2>3
  <2>5. QED
    BY <1>2, <1>8, <2>1, <2>4
<1>9. \E f : Folds(f, A, B, step, base, s) /\ o[DOMAIN s] = f[Len(s)]
  <2> HIDE DEF Body
  <2>1. WalksUp(o, A, B, step, base, s)
    BY <1>7, <1>8 DEF WalksUp
  <2>2. QED
    BY <1>2, <2>1, WalkFolds
<1>10. QED
  BY <1>1, <1>9 DEF A, B, step, base

(* go-shellwords, character by character.                                     *)
LEMMA ShellUnfolds ==
    ASSUME NEW F
    PROVE  /\ ParseShell(<<>>) = NoWords
           /\ \A s \in Seq(F) : ParseShell(s) \in ShellStates(F)
           /\ \A s \in Seq(F), a \in F :
                ParseShell(Append(s, a)) = Shell(ParseShell(s), a)
<1> DEFINE A == ShellStates(F)
           B == F
           step == ShellStep(F)
           base == NoWords
           G == [s \in Seq(B) |-> ParseShell(s)]
<1>1. FoldsAll(G, A, B, step, base)
  BY ShellFolds DEF FoldsAll
<1>2. \A s \in Seq(B) : G[s] = ParseShell(s)
  OBVIOUS
<1>3. /\ Foldable(A, B, step, base)
      /\ \A a \in A, b \in B : step[<<a, b>>] = Shell(a, b)
  BY ShellTyped
<1> HIDE DEF A, B, step, base, G
<1>4. /\ G[<<>>] = base
      /\ \A s \in Seq(B) : G[s] \in A
      /\ \A s \in Seq(B), b \in B : G[Append(s, b)] = step[<<G[s], b>>]
  BY <1>1, <1>3, FoldSteps
<1>5. <<>> \in Seq(B) /\ \A s \in Seq(B), b \in B : Append(s, b) \in Seq(B)
  BY EmptySeq, AppendProperties
<1>6. /\ ParseShell(<<>>) = base
      /\ \A s \in Seq(B) : ParseShell(s) \in A
      /\ \A s \in Seq(B), b \in B :
            ParseShell(Append(s, b)) = Shell(ParseShell(s), b)
  BY <1>2, <1>3, <1>4, <1>5
<1>7. QED
  BY <1>6 DEF A, B, base

(* strings.Join.                                                              *)
JoinStep(F) == [p \in Seq(F) \X Seq(F) |-> Joined(p[1], p[2])]

LEMMA JoinTyped ==
    ASSUME NEW F, Blank \in F
    PROVE  /\ <<>> \in Seq(F)
           /\ \A s \in Seq(F), a \in Seq(F) :
                /\ Joined(s, a) \in Seq(F)
                /\ JoinStep(F)[<<s, a>>] = Joined(s, a)
           /\ Foldable(Seq(F), Seq(F), JoinStep(F), <<>>)
<1>1. <<>> \in Seq(F)
  BY EmptySeq
<1>2. ASSUME NEW s \in Seq(F), NEW a \in Seq(F)
      PROVE  Joined(s, a) \in Seq(F)
  <2>1. <<Blank>> \in Seq(F)
    OBVIOUS
  <2>2. QED
    BY <2>1, ConcatProperties DEF Joined
<1>3. QED
  BY <1>1, <1>2 DEF JoinStep, Foldable

LEMMA JoinFolds ==
    ASSUME NEW F, Blank \in F, NEW s \in Seq(Seq(F))
    PROVE  \E f : /\ Folds(f, Seq(F), Seq(F), JoinStep(F), <<>>, s)
                  /\ JoinTokens(s) = f[Len(s)]
<1> DEFINE A == Seq(F)
           B == Seq(F)
           step == JoinStep(F)
           base == <<>>
           Body(it) ==
             [t \in SUBSET DOMAIN s |->
                IF t = {} THEN base
                ELSE Joined(it[t \ {Max(t)}], s[Max(t)])]
           o == CHOOSE it : it = Body(it)
<1>1. JoinTokens(s) = o[DOMAIN s]
  BY DEF JoinTokens, FoldLeft, MapThenFoldSet
<1>2. /\ Foldable(A, B, step, base)
      /\ s \in Seq(B)
      /\ \A a \in A, b \in B : step[<<a, b>>] = Joined(a, b)
  BY JoinTyped
<1> HIDE DEF A, B, step, base
<1>3. Len(s) \in Nat /\ DOMAIN s = 1..Len(s)
  BY <1>2, LenProperties
<1>4. PICK it : Walks(it, Len(s), A, step, base, s)
  <2> HIDE DEF o
  <2>1. QED
    BY <1>2, WalkExists
<1>5. it = Body(it)
  <2>1. ASSUME NEW t \in SUBSET (1..Len(s)), t # {}
        PROVE  it[t] = Joined(it[t \ {Max(t)}], s[Max(t)])
    <3>1. Max(t) \in 1..Len(s)
      BY <1>3, <2>1, LastPosition
    <3>2. s[Max(t)] \in B /\ it[t \ {Max(t)}] \in A
      BY <1>2, <1>4, <3>1, ElementOfSeq DEF Walks
    <3>3. it[t] = step[<<it[t \ {Max(t)}], s[Max(t)]>>]
      BY <1>4, <2>1 DEF Walks
    <3>4. QED
      BY <1>2, <3>2, <3>3
  <2>2. QED
    BY <1>3, <1>4, <2>1 DEF Walks
<1>6. o = Body(o)
  <2> HIDE DEF Body
  <2>1. QED
    BY <1>5
<1> HIDE DEF o
<1>7. o[{}] = base
  BY <1>6
<1>8. ASSUME NEW n \in 1..Len(s), o[1..(n - 1)] \in A
      PROVE  o[1..n] = step[<<o[1..(n - 1)], s[n]>>]
  <2>1. n \in Nat /\ n # 0 /\ s[n] \in B
    BY <1>2, <1>3, ElementOfSeq
  <2>2. 1..n # {} /\ Max(1..n) = n /\ (1..n) \ {n} = 1..(n - 1)
    BY <2>1, LastOfInterval
  <2>3. 1..n \in SUBSET DOMAIN s
    BY <1>3
  <2>4. o[1..n] = Joined(o[1..(n - 1)], s[n])
    BY <1>6, <2>2, <2>3
  <2>5. QED
    BY <1>2, <1>8, <2>1, <2>4
<1>9. \E f : Folds(f, A, B, step, base, s) /\ o[DOMAIN s] = f[Len(s)]
  <2> HIDE DEF Body
  <2>1. WalksUp(o, A, B, step, base, s)
    BY <1>7, <1>8 DEF WalksUp
  <2>2. QED
    BY <1>2, <2>1, WalkFolds
<1>10. QED
  BY <1>1, <1>9 DEF A, B, step, base

(* strings.Join, token by token.                                              *)
LEMMA JoinUnfolds ==
    ASSUME NEW F, Blank \in F
    PROVE  /\ JoinTokens(<<>>) = <<>>
           /\ \A s \in Seq(Seq(F)) : JoinTokens(s) \in Seq(F)
           /\ \A s \in Seq(Seq(F)), a \in Seq(F) :
                JoinTokens(Append(s, a)) = Joined(JoinTokens(s), a)
<1> DEFINE A == Seq(F)
           B == Seq(F)
           step == JoinStep(F)
           base == <<>>
           G == [s \in Seq(B) |-> JoinTokens(s)]
<1>1. FoldsAll(G, A, B, step, base)
  BY JoinFolds DEF FoldsAll
<1>2. \A s \in Seq(B) : G[s] = JoinTokens(s)
  OBVIOUS
<1>3. /\ Foldable(A, B, step, base)
      /\ \A a \in A, b \in B : step[<<a, b>>] = Joined(a, b)
  BY JoinTyped
<1> HIDE DEF A, B, step, base, G
<1>4. /\ G[<<>>] = base
      /\ \A s \in Seq(B) : G[s] \in A
      /\ \A s \in Seq(B), b \in B : G[Append(s, b)] = step[<<G[s], b>>]
  BY <1>1, <1>3, FoldSteps
<1>5. <<>> \in Seq(B) /\ \A s \in Seq(B), b \in B : Append(s, b) \in Seq(B)
  BY EmptySeq, AppendProperties
<1>6. /\ JoinTokens(<<>>) = base
      /\ \A s \in Seq(B) : JoinTokens(s) \in A
      /\ \A s \in Seq(B), b \in B :
            JoinTokens(Append(s, b)) = Joined(JoinTokens(s), b)
  BY <1>2, <1>3, <1>4, <1>5
<1>7. QED
  BY <1>6 DEF A, B, base

-----------------------------------------------------------------------------
(* What LockCheckMode leaves *)

\* An argument that is parraform's own flag.
Own(a) == HasLockCheckValue(a) \/ IsLockCheckFlag(a)

NoneOwn(args) == \A k \in 1..Len(args) : ~Own(args[k])

LEMMA NoneOwnAppend ==
    ASSUME NEW B, NEW s \in Seq(B), NEW a \in B
    PROVE  NoneOwn(Append(s, a)) <=> NoneOwn(s) /\ ~Own(a)
  BY AppendElements DEF NoneOwn

(* Nothing that is left is the flag, and without a flag everything is left.   *)
LEMMA ScanLeaves ==
    ASSUME NEW F, NEW args \in Seq(Seq(F))
    PROVE  /\ NoneOwn(LockCheckMode(args).rest)
           /\ ~LockCheckMode(args).present =>
                /\ LockCheckMode(args).mode = <<>>
                /\ LockCheckMode(args).rest = args
                /\ ~LockCheckMode(args).take
<1> DEFINE Good(s) ==
             LET c == LockCheckMode(s)
             IN  /\ NoneOwn(c.rest)
                 /\ ~c.present => c.mode = <<>> /\ c.rest = s /\ ~c.take
           S == {s \in Seq(Seq(F)) : Good(s)}
<1>1. <<>> \in S
  <2>1. LockCheckMode(<<>>) = ScanStart /\ <<>> \in Seq(Seq(F))
    BY ScanUnfolds, EmptySeq
  <2>2. NoneOwn(<<>>)
    BY EmptySeq DEF NoneOwn
  <2>3. QED
    BY <2>1, <2>2 DEF ScanStart
<1>2. ASSUME NEW s \in Seq(Seq(F)), NEW a \in Seq(F), s \in S
      PROVE  Append(s, a) \in S
  <2> DEFINE c == LockCheckMode(s)
             d == LockCheckMode(Append(s, a))
  <2>1. c \in ScanStates(F) /\ d = ScanToken(c, a) /\ Append(s, a) \in Seq(Seq(F))
    BY ScanUnfolds, AppendProperties
  <2>2. NoneOwn(c.rest) /\ (~c.present => c.mode = <<>> /\ c.rest = s /\ ~c.take)
    BY <1>2
  <2> HIDE DEF c, d
  <2>3. ~Own(a) => NoneOwn(Append(c.rest, a))
    <3>1. c.rest \in Seq(Seq(F))
      BY <2>1 DEF ScanStates
    <3>2. QED
      BY <2>2, <3>1, NoneOwnAppend
  <2>4. NoneOwn(d.rest)
    BY <2>1, <2>2, <2>3 DEF ScanToken, ScanStates, Own
  <2>5. ~d.present => d.mode = <<>> /\ d.rest = Append(s, a) /\ ~d.take
    BY <2>1, <2>2 DEF ScanToken, ScanStates
  <2>6. QED
    BY <2>1, <2>4, <2>5 DEF d
<1>3. Seq(Seq(F)) \subseteq S
  <2> HIDE DEF S
  <2>1. QED
    BY <1>1, <1>2, SequenceInduction
<1>4. QED
  BY <1>3

(* What is left was there before.                                             *)
LEMMA ScanKeepsElements ==
    ASSUME NEW F, NEW B, B \subseteq Seq(F), NEW args \in Seq(B)
    PROVE  LockCheckMode(args).rest \in Seq(B)
<1> DEFINE S == {s \in Seq(B) : LockCheckMode(s).rest \in Seq(B)}
<1>1. <<>> \in S
  <2>1. LockCheckMode(<<>>) = ScanStart
    BY ScanUnfolds
  <2>2. LockCheckMode(<<>>).rest = <<>>
    BY <2>1 DEF ScanStart
  <2>3. <<>> \in Seq(B)
    BY EmptySeq
  <2>4. QED
    BY <2>2, <2>3
<1>2. ASSUME NEW s \in Seq(B), NEW a \in B, s \in S
      PROVE  Append(s, a) \in S
  <2>1. s \in Seq(Seq(F)) /\ a \in Seq(F)
    BY SeqMonotonic
  <2>2. /\ LockCheckMode(s) \in ScanStates(F)
        /\ LockCheckMode(Append(s, a)) = ScanToken(LockCheckMode(s), a)
    BY <2>1, ScanUnfolds
  <2>3. LockCheckMode(s).rest \in Seq(B)
    BY <1>2
  <2>4. Append(LockCheckMode(s).rest, a) \in Seq(B) /\ Append(s, a) \in Seq(B)
    BY <2>3, AppendProperties
  <2>5. LockCheckMode(Append(s, a)).rest \in Seq(B)
    BY <2>2, <2>3, <2>4 DEF ScanToken, ScanStates
  <2>6. QED
    BY <2>4, <2>5
<1>3. Seq(B) \subseteq S
  <2> HIDE DEF S
  <2>1. QED
    BY <1>1, <1>2, SequenceInduction
<1>4. QED
  BY <1>3

-----------------------------------------------------------------------------
(* The value of TF_CLI_ARGS_plan *)

(* Taking the flag out of a value makes a value of the same fragments.        *)
LEMMA RestTyped ==
    ASSUME NEW F, Blank \in F, NEW e \in Seq(F)
    PROVE  /\ SplitPlanArgs(e) \in Seq(Seq(F))
           /\ LockCheckModeFromPlanArgs(e).rest \in Seq(F)
<1>1. Split(e) \in SplitStates(F)
  BY SplitUnfolds
<1>2. SplitPlanArgs(e) \in Seq(Seq(F))
  BY <1>1, AppendProperties DEF SplitPlanArgs, SplitStates
<1>3. LockCheckMode(SplitPlanArgs(e)).rest \in Seq(Seq(F))
  BY <1>2, ScanUnfolds DEF ScanStates
<1>4. JoinTokens(LockCheckMode(SplitPlanArgs(e)).rest) \in Seq(F)
  BY <1>3, JoinUnfolds
<1>5. QED
  BY <1>2, <1>4 DEF LockCheckModeFromPlanArgs

(* Without a backslash nothing is escaped.                                    *)
LEMMA NeverEscaped ==
    ASSUME NEW F, "\\" \notin F, NEW e \in Seq(F)
    PROVE  ~ParseShell(e).escaped
<1> DEFINE S == {s \in Seq(F) : ~ParseShell(s).escaped}
<1>1. <<>> \in S
  <2>1. ParseShell(<<>>) = NoWords /\ <<>> \in Seq(F)
    BY ShellUnfolds, EmptySeq
  <2>2. QED
    BY <2>1 DEF NoWords
<1>2. ASSUME NEW s \in Seq(F), NEW c \in F, s \in S
      PROVE  Append(s, c) \in S
  <2>1. /\ ParseShell(s) \in ShellStates(F)
        /\ ParseShell(Append(s, c)) = Shell(ParseShell(s), c)
        /\ Append(s, c) \in Seq(F)
    BY ShellUnfolds, AppendElements
  <2>2. ~ParseShell(s).escaped /\ c # "\\"
    BY <1>2
  <2>3. ~Shell(ParseShell(s), c).escaped
    BY <2>1, <2>2 DEF Shell, ShellStates
  <2>4. QED
    BY <2>1, <2>3
<1>3. Seq(F) \subseteq S
  <2> HIDE DEF S
  <2>1. QED
    BY <1>1, <1>2, SequenceInduction
<1>4. QED
  BY <1>3

LEMMA WithLockFalse ==
    ASSUME NEW F, {Blank, "-lock=", "false"} \subseteq F, NEW v \in Seq(F)
    PROVE  /\ v \o <<Blank>> \o LockFalse =
                Append(Append(Append(v, Blank), "-lock="), "false")
           /\ LockFalse = Append(<<"-lock=">>, "false")
<1>1. /\ v \o <<Blank>> = Append(v, Blank)
      /\ LockFalse = Append(<<"-lock=">>, "false")
      /\ Append(v, Blank) \in Seq(F) /\ <<"-lock=">> \in Seq(F)
  BY DEF LockFalse
<1>2. Append(v, Blank) \o <<"-lock=">> = Append(Append(v, Blank), "-lock=")
  BY <1>1
<1>3. Append(v, Blank) \o Append(<<"-lock=">>, "false") =
        Append(Append(v, Blank) \o <<"-lock=">>, "false")
  BY <1>1
<1>4. QED
  BY <1>1, <1>2, <1>3

\* What go-shellwords gives a meaning of its own.
ShellCharacters == Quotes \cup {Blank, "\n", "\\"}

LEMMA ShellPlain ==
    ASSUME NEW F, NEW s \in ShellStates(F), ~s.escaped,
           NEW c \in F, c \notin ShellCharacters
    PROVE  /\ Shell(s, c).words = s.words
           /\ Shell(s, c).word = Append(s.word, c)
           /\ Shell(s, c).open
           /\ Shell(s, c).quote = s.quote
           /\ ~Shell(s, c).escaped
  BY DEF Shell, ShellStates, ShellCharacters

(* What is put behind a value without escapes is its last word, unless a      *)
(* quote is open.                                                             *)
LEMMA LockFalseLast ==
    ASSUME NEW F, {Blank, "-lock=", "false"} \subseteq F, NEW v \in Seq(F),
           ~ParseShell(v).escaped,
           ShellWords(v \o <<Blank>> \o LockFalse).ok
    PROVE  /\ ShellWords(v).ok
           /\ ShellWords(v).words \in Seq(Seq(F))
           /\ ShellWords(v \o <<Blank>> \o LockFalse).words =
                Append(ShellWords(v).words, LockFalse)
<1> DEFINE v1 == Append(v, Blank)
           v2 == Append(v1, "-lock=")
           v3 == Append(v2, "false")
           s == ParseShell(v)
<1>1. v1 \in Seq(F) /\ v2 \in Seq(F) /\ v3 = v \o <<Blank>> \o LockFalse
  BY WithLockFalse, AppendElements
<1>2. /\ s \in ShellStates(F)
      /\ ParseShell(v1) = Shell(s, Blank)
      /\ ParseShell(v2) = Shell(ParseShell(v1), "-lock=")
      /\ ParseShell(v3) = Shell(ParseShell(v2), "false")
  BY <1>1, ShellUnfolds
<1> HIDE DEF v1, v2, v3, s
<1>3. s.quote = "none"
  <2> SUFFICES ASSUME s.quote # "none"
               PROVE  FALSE
    OBVIOUS
  <2>1. ParseShell(v1).quote = s.quote /\ ~ParseShell(v1).escaped
    BY <1>2 DEF Shell, ShellStates, Blank, Quotes, s
  <2>2. ParseShell(v2).quote = s.quote /\ ~ParseShell(v2).escaped
    BY <1>2, <2>1 DEF Shell, ShellStates, Blank, Quotes
  <2>3. ParseShell(v3).quote = s.quote
    BY <1>2, <2>1, <2>2 DEF Shell, ShellStates, Blank, Quotes
  <2>4. QED
    BY <1>1, <2>3 DEF ShellWords
<1>4. /\ ShellWords(v).ok
      /\ ShellWords(v).words \in Seq(Seq(F))
      /\ ShellWords(v).words = IF s.open THEN Append(s.words, s.word) ELSE s.words
  BY <1>2, <1>3, AppendProperties DEF ShellWords, ShellStates, s
<1>5. /\ ParseShell(v1).words = ShellWords(v).words
      /\ ParseShell(v1).word = <<>> /\ ParseShell(v1).quote = "none"
      /\ ~ParseShell(v1).escaped
  BY <1>2, <1>3, <1>4 DEF Shell, ShellStates, Blank, Quotes, s
<1>6. /\ ParseShell(v2).words = ShellWords(v).words
      /\ ParseShell(v2).word = <<"-lock=">> /\ ParseShell(v2).quote = "none"
      /\ ~ParseShell(v2).escaped
  <2>1. ParseShell(v1) \in ShellStates(F) /\ Append(<<>>, "-lock=") = <<"-lock=">>
    BY <1>1, ShellUnfolds
  <2>2. QED
    BY <1>2, <1>5, <2>1 DEF Shell, ShellStates, Blank, Quotes
<1>7. /\ ParseShell(v3).words = ShellWords(v).words
      /\ ParseShell(v3).word = LockFalse /\ ParseShell(v3).open
  <2>1. ParseShell(v2) \in ShellStates(F)
    BY <1>1, ShellUnfolds
  <2>2. Append(<<"-lock=">>, "false") = LockFalse
    BY WithLockFalse
  <2>3. /\ ParseShell(v3).words = ParseShell(v2).words
        /\ ParseShell(v3).word = Append(ParseShell(v2).word, "false")
        /\ ParseShell(v3).open
    <3>1. "false" \in F /\ "false" \notin ShellCharacters
      BY DEF ShellCharacters, Blank, Quotes
    <3>2. QED
      BY <1>2, <1>6, <2>1, <3>1, ShellPlain
  <2>4. QED
    BY <1>6, <2>2, <2>3
<1>8. ShellWords(v3).words = Append(ShellWords(v).words, LockFalse)
  BY <1>7 DEF ShellWords
<1>9. QED
  BY <1>1, <1>4, <1>8

-----------------------------------------------------------------------------
(* The tokens of a value *)

\* The quote that is open behind a character.
QuoteBehind(q, c) ==
    IF c \in Quotes /\ q = "none" THEN c ELSE IF c = q THEN "none" ELSE q

LEMMA SplitterCases ==
    ASSUME NEW F, NEW s \in SplitStates(F), NEW c
    PROVE  /\ c = Blank /\ s.quote = "none" =>
                /\ Splitter(s, c).tokens =
                     IF s.text = <<>> THEN s.tokens ELSE Append(s.tokens, s.text)
                /\ Splitter(s, c).text = <<>>
                /\ Splitter(s, c).quote = "none"
           /\ ~(c = Blank /\ s.quote = "none") =>
                /\ Splitter(s, c).tokens = s.tokens
                /\ Splitter(s, c).text = Append(s.text, c)
                /\ Splitter(s, c).quote = QuoteBehind(s.quote, c)
  BY DEF Splitter, SplitStates, QuoteBehind

\* The splitter is still at its first token, a token it ends at a blank.
Whole(t)  == Split(t).tokens = <<>> /\ Split(t).text = t
Closed(F) ==
    {t \in Seq(F) : t # <<>> /\ Whole(t) /\ Split(t).quote = "none"}

(* A token splits into itself, and so does what is not yet one.               *)
LEMMA SplitParts ==
    ASSUME NEW F, NEW v \in Seq(F)
    PROVE  /\ Split(v).tokens \in Seq(Closed(F))
           /\ Split(v).text \in Seq(F)
           /\ Whole(Split(v).text)
           /\ Split(Split(v).text).quote = Split(v).quote
<1> DEFINE Good(d) ==
             /\ d.tokens \in Seq(Closed(F))
             /\ Whole(d.text)
             /\ Split(d.text).quote = d.quote
           S == {s \in Seq(F) : Good(Split(s))}
<1>1. /\ <<>> \in Seq(F) /\ Split(<<>>).tokens = <<>>
      /\ Split(<<>>).text = <<>> /\ Split(<<>>).quote = "none"
  BY SplitUnfolds, EmptySeq DEF NoTokens
<1>2. Whole(<<>>) /\ <<>> \in Seq(Closed(F))
  BY <1>1, EmptySeq DEF Whole
<1>3. <<>> \in S
  BY <1>1, <1>2
<1>4. ASSUME NEW s \in Seq(F), NEW c \in F, s \in S
      PROVE  Append(s, c) \in S
  <2> DEFINE d == Split(s)
             e == Split(Append(s, c))
             x == d.text
  <2>1. /\ d \in SplitStates(F) /\ e = Splitter(d, c) /\ Append(s, c) \in Seq(F)
        /\ x \in Seq(F) /\ Append(x, c) \in Seq(F)
        /\ Split(x) \in SplitStates(F)
        /\ Split(Append(x, c)) = Splitter(Split(x), c)
    <3>1. /\ d \in SplitStates(F) /\ e = Splitter(d, c)
          /\ Append(s, c) \in Seq(F)
      BY SplitUnfolds, AppendProperties
    <3>2. x \in Seq(F)
      BY <3>1 DEF SplitStates
    <3>3. /\ Append(x, c) \in Seq(F) /\ Split(x) \in SplitStates(F)
          /\ Split(Append(x, c)) = Splitter(Split(x), c)
      BY <3>2, SplitUnfolds, AppendProperties
    <3>4. QED
      BY <3>1, <3>2, <3>3
  <2>2. /\ d.tokens \in Seq(Closed(F)) /\ Whole(x) /\ Split(x).quote = d.quote
    BY <1>4
  <2> HIDE DEF d, e
  <2>3. CASE c = Blank /\ d.quote = "none"
    <3>1. /\ e.tokens = IF x = <<>> THEN d.tokens ELSE Append(d.tokens, x)
          /\ e.text = <<>> /\ e.quote = "none"
      BY <2>1, <2>3, SplitterCases
    <3>2. x # <<>> => x \in Closed(F)
      BY <2>1, <2>2, <2>3 DEF Closed
    <3>3. e.tokens \in Seq(Closed(F))
      BY <2>2, <3>1, <3>2, AppendProperties
    <3>4. Whole(e.text) /\ Split(e.text).quote = e.quote
      BY <1>1, <1>2, <3>1
    <3>5. QED
      BY <2>1, <3>3, <3>4 DEF e
  <2>4. CASE ~(c = Blank /\ d.quote = "none")
    <3>1. /\ e.tokens = d.tokens /\ e.text = Append(x, c)
          /\ e.quote = QuoteBehind(d.quote, c)
      BY <2>1, <2>4, SplitterCases
    <3>2. /\ Split(Append(x, c)).tokens = Split(x).tokens
          /\ Split(Append(x, c)).text = Append(Split(x).text, c)
          /\ Split(Append(x, c)).quote = QuoteBehind(Split(x).quote, c)
      BY <2>1, <2>2, <2>4, SplitterCases
    <3>3. Whole(e.text) /\ Split(e.text).quote = e.quote
      BY <2>2, <3>1, <3>2 DEF Whole
    <3>4. QED
      BY <2>1, <2>2, <3>1, <3>3 DEF e
  <2>5. QED
    BY <2>3, <2>4
<1>5. Seq(F) \subseteq S
  <2> HIDE DEF S
  <2>1. QED
    BY <1>3, <1>4, SequenceInduction
<1>6. Split(v).text \in Seq(F)
  BY SplitUnfolds DEF SplitStates
<1>7. QED
  BY <1>5, <1>6

LEMMA AppendBehind ==
    ASSUME NEW B, NEW s \in Seq(B), NEW t \in Seq(B), NEW b \in B
    PROVE  Append(s \o t, b) = s \o Append(t, b)
<1>1. <<b>> \in Seq(B) /\ s \o t \in Seq(B)
  BY ConcatProperties
<1>2. Append(t, b) = t \o <<b>> /\ Append(s \o t, b) = (s \o t) \o <<b>>
  BY <1>1, AppendIsConcat
<1>3. QED
  BY <1>1, <1>2, ConcatAssociative

(* What stands behind the end of a token is split as if it stood alone.       *)
LEMMA SplitBehind ==
    ASSUME NEW F, NEW v \in Seq(F), NEW t \in Seq(F),
           Split(v).text = <<>>, Split(v).quote = "none"
    PROVE  /\ Split(v \o t).tokens = Split(v).tokens \o Split(t).tokens
           /\ Split(v \o t).text = Split(t).text
           /\ Split(v \o t).quote = Split(t).quote
<1> DEFINE D == Split(v).tokens
           Good(d, e) ==
             d.tokens = D \o e.tokens /\ d.text = e.text /\ d.quote = e.quote
           S == {s \in Seq(F) : Good(Split(v \o s), Split(s))}
<1>0. D \in Seq(Seq(F))
  BY SplitUnfolds DEF SplitStates
<1>00. ASSUME NEW T \in Seq(Seq(F)), NEW x \in Seq(F)
       PROVE  Append(D \o T, x) = D \o Append(T, x)
  <2> DEFINE B == Seq(F)
  <2>1. D \in Seq(B) /\ T \in Seq(B) /\ x \in B
    BY <1>0
  <2> HIDE DEF B, D
  <2>2. <<x>> \in Seq(B) /\ D \o T \in Seq(B)
    BY <2>1, ConcatProperties
  <2>3. Append(T, x) = T \o <<x>> /\ Append(D \o T, x) = (D \o T) \o <<x>>
    BY <2>1, <2>2, AppendIsConcat
  <2>4. QED
    BY <2>1, <2>2, <2>3, ConcatAssociative
<1>1. <<>> \in S
  <2>1. /\ <<>> \in Seq(F) /\ Split(<<>>).tokens = <<>>
        /\ Split(<<>>).text = <<>> /\ Split(<<>>).quote = "none"
    BY SplitUnfolds, EmptySeq DEF NoTokens
  <2>2. v \o <<>> = v /\ D \o <<>> = D
    BY <1>0, ConcatEmptySeq
  <2>3. QED
    BY <2>1, <2>2
<1>2. ASSUME NEW s \in Seq(F), NEW c \in F, s \in S
      PROVE  Append(s, c) \in S
  <2> DEFINE d == Split(v \o s)
             e == Split(s)
             d2 == Split(v \o Append(s, c))
             e2 == Split(Append(s, c))
  <2>1. /\ v \o s \in Seq(F) /\ Append(s, c) \in Seq(F)
        /\ v \o Append(s, c) = Append(v \o s, c)
    BY AppendBehind, AppendProperties, ConcatProperties
  <2>2. /\ d \in SplitStates(F) /\ e \in SplitStates(F)
        /\ d2 = Splitter(d, c) /\ e2 = Splitter(e, c)
    BY <2>1, SplitUnfolds
  <2>3. d.tokens = D \o e.tokens /\ d.text = e.text /\ d.quote = e.quote
    BY <1>2
  <2>4. e.tokens \in Seq(Seq(F)) /\ e.text \in Seq(F)
    BY <2>2 DEF SplitStates
  <2>5. Append(D \o e.tokens, e.text) = D \o Append(e.tokens, e.text)
    BY <1>00, <2>4
  <2> HIDE DEF d, e, d2, e2
  <2>6. ASSUME c = Blank, d.quote = "none"
        PROVE  Good(d2, e2)
    <3>1. /\ d2.tokens = IF d.text = <<>> THEN d.tokens ELSE Append(d.tokens, d.text)
          /\ d2.text = <<>> /\ d2.quote = "none"
      BY <2>2, <2>6, SplitterCases
    <3>2. /\ e2.tokens = IF e.text = <<>> THEN e.tokens ELSE Append(e.tokens, e.text)
          /\ e2.text = <<>> /\ e2.quote = "none"
      BY <2>2, <2>3, <2>6, SplitterCases
    <3> HIDE DEF D
    <3>3. QED
      BY <2>3, <2>5, <3>1, <3>2
  <2>7. ASSUME ~(c = Blank /\ d.quote = "none")
        PROVE  Good(d2, e2)
    <3>1. /\ d2.tokens = d.tokens /\ d2.text = Append(d.text, c)
          /\ d2.quote = QuoteBehind(d.quote, c)
      BY <2>2, <2>7, SplitterCases
    <3>2. /\ e2.tokens = e.tokens /\ e2.text = Append(e.text, c)
          /\ e2.quote = QuoteBehind(e.quote, c)
      BY <2>2, <2>3, <2>7, SplitterCases
    <3> HIDE DEF D
    <3>3. QED
      BY <2>3, <3>1, <3>2
  <2>8. Good(d2, e2)
    BY <2>6, <2>7
  <2>9. QED
    BY <2>1, <2>8 DEF d2, e2
<1>3. Seq(F) \subseteq S
  <2> HIDE DEF S
  <2>1. QED
    BY <1>1, <1>2, SequenceInduction
<1>4. QED
  BY <1>3

(* Joined tokens split into the same tokens again; the last one may still     *)
(* have a quote open.                                                         *)
THEOREM SplitJoin ==
    ASSUME NEW F, Blank \in F, NEW ts \in Seq(Closed(F)),
           NEW t \in Seq(F), t # <<>>, Whole(t)
    PROVE  LET v == JoinTokens(Append(ts, t))
           IN  /\ v \in Seq(F)
               /\ Split(v).tokens = ts
               /\ Split(v).text = t
               /\ Split(v).quote = Split(t).quote
<1> DEFINE Open == {u \in Seq(F) : u # <<>> /\ Whole(u)}
           Good(s, u) ==
             LET d == Split(JoinTokens(Append(s, u)))
             IN  d.tokens = s /\ d.text = u /\ d.quote = Split(u).quote
           S == {s \in Seq(Closed(F)) : \A u \in Open : Good(s, u)}
<1>0. /\ Closed(F) \subseteq Open /\ Closed(F) \subseteq Seq(F)
      /\ Seq(Closed(F)) \subseteq Seq(Seq(F))
  <2>1. Closed(F) \subseteq Seq(F)
    BY DEF Closed
  <2>2. QED
    BY <2>1, SeqMonotonic DEF Closed
<1>1. ASSUME NEW s \in Seq(Closed(F)), NEW u \in Open
      PROVE  /\ JoinTokens(s) \in Seq(F)
             /\ JoinTokens(Append(s, u)) = Joined(JoinTokens(s), u)
             /\ JoinTokens(Append(s, u)) \in Seq(F)
  <2>1. s \in Seq(Seq(F)) /\ u \in Seq(F) /\ Append(s, u) \in Seq(Seq(F))
    BY <1>0, AppendProperties
  <2>2. QED
    BY <2>1, JoinUnfolds
<1>2. <<>> \in S
  <2>1. <<>> \in Seq(Closed(F)) /\ JoinTokens(<<>>) = <<>>
    BY EmptySeq, JoinUnfolds
  <2>2. ASSUME NEW u \in Open
        PROVE  Good(<<>>, u)
    <3>1. JoinTokens(Append(<<>>, u)) = u
      BY <1>1, <2>1 DEF Joined
    <3>2. QED
      BY <3>1 DEF Whole
  <2>3. QED
    BY <2>1, <2>2
<1>3. ASSUME NEW s \in Seq(Closed(F)), NEW w \in Closed(F), s \in S
      PROVE  Append(s, w) \in S
  <2> DEFINE J == JoinTokens(Append(s, w))
             K == Append(J, Blank)
  <2>1. /\ Append(s, w) \in Seq(Closed(F)) /\ w \in Open /\ w # <<>>
        /\ Split(w).quote = "none"
    BY <1>0, AppendProperties DEF Closed
  <2>2. J \in Seq(F)
    BY <1>1, <2>1
  <2>3. Split(J).tokens = s /\ Split(J).text = w /\ Split(J).quote = "none"
    BY <1>3, <2>1
  <2>4. J # <<>>
    <3>1. Split(<<>>).text = <<>>
      BY SplitUnfolds DEF NoTokens
    <3>2. QED
      BY <2>1, <2>3, <3>1
  <2>5. ASSUME NEW u \in Open
        PROVE  JoinTokens(Append(Append(s, w), u)) = K \o u
    <3>1. JoinTokens(Append(Append(s, w), u)) = Joined(J, u)
      BY <1>1, <2>1
    <3>2. K = J \o <<Blank>>
      BY <2>2, AppendIsConcat
    <3> HIDE DEF J, K
    <3>3. QED
      BY <2>4, <3>1, <3>2 DEF Joined
  <2> HIDE DEF J
  <2>6. /\ K \in Seq(F) /\ Split(J) \in SplitStates(F)
        /\ Split(K) = Splitter(Split(J), Blank)
    BY <2>2, SplitUnfolds, AppendProperties
  <2>7. /\ Split(K).tokens = Append(s, w) /\ Split(K).text = <<>>
        /\ Split(K).quote = "none"
    <3>1. /\ Splitter(Split(J), Blank).tokens =
               IF Split(J).text = <<>> THEN Split(J).tokens
               ELSE Append(Split(J).tokens, Split(J).text)
          /\ Splitter(Split(J), Blank).text = <<>>
          /\ Splitter(Split(J), Blank).quote = "none"
      BY <2>3, <2>6, SplitterCases
    <3>2. QED
      BY <2>1, <2>3, <2>6, <3>1
  <2> HIDE DEF K
  <2>8. ASSUME NEW u \in Open
        PROVE  Good(Append(s, w), u)
    <3>1. /\ Split(K \o u).tokens = Split(K).tokens \o Split(u).tokens
          /\ Split(K \o u).text = Split(u).text
          /\ Split(K \o u).quote = Split(u).quote
      BY <2>6, <2>7, SplitBehind
    <3>2. Append(s, w) \o <<>> = Append(s, w)
      BY <2>1, ConcatEmptySeq
    <3>3. QED
      BY <2>5, <2>7, <3>1, <3>2 DEF Whole
  <2>9. QED
    BY <2>1, <2>8
<1>4. Seq(Closed(F)) \subseteq S
  <2> HIDE DEF S
  <2>1. QED
    BY <1>2, <1>3, SequenceInduction
<1>5. t \in Open
  OBVIOUS
<1>6. Good(ts, t)
  BY <1>4, <1>5
<1>7. QED
  BY <1>1, <1>5, <1>6

-----------------------------------------------------------------------------
(* What PlanEnv leaves of the flag *)

LEMMA OwnAppend ==
    ASSUME NEW F, NEW x \in Seq(F), NEW c \in F, ~Own(x),
           c \notin {"-lock-check", "-lock-check="}
    PROVE  ~Own(Append(x, c))
<1>1. /\ Append(x, c) # <<>> /\ Len(x) \in Nat
      /\ Len(Append(x, c)) = Len(x) + 1
      /\ \A k \in 1..Len(x) : Append(x, c)[k] = x[k]
      /\ Append(x, c)[Len(x) + 1] = c
  BY AppendProperties, LenProperties
<1> DEFINE y == Append(x, c)
<1> HIDE DEF y
<1>2. CASE x = <<>>
  <2>1. y[1] = c
    BY <1>1, <1>2, EmptySeq DEF y
  <2>2. <<"-lock-check">>[1] = "-lock-check"
    OBVIOUS
  <2>3. ~Own(y)
    BY <2>1, <2>2 DEF Own, HasLockCheckValue, StartsWith, IsLockCheckFlag
  <2>4. QED
    BY <2>3 DEF y
<1>3. CASE x # <<>>
  <2>1. Len(x) # 0
    BY <1>3, EmptySeq
  <2>2. y[1] = x[1] /\ Len(y) # 1 /\ y # <<>>
    BY <1>1, <2>1 DEF y
  <2>3. Len(<<"-lock-check">>) = 1
    OBVIOUS
  <2>4. ~Own(y)
    BY <1>3, <2>2, <2>3
       DEF Own, HasLockCheckValue, StartsWith, IsLockCheckFlag
  <2>5. QED
    BY <2>4 DEF y
<1>4. QED
  BY <1>2, <1>3

\* No token of a value is the flag, nor is what is not yet a token.
Stripped(v) == NoneOwn(Split(v).tokens) /\ ~Own(Split(v).text)

LEMMA EmptyNotOwn == ~Own(<<>>) /\ NoneOwn(<<>>)
  BY EmptySeq DEF Own, HasLockCheckValue, StartsWith, IsLockCheckFlag, NoneOwn

LEMMA StrippedGoesOn ==
    ASSUME NEW F, NEW v \in Seq(F), NEW c \in F, Stripped(v),
           c \notin {"-lock-check", "-lock-check="}
    PROVE  Stripped(Append(v, c))
<1> DEFINE d == Split(v)
           e == Split(Append(v, c))
<1>1. d \in SplitStates(F) /\ e = Splitter(d, c)
  BY SplitUnfolds
<1>2. NoneOwn(d.tokens) /\ ~Own(d.text)
  BY DEF Stripped
<1> HIDE DEF d, e
<1>3. d.tokens \in Seq(Seq(F)) /\ d.text \in Seq(F)
  BY <1>1 DEF SplitStates
<1>4. CASE c = Blank /\ d.quote = "none"
  <2>1. /\ e.tokens = IF d.text = <<>> THEN d.tokens ELSE Append(d.tokens, d.text)
        /\ e.text = <<>>
    BY <1>1, <1>4, SplitterCases
  <2>2. NoneOwn(Append(d.tokens, d.text))
    BY <1>2, <1>3, NoneOwnAppend
  <2>3. QED
    BY <1>2, <2>1, <2>2, EmptyNotOwn DEF Stripped, e
<1>5. CASE ~(c = Blank /\ d.quote = "none")
  <2>1. e.tokens = d.tokens /\ e.text = Append(d.text, c)
    BY <1>1, <1>5, SplitterCases
  <2>2. ~Own(Append(d.text, c))
    BY <1>2, <1>3, OwnAppend
  <2>3. QED
    BY <1>2, <2>1, <2>2 DEF Stripped, e
<1>6. QED
  BY <1>4, <1>5

(* lockCheckModeFromPlanArgsValue leaves nothing of the flag, quotes or not.  *)
LEMMA RestStripped ==
    ASSUME NEW F, Blank \in F, NEW e \in Seq(F)
    PROVE  Stripped(LockCheckModeFromPlanArgs(e).rest)
<1> DEFINE T == Split(e).tokens
           x == Split(e).text
           kept == LockCheckMode(SplitPlanArgs(e))
<1>1. /\ T \in Seq(Closed(F)) /\ x \in Seq(F) /\ Whole(x)
      /\ Seq(Closed(F)) \subseteq Seq(Seq(F))
      /\ Closed(F) \subseteq Seq(F)
  <2>1. Closed(F) \subseteq Seq(F)
    BY DEF Closed
  <2>2. QED
    BY <2>1, SplitParts, SeqMonotonic
<1>2. SplitPlanArgs(e) = IF x = <<>> THEN T ELSE Append(T, x)
  BY DEF SplitPlanArgs
<1>3. SplitPlanArgs(e) \in Seq(Seq(F)) /\ T \in Seq(Seq(F))
  BY <1>1, RestTyped
<1>4. NoneOwn(kept.rest) /\ (~kept.present => kept.rest = SplitPlanArgs(e))
  BY <1>3, ScanLeaves
<1> HIDE DEF T, x
<1>5. CASE ~kept.present
  <2>1. NoneOwn(T) /\ ~Own(x)
    BY <1>1, <1>2, <1>3, <1>4, <1>5, NoneOwnAppend, EmptyNotOwn
  <2>2. LockCheckModeFromPlanArgs(e).rest = e
    BY <1>5 DEF LockCheckModeFromPlanArgs
  <2>3. QED
    BY <2>1, <2>2 DEF Stripped, T, x
<1>6. CASE kept.present
  <2> DEFINE ts == LockCheckMode(T).rest
  <2>1. ts \in Seq(Closed(F))
    BY <1>1, ScanKeepsElements
  <2>2. \/ kept.rest = ts
        \/ x # <<>> /\ kept.rest = Append(ts, x)
    <3>1. CASE x = <<>>
      BY <1>2, <3>1
    <3>2. CASE x # <<>>
      <4>1. /\ LockCheckMode(T) \in ScanStates(F)
            /\ LockCheckMode(Append(T, x)) = ScanToken(LockCheckMode(T), x)
        BY <1>1, <1>3, ScanUnfolds
      <4>2. kept = ScanToken(LockCheckMode(T), x)
        BY <1>2, <3>2, <4>1
      <4> HIDE DEF kept
      <4>3. kept.rest = LockCheckMode(T).rest
              \/ kept.rest = Append(LockCheckMode(T).rest, x)
        BY <4>1, <4>2 DEF ScanToken, ScanStates
      <4>4. QED
        BY <3>2, <4>3
    <3>3. QED
      BY <3>1, <3>2
  <2>3. LockCheckModeFromPlanArgs(e).rest = JoinTokens(kept.rest)
    BY <1>6 DEF LockCheckModeFromPlanArgs
  <2> HIDE DEF ts, kept
  <2>4. CASE kept.rest = <<>>
    <3>1. JoinTokens(kept.rest) = <<>> /\ Split(<<>>) = NoTokens
      BY <2>4, JoinUnfolds, SplitUnfolds
    <3>2. QED
      BY <2>3, <3>1, EmptyNotOwn DEF Stripped, NoTokens
  <2>5. CASE kept.rest # <<>>
    <3>1. PICK us \in Seq(Closed(F)), u \in Seq(F) :
            u # <<>> /\ Whole(u) /\ kept.rest = Append(us, u)
      <4>1. CASE kept.rest = ts
        <5>1. PICK us \in Seq(Closed(F)), u \in Closed(F) : ts = Append(us, u)
          BY <2>1, <2>5, <4>1, SequenceEmptyOrAppend
        <5>2. u \in Seq(F) /\ u # <<>> /\ Whole(u)
          BY DEF Closed
        <5>3. QED
          BY <4>1, <5>1, <5>2
      <4>2. CASE x # <<>> /\ kept.rest = Append(ts, x)
        BY <1>1, <2>1, <4>2
      <4>3. QED
        BY <2>2, <4>1, <4>2
    <3> DEFINE v == JoinTokens(kept.rest)
    <3>2. Split(v).tokens = us /\ Split(v).text = u
      BY <3>1, SplitJoin
    <3>3. NoneOwn(us) /\ ~Own(u)
      <4>1. us \in Seq(Seq(F))
        BY <1>1
      <4>2. QED
        BY <1>4, <3>1, <4>1, NoneOwnAppend
    <3>4. QED
      BY <2>3, <3>2, <3>3 DEF Stripped
  <2>6. QED
    BY <2>4, <2>5
<1>7. QED
  BY <1>5, <1>6

(* Nor is there a token of parraform's in what PlanEnv makes, even if a quote *)
(* that is left open swallows -lock=false.                                    *)
LEMMA PlanEnvStripped ==
    ASSUME NEW F, {Blank, "-lock=", "false"} \subseteq F, NEW e \in Seq(F)
    PROVE  NoneOwn(SplitPlanArgs(PlanEnv(e)))
<1> DEFINE v == LockCheckModeFromPlanArgs(e).rest
           v1 == Append(v, Blank)
           v2 == Append(v1, "-lock=")
           v3 == Append(v2, "false")
<1>1. v \in Seq(F) /\ Stripped(v)
  BY RestTyped, RestStripped
<1>2. PlanEnv(e) = v3
  BY <1>1, WithLockFalse DEF PlanEnv
<1>3. /\ Blank \notin {"-lock-check", "-lock-check="}
      /\ "-lock=" \notin {"-lock-check", "-lock-check="}
      /\ "false" \notin {"-lock-check", "-lock-check="}
  BY DEF Blank
<1> HIDE DEF v
<1>4. v1 \in Seq(F) /\ Stripped(v1)
  BY <1>1, <1>3, StrippedGoesOn, AppendProperties
<1> HIDE DEF v1
<1>5. v2 \in Seq(F) /\ Stripped(v2)
  BY <1>3, <1>4, StrippedGoesOn, AppendProperties
<1> HIDE DEF v2
<1>6. v3 \in Seq(F) /\ Stripped(v3)
  BY <1>3, <1>5, StrippedGoesOn, AppendProperties
<1> HIDE DEF v3
<1>7. Split(v3).tokens \in Seq(Seq(F)) /\ Split(v3).text \in Seq(F)
  BY <1>6, SplitUnfolds DEF SplitStates
<1>8. NoneOwn(SplitPlanArgs(v3))
  <2>1. NoneOwn(Append(Split(v3).tokens, Split(v3).text))
    BY <1>6, <1>7, NoneOwnAppend DEF Stripped
  <2>2. QED
    BY <1>6, <2>1 DEF SplitPlanArgs, Stripped
<1>9. QED
  BY <1>2, <1>8

-----------------------------------------------------------------------------
(* The two splitters of TF_CLI_ARGS_plan *)

\* The word go-shellwords makes of a token, the words it makes of tokens.
Reads(t)  == ParseShell(t).word
Words(ts) == [k \in 1..Len(ts) |-> Reads(ts[k])]

LEMMA FunctionIsSeq ==
    ASSUME NEW B, NEW n \in Nat, NEW f \in [1..n -> B]
    PROVE  f \in Seq(B)
  BY SeqDef

LEMMA WordsAppend ==
    ASSUME NEW F, NEW ts \in Seq(Seq(F)), NEW t \in Seq(F)
    PROVE  /\ Words(<<>>) = <<>>
           /\ Reads(t) \in Seq(F)
           /\ Words(ts) \in Seq(Seq(F)) /\ Len(Words(ts)) = Len(ts)
           /\ Words(Append(ts, t)) = Append(Words(ts), Reads(t))
<1>1. \A u \in Seq(F) : Reads(u) \in Seq(F)
  BY ShellUnfolds DEF Reads, ShellStates
<1> HIDE DEF Reads
<1>2. Words(<<>>) = <<>>
  <2>1. Words(<<>>) \in Seq({}) /\ Len(Words(<<>>)) = 0
    BY EmptySeq, SeqDef DEF Words
  <2>2. QED
    BY <2>1, EmptySeq
<1>3. ASSUME NEW us \in Seq(Seq(F))
      PROVE  /\ Words(us) \in Seq(Seq(F)) /\ Len(Words(us)) = Len(us)
             /\ \A k \in 1..Len(us) : Words(us)[k] = Reads(us[k])
  <2>1. Len(us) \in Nat /\ \A k \in 1..Len(us) : us[k] \in Seq(F)
    BY LenProperties, ElementOfSeq
  <2>2. Words(us) \in [1..Len(us) -> Seq(F)]
    BY <1>1, <2>1 DEF Words
  <2>3. Words(us) \in Seq(Seq(F))
    BY <2>1, <2>2, FunctionIsSeq
  <2>4. Len(Words(us)) \in Nat /\ DOMAIN Words(us) = 1..Len(Words(us))
    BY <2>3, LenProperties
  <2>5. 1..Len(Words(us)) = 1..Len(us)
    BY <2>4 DEF Words
  <2>6. Len(Words(us)) = Len(us)
    <3> DEFINE m == Len(Words(us))
               n == Len(us)
    <3>1. m \in Nat /\ n \in Nat /\ 1..m = 1..n
      BY <2>1, <2>4, <2>5
    <3> HIDE DEF m, n
    <3>2. m = n
      <4>1. (m > n => m \in 1..m) /\ (n > m => n \in 1..n)
        BY ONLY <3>1
      <4>2. (m > n => m \notin 1..n) /\ (n > m => n \notin 1..m)
        BY ONLY <3>1
      <4>3. ~(m > n) /\ ~(n > m)
        BY <3>1, <4>1, <4>2
      <4>4. QED
        BY ONLY <3>1, <4>3
    <3>3. QED
      BY <3>2 DEF m, n
  <2>7. QED
    BY <2>3, <2>6 DEF Words
<1>4. Words(Append(ts, t)) = Append(Words(ts), Reads(t))
  <2> DEFINE us == Append(ts, t)
             a == Words(us)
             b == Append(Words(ts), Reads(t))
             n == Len(ts)
  <2>1. /\ us \in Seq(Seq(F)) /\ n \in Nat /\ Len(us) = n + 1
        /\ \A k \in 1..n : us[k] = ts[k]
        /\ us[n + 1] = t
    BY AppendElements
  <2>2. /\ Words(ts) \in Seq(Seq(F)) /\ Len(Words(ts)) = n
        /\ \A k \in 1..n : Words(ts)[k] = Reads(ts[k])
    BY <1>3
  <2>3. /\ b \in Seq(Seq(F)) /\ Len(b) = n + 1
        /\ \A k \in 1..n : b[k] = Words(ts)[k]
        /\ b[n + 1] = Reads(t)
    BY <1>1, <2>2, AppendElements
  <2> HIDE DEF us, b
  <2>4. /\ a \in Seq(Seq(F)) /\ Len(a) = n + 1
        /\ \A k \in 1..(n + 1) : a[k] = Reads(us[k])
    BY <1>3, <2>1
  <2> HIDE DEF a, n
  <2>5. \A k \in 1..(n + 1) : k \in 1..n \/ k = n + 1
    BY <2>1
  <2>6. \A k \in 1..(n + 1) : a[k] = b[k]
    BY <2>1, <2>2, <2>3, <2>4, <2>5
  <2>7. a = b
    BY <2>3, <2>4, <2>6, SeqEqual
  <2>8. QED
    BY <2>7 DEF a, b, us
<1>5. QED
  BY <1>1, <1>2, <1>3, <1>4

LEMMA ShellCases ==
    ASSUME NEW F, NEW s \in ShellStates(F), ~s.escaped,
           NEW c, c \notin {"\\", "\n"}
    PROVE  /\ ~Shell(s, c).escaped
           /\ c = Blank /\ s.quote = "none" =>
                /\ Shell(s, c).words =
                     IF s.open THEN Append(s.words, s.word) ELSE s.words
                /\ Shell(s, c).word = <<>>
                /\ ~Shell(s, c).open
                /\ Shell(s, c).quote = "none"
           /\ ~(c = Blank /\ s.quote = "none") =>
                /\ Shell(s, c).words = s.words
                /\ Shell(s, c).word =
                     IF c \in Quotes /\ s.quote \in {"none", c} THEN s.word
                     ELSE Append(s.word, c)
                /\ Shell(s, c).open <=>
                     (c \in Quotes /\ s.quote = "none" => s.open)
                /\ Shell(s, c).quote = QuoteBehind(s.quote, c)
<1> USE DEF Shell, ShellStates, Blank, Quotes, QuoteBehind
<1>1. CASE c = " " /\ s.quote = "none"
  BY <1>1
<1>2. CASE c \in Quotes /\ c = s.quote
  BY <1>2
<1>3. CASE c \in Quotes /\ c # s.quote
  BY <1>3
<1>4. CASE c \notin Quotes /\ ~(c = " " /\ s.quote = "none")
  BY <1>4
<1>5. QED
  BY <1>1, <1>2, <1>3, <1>4

\* Characters that the two splitters do not agree on.
Escapes == {"\\", "\n"}

\* What go-shellwords makes of a value is what it makes of its tokens.
ReadsAs(p, d, q) ==
    /\ p.words = Words(d.tokens)
    /\ p.word = q.word
    /\ p.open <=> q.open
    /\ p.quote = d.quote
    /\ q.quote = d.quote
    /\ ~p.escaped /\ ~q.escaped
    /\ d.text = <<>> => ~p.open
    /\ d.text # <<>> /\ d.quote = "none" => p.open

LEMMA SplitReads ==
    ASSUME NEW F, Escapes \cap F = {}, NEW v \in Seq(F)
    PROVE  ReadsAs(ParseShell(v), Split(v), ParseShell(Split(v).text))
<1> DEFINE Good(s) == ReadsAs(ParseShell(s), Split(s), ParseShell(Split(s).text))
           S == {s \in Seq(F) : Good(s)}
<1>1. /\ <<>> \in Seq(F)
      /\ Split(<<>>).tokens = <<>> /\ Split(<<>>).text = <<>>
      /\ Split(<<>>).quote = "none"
      /\ ParseShell(<<>>).words = <<>> /\ ParseShell(<<>>).word = <<>>
      /\ ~ParseShell(<<>>).open /\ ParseShell(<<>>).quote = "none"
      /\ ~ParseShell(<<>>).escaped
  BY SplitUnfolds, ShellUnfolds, EmptySeq DEF NoTokens, NoWords
<1>2. <<>> \in S
  <2>1. Words(<<>>) = <<>>
    BY <1>1, EmptySeq, WordsAppend
  <2>2. QED
    BY <1>1, <2>1 DEF ReadsAs
<1>3. ASSUME NEW s \in Seq(F), NEW c \in F, s \in S
      PROVE  Append(s, c) \in S
  <2> DEFINE d == Split(s)
             p == ParseShell(s)
             x == d.text
             q == ParseShell(x)
             d2 == Split(Append(s, c))
             p2 == ParseShell(Append(s, c))
  <2>1. /\ Append(s, c) \in Seq(F)
        /\ d \in SplitStates(F) /\ d2 = Splitter(d, c)
        /\ p \in ShellStates(F) /\ p2 = Shell(p, c)
    BY SplitUnfolds, ShellUnfolds, AppendProperties
  <2>2. x \in Seq(F) /\ d.tokens \in Seq(Seq(F))
    BY <2>1 DEF SplitStates
  <2>3. /\ q \in ShellStates(F)
        /\ ParseShell(Append(x, c)) = Shell(q, c)
    BY <2>2, ShellUnfolds
  <2>4. ReadsAs(p, d, q)
    BY <1>3
  <2>5. c \notin {"\\", "\n"}
    BY DEF Escapes
  <2> HIDE DEF d, p, q, d2, p2
  <2>6. ~p.escaped /\ ~q.escaped /\ p.quote = d.quote /\ q.quote = d.quote
    BY <2>4 DEF ReadsAs
  <2>7. CASE c = Blank /\ d.quote = "none"
    <3>1. /\ d2.tokens = IF x = <<>> THEN d.tokens ELSE Append(d.tokens, x)
          /\ d2.text = <<>> /\ d2.quote = "none"
      BY <2>1, <2>7, SplitterCases
    <3>2. /\ p2.words = IF p.open THEN Append(p.words, p.word) ELSE p.words
          /\ p2.word = <<>> /\ ~p2.open /\ p2.quote = "none" /\ ~p2.escaped
      BY <2>1, <2>5, <2>6, <2>7, ShellCases
    <3>3. Words(Append(d.tokens, x)) = Append(Words(d.tokens), q.word)
      BY <2>2, WordsAppend DEF Reads, q
    <3>4. p2.words = Words(d2.tokens)
      BY <2>4, <2>7, <3>1, <3>2, <3>3 DEF ReadsAs
    <3>5. ReadsAs(p2, d2, ParseShell(<<>>))
      BY <1>1, <3>1, <3>2, <3>4 DEF ReadsAs
    <3>6. QED
      BY <2>1, <3>1, <3>5 DEF p2, d2
  <2>8. CASE ~(c = Blank /\ d.quote = "none")
    <3> DEFINE q2 == Shell(q, c)
    <3>1. /\ d2.tokens = d.tokens /\ d2.text = Append(x, c)
          /\ d2.quote = QuoteBehind(d.quote, c)
      BY <2>1, <2>8, SplitterCases
    <3>2. /\ p2.words = p.words
          /\ p2.word = IF c \in Quotes /\ p.quote \in {"none", c} THEN p.word
                       ELSE Append(p.word, c)
          /\ p2.open <=> (c \in Quotes /\ p.quote = "none" => p.open)
          /\ p2.quote = QuoteBehind(p.quote, c)
          /\ ~p2.escaped
      BY <2>1, <2>5, <2>6, <2>8, ShellCases
    <3>3. /\ q2.word = IF c \in Quotes /\ q.quote \in {"none", c} THEN q.word
                       ELSE Append(q.word, c)
          /\ q2.open <=> (c \in Quotes /\ q.quote = "none" => q.open)
          /\ q2.quote = QuoteBehind(q.quote, c)
          /\ ~q2.escaped
      BY <2>3, <2>5, <2>6, <2>8, ShellCases
    <3> HIDE DEF q2
    <3>4. d2.text # <<>>
      BY <2>2, <3>1, AppendProperties
    <3>5. d2.quote = "none" => p2.open
      BY <2>6, <3>1, <3>2 DEF QuoteBehind, Quotes
    <3>6. p2.word = q2.word /\ (p2.open <=> q2.open) /\ p2.words = Words(d2.tokens)
      BY <2>4, <2>6, <3>1, <3>2, <3>3 DEF ReadsAs
    <3>7. ReadsAs(p2, d2, q2)
      BY <2>6, <3>1, <3>2, <3>3, <3>4, <3>5, <3>6 DEF ReadsAs
    <3>8. q2 = ParseShell(d2.text)
      BY <2>3, <3>1 DEF q2
    <3>9. QED
      BY <2>1, <3>7, <3>8 DEF p2, d2
  <2>9. QED
    BY <2>7, <2>8
<1>4. Seq(F) \subseteq S
  <2> HIDE DEF S
  <2>1. QED
    BY <1>2, <1>3, SequenceInduction
<1>5. QED
  BY <1>4

(* Of a value without escapes the two splitters see the same tokens, and      *)
(* parraform sees a quote that is left open just if terraform rejects it.     *)
THEOREM SplittersAgree ==
    ASSUME NEW F, Escapes \cap F = {}, NEW v \in Seq(F)
    PROVE  /\ ShellWords(v).ok <=> Split(v).quote = "none"
           /\ ShellWords(v).ok =>
                /\ SplitPlanArgs(v) \in Seq(Closed(F))
                /\ ShellWords(v).words = Words(SplitPlanArgs(v))
<1> DEFINE d == Split(v)
           p == ParseShell(v)
           x == d.text
<1>1. ReadsAs(p, d, ParseShell(x))
  BY SplitReads
<1>2. /\ d.tokens \in Seq(Closed(F)) /\ x \in Seq(F) /\ Whole(x)
      /\ Split(x).quote = d.quote
  BY SplitParts
<1>3. d.tokens \in Seq(Seq(F))
  <2>1. Closed(F) \subseteq Seq(F)
    BY DEF Closed
  <2>2. QED
    BY <1>2, <2>1, SeqMonotonic
<1>4. Words(Append(d.tokens, x)) = Append(Words(d.tokens), ParseShell(x).word)
  BY <1>2, <1>3, WordsAppend DEF Reads
<1>5. /\ SplitPlanArgs(v) = IF x = <<>> THEN d.tokens ELSE Append(d.tokens, x)
      /\ ShellWords(v).words = IF p.open THEN Append(p.words, p.word) ELSE p.words
      /\ ShellWords(v).ok <=> p.quote = "none" /\ ~p.escaped
  BY DEF SplitPlanArgs, ShellWords
<1> HIDE DEF d, p
<1>6. ShellWords(v).ok <=> d.quote = "none"
  BY <1>1, <1>5 DEF ReadsAs
<1>7. ASSUME d.quote = "none"
      PROVE  /\ SplitPlanArgs(v) \in Seq(Closed(F))
             /\ ShellWords(v).words = Words(SplitPlanArgs(v))
  <2>1. x # <<>> => x \in Closed(F)
    BY <1>2, <1>7 DEF Closed
  <2>2. SplitPlanArgs(v) \in Seq(Closed(F))
    BY <1>2, <1>5, <2>1, AppendProperties
  <2>3. ShellWords(v).words = Words(SplitPlanArgs(v))
    BY <1>1, <1>4, <1>5, <1>7 DEF ReadsAs
  <2>4. QED
    BY <2>2, <2>3
<1>8. QED
  BY <1>6, <1>7 DEF d

(* Joined tokens are read one by one.                                         *)
LEMMA JoinReads ==
    ASSUME NEW F, Escapes \cap F = {}, Blank \in F, NEW ts \in Seq(Closed(F))
    PROVE  LET v == JoinTokens(ts)
           IN  /\ v \in Seq(F)
               /\ ShellWords(v).ok
               /\ ShellWords(v).words = Words(ts)
<1> DEFINE v == JoinTokens(ts)
<1>1. v \in Seq(F) /\ Split(v).quote = "none" /\ SplitPlanArgs(v) = ts
  <2>1. CASE ts = <<>>
    <3>1. v = <<>> /\ v \in Seq(F) /\ Split(v) = NoTokens
      BY <2>1, EmptySeq, JoinUnfolds, SplitUnfolds
    <3>2. QED
      BY <2>1, <3>1 DEF NoTokens, SplitPlanArgs
  <2>2. CASE ts # <<>>
    <3>1. PICK us \in Seq(Closed(F)), u \in Closed(F) : ts = Append(us, u)
      BY <2>2, SequenceEmptyOrAppend
    <3>2. u \in Seq(F) /\ u # <<>> /\ Whole(u) /\ Split(u).quote = "none"
      BY DEF Closed
    <3>3. /\ v \in Seq(F) /\ Split(v).tokens = us /\ Split(v).text = u
          /\ Split(v).quote = "none"
      BY <3>1, <3>2, SplitJoin
    <3>4. QED
      BY <3>1, <3>2, <3>3 DEF SplitPlanArgs
  <2>3. QED
    BY <2>1, <2>2
<1>2. QED
  BY <1>1, SplittersAgree

(* What a token begins with is what its word begins with, but for a quote.    *)
LEMMA HeadKept ==
    ASSUME NEW F, Escapes \cap F = {}, NEW v \in Seq(F),
           Split(v).text # <<>>, Split(v).text[1] \notin ShellCharacters
    PROVE  /\ ParseShell(v).word # <<>>
           /\ ParseShell(v).word[1] = Split(v).text[1]
<1> DEFINE Good(p, d) ==
             d.text # <<>> /\ d.text[1] \notin ShellCharacters
               => p.word # <<>> /\ p.word[1] = d.text[1]
           S == {s \in Seq(F) : Good(ParseShell(s), Split(s))}
<1>1. <<>> \in S
  BY EmptySeq, SplitUnfolds DEF NoTokens
<1>2. ASSUME NEW s \in Seq(F), NEW c \in F, s \in S
      PROVE  Append(s, c) \in S
  <2> DEFINE d == Split(s)
             p == ParseShell(s)
             d2 == Split(Append(s, c))
             p2 == ParseShell(Append(s, c))
  <2>1. /\ Append(s, c) \in Seq(F)
        /\ d \in SplitStates(F) /\ d2 = Splitter(d, c)
        /\ p \in ShellStates(F) /\ p2 = Shell(p, c)
    BY SplitUnfolds, ShellUnfolds, AppendProperties
  <2>2. ReadsAs(p, d, ParseShell(d.text))
    BY SplitReads
  <2>3. Good(p, d)
    BY <1>2
  <2>4. c \notin {"\\", "\n"}
    BY DEF Escapes
  <2> HIDE DEF d, p, d2, p2
  <2>5. /\ d.text \in Seq(F) /\ p.word \in Seq(F) /\ ~p.escaped
        /\ p.quote = d.quote
        /\ d.text = <<>> => p.word = <<>>
    <3>1. ParseShell(<<>>).word = <<>>
      BY ShellUnfolds DEF NoWords
    <3>2. QED
      BY <2>1, <2>2, <3>1 DEF ReadsAs, SplitStates, ShellStates
  <2>6. CASE c = Blank /\ d.quote = "none"
    <3>1. d2.text = <<>>
      BY <2>1, <2>6, SplitterCases
    <3>2. QED
      BY <2>1, <3>1 DEF d2, p2
  <2>7. CASE ~(c = Blank /\ d.quote = "none")
    <3>1. d2.text = Append(d.text, c)
      BY <2>1, <2>7, SplitterCases
    <3>2. p2.word = IF c \in Quotes /\ p.quote \in {"none", c} THEN p.word
                    ELSE Append(p.word, c)
      BY <2>1, <2>4, <2>5, <2>7, ShellCases
    <3>3. ASSUME NEW w \in Seq(F), w # <<>>
          PROVE  Append(w, c) # <<>> /\ Append(w, c)[1] = w[1]
      <4>1. Len(w) \in Nat /\ Len(w) # 0
        BY <3>3, EmptySeq, LenProperties
      <4>2. 1 \in 1..Len(w)
        BY <4>1
      <4>3. QED
        BY <4>2, AppendProperties
    <3>4. Append(<<>>, c) # <<>> /\ Append(<<>>, c)[1] = c
      OBVIOUS
    <3>5. Good(p2, d2)
      <4> SUFFICES ASSUME d2.text[1] \notin ShellCharacters
                   PROVE  p2.word # <<>> /\ p2.word[1] = d2.text[1]
        OBVIOUS
      <4>1. CASE d.text = <<>>
        <5>1. d2.text[1] = c /\ c \notin Quotes
          BY <3>1, <3>4, <4>1 DEF ShellCharacters
        <5>2. p2.word = Append(<<>>, c)
          BY <2>5, <3>2, <4>1, <5>1
        <5>3. QED
          BY <3>4, <5>1, <5>2
      <4>2. CASE d.text # <<>>
        <5>1. d2.text[1] = d.text[1]
          BY <2>5, <3>1, <3>3, <4>2
        <5>2. p.word # <<>> /\ p.word[1] = d.text[1]
          BY <2>3, <4>2, <5>1
        <5>3. QED
          BY <2>5, <3>2, <3>3, <5>1, <5>2
      <4>3. QED
        BY <4>1, <4>2
    <3>6. QED
      BY <2>1, <3>5 DEF d2, p2
  <2>8. QED
    BY <2>6, <2>7
<1>3. Seq(F) \subseteq S
  <2> HIDE DEF S
  <2>1. QED
    BY <1>1, <1>2, SequenceInduction
<1>4. QED
  BY <1>3

(* A token that is the flag makes a word that is the flag in the same form.   *)
LEMMA OwnReads ==
    ASSUME NEW F, Escapes \cap F = {}, NEW t \in Closed(F)
    PROVE  /\ HasLockCheckValue(t) => HasLockCheckValue(Reads(t))
           /\ IsLockCheckFlag(t) => IsLockCheckFlag(Reads(t))
<1>1. t \in Seq(F) /\ t # <<>> /\ Split(t).text = t
  BY DEF Closed, Whole
<1>2. ASSUME HasLockCheckValue(t)
      PROVE  HasLockCheckValue(Reads(t))
  <2>1. t[1] = "-lock-check="
    BY <1>2 DEF HasLockCheckValue, StartsWith
  <2>2. "-lock-check=" \notin ShellCharacters
    BY DEF ShellCharacters, Blank, Quotes
  <2>3. ParseShell(t).word # <<>> /\ ParseShell(t).word[1] = t[1]
    BY <1>1, <2>1, <2>2, HeadKept
  <2>4. QED
    BY <2>1, <2>3 DEF Reads, HasLockCheckValue, StartsWith
<1>3. ASSUME IsLockCheckFlag(t)
      PROVE  IsLockCheckFlag(Reads(t))
  <2> DEFINE c == "-lock-check"
  <2>1. t = Append(<<>>, c) /\ t = <<c>>
    BY <1>3 DEF IsLockCheckFlag
  <2>2. c \in F
    <3>1. 1 \in 1..Len(t) /\ t[1] = c
      BY <2>1
    <3>2. t[1] \in F
      BY <1>1, <3>1, ElementOfSeq
    <3>3. QED
      BY <3>1, <3>2
  <2>3. /\ ParseShell(t) = Shell(ParseShell(<<>>), c)
        /\ ParseShell(<<>>) = NoWords
        /\ ParseShell(<<>>) \in ShellStates(F)
    BY <2>1, <2>2, EmptySeq, ShellUnfolds
  <2>4. c \notin ShellCharacters
    BY DEF ShellCharacters, Blank, Quotes
  <2>5. ~NoWords.escaped /\ NoWords.word = <<>>
    BY DEF NoWords
  <2> HIDE DEF c
  <2>6. ParseShell(t).word = Append(<<>>, c)
    BY <2>2, <2>3, <2>4, <2>5, ShellPlain
  <2>7. QED
    BY <2>1, <2>6, <1>3 DEF Reads
<1>4. QED
  BY <1>2, <1>3

\* The splitter sees each token whose word is the flag.
OwnSeen(ts) == \A k \in 1..Len(ts) : Own(Reads(ts[k])) => Own(ts[k])

LEMMA OwnSeenAppend ==
    ASSUME NEW B, NEW s \in Seq(B), NEW a \in B
    PROVE  OwnSeen(Append(s, a)) <=> OwnSeen(s) /\ (Own(Reads(a)) => Own(a))
  BY AppendElements DEF OwnSeen

(* Then it takes out of the tokens what it would take out of the words.       *)
LEMMA ScanReads ==
    ASSUME NEW F, Escapes \cap F = {}, NEW ts \in Seq(Closed(F)), OwnSeen(ts)
    PROVE  /\ LockCheckMode(ts).rest \in Seq(Closed(F))
           /\ LockCheckMode(Words(ts)).rest = Words(LockCheckMode(ts).rest)
           /\ LockCheckMode(Words(ts)).present <=> LockCheckMode(ts).present
<1> DEFINE Good(c, d) ==
             /\ d.rest = Words(c.rest)
             /\ d.present <=> c.present
             /\ d.take <=> c.take
           S == {s \in Seq(Closed(F)) :
                   OwnSeen(s) => Good(LockCheckMode(s), LockCheckMode(Words(s)))}
<1>0. Closed(F) \subseteq Seq(F) /\ Seq(Closed(F)) \subseteq Seq(Seq(F))
  <2>1. Closed(F) \subseteq Seq(F)
    BY DEF Closed
  <2>2. QED
    BY <2>1, SeqMonotonic
<1>1. <<>> \in S
  <2>1. Words(<<>>) = <<>> /\ <<>> \in Seq(Closed(F))
    BY EmptySeq, WordsAppend
  <2>2. LockCheckMode(<<>>).rest = <<>>
    BY ScanUnfolds DEF ScanStart
  <2>3. QED
    BY <2>1, <2>2
<1>2. ASSUME NEW s \in Seq(Closed(F)), NEW t \in Closed(F), s \in S
      PROVE  Append(s, t) \in S
  <2> DEFINE c == LockCheckMode(s)
             d == LockCheckMode(Words(s))
             c2 == LockCheckMode(Append(s, t))
             d2 == LockCheckMode(Words(Append(s, t)))
             w == Reads(t)
  <2>1. /\ s \in Seq(Seq(F)) /\ t \in Seq(F) /\ w \in Seq(F)
        /\ Words(s) \in Seq(Seq(F))
        /\ Words(Append(s, t)) = Append(Words(s), w)
        /\ Append(s, t) \in Seq(Closed(F))
    BY <1>0, WordsAppend, AppendProperties
  <2>2. /\ c \in ScanStates(F) /\ c2 = ScanToken(c, t)
        /\ d \in ScanStates(F) /\ d2 = ScanToken(d, w)
    BY <2>1, ScanUnfolds
  <2>3. /\ HasLockCheckValue(t) => HasLockCheckValue(w)
        /\ IsLockCheckFlag(t) => IsLockCheckFlag(w)
    BY OwnReads
  <2>4. ~(HasLockCheckValue(w) /\ IsLockCheckFlag(w))
    BY DEF HasLockCheckValue, IsLockCheckFlag, StartsWith
  <2>5. SUFFICES ASSUME OwnSeen(Append(s, t))
                 PROVE  Good(c2, d2)
    BY <2>1
  <2>6. OwnSeen(s) /\ (Own(w) => Own(t))
    BY <2>5, OwnSeenAppend
  <2>7. Good(c, d)
    BY <1>2, <2>6
  <2>8. /\ HasLockCheckValue(t) <=> HasLockCheckValue(w)
        /\ IsLockCheckFlag(t) <=> IsLockCheckFlag(w)
    BY <2>3, <2>4, <2>6 DEF Own
  <2>9. c.rest \in Seq(Seq(F))
    BY <2>2 DEF ScanStates
  <2>10. Words(Append(c.rest, t)) = Append(Words(c.rest), w)
    <3> DEFINE r == c.rest
    <3>1. r \in Seq(Seq(F))
      BY <2>9
    <3> HIDE DEF r, w
    <3>2. Words(Append(r, t)) = Append(Words(r), Reads(t))
      BY <2>1, <3>1, WordsAppend
    <3>3. QED
      BY <3>2 DEF r, w
  <2> HIDE DEF c, d, c2, d2, w
  <2>11. Good(c2, d2)
    BY <2>2, <2>7, <2>8, <2>10 DEF ScanToken, ScanStates
  <2>12. QED
    BY <2>11
<1>3. Seq(Closed(F)) \subseteq S
  <2> HIDE DEF S
  <2>1. QED
    BY <1>1, <1>2, SequenceInduction
<1>4. LockCheckMode(ts).rest \in Seq(Closed(F))
  BY <1>0, ScanKeepsElements
<1>5. QED
  BY <1>3, <1>4

(* -lock=false can always be put behind a value that go-shellwords accepts.   *)
LEMMA LockFalseFits ==
    ASSUME NEW F, {Blank, "-lock=", "false"} \subseteq F, NEW v \in Seq(F),
           ShellWords(v).ok
    PROVE  /\ ShellWords(v \o <<Blank>> \o LockFalse).ok
           /\ ShellWords(v \o <<Blank>> \o LockFalse).words =
                Append(ShellWords(v).words, LockFalse)
<1> DEFINE v1 == Append(v, Blank)
           v2 == Append(v1, "-lock=")
           v3 == Append(v2, "false")
<1>1. v1 \in Seq(F) /\ v2 \in Seq(F) /\ v3 = v \o <<Blank>> \o LockFalse
  BY WithLockFalse, AppendElements
<1>2. /\ ParseShell(v) \in ShellStates(F)
      /\ ParseShell(v1) = Shell(ParseShell(v), Blank)
      /\ ParseShell(v1) \in ShellStates(F)
      /\ ParseShell(v2) = Shell(ParseShell(v1), "-lock=")
      /\ ParseShell(v2) \in ShellStates(F)
      /\ ParseShell(v3) = Shell(ParseShell(v2), "false")
  BY <1>1, ShellUnfolds
<1> HIDE DEF v1, v2, v3
<1>3. ParseShell(v).quote = "none" /\ ~ParseShell(v).escaped
  BY DEF ShellWords
<1>4. ParseShell(v1).quote = "none" /\ ~ParseShell(v1).escaped
  <2>1. Blank \notin {"\\", "\n"}
    BY DEF Blank
  <2>2. QED
    BY <1>2, <1>3, <2>1, ShellCases
<1>5. /\ "-lock=" \notin ShellCharacters /\ "false" \notin ShellCharacters
      /\ "-lock=" \in F /\ "false" \in F
  BY DEF ShellCharacters, Blank, Quotes
<1>6. ParseShell(v2).quote = "none" /\ ~ParseShell(v2).escaped
  BY <1>2, <1>4, <1>5, ShellPlain
<1>7. ParseShell(v3).quote = "none" /\ ~ParseShell(v3).escaped
  BY <1>2, <1>5, <1>6, ShellPlain
<1>8. ShellWords(v3).ok
  BY <1>7 DEF ShellWords
<1>9. QED
  BY <1>1, <1>3, <1>8, LockFalseLast

(* PlanEnv of a value without escapes whose flag the splitter sees: every     *)
(* word terraform would have got but the flag and its value, then -lock=false *)
LEMMA PlanEnvKeeps ==
    ASSUME NEW F, {Blank, "-lock=", "false"} \subseteq F, Escapes \cap F = {},
           NEW e \in Seq(F), ShellWords(e).ok, OwnSeen(SplitPlanArgs(e))
    PROVE  /\ ShellWords(PlanEnv(e)).ok
           /\ ShellWords(PlanEnv(e)).words =
                Append(LockCheckMode(ShellWords(e).words).rest, LockFalse)
<1> DEFINE ts == SplitPlanArgs(e)
           rest == LockCheckModeFromPlanArgs(e).rest
<1>1. ts \in Seq(Closed(F)) /\ ShellWords(e).words = Words(ts)
  BY SplittersAgree
<1>2. /\ LockCheckMode(ts).rest \in Seq(Closed(F))
      /\ LockCheckMode(Words(ts)).rest = Words(LockCheckMode(ts).rest)
  BY <1>1, ScanReads
<1>3. /\ rest \in Seq(F) /\ ShellWords(rest).ok
      /\ ShellWords(rest).words = LockCheckMode(ShellWords(e).words).rest
  <2>1. CASE LockCheckMode(ts).present
    <3>1. rest = JoinTokens(LockCheckMode(ts).rest)
      BY <2>1 DEF LockCheckModeFromPlanArgs
    <3>2. QED
      BY <1>1, <1>2, <3>1, JoinReads
  <2>2. CASE ~LockCheckMode(ts).present
    <3>1. rest = e
      BY <2>2 DEF LockCheckModeFromPlanArgs
    <3>2. ts \in Seq(Seq(F))
      BY RestTyped
    <3>3. LockCheckMode(ts).rest = ts
      BY <2>2, <3>2, ScanLeaves
    <3>4. QED
      BY <1>1, <1>2, <3>1, <3>3
  <2>3. QED
    BY <2>1, <2>2
<1> HIDE DEF rest
<1>4. QED
  BY <1>3, LockFalseFits DEF PlanEnv, rest
=============================================================================
