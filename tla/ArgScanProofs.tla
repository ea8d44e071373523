--------------------------- MODULE ArgScanProofs ---------------------------
(* What the flag-stripping loop does to an argument list of any length.       *)
EXTENDS ArgScan, TFArgsProofs, FiniteSetTheorems

(* What cutLockCheckValue leaves of an argument is a text.                    *)
LEMMA ValueIsText ==
    ASSUME NEW a \in Text, HasLockCheckValue(a)
    PROVE  Tail(a) \in Text
  BY DEF HasLockCheckValue, StartsWith, Text

LEMMA InitTypeOK == Init => TypeOK
<1> SUFFICES ASSUME Init
             PROVE  TypeOK
  OBVIOUS
<1>1. args \in Seq(Text)
  BY InputsAssumption DEF Init, InputsAssumption
<1>2. Len(args) \in Nat
  BY <1>1
<1>3. mode \in Text
  BY DEF Init, Text
<1>4. 1 \in 1..(Len(args) + 1)
  BY <1>2
<1>5. rest \in Seq(Text) /\ from \in Seq(Nat)
  <2>1. rest = <<>> /\ from = <<>>
    BY DEF Init
  <2>2. QED
    BY <2>1
<1>6. present \in BOOLEAN /\ done \in BOOLEAN
  BY DEF Init
<1>7. QED
  BY <1>1, <1>3, <1>4, <1>5, <1>6 DEF Init, TypeOK

(* Every variable of the loop keeps its type; the index never leaves the list *)
(* by more than one, although a bare flag skips its value.                    *)
THEOREM ScanTypeCorrect == Spec => []TypeOK
<1> USE DEF TypeOK
<1>1. Init => TypeOK
  BY InitTypeOK
<1>2. TypeOK /\ [Next]_vars => TypeOK'
  <2> SUFFICES ASSUME TypeOK, [Next]_vars
               PROVE  TypeOK'
    OBVIOUS
  <2>1. ASSUME NEW j \in 1..Len(args)
        PROVE  args[j] \in Text
    OBVIOUS
  <2>2. i <= Len(args) => i \in 1..Len(args) /\ i + 1 \in 1..(Len(args) + 1)
    OBVIOUS
  <2>3. CASE WithValue
    <3>1. mode' \in Text
      BY <2>1, <2>2, <2>3, ValueIsText DEF WithValue
    <3>2. QED
      BY <2>2, <2>3, <3>1 DEF WithValue
  <2>4. CASE BareFlag
    <3>1. CASE i < Len(args)
      <4>1. i + 1 \in 1..Len(args) /\ i + 2 \in 1..(Len(args) + 1)
        BY <3>1
      <4>2. mode' \in Text
        BY <2>1, <2>4, <3>1, <4>1 DEF BareFlag
      <4>3. QED
        BY <2>4, <3>1, <4>1, <4>2 DEF BareFlag
    <3>2. CASE ~(i < Len(args))
      BY <2>2, <2>4, <3>2 DEF BareFlag
    <3>3. QED
      BY <3>1, <3>2
  <2>5. CASE Keep
    BY <2>1, <2>2, <2>5 DEF Keep
  <2>6. CASE Return
    BY <2>6 DEF Return
  <2>7. CASE UNCHANGED vars
    BY <2>7 DEF vars
  <2>8. QED
    BY <2>3, <2>4, <2>5, <2>6, <2>7 DEF Next
<1>3. QED
  BY <1>1, <1>2, PTL DEF Spec

(* What terraform is handed of the command line is what the caller gave, in   *)
(* order and without duplicates, and nothing the loop recognises as           *)
(* parraform's own flag is left in it, for lists of any length.               *)
THEOREM FlagStripped == Spec => []KeptInOrder
<1>1. Init => KeptInOrder
  <2>1. ASSUME Init
        PROVE  Len(from) = 0 /\ Len(rest) = 0 /\ 1..Len(from) = {}
    <3>1. rest = <<>> /\ from = <<>>
      BY <2>1 DEF Init
    <3>2. QED
      BY <3>1
  <2>2. QED
    BY <2>1 DEF KeptInOrder
<1>2. TypeOK /\ KeptInOrder /\ [Next]_vars => KeptInOrder'
  <2> SUFFICES ASSUME TypeOK, KeptInOrder, [Next]_vars
               PROVE  KeptInOrder'
    OBVIOUS
  <2>1. ASSUME UNCHANGED <<args, rest, from>>, i' \in Nat, i <= i'
        PROVE  KeptInOrder'
    BY <2>1 DEF KeptInOrder, TypeOK
  <2>2. CASE WithValue
    BY <2>1, <2>2 DEF WithValue, TypeOK
  <2>3. CASE BareFlag
    <3>1. i' \in Nat /\ i <= i'
      BY <2>3 DEF BareFlag, TypeOK
    <3>2. QED
      BY <2>1, <2>3, <3>1 DEF BareFlag
  <2>4. CASE Keep
    <3> USE DEF TypeOK
    <3>1. /\ Len(from') = Len(from) + 1
          /\ Len(rest') = Len(from')
          /\ \A k \in 1..Len(from) : from'[k] = from[k] /\ rest'[k] = rest[k]
          /\ from'[Len(from')] = i
          /\ rest'[Len(from')] = args[i]
      BY <2>4 DEF Keep, KeptInOrder
    <3>2. ASSUME NEW k \in 1..Len(from')
          PROVE  /\ from'[k] \in 1..i
                 /\ rest'[k] = args[from'[k]]
                 /\ ~HasLockCheckValue(rest'[k])
                 /\ ~IsLockCheckFlag(rest'[k])
      <4>1. CASE k = Len(from')
        BY <2>4, <3>1, <4>1 DEF Keep
      <4>2. CASE k # Len(from')
        <5>1. k \in 1..Len(from)
          BY <3>1, <4>2
        <5>2. from[k] \in 1..(i - 1) /\ from[k] \in 1..i
          BY <5>1 DEF KeptInOrder
        <5>3. QED
          BY <2>4, <3>1, <5>1, <5>2 DEF KeptInOrder, Keep
      <4>3. QED
        BY <4>1, <4>2
    <3>3. ASSUME NEW k \in 1..Len(from'), NEW l \in 1..Len(from'), k < l
          PROVE  from'[k] < from'[l]
      <4>1. k \in 1..Len(from)
        BY <3>1, <3>3
      <4>2. CASE l = Len(from')
        <5>1. from'[l] = i
          BY <3>1, <4>2
        <5>2. from'[k] = from[k] /\ from[k] \in 1..(i - 1)
          BY <3>1, <4>1 DEF KeptInOrder
        <5>3. QED
          BY <5>1, <5>2
      <4>3. CASE l # Len(from')
        <5>1. l \in 1..Len(from)
          <6>1. l \in 1..(Len(from) + 1) /\ l # Len(from) + 1
            BY <3>1, <3>3, <4>3
          <6>2. QED
            BY <6>1
        <5>2. QED
          BY <3>1, <3>3, <4>1, <5>1 DEF KeptInOrder
      <4>4. QED
        BY <4>2, <4>3
    <3>4. i' - 1 = i /\ args' = args
      BY <2>4 DEF Keep
    <3>5. QED
      BY <3>1, <3>2, <3>3, <3>4 DEF KeptInOrder
  <2>5. CASE Return
    BY <2>1, <2>5 DEF Return, TypeOK
  <2>6. CASE UNCHANGED vars
    BY <2>1, <2>6 DEF vars, TypeOK
  <2>7. QED
    BY <2>2, <2>3, <2>4, <2>5, <2>6 DEF Next
<1>3. QED
  BY <1>1, <1>2, ScanTypeCorrect, PTL DEF Spec

-----------------------------------------------------------------------------
(* The arguments up to n + 1 are those up to n and one more.                  *)
LEMMA NextPrefix ==
    ASSUME NEW B, NEW s \in Seq(B), NEW n \in 0..(Len(s) - 1)
    PROVE  /\ SubSeq(s, 1, n) \in Seq(B)
           /\ s[n + 1] \in B
           /\ SubSeq(s, 1, n + 1) = Append(SubSeq(s, 1, n), s[n + 1])
<1>1. Len(s) \in Nat /\ n \in Nat /\ n + 1 \in 1..Len(s)
  BY LenProperties
<1>2. s[n + 1] \in B
  BY <1>1, ElementOfSeq
<1>3. /\ SubSeq(s, 1, n) \in Seq(B) /\ Len(SubSeq(s, 1, n)) = n
      /\ SubSeq(s, 1, n + 1) \in Seq(B) /\ Len(SubSeq(s, 1, n + 1)) = n + 1
      /\ \A k \in 1..n : SubSeq(s, 1, n)[k] = s[k]
      /\ \A k \in 1..(n + 1) : SubSeq(s, 1, n + 1)[k] = s[k]
  BY <1>1
<1>4. QED
  BY <1>1, <1>2, <1>3

(* At the head of the loop the fold over the arguments read so far holds what *)
(* the loop holds.  Behind a bare flag at the end of the list the fold still  *)
(* waits for a value that the loop has given up.                              *)
FoldSoFar ==
    LET s == LockCheckMode(SubSeq(args, 1, i - 1))
    IN  /\ s.mode = mode
        /\ s.present = present
        /\ s.rest = rest
        /\ i <= Len(args) => ~s.take

(* One round of the loop over an argument that takes one place.               *)
LEMMA FoldRound ==
    ASSUME TypeOK, i <= Len(args)
    PROVE  /\ LockCheckMode(SubSeq(args, 1, i)) =
                ScanToken(LockCheckMode(SubSeq(args, 1, i - 1)), args[i])
           /\ LockCheckMode(SubSeq(args, 1, i - 1)) \in ScanStates(Fragments)
<1>1. args \in Seq(Seq(Fragments)) /\ i - 1 \in 0..(Len(args) - 1)
  BY DEF TypeOK, Text
<1>2. /\ SubSeq(args, 1, i - 1) \in Seq(Seq(Fragments))
      /\ args[(i - 1) + 1] \in Seq(Fragments)
      /\ SubSeq(args, 1, (i - 1) + 1) =
           Append(SubSeq(args, 1, i - 1), args[(i - 1) + 1])
  BY <1>1, NextPrefix
<1>3. (i - 1) + 1 = i
  BY DEF TypeOK
<1>4. QED
  BY <1>2, <1>3, ScanUnfolds

LEMMA FoldSoFarHolds == Spec => []FoldSoFar
<1>1. Init => FoldSoFar
  <2> SUFFICES ASSUME Init
               PROVE  FoldSoFar
    OBVIOUS
  <2>1. args \in Seq(Text)
    BY InputsAssumption DEF Init, InputsAssumption
  <2>2. SubSeq(args, 1, i - 1) = <<>>
    BY <2>1 DEF Init
  <2>3. LockCheckMode(<<>>) = ScanStart
    BY ScanUnfolds
  <2>4. /\ ScanStart.mode = <<>> /\ ScanStart.present = FALSE
        /\ ScanStart.rest = <<>> /\ ScanStart.take = FALSE
    BY DEF ScanStart
  <2>5. QED
    BY <2>2, <2>3, <2>4, Zenon DEF FoldSoFar, Init
<1>2. TypeOK /\ FoldSoFar /\ [Next]_vars => FoldSoFar'
  <2> SUFFICES ASSUME TypeOK, FoldSoFar, [Next]_vars
               PROVE  FoldSoFar'
    OBVIOUS
  <2> DEFINE s == LockCheckMode(SubSeq(args, 1, i - 1))
             t == LockCheckMode(SubSeq(args, 1, i))
  <2>1. /\ s.mode = mode /\ s.present = present /\ s.rest = rest
        /\ i <= Len(args) => ~s.take
    BY DEF FoldSoFar
  <2>2. i <= Len(args) => t = ScanToken(s, args[i]) /\ s \in ScanStates(Fragments)
    BY FoldRound
  <2>3. ~(HasLockCheckValue(args[i]) /\ IsLockCheckFlag(args[i]))
    BY DEF HasLockCheckValue, StartsWith, IsLockCheckFlag
  <2>4. i \in Nat /\ (i + 1) - 1 = i /\ Len(args) \in Nat
    BY DEF TypeOK
  <2> HIDE DEF s, t
  <2>5. ASSUME i' = i + 1, args' = args,
               t.mode = mode', t.present = present', t.rest = rest',
               i + 1 <= Len(args) => ~t.take
        PROVE  FoldSoFar'
    <3>1. LockCheckMode(SubSeq(args, 1, i - 1))' = t
      BY <2>4, <2>5 DEF t
    <3>2. QED
      BY <2>5, <3>1 DEF FoldSoFar
  <2>6. CASE WithValue
    BY <2>1, <2>2, <2>3, <2>5, <2>6 DEF WithValue, ScanToken, ScanStates
  <2>7. CASE BareFlag
    <3>1. /\ t.mode = mode /\ t.present /\ t.rest = rest /\ t.take
          /\ present' /\ rest' = rest /\ args' = args
      BY <2>1, <2>2, <2>3, <2>7 DEF BareFlag, ScanToken, ScanStates
    <3>2. CASE i < Len(args)
      <4> DEFINE u == LockCheckMode(SubSeq(args, 1, i + 1))
      <4>1. u = ScanToken(t, args[i + 1]) /\ t \in ScanStates(Fragments)
        <5>1. args \in Seq(Seq(Fragments)) /\ i \in 0..(Len(args) - 1)
          BY <3>2 DEF TypeOK, Text
        <5>2. /\ SubSeq(args, 1, i) \in Seq(Seq(Fragments))
              /\ args[i + 1] \in Seq(Fragments)
              /\ SubSeq(args, 1, i + 1) =
                   Append(SubSeq(args, 1, i), args[i + 1])
          BY <5>1, NextPrefix
        <5>3. QED
          BY <5>2, ScanUnfolds DEF t
      <4> HIDE DEF u
      <4>2. /\ u.mode = args[i + 1] /\ u.present /\ u.rest = rest
            /\ ~u.take
        BY <3>1, <4>1 DEF ScanToken, ScanStates
      <4>3. i' = i + 2 /\ mode' = args[i + 1] /\ i' - 1 = i + 1
        BY <2>4, <2>7, <3>2 DEF BareFlag
      <4>4. LockCheckMode(SubSeq(args, 1, i - 1))' = u
        BY <3>1, <4>3 DEF u
      <4>5. present' = TRUE /\ u.present = TRUE
        BY <2>7, <4>1, <4>2 DEF BareFlag, ScanToken, ScanStates
      <4>6. QED
        BY <3>1, <4>2, <4>3, <4>4, <4>5 DEF FoldSoFar
    <3>3. CASE ~(i < Len(args))
      <4>1. i' = i + 1 /\ mode' = mode /\ ~(i + 1 <= Len(args))
        BY <2>4, <2>7, <3>3 DEF BareFlag
      <4>2. t.present = present'
        BY <2>1, <2>2, <2>3, <2>7 DEF BareFlag, ScanToken, ScanStates
      <4>3. QED
        BY <2>5, <3>1, <4>1, <4>2
    <3>4. QED
      BY <3>2, <3>3
  <2>8. CASE Keep
    BY <2>1, <2>2, <2>5, <2>8 DEF Keep, ScanToken, ScanStates
  <2>9. CASE Return
    BY <2>9 DEF Return, FoldSoFar
  <2>10. CASE UNCHANGED vars
    BY <2>10 DEF vars, FoldSoFar
  <2>11. QED
    BY <2>6, <2>7, <2>8, <2>9, <2>10 DEF Next
<1>3. QED
  BY <1>1, <1>2, ScanTypeCorrect, PTL DEF Spec

(* The loop has ended only behind the end of the list.                        *)
EndsAtEnd == done => i = Len(args) + 1

LEMMA EndsAtEndHolds == Spec => []EndsAtEnd
<1>1. Init => EndsAtEnd
  BY DEF Init, EndsAtEnd
<1>2. TypeOK /\ EndsAtEnd /\ [Next]_vars => EndsAtEnd'
  <2> SUFFICES ASSUME TypeOK, EndsAtEnd, [Next]_vars
               PROVE  EndsAtEnd'
    OBVIOUS
  <2>1. Len(args) \in Nat /\ i \in 1..(Len(args) + 1)
    BY DEF TypeOK
  <2>2. done /\ i <= Len(args) => FALSE
    BY <2>1 DEF EndsAtEnd
  <2>3. CASE WithValue \/ BareFlag \/ Keep
    BY <2>2, <2>3 DEF EndsAtEnd, WithValue, BareFlag, Keep
  <2>4. CASE Return
    BY <2>1, <2>4 DEF EndsAtEnd, Return
  <2>5. CASE UNCHANGED vars
    BY <2>5 DEF EndsAtEnd, vars
  <2>6. QED
    BY <2>3, <2>4, <2>5 DEF Next
<1>3. QED
  BY <1>1, <1>2, ScanTypeCorrect, PTL DEF Spec

(* The loop returns what the fold that RunTerraform uses in its place returns,*)
(* for lists of any length, also where a bare flag has no value.              *)
THEOREM LoopIsFold == Spec => []FoldAgrees
<1>1. TypeOK /\ FoldSoFar /\ EndsAtEnd => FoldAgrees
  <2> SUFFICES ASSUME TypeOK, FoldSoFar, EndsAtEnd, done
               PROVE  /\ LockCheckMode(args).mode = mode
                      /\ LockCheckMode(args).present = present
                      /\ LockCheckMode(args).rest = rest
    BY DEF FoldAgrees
  <2>1. SubSeq(args, 1, i - 1) = args
    BY DEF TypeOK, EndsAtEnd
  <2>2. QED
    BY <2>1 DEF FoldSoFar
<1>2. QED
  BY <1>1, ScanTypeCorrect, FoldSoFarHolds, EndsAtEndHolds, PTL

-----------------------------------------------------------------------------
(* Each argument either goes on with the bare flags in front of it or ends    *)
(* their run.                                                                 *)
LEMMA BareRunStep ==
    ASSUME TypeOK, NEW j \in 1..Len(args)
    PROVE  /\ BareRun(1) = 0
           /\ BareRun(j) \in Nat
           /\ BareRun(j + 1) = IF IsLockCheckFlag(args[j]) THEN BareRun(j) + 1
                               ELSE 0
<1> DEFINE R(n) == {k \in 1..(n - 1) :
                      \A m \in k..(n - 1) : IsLockCheckFlag(args[m])}
<1>1. j \in Nat /\ j # 0
  BY DEF TypeOK
<1>2. IsFiniteSet(R(j)) /\ Cardinality(R(j)) \in Nat
  <2>1. IsFiniteSet(1..(j - 1))
    BY <1>1, FS_Interval
  <2>2. IsFiniteSet(R(j))
    BY <2>1, FS_Subset
  <2>3. QED
    BY <2>2, FS_CardinalityType
<1>3. R(1) = {} /\ Cardinality({}) = 0
  BY FS_EmptySet
<1>4. CASE IsLockCheckFlag(args[j])
  <2>1. R(j + 1) = R(j) \cup {j} /\ j \notin R(j)
    BY <1>1, <1>4
  <2>2. Cardinality(R(j + 1)) = Cardinality(R(j)) + 1
    <3> HIDE DEF R
    <3>1. QED
      BY <1>2, <2>1, FS_AddElement
  <2>3. QED
    BY <1>2, <1>3, <1>4, <2>2 DEF BareRun
<1>5. CASE ~IsLockCheckFlag(args[j])
  <2>1. R(j + 1) = {}
    BY <1>1, <1>5
  <2>2. QED
    BY <1>2, <1>3, <1>5, <2>1 DEF BareRun
<1>6. QED
  BY <1>4, <1>5

\* The position after an argument is a value if the argument is the bare flag.
LEMMA ValueStep ==
    ASSUME TypeOK, NEW j \in 1..Len(args)
    PROVE  /\ ~IsValue(1)
           /\ IsValue(j + 1) <=> ~IsValue(j) /\ IsLockCheckFlag(args[j])
<1>1. /\ BareRun(1) = 0 /\ BareRun(j) \in Nat
      /\ BareRun(j + 1) = IF IsLockCheckFlag(args[j]) THEN BareRun(j) + 1
                          ELSE 0
  BY BareRunStep
<1>2. QED
  BY <1>1 DEF IsValue

(* What ScanCorrect says of a finished loop, of the arguments read so far;    *)
(* the loop never stands at the value of a flag.                              *)
ScanSoFar ==
    /\ i <= Len(args) => ~IsValue(i)
    /\ {from[k] : k \in 1..Len(from)} =
         {j \in 1..(i - 1) : ~IsValue(j) /\ ~IsFlag(j)}
    /\ present <=> \E j \in 1..(i - 1) : IsFlag(j)
    /\ (\A j \in Givers : ~(j < i)) => mode = <<>>
    /\ \A j \in Givers :
         j < i /\ (\A k \in Givers : k < i => k <= j) =>
            mode = IF IsValue(j) THEN args[j] ELSE Tail(args[j])

LEMMA ScanSoFarInit == Init => ScanSoFar
<1> SUFFICES ASSUME Init
             PROVE  ScanSoFar
  OBVIOUS
<1>1. TypeOK
  BY InitTypeOK
<1>2. /\ i = 1 /\ 1..(i - 1) = {} /\ 1..Len(from) = {} /\ ~present
      /\ \A j \in Givers : ~(j < i)
      /\ mode = <<>>
  BY DEF Init, Givers
<1>3. i <= Len(args) => ~IsValue(i)
  BY <1>1, <1>2, ValueStep DEF TypeOK
<1>4. QED
  BY <1>2, <1>3 DEF ScanSoFar

(* Reading one argument that is no value: what was read so far grows by one   *)
(* position.                                                                  *)
LEMMA OneMore ==
    ASSUME TypeOK, i <= Len(args), ~IsValue(i)
    PROVE  /\ i \in 1..Len(args)
           /\ 1..i = (1..(i - 1)) \cup {i}
           /\ IsFlag(i) <=> HasLockCheckValue(args[i]) \/ IsLockCheckFlag(args[i])
           /\ i \in Givers <=> HasLockCheckValue(args[i])
           /\ \A j \in Givers : j \in 1..Len(args) /\ (j < i + 1 <=> j < i \/ j = i)
<1>1. i \in 1..Len(args) /\ Len(args) \in Nat
  BY DEF TypeOK
<1>2. QED
  BY <1>1 DEF IsFlag, Givers

LEMMA ScanSoFarNext ==
    ASSUME TypeOK, ScanSoFar, [Next]_vars
    PROVE  ScanSoFar'
<1>1. ASSUME args' = args
      PROVE  /\ \A j : /\ IsValue(j)' <=> IsValue(j)
                       /\ IsFlag(j)' <=> IsFlag(j)
             /\ Givers' = Givers
  BY <1>1 DEF IsValue, IsFlag, BareRun, Givers
<1> DEFINE ValueAhead(n) == i' = n /\ args' = args => (IsValue(i)' <=> IsValue(n))
<1>0. \A n : ValueAhead(n)
  BY DEF IsValue, BareRun
<1>2. /\ i \in Nat /\ i >= 1 /\ Len(args) \in Nat
      /\ (i + 1) - 1 = i /\ (i + 2) - 1 = i + 1
  BY DEF TypeOK
<1>3. ~(HasLockCheckValue(args[i]) /\ IsLockCheckFlag(args[i]))
  BY DEF HasLockCheckValue, StartsWith, IsLockCheckFlag
<1>4. i <= Len(args) =>
        /\ ~IsValue(i)
        /\ i \in 1..Len(args)
        /\ 1..i = (1..(i - 1)) \cup {i}
        /\ IsFlag(i) <=> HasLockCheckValue(args[i]) \/ IsLockCheckFlag(args[i])
        /\ i \in Givers <=> HasLockCheckValue(args[i])
        /\ \A j \in Givers :
              j \in 1..Len(args) /\ (j < i + 1 <=> j < i \/ j = i)
  BY OneMore DEF ScanSoFar
<1>5. i <= Len(args) => (IsValue(i + 1) <=> IsLockCheckFlag(args[i]))
  BY <1>4, ValueStep
<1>6. CASE WithValue
  <2>1. args' = args /\ i' = i + 1 /\ from' = from /\ i <= Len(args)
    BY <1>6 DEF WithValue
  <2>2. ~IsValue(i)'
    BY <1>0, <1>3, <1>5, <1>6, <2>1 DEF WithValue
  <2>3. {from'[k] : k \in 1..Len(from')} =
          {j \in 1..(i' - 1) : ~IsValue(j)' /\ ~IsFlag(j)'}
    BY <1>1, <1>2, <1>4, <1>6, <2>1 DEF WithValue, ScanSoFar
  <2>4. present' <=> \E j \in 1..(i' - 1) : IsFlag(j)'
    BY <1>1, <1>2, <1>4, <1>6, <2>1 DEF WithValue
  <2>5. ASSUME NEW j \in Givers, j < i', \A k \in Givers : k < i' => k <= j
        PROVE  mode' = IF IsValue(j) THEN args[j] ELSE Tail(args[j])
    <3>1. j = i
      BY <1>2, <1>4, <1>6, <2>1, <2>5 DEF WithValue
    <3>2. QED
      BY <1>4, <1>6, <2>1, <3>1 DEF WithValue
  <2>6. i \in Givers /\ i < i'
    BY <1>2, <1>4, <1>6, <2>1 DEF WithValue
  <2>7. QED
    BY <1>1, <2>1, <2>2, <2>3, <2>4, <2>5, <2>6 DEF ScanSoFar
<1>7. CASE BareFlag
  <2>1. args' = args /\ from' = from /\ i <= Len(args) /\ present'
    BY <1>7 DEF BareFlag
  <2>2. CASE i < Len(args)
    <3>1. i' = i + 2 /\ mode' = args[i + 1] /\ i' - 1 = i + 1
      BY <1>2, <1>7, <2>2 DEF BareFlag
    <3>2. i + 1 \in 1..Len(args) /\ IsValue(i + 1) /\ i + 1 \in Givers
      BY <1>2, <1>5, <1>7, <2>2 DEF BareFlag, Givers
    <3>3. ~IsValue(i + 2)
      BY <1>2, <3>2, ValueStep
    <3>4. IsFlag(i) /\ ~IsFlag(i + 1)
      BY <1>4, <1>7, <2>1, <3>2 DEF BareFlag, IsFlag
    <3>5. 1..(i + 1) = (1..(i - 1)) \cup {i, i + 1}
      BY <1>2
    <3>6. ~IsValue(i)'
      BY <1>0, <2>1, <3>1, <3>3
    <3>7. {from'[k] : k \in 1..Len(from')} =
            {j \in 1..(i' - 1) : ~IsValue(j)' /\ ~IsFlag(j)'}
      BY <1>1, <1>2, <2>1, <3>1, <3>2, <3>4, <3>5 DEF ScanSoFar
    <3>8. present' <=> \E j \in 1..(i' - 1) : IsFlag(j)'
      BY <1>1, <1>2, <2>1, <3>1, <3>4, <3>5
    <3>9. ASSUME NEW j \in Givers, j < i', \A k \in Givers : k < i' => k <= j
          PROVE  mode' = IF IsValue(j) THEN args[j] ELSE Tail(args[j])
      <4>1. j = i + 1
        BY <1>2, <1>4, <2>1, <3>1, <3>2, <3>9
      <4>2. QED
        BY <3>1, <3>2, <4>1
    <3>10. i + 1 \in Givers /\ i + 1 < i'
      BY <1>2, <3>1, <3>2
    <3>11. QED
      BY <1>1, <2>1, <3>6, <3>7, <3>8, <3>9, <3>10 DEF ScanSoFar
  <2>3. CASE ~(i < Len(args))
    <3>1. i' = i + 1 /\ mode' = mode /\ ~(i' <= Len(args')) /\ i' - 1 = i
      BY <1>2, <1>7, <2>1, <2>3 DEF BareFlag
    <3>2. IsFlag(i) /\ i \notin Givers
      BY <1>3, <1>4, <1>7, <2>1 DEF BareFlag
    <3>3. {from'[k] : k \in 1..Len(from')} =
            {j \in 1..(i' - 1) : ~IsValue(j)' /\ ~IsFlag(j)'}
      BY <1>1, <1>4, <2>1, <3>1, <3>2 DEF ScanSoFar
    <3>4. present' <=> \E j \in 1..(i' - 1) : IsFlag(j)'
      BY <1>1, <1>4, <2>1, <3>1, <3>2
    <3>5. ASSUME NEW j \in Givers, j < i', \A k \in Givers : k < i' => k <= j
          PROVE  mode' = IF IsValue(j) THEN args[j] ELSE Tail(args[j])
      <4>1. j < i /\ \A k \in Givers : k < i => k <= j
        BY <1>4, <2>1, <3>1, <3>2, <3>5
      <4>2. QED
        BY <3>1, <4>1 DEF ScanSoFar
    <3>6. (\A j \in Givers : ~(j < i')) => mode' = <<>>
      BY <1>4, <2>1, <3>1, <3>2 DEF ScanSoFar
    <3>7. QED
      BY <1>1, <2>1, <3>1, <3>3, <3>4, <3>5, <3>6 DEF ScanSoFar
  <2>4. QED
    BY <2>2, <2>3
<1>8. CASE Keep
  <2>1. /\ args' = args /\ i' = i + 1 /\ i' - 1 = i /\ i <= Len(args)
        /\ mode' = mode /\ present' = present /\ from' = Append(from, i)
    BY <1>2, <1>8 DEF Keep
  <2>2. ~IsFlag(i) /\ i \notin Givers /\ ~IsValue(i + 1) /\ ~IsValue(i)
    BY <1>4, <1>5, <1>8, <2>1 DEF Keep
  <2>3. {from'[k] : k \in 1..Len(from')} =
          {j \in 1..(i' - 1) : ~IsValue(j)' /\ ~IsFlag(j)'}
    <3>1. {from'[k] : k \in 1..Len(from')} =
            {from[k] : k \in 1..Len(from)} \cup {i}
      <4>1. /\ Len(from) \in Nat /\ Len(from') = Len(from) + 1
            /\ from'[Len(from')] = i
            /\ \A k \in 1..Len(from) : from'[k] = from[k]
        BY <2>1 DEF TypeOK
      <4>2. 1..Len(from') = (1..Len(from)) \cup {Len(from')}
        BY <4>1
      <4>3. QED
        BY <4>1, <4>2
    <3>2. QED
      BY <1>1, <1>4, <2>1, <2>2, <3>1 DEF ScanSoFar
  <2>4. present' <=> \E j \in 1..(i' - 1) : IsFlag(j)'
    BY <1>1, <1>4, <2>1, <2>2 DEF ScanSoFar
  <2>5. ASSUME NEW j \in Givers, j < i', \A k \in Givers : k < i' => k <= j
        PROVE  mode' = IF IsValue(j) THEN args[j] ELSE Tail(args[j])
    <3>1. j < i /\ \A k \in Givers : k < i => k <= j
      BY <1>4, <2>1, <2>2, <2>5
    <3>2. QED
      BY <2>1, <3>1 DEF ScanSoFar
  <2>6. ~IsValue(i)'
    BY <1>0, <2>1, <2>2
  <2>7. (\A j \in Givers : ~(j < i')) => mode' = <<>>
    BY <1>4, <2>1, <2>2 DEF ScanSoFar
  <2>8. QED
    BY <1>1, <2>1, <2>3, <2>4, <2>5, <2>6, <2>7 DEF ScanSoFar
<1>9. CASE Return \/ UNCHANGED vars
  <2>1. UNCHANGED <<args, i, mode, present, from>>
    BY <1>9 DEF Return, vars
  <2>2. QED
    BY <1>1, <2>1 DEF ScanSoFar
<1>10. QED
  BY <1>6, <1>7, <1>8, <1>9 DEF Next

(* For lists of any length: exactly the arguments that are neither the flag   *)
(* nor its value are kept, where of bare flags in a row each second one is a  *)
(* value; without a value the mode is empty, and else it is the last one      *)
(* given, but for lists that end in a bare flag, where code and documentation *)
(* disagree.                                                                  *)
THEOREM LoopIsCorrect == Spec => []ScanCorrect
<1>1. TypeOK /\ ScanSoFar /\ EndsAtEnd => ScanCorrect
  <2> SUFFICES ASSUME TypeOK, ScanSoFar, EndsAtEnd, done
               PROVE  ScanCorrect
    BY DEF ScanCorrect
  <2>1. i - 1 = Len(args) /\ i = Len(args) + 1 /\ Len(args) \in Nat
    BY DEF TypeOK, EndsAtEnd
  <2>2. \A j \in Givers : j < i
    BY <2>1 DEF Givers
  <2>3. Givers = {} => mode = <<>>
    BY DEF ScanSoFar
  <2>4. QED
    BY <2>1, <2>2, <2>3 DEF ScanSoFar, ScanCorrect
<1>2. Spec => []ScanSoFar
  BY ScanSoFarInit, ScanSoFarNext, ScanTypeCorrect, PTL DEF Spec
<1>3. QED
  BY <1>1, <1>2, ScanTypeCorrect, EndsAtEndHolds, PTL
=============================================================================
