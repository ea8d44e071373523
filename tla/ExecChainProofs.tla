--------------------------- MODULE ExecChainProofs ---------------------------
(* What parraform becomes, for every PATH and any number of copies of it.     *)
EXTENDS ExecChain, FiniteSetTheorems, TLAPS

THEOREM ChainTypeCorrect == Spec => []TypeOK
<1>1. Init => TypeOK
  BY DEF Init, TypeOK, Files
<1>2. TypeOK /\ [Next]_vars => TypeOK'
  BY DEF TypeOK, Next, vars, UseOverride, Search, Candidate, NotFound, Exec,
         ExecFails, Files
<1>3. QED
  BY <1>1, <1>2, PTL DEF Spec

\* The file in bin is the override or was found behind parraforms only.
Chosen ==
    pc \in {"exec", "terraform"} =>
        \/ bin = override
        \/ \E i \in 1..Len(path) : bin = path[i] /\ Foremost(i)

(* The inductive invariant behind DelegatesToFirst.                           *)
ChainInv ==
    /\ path \in Seq(Entries)
    /\ pc = "resolve" => image \in Parraforms
    /\ pc = "terraform" => image = bin
    /\ Chosen

LEMMA ChainInvStep == ChainInv /\ [Next]_vars => ChainInv'
<1> SUFFICES ASSUME ChainInv, [Next]_vars
             PROVE  ChainInv'
  OBVIOUS
<1> USE DEF ChainInv, Chosen, Foremost
<1>1. CASE UseOverride
  BY <1>1 DEF UseOverride
<1>2. CASE Search
  <2>1. PICK i \in 1..Len(path) :
          /\ bin' = path[i]
          /\ \A j \in 1..(i - 1) : ~Candidate(j)
    BY <1>2 DEF Search
  <2>2. path' = path /\ pc' = "exec" /\ image \in Parraforms
    BY <1>2 DEF Search
  <2>3. ASSUME NEW j \in 1..(i - 1)
        PROVE  path[j] \in Parraforms \cup {"dir", "none"}
    <3>1. j \in 1..Len(path)
      BY <2>1, <2>3
    <3>2. path[j] \in Entries
      BY <3>1
    <3>3. CASE path[j] \in Files
      BY <2>1, <2>2, <2>3, <3>3 DEF Candidate
    <3>4. QED
      BY <3>2, <3>3 DEF Entries
  <2>4. QED
    BY <2>1, <2>2, <2>3
<1>3. CASE NotFound
  BY <1>3 DEF NotFound
<1>4. CASE Exec
  BY <1>4 DEF Exec
<1>5. CASE ExecFails
  BY <1>5 DEF ExecFails
<1>6. CASE UNCHANGED vars
  BY <1>6 DEF vars
<1>7. QED
  BY <1>1, <1>2, <1>3, <1>4, <1>5, <1>6 DEF Next

(* What runs in the end is the override or what PATH has in front of all      *)
(* other terraforms, however many parraforms have passed the call on.         *)
THEOREM DelegatesToFirstFound == Spec => []DelegatesToFirst
<1>1. Init => ChainInv
  BY FilesAssumption DEF FilesAssumption, Init, ChainInv, Chosen
<1>2. ChainInv => DelegatesToFirst
  BY DEF ChainInv, Chosen, DelegatesToFirst
<1>3. QED
  BY <1>1, <1>2, ChainInvStep, PTL DEF Spec

\* The last search: which position it took, and what it passed over.
FoundAt(i, self) ==
    /\ bin = path[i]
    /\ \A j \in 1..(i - 1) : path[j] \in Files => knowsSelf /\ path[j] = self

(* The inductive invariant behind EndsOnlyIfSane: at most one parraform is    *)
(* passed over on the way to the file that runs, the one that searched.       *)
SaneInv ==
    /\ path \in Seq(Entries) /\ bin \in Files
    /\ override \in Files \cup {NoOverride}
    /\ pc \in {"exec", "terraform"} =>
         IF override # NoOverride THEN bin = override
         ELSE \E i \in 1..Len(path), self \in Files : FoundAt(i, self)
    /\ pc = "resolve" => image \in Parraforms
    /\ pc = "terraform" => bin \in Terraforms

LEMMA SaneInvStep == SaneInv /\ [Next]_vars => SaneInv'
<1> SUFFICES ASSUME SaneInv, [Next]_vars
             PROVE  SaneInv'
  OBVIOUS
<1> USE DEF SaneInv
<1>1. CASE UseOverride
  BY <1>1 DEF UseOverride
<1>2. CASE Search
  <2>1. PICK i \in 1..Len(path) :
          /\ Candidate(i) /\ bin' = path[i]
          /\ \A j \in 1..(i - 1) : ~Candidate(j)
    BY <1>2 DEF Search
  <2>2. /\ UNCHANGED <<path, override, knowsSelf, image>>
        /\ pc' = "exec" /\ override = NoOverride /\ image \in Parraforms
    BY <1>2 DEF Search
  <2>3. FoundAt(i, image)'
    BY <2>1, <2>2 DEF FoundAt, Candidate
  <2>4. image' \in Files /\ bin' \in Files
    BY <2>1, <2>2 DEF Files, Candidate
  <2>5. QED
    BY <2>1, <2>2, <2>3, <2>4
<1>3. CASE NotFound
  BY <1>3 DEF NotFound
<1>4. CASE Exec
  <2>1. /\ UNCHANGED <<path, override, knowsSelf, bin>>
        /\ image' = bin /\ bin \notin Plain
        /\ pc = "exec"
        /\ pc' = IF bin \in Parraforms THEN "resolve" ELSE "terraform"
    BY <1>4 DEF Exec
  <2>2. bin \in Terraforms \cup Parraforms
    BY <2>1 DEF Files
  <2>3. QED
    BY <2>1, <2>2 DEF FoundAt
<1>5. CASE ExecFails
  BY <1>5 DEF ExecFails
<1>6. CASE UNCHANGED vars
  BY <1>6 DEF vars, FoundAt
<1>7. QED
  BY <1>1, <1>2, <1>3, <1>4, <1>5, <1>6 DEF Next

\* What stands in front of a terraform that was found was passed over.
LEMMA OnlySelfInFront ==
    ASSUME SaneInv, NEW i \in 1..Len(path), NEW self, FoundAt(i, self),
           bin \in Terraforms
    PROVE  InFront \subseteq {self} /\ (~knowsSelf => InFront = {})
<1> SUFFICES ASSUME NEW f \in InFront
             PROVE  f = self /\ knowsSelf
  OBVIOUS
<1>1. PICK k \in 1..Len(path) : path[k] = f /\ Foremost(k)
  BY DEF InFront
<1>2. f \in Parraforms /\ path[i] = bin
  BY DEF InFront, FoundAt
<1>3. path[i] \notin Parraforms \cup {"dir", "none"}
  BY <1>2, FilesAssumption DEF FilesAssumption, Files
<1>4. ~(i < k) /\ i # k
  BY <1>1, <1>2, <1>3 DEF Foremost
<1>5. k \in 1..(i - 1)
  BY <1>4
<1>6. QED
  BY <1>1, <1>2, <1>5 DEF FoundAt, Files

(* A chain of parraforms that does end in terraform had no second parraform   *)
(* in front of it, or an override that is none.                               *)
THEOREM OnlySaneChainsEnd == Spec => []EndsOnlyIfSane
<1>1. Init => SaneInv
  BY FilesAssumption DEF FilesAssumption, Init, SaneInv, Files
<1>2. SaneInv => EndsOnlyIfSane
  <2> SUFFICES ASSUME SaneInv, pc = "terraform"
               PROVE  Sane
    BY DEF EndsOnlyIfSane
  <2>1. CASE override # NoOverride
    BY <2>1, FilesAssumption DEF FilesAssumption, SaneInv, Sane
  <2>2. CASE override = NoOverride
    <3>1. PICK i \in 1..Len(path), self \in Files : FoundAt(i, self)
      BY <2>2 DEF SaneInv
    <3>2. InFront \subseteq {self} /\ (~knowsSelf => InFront = {})
      BY <3>1, OnlySelfInFront DEF SaneInv
    <3>3. InFront = {} \/ InFront = {self}
      BY <3>2
    <3>4. Cardinality({}) = 0 /\ Cardinality({self}) = 1
      BY FS_EmptySet, FS_Singleton
    <3>5. CASE knowsSelf
      <4>1. Cardinality(InFront) <= 1
        BY <3>3, <3>4
      <4>2. QED
        BY <2>2, <3>5, <4>1 DEF Sane
    <3>6. CASE ~knowsSelf
      <4>1. Cardinality(InFront) <= 0
        BY <3>2, <3>4, <3>6
      <4>2. QED
        BY <2>2, <3>6, <4>1 DEF Sane
    <3>7. QED
      BY <3>5, <3>6
  <2>3. QED
    BY <2>1, <2>2
<1>3. QED
  BY <1>1, <1>2, SaneInvStep, PTL DEF Spec
=============================================================================
