------------------------------ MODULE ExecChain ------------------------------
(* How parraform finds the terraform to become: tfbin.Resolve and             *)
(* execwrap.Run (src/internal/tfbin/tfbin.go, src/internal/execwrap).         *)
(*                                                                           *)
(* What is executed may again be a parraform that was installed under the     *)
(* name terraform, and then everything starts over in its place.  A file is   *)
(* identified as filepath.EvalSymlinks identifies it, so any number of links  *)
(* to one file are one file here.                                             *)
EXTENDS Naturals, Sequences, FiniteSets

CONSTANTS
    Parraforms,  \* files that are parraform
    Terraforms,  \* files that are terraform
    Plain,       \* files under the name terraform that cannot be executed
    NoOverride,  \* PARRAFORM_TERRAFORM_BIN is not set
    Paths        \* for each directory in PATH, what it has under the name
                 \* terraform: a file, "dir" (a directory) or "none"

Files == Parraforms \cup Terraforms \cup Plain
Entries == Files \cup {"dir", "none"}

ASSUME FilesAssumption ==
    /\ Parraforms \cap (Terraforms \cup Plain) = {}
    /\ Terraforms \cap Plain = {}
    /\ {"dir", "none"} \cap Files = {}
    /\ NoOverride \notin Files
    /\ Paths \subseteq Seq(Entries)

VARIABLES
    path,       \* PATH
    override,   \* PARRAFORM_TERRAFORM_BIN
    knowsSelf,  \* whether os.Executable succeeds
    image,      \* the file that runs
    bin,        \* the file it is about to execute
    pc          \* "resolve", "exec", "terraform" or "failed"

vars == <<path, override, knowsSelf, image, bin, pc>>

TypeOK ==
    /\ path \in Paths
    /\ override \in Files \cup {NoOverride}
    /\ knowsSelf \in BOOLEAN
    /\ image \in Parraforms \cup Terraforms
    /\ bin \in Files
    /\ pc \in {"resolve", "exec", "terraform", "failed"}
    /\ pc \in {"resolve", "exec"} => image \in Parraforms

\* The user starts some parraform, by whatever name and from wherever.
Init ==
    /\ path \in Paths
    /\ override \in Files \cup {NoOverride}
    /\ knowsSelf \in BOOLEAN
    /\ image \in Parraforms
    /\ bin = image
    /\ pc = "resolve"

\* The override is taken as it is, whatever it names.
UseOverride ==
    /\ pc = "resolve"
    /\ override # NoOverride
    /\ bin' = override
    /\ pc' = "exec"
    /\ UNCHANGED <<path, override, knowsSelf, image>>

\* Wrong: the file that runs is a candidate as well.
CandidateSelf(i) == path[i] \in Files

\* A directory of PATH has a file under the name that is not the file that runs.
Candidate(i) ==
    /\ path[i] \in Files
    /\ ~(knowsSelf /\ path[i] = image)

\* Wrong: any candidate will do.
SearchAny ==
    /\ pc = "resolve"
    /\ override = NoOverride
    /\ \E i \in 1..Len(path) :
          /\ Candidate(i)
          /\ bin' = path[i]
    /\ pc' = "exec"
    /\ UNCHANGED <<path, override, knowsSelf, image>>

\* Wrong: a directory is not told from a file.
SearchStat ==
    /\ pc = "resolve"
    /\ override = NoOverride
    /\ \E i \in 1..Len(path) :
          /\ path[i] # "none"
          /\ bin' = path[i]
          /\ \A j \in 1..(i - 1) : path[j] = "none"
    /\ pc' = "exec"
    /\ UNCHANGED <<path, override, knowsSelf, image>>

\* The first candidate is taken.
Search ==
    /\ pc = "resolve"
    /\ override = NoOverride
    /\ \E i \in 1..Len(path) :
          /\ Candidate(i)
          /\ \A j \in 1..(i - 1) : ~Candidate(j)
          /\ bin' = path[i]
    /\ pc' = "exec"
    /\ UNCHANGED <<path, override, knowsSelf, image>>

\* "terraform binary not found in PATH"
NotFound ==
    /\ pc = "resolve"
    /\ override = NoOverride
    /\ \A i \in 1..Len(path) : ~Candidate(i)
    /\ pc' = "failed"
    /\ UNCHANGED <<path, override, knowsSelf, image, bin>>

\* execwrap.Run: the file runs in place of parraform, or as its child.
Exec ==
    /\ pc = "exec"
    /\ bin \notin Plain
    /\ image' = bin
    /\ pc' = IF bin \in Parraforms THEN "resolve" ELSE "terraform"
    /\ UNCHANGED <<path, override, knowsSelf, bin>>

\* It cannot be run, and main exits with code 1.
ExecFails ==
    /\ pc = "exec"
    /\ bin \in Plain
    /\ pc' = "failed"
    /\ UNCHANGED <<path, override, knowsSelf, image, bin>>

Next == UseOverride \/ Search \/ NotFound \/ Exec \/ ExecFails

\* No step waits for anything.
Spec == Init /\ [][Next]_vars
FairSpec == Spec /\ WF_vars(Next)

-----------------------------------------------------------------------------
\* Position i of PATH is past nothing but parraforms and what is no file.
Foremost(i) ==
    \A j \in 1..(i - 1) : path[j] \in Parraforms \cup {"dir", "none"}

\* The parraforms that stand in PATH in front of every other file.
InFront == {f \in Parraforms :
              \E i \in 1..Len(path) : path[i] = f /\ Foremost(i)}

\* When a delegation can end: the override is no parraform; and in front of
\* terraform there is at most one parraform, which has to recognise itself.
Sane ==
    IF override # NoOverride THEN override \notin Parraforms
    ELSE Cardinality(InFront) <= (IF knowsSelf THEN 1 ELSE 0)

(* However many parraforms pass the call on, what runs in the end is what the *)
(* caller's PATH has in front of all other terraforms, or the override.       *)
DelegatesToFirst ==
    pc = "terraform" =>
        \/ image = override
        \/ \E i \in 1..Len(path) : image = path[i] /\ Foremost(i)

(* "taking care not to recurse into parraform itself" (tfbin.go): with one    *)
(* parraform under the name terraform, however often it is linked and by      *)
(* whatever name it was started, the chain of execs ends.                     *)
ChainEnds == Sane => <>(pc \in {"terraform", "failed"})

(* And this is the whole of the care taken: with a second copy, an override   *)
(* that is a parraform or an unknown executable the call never gets anywhere. *)
EndsOnlyIfSane == pc = "terraform" => Sane
=============================================================================
