----------------------------- MODULE MCExecChain -----------------------------
(* ExecChain for TLC: every PATH of at most MaxPath directories. *)
EXTENDS ExecChain, SequencesExt

CONSTANT MaxPath

SmallPaths == BoundedSeq(Entries, MaxPath)
=============================================================================
