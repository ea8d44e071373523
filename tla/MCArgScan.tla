----------------------------- MODULE MCArgScan -----------------------------
(* ArgScan for TLC: every list of at most MaxLen arguments. *)
EXTENDS ArgScan, SequencesExt

CONSTANT MaxLen

SmallFragments ==
    {"plan", "strict", "require", "warn", "-lock", "-lock-check",
     "-lock-check=", "\""}

SmallArguments ==
    {<<"plan">>, <<"strict">>, <<"-lock-check">>, <<"-lock">>,
     <<"-lock-check=", "warn">>, <<"-lock-check=">>,
     <<"\"", "-lock-check=", "require", "\"">>,
     <<"-lock-check=", "\"", "require", "\"">>}

SmallInputs == BoundedSeq(SmallArguments, MaxLen)
=============================================================================
