--------------------------- MODULE MCRunTerraform ---------------------------
(* RunTerraform for TLC: every command line of at most MaxArgs arguments with *)
(* a few values of TF_CLI_ARGS_plan, and every value of at most MaxEnv        *)
(* fragments with a few command lines.                                        *)
EXTENDS RunTerraform, SequencesExt

CONSTANTS MaxArgs, MaxEnv, Fragments

PlainFragments ==
    {"-lock-check", "-lock-check=", "strict", "-lock=", "true", "-var",
     " ", "'", "\""}

\* White space and escapes that the two splitters see differently.
ShellFragments == {"-lock-check=", "-var", " ", "\n", "\\"}

Pairs(argvs, envs) == {[argv |-> a, env |-> e] : a \in argvs, e \in envs}

Arguments ==
    {<<"plan">>, <<"strict">>, <<"-lock-check">>, <<"-lock-check=", "warn">>,
     <<"-lock-check=">>, <<"-lock">>, <<"-lock=", "true">>,
     <<"-lock=", "false">>, <<"-lock=", "maybe">>, <<"-chdir=", "dir">>}

FewEnvs ==
    {<<>>, <<"-var">>, <<"-lock=", "true">>, <<"-lock-check">>,
     <<"-lock-check=", "strict">>, <<"-lock-check=", "\"", "strict", "\"">>,
     <<"\"", "-lock-check=", "strict", "\"">>,
     <<"-lock-check", " ", "require">>, <<"-lock-check", " ", "-lock-check">>,
     <<"-lock=", "true", " ", "-lock-check=", "strict">>,
     <<"-lock-check=", "warn", " ", "-lock=", "true">>}

FewArgvs ==
    {<<<<"plan">>>>, <<<<"plan">>, <<"-lock-check=", "warn">>>>,
     <<<<"plan">>, <<"-lock">>>>}

AllInputs ==
    Pairs(BoundedSeq(Arguments, MaxArgs), FewEnvs)
      \cup Pairs(FewArgvs, BoundedSeq(Fragments, MaxEnv))

\* The mode is given by argv, the values are any.
EscapeInputs ==
    Pairs({<<<<"plan">>, <<"-lock-check=", "warn">>>>},
          BoundedSeq(Fragments, MaxEnv))
=============================================================================
