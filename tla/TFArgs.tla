------------------------------- MODULE TFArgs -------------------------------
(* How parraform reads a terraform command line and the value of              *)
(* TF_CLI_ARGS_plan (src/internal/tfargs/tfargs.go).                          *)
(*                                                                           *)
(* A text is a sequence of fragments: words, flags up to and including their  *)
(* "=", and the single characters that the two splitters of TF_CLI_ARGS_plan  *)
(* look at.  One and two dashes are the same to every function here, blank    *)
(* and tab too.                                                               *)
EXTENDS Naturals, Sequences, SequencesExt

Flags == {"-lock-check", "-lock-check=", "-lock", "-lock=", "-chdir=", "-var"}

StartsWith(a, f) == a # <<>> /\ a[1] = f

\* strings.HasPrefix(a, "-")
HasDash(a) == a # <<>> /\ a[1] \in Flags

\* cutLockCheckValue (what it cuts off is Head, the value Tail), isLockCheckFlag
HasLockCheckValue(a) == StartsWith(a, "-lock-check=")
IsLockCheckFlag(a)   == a = <<"-lock-check">>

-----------------------------------------------------------------------------
\* Subcommand: the first argument without a dash, or "".
Subcommand(args) ==
    LET i == SelectInSeq(args, LAMBDA a : ~HasDash(a))
    IN  IF i = 0 THEN <<>> ELSE args[i]

\* Chdir: the first -chdir= in front of the subcommand.
Chdir(args) ==
    LET i == SelectInSeq(args, LAMBDA a : ~HasDash(a) \/ StartsWith(a, "-chdir="))
    IN  IF i = 0 \/ ~HasDash(args[i]) THEN <<>> ELSE Tail(args[i])

\* Wrong: after a bare flag an argument that looks like a flag is not its value.
ScanTokenFlagAware(s, a) ==
    IF s.take /\ ~HasDash(a) THEN [s EXCEPT !.mode = a, !.take = FALSE]
    ELSE IF HasLockCheckValue(a)
    THEN [s EXCEPT !.mode = Tail(a), !.present = TRUE]
    ELSE IF IsLockCheckFlag(a)
    THEN [s EXCEPT !.present = TRUE, !.take = TRUE]
    ELSE [s EXCEPT !.rest = Append(@, a)]

\* Wrong: only the first flag is taken out.
ScanTokenFirst(s, a) ==
    IF s.take THEN [s EXCEPT !.mode = a, !.take = FALSE]
    ELSE IF s.present THEN [s EXCEPT !.rest = Append(@, a)]
    ELSE IF HasLockCheckValue(a)
    THEN [s EXCEPT !.mode = Tail(a), !.present = TRUE]
    ELSE IF IsLockCheckFlag(a)
    THEN [s EXCEPT !.present = TRUE, !.take = TRUE]
    ELSE [s EXCEPT !.rest = Append(@, a)]

\* One round of the loop shared by LockCheckMode and
\* lockCheckModeFromPlanArgsValue.  "take" is set by a bare flag: the argument
\* after it, whatever it is, becomes the mode.
ScanToken(s, a) ==
    IF s.take THEN [s EXCEPT !.mode = a, !.take = FALSE]
    ELSE IF HasLockCheckValue(a)
    THEN [s EXCEPT !.mode = Tail(a), !.present = TRUE]
    ELSE IF IsLockCheckFlag(a)
    THEN [s EXCEPT !.present = TRUE, !.take = TRUE]
    ELSE [s EXCEPT !.rest = Append(@, a)]

ScanStart == [mode |-> <<>>, present |-> FALSE, rest |-> <<>>, take |-> FALSE]

\* LockCheckMode(args), and lockCheckModeFromPlanArgsValue on split tokens.
LockCheckMode(args) == FoldLeft(ScanToken, ScanStart, args)

\* A text as the word a mode is compared with.
AsWord(text) ==
    IF text = <<>> THEN "" ELSE IF Len(text) = 1 THEN text[1] ELSE "no word"

-----------------------------------------------------------------------------
Quotes == {"'", "\""}
Blank  == " "

NoTokens == [tokens |-> <<>>, text |-> <<>>, quote |-> "none"]

\* Wrong: strings.Fields.
SplitterFields(s, c) ==
    IF c = Blank
    THEN [s EXCEPT !.tokens = IF s.text = <<>> THEN @ ELSE Append(@, s.text),
                   !.text = <<>>]
    ELSE [s EXCEPT !.text = Append(@, c)]

\* One character of splitPlanArgsPreservingQuotes: a blank ends a token unless
\* a quote is open, and the quotes stay in the text.
Splitter(s, c) ==
    IF c = Blank /\ s.quote = "none"
    THEN [s EXCEPT !.tokens = IF s.text = <<>> THEN @ ELSE Append(@, s.text),
                   !.text = <<>>]
    ELSE [s EXCEPT !.text = Append(@, c),
                   !.quote = IF c \in Quotes /\ @ = "none" THEN c
                             ELSE IF c = @ THEN "none" ELSE @]

Split(value) == FoldLeft(Splitter, NoTokens, value)

SplitPlanArgs(value) ==
    LET s == Split(value)
    IN  IF s.text = <<>> THEN s.tokens ELSE Append(s.tokens, s.text)

\* strings.Join(kept, " "): no token is empty.
Joined(value, t) == IF value = <<>> THEN t ELSE value \o <<Blank>> \o t

JoinTokens(tokens) == FoldLeft(Joined, <<>>, tokens)

\* lockCheckModeFromPlanArgsValue: without the flag the value stays as it is.
LockCheckModeFromPlanArgs(value) ==
    LET s == LockCheckMode(SplitPlanArgs(value))
    IN  [mode    |-> s.mode,
         present |-> s.present,
         rest    |-> IF s.present THEN JoinTokens(s.rest) ELSE value]

\* Wrong: a mode from the environment does not count as given.
ResolvePresentOwn(argv, env) ==
    LET own == LockCheckMode(argv)
        its == LockCheckModeFromPlanArgs(env)
    IN  [mode    |-> IF own.present THEN own.mode ELSE its.mode,
         present |-> own.present,
         rest    |-> own.rest]

\* resolveLockCheckMode (main.go): argv first, TF_CLI_ARGS_plan only without it.
ResolveLockCheckMode(argv, env) ==
    LET own == LockCheckMode(argv)
        its == LockCheckModeFromPlanArgs(env)
    IN  [mode    |-> IF own.present THEN own.mode ELSE its.mode,
         present |-> own.present \/ its.present,
         rest    |-> own.rest]

LockFalse == <<"-lock=", "false">>

\* Wrong: -lock=false in front of what the user set.
PlanEnvFirst(env) ==
    LockFalse \o <<Blank>> \o LockCheckModeFromPlanArgs(env).rest

\* PlanEnv: the value without parraform's flag, then -lock=false.  No variable
\* and an empty one come to the same.
PlanEnv(env) == LockCheckModeFromPlanArgs(env).rest \o <<Blank>> \o LockFalse

Booleans == {<<"true">>, <<"false">>}

\* Wrong: any -lock=true counts, even one that a later -lock=false undoes.
LockOverrideAny(args) ==
    \E i \in 1..Len(args) : args[i] \in {<<"-lock">>, <<"-lock=", "true">>}

\* LockOverride: an explicit -lock=true.  Bare means true, the last value that
\* strconv.ParseBool accepts wins.
ExplicitLockTrue(args) ==
    LET i == SelectLastInSeq(args, LAMBDA a :
                 a \in {<<"-lock">>, <<"-lock=", "true">>, <<"-lock=", "false">>})
    IN  i # 0 /\ args[i] # <<"-lock=", "false">>

-----------------------------------------------------------------------------
(* What terraform makes of them, as the comments on PlanEnv, LockOverride and *)
(* splitPlanArgsPreservingQuotes describe it: the words of TF_CLI_ARGS_plan   *)
(* go behind the subcommand, the last occurrence of a flag wins, a value that *)
(* is not a boolean is an error, and -lock is no global flag.                 *)

\* go-shellwords: every white space ends a word unless it is quoted, quotes are
\* removed, a backslash takes the next character as it is but in single quotes.
NoWords == [words |-> <<>>, word |-> <<>>, open |-> FALSE, quote |-> "none",
            escaped |-> FALSE]

Shell(s, c) ==
    CASE s.escaped ->
            [s EXCEPT !.word = Append(@, c), !.open = TRUE, !.escaped = FALSE]
      [] ~s.escaped /\ c = "\\" /\ s.quote # "'" ->
            [s EXCEPT !.escaped = TRUE]
      [] ~s.escaped /\ c \in Quotes /\ c = s.quote ->
            [s EXCEPT !.quote = "none", !.open = TRUE]
      [] ~s.escaped /\ c \in Quotes /\ s.quote = "none" ->
            [s EXCEPT !.quote = c]
      [] ~s.escaped /\ c \in {Blank, "\n"} /\ s.quote = "none" ->
            [s EXCEPT !.words = IF s.open THEN Append(@, s.word) ELSE @,
                      !.word = <<>>, !.open = FALSE]
      [] OTHER -> [s EXCEPT !.word = Append(@, c), !.open = TRUE]

ParseShell(value) == FoldLeft(Shell, NoWords, value)

ShellWords(value) ==
    LET s == ParseShell(value)
    IN  [words |-> IF s.open THEN Append(s.words, s.word) ELSE s.words,
         ok    |-> s.quote = "none" /\ ~s.escaped]

Behind(args) == SelectInSeq(args, LAMBDA a : ~HasDash(a))

TerraformArgs(argv, env) ==
    IF Subcommand(argv) # <<"plan">> THEN argv
    ELSE SubSeq(argv, 1, Behind(argv))
           \o ShellWords(env).words
           \o SubSeq(argv, Behind(argv) + 1, Len(argv))

LockSettings(args) ==
    {i \in 1..Len(args) : args[i] = <<"-lock">> \/ StartsWith(args[i], "-lock=")}

TerraformRejects(args) ==
    \E i \in LockSettings(args) :
        \/ i < Behind(args)
        \/ args[i] # <<"-lock">> /\ Tail(args[i]) \notin Booleans

TerraformLocks(args) ==
    \A i \in LockSettings(args) :
        (\A j \in LockSettings(args) : j <= i)
            => args[i] \in {<<"-lock">>, <<"-lock=", "true">>}
=============================================================================
