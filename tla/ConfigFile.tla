----------------------------- MODULE ConfigFile -----------------------------
(***************************************************************************)
(* apply_config_file (src/util/ddcutil_config_file.c): read the options of *)
(* the global and application sections of ddcutilrc, tokenize them as the *)
(* shell would (wordexp with WRDE_NOCMD), and insert the tokens between    *)
(* argv[0] and the command-line arguments.  One call, step by step; the    *)
(* file system and the command line are inputs chosen in Init.  Strings    *)
(* are sequences of abstract characters; a word is a sequence of them.     *)
(***************************************************************************)
EXTENDS Integers, Sequences, SequencesExt

CONSTANTS
  OptionChars,      \* characters an options value may contain
  MaxOptionLen,     \* bound on the length of an options value
  MaxArgs,          \* bound on the command-line arguments after argv[0]
  NoValue           \* model value: ini_file_get_value() returned NULL

Blank   == " "
Quote   == "dq"              \* a double quote
Special == {"bar", "semi"}   \* unquoted characters wordexp rejects (WRDE_BADCHAR)

\* errno and wordexp return codes.
ENOENT == 2
EBADMSG == 74
WRDE_BADCHAR == 2
WRDE_SYNTAX == 5

ASSUME Blank \in OptionChars /\ MaxOptionLen \in Nat /\ MaxArgs \in Nat

Lines == BoundedSeq(OptionChars, MaxOptionLen)
\* argv: the program name, then arguments the config file never contains.
Argvs == {<< <<"p">> >> \o rest : rest \in BoundedSeq({<<"b">>}, MaxArgs)}

-----------------------------------------------------------------------------
(* Conversions                                                             *)

\* wordexp(3) with WRDE_NOCMD on a line without expansions: blanks outside
\* quotes separate words, quotes group and may produce an empty word, an
\* unquoted special character is WRDE_BADCHAR and an open quote at the end
\* is WRDE_SYNTAX.
WordExpStep(s, c) ==
  CASE s.rc # 0                          -> s
    [] c = Quote                         -> [s EXCEPT !.quoted = ~s.quoted, !.started = TRUE]
    [] s.quoted                          -> [s EXCEPT !.cur = Append(s.cur, c)]
    [] c = Blank /\ s.started            -> [s EXCEPT !.words = Append(s.words, s.cur),
                                                      !.cur = <<>>, !.started = FALSE]
    [] c = Blank                         -> s
    [] c \in Special                     -> [s EXCEPT !.rc = WRDE_BADCHAR]
    [] OTHER                             -> [s EXCEPT !.cur = Append(s.cur, c), !.started = TRUE]

WordExp(line) ==
  LET s == FoldLeft(WordExpStep,
                    [rc |-> 0, quoted |-> FALSE, started |-> FALSE, cur |-> <<>>, words |-> <<>>],
                    line)
  IN [rc    |-> IF s.rc = 0 /\ s.quoted THEN WRDE_SYNTAX ELSE s.rc,
      words |-> IF s.started THEN Append(s.words, s.cur) ELSE s.words]

\* strtrim(): drop leading and trailing blanks.
StrTrim(s) ==
  LET first == SelectInSeq(s, LAMBDA c : c # Blank)
      last  == SelectLastInSeq(s, LAMBDA c : c # Blank)
  IN IF first = 0 THEN <<>> ELSE SubSeq(s, first, last)

\* read_ddcutil_config_file, lines 125-127: "%s %s" of the two options
\* values, NULL printed as "", then trimmed.
CombinedOptions(global, app) ==
  LET Text(v) == IF v = NoValue THEN <<>> ELSE v
  IN StrTrim(Text(global) \o <<Blank>> \o Text(app))

\* The inputs of one call.
Env ==
  [found : BOOLEAN,             \* find_xdg_config_file() found ddcutilrc
   loadRc : {0, -EBADMSG},     \* ini_file_load()
   global : Lines \cup {NoValue},
   app : Lines \cup {NoValue},
   argv : Argvs]

VARIABLES
  env,          \* the inputs of the call
  pc,           \* "read" | "dispatch" | "tokenize" | "merge" | "done" | "crashed"
  readRc,       \* what read_ddcutil_config_file returned
  untokenized,  \* *untokenized_option_string_loc, or NoValue
  tokens,       \* cmd_prefix_tokens
  tokenCt,      \* prefix_token_ct
  newArgv,      \* *new_argv_loc
  newArgc,      \* *new_argc_loc
  result        \* what apply_config_file returns

vars == <<env, pc, readRc, untokenized, tokens, tokenCt, newArgv, newArgc, result>>

Init ==
  /\ env \in Env
  /\ pc = "read"
  /\ readRc = 0
  /\ untokenized = NoValue
  /\ tokens = <<>>
  /\ tokenCt = 0
  /\ newArgv = <<>>
  /\ newArgc = 0
  /\ result = 0

-----------------------------------------------------------------------------
(* apply_config_file and the functions it calls                            *)

\* read_ddcutil_config_file: -ENOENT without a file, the ini_file_load
\* error when the file cannot be parsed, otherwise the combined options.
ReadConfigFile ==
  /\ pc = "read"
  /\ CASE ~env.found          -> readRc' = -ENOENT /\ untokenized' = NoValue
       [] env.loadRc # 0      -> readRc' = env.loadRc /\ untokenized' = NoValue
       [] OTHER               -> readRc' = 0
                                 /\ untokenized' = CombinedOptions(env.global, env.app)
  /\ pc' = "dispatch"
  /\ UNCHANGED <<env, tokens, tokenCt, newArgv, newArgc, result>>

\* Lines 277-307: a missing file is not an error, another error is returned;
\* both hand back a copy of argv.  Otherwise tokenize and merge.
DispatchReadResult ==
  /\ pc = "dispatch"
  /\ IF readRc = 0
       THEN /\ pc' = "tokenize"
            /\ UNCHANGED <<newArgv, newArgc, result>>
       ELSE /\ newArgv' = env.argv
            /\ newArgc' = Len(env.argv)
            /\ result' = IF readRc = -ENOENT THEN 0 ELSE readRc
            /\ pc' = "done"
  /\ UNCHANGED <<env, readRc, untokenized, tokens, tokenCt>>

\* tokenize_options_line: the return code of wordexp is ignored.  On an
\* error glibc restores the caller's wordexp_t, which is uninitialized here,
\* so we_wordv and we_wordc are undefined: the process crashes on them
\* (the ntsa_length assert), or the count happens to be 0.
TokenizeOptionsLine ==
  LET w == WordExp(untokenized) IN
  /\ pc = "tokenize"
  /\ IF w.rc = 0
       THEN /\ tokens' = w.words
            /\ tokenCt' = Len(w.words)
            /\ pc' = "merge"
       ELSE \/ /\ pc' = "crashed"
               /\ UNCHANGED <<tokens, tokenCt>>
            \/ /\ tokens' = <<>>
               /\ tokenCt' = 0
               /\ pc' = "merge"
  /\ UNCHANGED <<env, readRc, untokenized, newArgv, newArgc, result>>

\* Mutant: the loop over old_argv starts at index 0.
MergedArgvFromZero(argv, ct, toks) ==
  [p \in 1 .. ct + Len(argv) |->
     CASE p = 1             -> argv[1]
       [] p \in 2 .. ct + 1 -> toks[p - 1]
       [] OTHER             -> argv[p - ct - 1]]

\* merge_command_tokens, lines 179-203: combined[0] = old_argv[0], then the
\* config tokens, then old_argv[1..]; positions are 1-based here.
MergedArgv(argv, ct, toks) ==
  [p \in 1 .. ct + Len(argv) |->
     CASE p = 1             -> argv[1]
       [] p \in 2 .. ct + 1 -> toks[p - 1]
       [] OTHER             -> argv[p - ct]]

\* merge_command_tokens: with no tokens, a copy of argv (ntsa_copy);
\* otherwise the merged list of new_ct - 1 entries.  apply_config_file
\* returns 0.
MergeCommandTokens ==
  /\ pc = "merge"
  /\ newArgv' = IF tokenCt > 0 THEN MergedArgv(env.argv, tokenCt, tokens) ELSE env.argv
  /\ newArgc' = IF tokenCt > 0 THEN (tokenCt + Len(env.argv) + 1) - 1 ELSE Len(env.argv)
  /\ result' = 0
  /\ pc' = "done"
  /\ UNCHANGED <<env, readRc, untokenized, tokens, tokenCt>>

\* apply_config_file has returned, or the process has crashed.
Finished ==
  /\ pc \in {"done", "crashed"}
  /\ UNCHANGED vars

Next ==
  \/ ReadConfigFile \/ DispatchReadResult \/ TokenizeOptionsLine
  \/ MergeCommandTokens \/ Finished

Spec == Init /\ [][Next]_vars

-----------------------------------------------------------------------------
(* Properties                                                              *)

\* What the header comment of apply_config_file promises: the call returns
\* (no crash); 0 means the new argv is argv[0], the shell words of the
\* options of both sections, then the command-line arguments, or argv
\* unchanged when there is no configuration file; any other result is the
\* error of reading the file, with argv unchanged.
ConfigAppliedOrReported ==
  pc \in {"done", "crashed"} =>
    /\ pc = "done"
    /\ result = 0 =>
         \/ ~env.found /\ newArgv = env.argv
         \/ /\ env.found
            /\ WordExp(untokenized).rc = 0
            /\ newArgv = <<env.argv[1]>> \o WordExp(untokenized).words \o Tail(env.argv)
    /\ result # 0 => newArgv = env.argv /\ result = readRc

\* The same promise for every configuration file whose options value
\* wordexp accepts: the options are applied in order between argv[0] and
\* the arguments, and every failure to read is reported.
ConfigAppliedWhenAccepted ==
  WordExp(CombinedOptions(env.global, env.app)).rc = 0 => ConfigAppliedOrReported

=============================================================================
