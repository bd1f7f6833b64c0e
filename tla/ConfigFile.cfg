\* Options values of up to two characters from letters, blanks, quotes and
\* the rejected "|", so both accepted and rejected lines occur; argv[0]
\* with zero or one argument.
CONSTANTS
  OptionChars = {"a", " ", "dq", "bar"}
  MaxOptionLen = 2
  MaxArgs = 1
  NoValue = NoValue
SPECIFICATION Spec
INVARIANTS
  ConfigAppliedWhenAccepted
