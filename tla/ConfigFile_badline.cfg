\* Options values may hold a character wordexp rejects or an unbalanced quote.
CONSTANTS
  OptionChars = {"a", " ", "dq", "bar"}
  MaxOptionLen = 2
  MaxArgs = 1
  NoValue = NoValue
SPECIFICATION Spec
INVARIANTS
  ConfigAppliedOrReported
