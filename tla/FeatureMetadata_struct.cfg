\* One get and one free of a record without PERSISTENT; the struct stays.
CONSTANTS
  Features = {f1}
  Codes = {1}
  ValueNames = {"x"}
  MaxTableLen = 1
  MaxGets = 1
  Null = Null
SPECIFICATION Spec
INVARIANT
  ClientFreeReleasesRecord
