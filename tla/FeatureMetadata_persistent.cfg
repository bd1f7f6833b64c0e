\* A freed record still holds its strings and table when PERSISTENT is set.
CONSTANTS
  Features = {f1}
  Codes = {1, 2}
  ValueNames = {"x", "y"}
  MaxTableLen = 2
  MaxGets = 2
  Null = Null
SPECIFICATION Spec
INVARIANT
  ClientFreeReleasesContents
