\* Client-owned library objects on one heap: no double free, no leak of
\* parsed capabilities, copied SL value tables agree with their source.
CONSTANTS
  Features = {f1}
  Codes = {1}
  ValueNames = {"x", "y"}
  MaxTableLen = 2
  MaxGets = 1
  MaxVcp = 1
  MaxParses = 1
  Null = Null
SPECIFICATION Spec
VIEW HeapView
INVARIANTS
  NoDoubleFree
  ClientTableLookupAgrees
  ParsedCapabilitiesReleased
