\* Every input combination of one call; the dpms attribute is readable.
CONSTANTS
  Drivers = {"i915", "amdgpu", "nvidia"}
  ReliableDrivers = {"i915", "amdgpu"}
  NoAttr = NoAttr
  NoSession = NoSession
  DpmsReads = {"On", "Off", "Standby", "Suspend"}
SPECIFICATION Spec
PROPERTY ImplementsDpmsSpec
