\* The dpms attribute may be unreadable (RPT_ATTR_TEXT leaves it NULL).
CONSTANTS
  Drivers = {"i915", "amdgpu", "nvidia"}
  ReliableDrivers = {"i915", "amdgpu"}
  NoAttr = NoAttr
  NoSession = NoSession
  DpmsReads = {NoAttr, "On", "Off", "Standby", "Suspend"}
SPECIFICATION Spec
PROPERTY ImplementsDpmsSpec
