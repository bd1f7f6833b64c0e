\* report_one_bus_i2c over every small sysfs tree, for a bus entry and for
\* a device entry: the record agrees with the reference resolution of the
\* bus's connector and driver, and the walk frees all it allocated.
CONSTANTS
  MaxConnectors = 3
  Null = Null
SPECIFICATION Spec
INVARIANTS
  SysInfoMatchesReference
  SysInfoWalkReleasesAll
