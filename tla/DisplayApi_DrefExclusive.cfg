\* dref_lock may fail with DDCRC_LOCKED; the macro still unlocks.
CONSTANTS
  Threads = {t1, t2}
  Buses = {b1, b2}
  MaxSweeps = 1
  NoOwner = NoOwner
  NoDref = NoDref
  LockModes = {TRUE}

SPECIFICATION Spec
INVARIANTS
  DrefExclusive
