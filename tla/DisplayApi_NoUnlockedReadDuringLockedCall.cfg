\* dref_lock always waits; the unlocked report entry point runs beside a DR4 call.
CONSTANTS
  Threads = {t1, t2}
  Buses = {b1, b2}
  MaxSweeps = 1
  NoOwner = NoOwner
  NoDref = NoDref
  LockModes = {FALSE}

SPECIFICATION Spec
INVARIANTS
  NoUnlockedReadDuringLockedCall
