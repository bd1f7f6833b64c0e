\* Two threads, two buses, one redetection sweep; both builds of dref_lock:
\* one that waits for a held mutex and one that gives up with DDCRC_LOCKED.
CONSTANTS
  Threads = {t1, t2}
  Buses = {b1, b2}
  MaxSweeps = 1
  NoOwner = NoOwner
  NoDref = NoDref
  LockModes = {FALSE, TRUE}
SPECIFICATION Spec
INVARIANTS
  TypeOK
  BodySeesCorrelatedRecord
PROPERTIES
  EveryCallReturns
  SweepCompletes
