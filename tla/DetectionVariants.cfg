\* Two rows of the detection variants test over two buses (one contained
\* in its connector, one found by EDID) and two monitors (one answering at
\* 0x37), two hotplug events, one watch thread event, and both builds of
\* the X37 table (used or not).
CONSTANTS
  Buses = {b1, b2}
  Monitors = {m1, m2}
  None = None
  Absent = Absent
  MaxHotplugs = 2
  MaxDiscards = 2
  Contained = {b1}
  Answering = {m1}
  Rows = 2
  MaxWatchEvents = 1
SPECIFICATION LoopSpec
INVARIANTS
  X37FlagTruthful
