--------------------------- MODULE DetectionVariants ---------------------------
(***************************************************************************)
(* test_display_detection_variants (app_experimental.c, utility option     *)
(* --f4) driving the bus registry: for each row of its table of EDID read  *)
(* settings it sets the read globals, discards the detected displays,      *)
(* detects them again and records how many are valid.  Monitors may be    *)
(* plugged and unplugged meanwhile, and the display watch thread may add   *)
(* or remove bus records; detection itself is the registry of BusRegistry, *)
(* whose X37 table outlives every discard.                                 *)
(***************************************************************************)
EXTENDS BusRegistry, Sequences

CONSTANTS
  Rows,            \* rows of the choices table the run goes through
  MaxWatchEvents   \* bound on records added or removed by the watch thread

\* Choice_Entry, reduced to the fields the loop assigns to globals
\* (edid_read_bytewise, edid_read_size) and write_before_read, which the
\* table lists but the loop never applies.
Choice(bytewise, writeBeforeRead, size) ==
  [edidReadBytewise |-> bytewise, writeBeforeRead |-> writeBeforeRead,
   edidReadSize |-> size]

\* choices[]: every row uses I2C_IO_STRATEGY_IOCTL and _DNA for the layer
\* and i2c bytewise columns.
Choices ==
  << Choice(FALSE, FALSE, 128), Choice(FALSE, FALSE, 256), Choice(FALSE, FALSE, 0),
     Choice(FALSE, TRUE, 128),  Choice(FALSE, TRUE, 256),  Choice(FALSE, TRUE, 0),
     Choice(TRUE, FALSE, 128),  Choice(TRUE, FALSE, 256),  Choice(TRUE, FALSE, 0),
     Choice(TRUE, TRUE, 128),   Choice(TRUE, TRUE, 256),   Choice(TRUE, TRUE, 0) >>

ASSUME Rows \in 1 .. Len(Choices)

VARIABLES
  ndx,          \* the row being run
  loopPc,       \* "start", "detect", "count" or "done"
  readGlobals,  \* DDC_Read_Bytewise, EDID_Read_Bytewise, EDID_Read_Size
  rowStart,     \* world events counted when the row's discard ran
  results,      \* Choice_Results of the rows run so far, in order
  watchEvents   \* records added or removed by the watch thread so far

loopVars == <<ndx, loopPc, readGlobals, rowStart, results, watchEvents>>
allVars  == <<vars, loopVars>>

\* Hotplug events and watch thread events so far.
WorldEvents == hotplugs + watchEvents

\* ddc_get_display_count(false): the displays that answered at 0x37.
ValidDisplayCount ==
  Cardinality({b \in Buses : buses[b] # Absent /\ buses[b].edid # None
                             /\ I2C_BUS_ADDR_X37 \in buses[b].flags})

LoopInit ==
  /\ Init
  /\ ndx = 1
  /\ loopPc = "start"
  /\ readGlobals = [ddcReadBytewise |-> FALSE, edidReadBytewise |-> FALSE, edidReadSize |-> 0]
  /\ rowStart = 0
  /\ results = << >>
  /\ watchEvents = 0

\* The head of an iteration: the read globals are set from the row, the
\* assert on EDID_Read_Size holds, and ddc_discard_detected_displays
\* discards every record.
LoopStartRow ==
  LET cur == Choices[ndx] IN
  /\ loopPc = "start"
  /\ cur.edidReadSize \in {128, 256, 0}
  /\ readGlobals' = [ddcReadBytewise |-> FALSE, edidReadBytewise |-> cur.edidReadBytewise,
                     edidReadSize |-> cur.edidReadSize]
  /\ DiscardBuses
  /\ rowStart' = WorldEvents
  /\ loopPc' = "detect"
  /\ UNCHANGED <<ndx, results, watchEvents>>

\* ddc_ensure_displays_detected: a record for every bus that has none; the
\* registry then checks and correlates them.
LoopDetect ==
  /\ loopPc = "detect"
  /\ buses' = [b \in Buses |-> IF buses[b] = Absent THEN NewBusInfo ELSE buses[b]]
  /\ loopPc' = "count"
  /\ UNCHANGED <<world, fixed, x37, discards, ndx, readGlobals, rowStart, results, watchEvents>>

\* Detection has returned: the valid displays are counted and stored in
\* the row's results; the loop goes on with the next row or ends.
LoopCount ==
  /\ loopPc = "count"
  /\ \A b \in Buses : buses[b] # Absent => buses[b].foundBy # NOT_CHECKED
  /\ results' = Append(results, [valid |-> ValidDisplayCount,
                                 start |-> rowStart, end |-> WorldEvents])
  /\ ndx' = ndx + 1
  /\ loopPc' = IF ndx < Rows THEN "start" ELSE "done"
  /\ UNCHANGED <<vars, readGlobals, rowStart, watchEvents>>

\* The display watch thread adds or removes the record of a bus.
WatchEvent(b) ==
  /\ watchEvents < MaxWatchEvents
  /\ AddBus(b) \/ RemoveBus(b)
  /\ watchEvents' = watchEvents + 1
  /\ UNCHANGED <<ndx, loopPc, readGlobals, rowStart, results>>

\* The summary report only prints; the test has ended.
Finished == loopPc = "done" /\ UNCHANGED allVars

LoopNext ==
  \/ LoopStartRow \/ LoopDetect \/ LoopCount
  \/ \E b \in Buses :
       \/ WatchEvent(b)
       \/ (CheckBus(b) \/ Correlate(b) \/ Unplug(b) \/ \E m \in Monitors : Plug(b, m))
          /\ UNCHANGED loopVars
  \/ Finished

LoopSpec == LoopInit /\ [][LoopNext]_allVars

==============================================================================
