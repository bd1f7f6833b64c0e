----------------------------- MODULE BusRegistry -----------------------------
(***************************************************************************)
(* The I2C bus registry (all_i2c_buses), the X37 detection-state table and *)
(* connector correlation (spec 4.1, 4.3, 4.5), next to the world they      *)
(* observe: monitors plugged into and out of connectors, and the sysfs     *)
(* status and edid attributes of each connector, which may go stale when a *)
(* monitor is unplugged (a phantom).  Only the types and prototypes of     *)
(* i2c_bus_base.h are under src/; the operations follow the spec.  The    *)
(* specification that drives them is DetectionVariants.                   *)
(***************************************************************************)
EXTENDS Naturals, FiniteSets

CONSTANTS
  Buses,        \* I2C bus numbers; the connector wired to bus b is named for b
  Monitors,     \* physical monitors; each has its own EDID
  None,         \* model value: no monitor, no EDID, no connector
  Absent,       \* model value: no I2C_Bus_Info for the bus in all_i2c_buses
  MaxHotplugs,  \* bound on plug and unplug events
  MaxDiscards,  \* bound on full rediscoveries (i2c_discard_buses)
  Answering,    \* monitors that answer at address 0x37
  Contained     \* buses whose sysfs path lies under their cardN-<connector>

ASSUME None \notin Buses \cup Monitors /\ Contained \subseteq Buses /\ Answering \subseteq Monitors

\* Drm_Connector_Found_By
NOT_CHECKED    == "DRM_CONNECTOR_NOT_CHECKED"
NOT_FOUND      == "DRM_CONNECTOR_NOT_FOUND"
FOUND_BY_BUSNO == "DRM_CONNECTOR_FOUND_BY_BUSNO"
FOUND_BY_EDID  == "DRM_CONNECTOR_FOUND_BY_EDID"

\* X37_Detection_State
X37_Not_Recorded == "X37_Not_Recorded"
X37_Not_Detected == "X37_Not_Detected"
X37_Detected     == "X37_Detected"

\* The I2C_BUS_* flags that detection sets.
I2C_BUS_EXISTS   == "I2C_BUS_EXISTS"
I2C_BUS_X50_EDID == "I2C_BUS_X50_EDID"
I2C_BUS_ADDR_X37 == "I2C_BUS_ADDR_X37"
I2C_BUS_PROBED   == "I2C_BUS_PROBED"

\* I2C_Bus_Info, reduced to the fields detection and correlation use.
BusInfos ==
  [edid : Monitors \cup {None},
   flags : SUBSET {I2C_BUS_EXISTS, I2C_BUS_X50_EDID, I2C_BUS_ADDR_X37, I2C_BUS_PROBED},
   foundBy : {NOT_CHECKED, NOT_FOUND, FOUND_BY_BUSNO, FOUND_BY_EDID},
   connector : Buses \cup {None}]

VARIABLES
  attached,     \* bus -> monitor plugged into its connector, or None
  connStatus,   \* connector -> its sysfs status reads "connected"
  connEdid,     \* connector -> monitor whose EDID its sysfs edid holds, or None
  answers,      \* monitor -> it answers at address 0x37
  containment,  \* bus -> its sysfs path lies under cardN-<connector>
  useX37,       \* use_x37_detection_table (fixed after initialization)
  buses,        \* all_i2c_buses: bus -> I2C_Bus_Info, or Absent
  x37,          \* the X37 table: <<bus, EDID>> -> X37_Detection_State
  hotplugs,     \* plug and unplug events so far
  discards      \* rediscoveries so far

world == <<attached, connStatus, connEdid, hotplugs>>
fixed == <<answers, containment, useX37>>
vars  == <<world, fixed, buses, x37, discards>>

Init ==
  /\ attached \in {a \in [Buses -> Monitors \cup {None}] :
                     \A b1, b2 \in Buses : b1 # b2 /\ a[b1] # None => a[b1] # a[b2]}
  /\ connStatus = [b \in Buses |-> attached[b] # None]
  /\ connEdid = attached
  /\ answers = [m \in Monitors |-> m \in Answering]
  /\ containment = [b \in Buses |-> b \in Contained]
  /\ useX37 \in BOOLEAN
  /\ buses = [b \in Buses |-> Absent]
  /\ x37 = [k \in Buses \X Monitors |-> X37_Not_Recorded]
  /\ hotplugs = 0
  /\ discards = 0

-----------------------------------------------------------------------------
(* The world: hotplug                                                      *)

\* A monitor that is not plugged in anywhere is plugged into b's connector.
Plug(b, m) ==
  /\ hotplugs < MaxHotplugs
  /\ attached[b] = None
  /\ \A c \in Buses : attached[c] # m
  /\ attached' = [attached EXCEPT ![b] = m]
  /\ connStatus' = [connStatus EXCEPT ![b] = TRUE]
  /\ connEdid' = [connEdid EXCEPT ![b] = m]
  /\ hotplugs' = hotplugs + 1
  /\ UNCHANGED <<fixed, buses, x37, discards>>

\* The monitor is unplugged; the connector may keep reporting connected
\* with its old edid (a phantom display).  A connector that keeps only one
\* of the two is never an EDID candidate, so it behaves as a clean one.
Unplug(b) ==
  /\ hotplugs < MaxHotplugs
  /\ attached[b] # None
  /\ attached' = [attached EXCEPT ![b] = None]
  /\ \E phantom \in BOOLEAN :
       /\ connStatus' = [connStatus EXCEPT ![b] = phantom]
       /\ connEdid' = [connEdid EXCEPT ![b] = IF phantom THEN connEdid[b] ELSE None]
  /\ hotplugs' = hotplugs + 1
  /\ UNCHANGED <<fixed, buses, x37, discards>>

-----------------------------------------------------------------------------
(* The X37 table (spec 4.5)                                                *)

\* Mutant: the table is keyed by bus number only.
X37KeyBusOnly(b, e) == <<b, CHOOSE m \in Monitors : TRUE>>

\* The key of an entry: the bus and the EDID fingerprint of its monitor.
X37Key(b, e) == <<b, e>>

\* i2c_query_x37_detected: X37_Not_Recorded when the table is disabled.
QueryX37(b, e) == IF useX37 THEN x37[X37Key(b, e)] ELSE X37_Not_Recorded

\* i2c_record_x37_detected: upsert the entry when the table is in use.
RecordX37(b, e, state) == IF useX37 THEN [x37 EXCEPT ![X37Key(b, e)] = state] ELSE x37

-----------------------------------------------------------------------------
(* The registry (spec 4.1) and detection                                   *)

\* i2c_new_bus_info: a zeroed record of an existing bus.
NewBusInfo == [edid |-> None, flags |-> {I2C_BUS_EXISTS},
               foundBy |-> NOT_CHECKED, connector |-> None]

\* i2c_add_bus: a new record for a bus that has none.
AddBus(b) ==
  /\ buses[b] = Absent
  /\ buses' = [buses EXCEPT ![b] = NewBusInfo]
  /\ UNCHANGED <<world, fixed, x37, discards>>

\* i2c_remove_bus_by_busno: the record is discarded.
RemoveBus(b) ==
  /\ buses[b] # Absent
  /\ buses' = [buses EXCEPT ![b] = Absent]
  /\ UNCHANGED <<world, fixed, x37, discards>>

\* The check of a new record: read the EDID at address 0x50; for a monitor,
\* take its X37 state from the table, or probe address 0x37 live when the
\* table has none and record the answer.
CheckBus(b) ==
  LET r    == buses[b]
      e    == attached[b]
      q    == IF e = None THEN X37_Not_Recorded ELSE QueryX37(b, e)
      live == IF e # None /\ answers[e] THEN X37_Detected ELSE X37_Not_Detected
      st   == IF q = X37_Not_Recorded THEN live ELSE q
  IN /\ r # Absent
     /\ I2C_BUS_PROBED \notin r.flags
     /\ buses' = [buses EXCEPT ![b] =
                    [r EXCEPT !.edid = e,
                              !.flags = r.flags \cup {I2C_BUS_PROBED}
                                        \cup (IF e # None THEN {I2C_BUS_X50_EDID} ELSE {})
                                        \cup (IF st = X37_Detected THEN {I2C_BUS_ADDR_X37} ELSE {})]]
     /\ x37' = IF e # None /\ q = X37_Not_Recorded THEN RecordX37(b, e, live) ELSE x37
     /\ UNCHANGED <<world, fixed, discards>>

\* The connected connectors whose edid attribute holds the record's EDID.
EdidCandidates(r) == {c \in Buses : connStatus[c] /\ r.edid # None /\ connEdid[c] = r.edid}

\* Spec 4.3 in precedence order: direct containment, then an EDID match on
\* exactly one connected connector; an ambiguous or missing match is
\* NOT_FOUND (the positional fallback is advisory and is not recorded).
Correlation(b, r) ==
  IF containment[b] THEN [foundBy |-> FOUND_BY_BUSNO, connector |-> b]
  ELSE IF Cardinality(EdidCandidates(r)) = 1
       THEN [foundBy |-> FOUND_BY_EDID, connector |-> CHOOSE c \in EdidCandidates(r) : TRUE]
       ELSE [foundBy |-> NOT_FOUND, connector |-> None]

\* Correlation of a checked record whose connector has not been checked.
Correlate(b) ==
  LET r == buses[b] IN
  /\ r # Absent
  /\ I2C_BUS_PROBED \in r.flags
  /\ r.foundBy = NOT_CHECKED
  /\ buses' = [buses EXCEPT ![b] = [r EXCEPT !.foundBy = Correlation(b, r).foundBy,
                                              !.connector = Correlation(b, r).connector]]
  /\ UNCHANGED <<world, fixed, x37, discards>>

\* i2c_discard_buses (spec discard_all): every record goes; the table,
\* whose entries are all keyed by EDID, survives.
DiscardBuses ==
  /\ discards < MaxDiscards
  /\ buses' = [b \in Buses |-> Absent]
  /\ discards' = discards + 1
  /\ UNCHANGED <<world, fixed, x37>>

-----------------------------------------------------------------------------
(* Properties                                                              *)

\* The I2C_BUS_ADDR_X37 flag of a checked record with a monitor is what a
\* live probe of that monitor would answer, whether it came from the table
\* or from the probe (a different monitor on the bus is not given the old
\* one's state).
X37FlagTruthful ==
  \A b \in Buses :
    (buses[b] # Absent /\ I2C_BUS_PROBED \in buses[b].flags /\ buses[b].edid # None)
      => (I2C_BUS_ADDR_X37 \in buses[b].flags <=> answers[buses[b].edid])

=============================================================================
