------------------------------ MODULE I2cSysInfo ------------------------------
(***************************************************************************)
(* get_i2c_sys_info(busno) of src/sysfs/sysfs_i2c_sys_info.c: the walk    *)
(* from /sys/bus/i2c/devices/i2c-N to the DRM connector and the driver of  *)
(* bus N.  If the bus's parent node has a drm_dp_aux* subdirectory it is a *)
(* DisplayPort connector; otherwise the parent is taken to be the PCI      *)
(* display controller, and every connector under its drm/cardN nodes is    *)
(* visited in sorted order.  The sysfs tree is an input, fixed for the     *)
(* call.  report_one_bus_i2c drives one call for an entry of               *)
(* /sys/bus/i2c/devices and frees the result with free_i2c_sys_info; the   *)
(* strings the walk allocates are tracked as live blocks.                  *)
(***************************************************************************)
EXTENDS Naturals, Sequences, SequencesExt

CONSTANTS
  MaxConnectors, \* bound on the connectors under the controller's cards
  Null           \* model value: a NULL pointer or a missing attribute

\* Buses a ddc link may lead to: the bus examined, or another one.
ThisBus  == "i2c-N"
Buses    == {ThisBus, "i2c-M"}

\* What the parent of the i2c-N device node is.
ParentKinds == {"dp_connector", "other_connector", "controller"}

\* A connector node cardN-<name> under the controller, in visiting order:
\* whether it has a drm_dp_aux* subdirectory, and the bus its
\* ddc/i2c-dev names.
ConnectorNodes == [isDp : BOOLEAN, ddc : Buses \cup {Null}]

\* The sysfs tree as the call sees it.
Trees ==
  [exists       : BOOLEAN,               \* /sys/bus/i2c/devices/i2c-N
   hasI2cDev    : BOOLEAN,               \* its i2c-dev/i2c-N/{dev,name}
   parent       : ParentKinds,
   parentDdc    : Buses \cup {Null},     \* the parent connector's ddc link
   displayClass : BOOLEAN,               \* controller class starts 0x03
   driver       : BOOLEAN,               \* controller has a driver link
   connectors   : BoundedSeq(ConnectorNodes, MaxConnectors)]

\* Entries of /sys/bus/i2c/devices: a bus node, or a device on a bus.
Entries == {"i2c-N", "1-0037"}

VARIABLES
  entry,         \* the directory entry report_one_bus_i2c is given
  tree,          \* the sysfs tree
  pc,            \* "report", "start", "dp", "controller", "cards", "got"
                 \* (get_i2c_sys_info has returned) or "done"
  info,          \* the I2C_Sys_Info under construction, or Null
  next,          \* index of the next connector node to visit
  detectWritten, \* connectors possibly_write_detect_to_status was called on
  heap           \* the blocks allocated by the walk and not yet freed

vars == <<entry, tree, pc, info, next, detectWritten, heap>>

Init ==
  /\ entry \in Entries
  /\ tree \in Trees
  /\ pc = "report"
  /\ info = Null
  /\ next = 1
  /\ detectWritten = {}
  /\ heap = {}

\* read_i2cN_device_node: the node's name, and the dev and name attributes
\* under i2c-dev/i2c-N, each NULL when missing.
ReadI2cNDeviceNode(i) == [i EXCEPT !.i2cDev = tree.hasI2cDev]

\* A heap block: what it holds, and the connector node it was read for
\* (0 when it is not per connector).
Blk(name) == <<name, 0>>
Blks(names) == {Blk(n) : n \in names}

\* The strings read_i2cN_device_node stores in the record.
I2cNDeviceBlocks ==
  Blks({"device_name"} \cup (IF tree.hasI2cDev THEN {"i2c_dev_dev", "i2c_dev_name"} ELSE {}))

\* report_one_bus_i2c: a name that is not i2c-N is ignored; for bus N,
\* get_i2c_sys_info runs.
ReportOneBusI2c ==
  /\ pc = "report"
  /\ pc' = IF entry = "i2c-N" THEN "start" ELSE "done"
  /\ UNCHANGED <<entry, tree, info, next, detectWritten, heap>>

\* get_i2c_sys_info: NULL unless the i2c-N node exists; otherwise a new
\* record with its real path (read_i2cN_device_node fills its name
\* attributes), the realpath of its parent, and the branch on a
\* drm_dp_aux* directory in the parent.
GetI2cSysInfo ==
  /\ pc = "start"
  /\ IF tree.exists
     THEN /\ info' = ReadI2cNDeviceNode(
                       [connector |-> Null, driver |-> FALSE, isDp |-> FALSE, i2cDev |-> FALSE])
          /\ heap' = heap \cup Blks({"struct", "pci_device_path", "device_parent"}) \cup I2cNDeviceBlocks
          /\ pc' = IF tree.parent = "dp_connector" THEN "dp" ELSE "controller"
     ELSE /\ pc' = "got"
          /\ UNCHANGED <<info, heap>>
  /\ UNCHANGED <<entry, tree, next, detectWritten>>

\* read_controller_driver: the basename of the driver link, if any; the
\* realpath it came from is freed.
ReadControllerDriver(i) == IF tree.driver THEN [i EXCEPT !.driver = TRUE] ELSE i
ControllerDriverBlocks == IF tree.driver THEN {Blk("driver")} ELSE {}

\* get_i2c_sys_info returns: the parent's realpath is freed.
EndGet(h) == h \ {Blk("device_parent")}

\* The strings read_drm_dp_card_connector_node stores: the ddc realpath,
\* its basename, the connector's basename and the ddc attributes when the
\* link resolves; the name and dev of the drm_dp_aux* directory, whose own
\* name is freed at once.
DpConnectorBlocks ==
  Blks((IF tree.parentDdc # Null
        THEN {"ddc_path", "linked_ddc_filename", "connector", "ddc_name",
              "ddc_i2c_dev_name", "ddc_i2c_dev_dev"}
        ELSE {})
       \cup {"drm_dp_aux_name", "drm_dp_aux_dev"})

\* The DisplayPort branch: is_amdgpu_display_port is set, then
\* read_drm_dp_card_connector_node takes the parent as the connector when
\* its ddc link resolves, asks for a detect write on it whether or not, and
\* read_controller_driver reads the driver of the controller three levels up.
ReadDrmDpCardConnectorNode ==
  /\ pc = "dp"
  /\ LET i1 == [info EXCEPT !.isDp = TRUE]
         i2 == IF tree.parentDdc # Null THEN [i1 EXCEPT !.connector = "parent"] ELSE i1
     IN info' = ReadControllerDriver(i2)
  /\ heap' = EndGet(heap \cup DpConnectorBlocks \cup ControllerDriverBlocks)
  /\ detectWritten' = detectWritten \cup {"parent"}
  /\ pc' = "got"
  /\ UNCHANGED <<entry, tree, next>>

\* The class attribute read by read_pci_display_controller_node: a
\* connector parent has none.
ClassBlocks == IF tree.parent = "controller" THEN {Blk("class")} ELSE {}

\* Mutant: free(class) only in the display controller branch.
ReadPciDisplayControllerNodeClassLeak ==
  /\ pc = "controller"
  /\ IF tree.parent = "controller" /\ tree.displayClass
     THEN /\ info' = ReadControllerDriver(info)
          /\ heap' = heap \cup ClassBlocks \cup ControllerDriverBlocks
          /\ pc' = "cards"
     ELSE /\ heap' = EndGet(heap \cup ClassBlocks)
          /\ pc' = "got"
          /\ UNCHANGED info
  /\ UNCHANGED <<entry, tree, next, detectWritten>>

\* read_pci_display_controller_node: only a node whose class starts with
\* 0x03 is a display controller; then its driver is read and its drm/cardN
\* connectors are visited, and class is freed after the visit.  Otherwise
\* class is freed and get_i2c_sys_info returns.
ReadPciDisplayControllerNode ==
  /\ pc = "controller"
  /\ IF tree.parent = "controller" /\ tree.displayClass
     THEN /\ info' = ReadControllerDriver(info)
          /\ heap' = heap \cup ClassBlocks \cup ControllerDriverBlocks
          /\ pc' = "cards"
     ELSE /\ heap' = EndGet(heap)
          /\ pc' = "got"
          /\ UNCHANGED info
  /\ UNCHANGED <<entry, tree, next, detectWritten>>

\* Mutant: no early return once a connector has been found.
ReadDrmNondpCardConnectorNodeLastWins ==
  /\ pc = "cards"
  /\ next <= Len(tree.connectors)
  /\ LET c == tree.connectors[next] IN
     IF ~c.isDp /\ c.ddc = ThisBus
     THEN /\ info' = [info EXCEPT !.connector = next]
          /\ heap' = heap \cup {<<"connector", next>>}
          /\ detectWritten' = detectWritten \cup {next}
     ELSE UNCHANGED <<info, heap, detectWritten>>
  /\ next' = next + 1
  /\ UNCHANGED <<entry, tree, pc>>

\* read_drm_nondp_card_connector_node on the next connector: skipped once
\* a connector is known, skipped for a DisplayPort connector; otherwise it
\* is the bus's connector if its ddc/i2c-dev holds i2c-N, and gets a
\* detect write.
ReadDrmNondpCardConnectorNode ==
  /\ pc = "cards"
  /\ next <= Len(tree.connectors)
  /\ LET c == tree.connectors[next] IN
     IF info.connector = Null /\ ~c.isDp /\ c.ddc = ThisBus
     THEN /\ info' = [info EXCEPT !.connector = next]
          /\ heap' = heap \cup {<<"connector", next>>}
          /\ detectWritten' = detectWritten \cup {next}
     ELSE UNCHANGED <<info, heap, detectWritten>>
  /\ next' = next + 1
  /\ UNCHANGED <<entry, tree, pc>>

\* one_drm_card / dir_ordered_foreach: the walk ends after the last node;
\* class is freed, and get_i2c_sys_info returns.
FinishCards ==
  /\ pc = "cards"
  /\ next > Len(tree.connectors)
  /\ heap' = EndGet(heap \ {Blk("class")})
  /\ pc' = "got"
  /\ UNCHANGED <<entry, tree, info, next, detectWritten>>

\* The fields free_i2c_sys_info passes to free(), and the record itself;
\* drm_connector_path is never set, so free(NULL).
InfoFields ==
  {"pci_device_path", "drm_connector_path", "connector", "linked_ddc_filename",
   "device_name", "drm_dp_aux_name", "drm_dp_aux_dev", "i2c_dev_name",
   "i2c_dev_dev", "driver", "ddc_path", "ddc_name", "ddc_i2c_dev_name",
   "ddc_i2c_dev_dev", "struct"}

\* The block info->connector points to: the DP parent's basename, or the
\* g_strdup of the name of the connector node the walk took.
ConnectorBlock(i) == IF i.isDp THEN Blk("connector") ELSE <<"connector", i.connector>>

\* report_one_bus_i2c then calls free_i2c_sys_info: nothing for NULL,
\* else each field the record points to, then the record.
FreeI2cSysInfo ==
  /\ pc = "got"
  /\ heap' = IF info = Null THEN heap
             ELSE heap \ (Blks(InfoFields \ {"connector"})
                          \cup (IF info.connector = Null THEN {} ELSE {ConnectorBlock(info)}))
  /\ pc' = "done"
  /\ UNCHANGED <<entry, tree, info, next, detectWritten>>

\* report_one_bus_i2c has returned.
Returned == pc = "done" /\ UNCHANGED vars

Next ==
  \/ ReportOneBusI2c
  \/ GetI2cSysInfo
  \/ ReadDrmDpCardConnectorNode
  \/ ReadPciDisplayControllerNode
  \/ ReadDrmNondpCardConnectorNode
  \/ FinishCards
  \/ FreeI2cSysInfo
  \/ Returned

Spec == Init /\ [][Next]_vars

-----------------------------------------------------------------------------
(* Reference: spec 4.2.  A DP connector that contains the bus is its        *)
(* connector when its ddc link resolves; otherwise the bus's connector is   *)
(* the first non-DP connector, under a display controller, whose nested    *)
(* i2c-dev name is the bus.                                                 *)

RefConnector(t) ==
  LET hits == {k \in 1 .. Len(t.connectors) :
                 ~t.connectors[k].isDp /\ t.connectors[k].ddc = ThisBus}
  IN CASE t.parent = "dp_connector"                     ->
            IF t.parentDdc # Null THEN "parent" ELSE Null
       [] t.parent = "controller" /\ t.displayClass /\ hits # {} -> Min(hits)
       [] OTHER                                         -> Null

RefDriver(t) ==
  t.driver /\ (t.parent = "dp_connector" \/ (t.parent = "controller" /\ t.displayClass))

\* When get_i2c_sys_info returns, the record names the connector and the
\* driver the reference resolution gives, the first matching non-DP
\* connector in sorted order winning, and detect was written only to a
\* connector the walk resolved or to the DP parent it examined.
SysInfoMatchesReference ==
  pc = "got" =>
    IF tree.exists
    THEN /\ info.connector = RefConnector(tree)
         /\ info.driver = RefDriver(tree)
         /\ info.isDp = (tree.parent = "dp_connector")
         /\ info.i2cDev = tree.hasI2cDev
         /\ detectWritten \subseteq {info.connector, "parent"}
    ELSE info = Null

\* Every string the walk allocates, in every branch and for every sysfs
\* layout, is freed by the function that read it or by free_i2c_sys_info:
\* when report_one_bus_i2c returns, nothing of the walk is left on the heap.
SysInfoWalkReleasesAll == pc = "done" => heap = {}

==============================================================================
