----------------------------- MODULE DpmsDetect -----------------------------
(***************************************************************************)
(* The DPMS/sleep state detector of src/sysfs/sysfs_dpms.c: one call of    *)
(* dpms_check_drm_asleep_by_dref and the functions it calls, step by step. *)
(* The inputs of the call (environment, build, bus record, sysfs and X11   *)
(* answers) are chosen in Init and fixed.  The reliability classifier of   *)
(* sysfs_base.c and possibly_write_detect_to_status are not under src/ and *)
(* are modelled from the spec.                                             *)
(***************************************************************************)
EXTENDS Naturals

CONSTANTS
  Drivers,          \* kernel drivers a bus can be bound to
  ReliableDrivers,  \* drivers the classifier's table trusts
  NoAttr,           \* model value: RPT_ATTR_TEXT left the value NULL
  DpmsReads,        \* what reading the dpms attribute can give, NoAttr included or not
  NoSession         \* model value: getenv("XDG_SESSION_TYPE") returned NULL

ASSUME ReliableDrivers \subseteq Drivers
ASSUME "On" \in DpmsReads

\* Drm_Connector_Found_By values a correlated record can carry.
Found == {"DRM_CONNECTOR_FOUND_BY_BUSNO", "DRM_CONNECTOR_FOUND_BY_EDID"}
FoundBy == {"DRM_CONNECTOR_NOT_CHECKED", "DRM_CONNECTOR_NOT_FOUND"} \cup Found
\* X11 DPMS power levels; DPMSModeOn is 0.
PowerLevels == {"DPMSModeOn", "DPMSModeStandby", "DPMSModeSuspend", "DPMSModeOff"}
Attrs == {"dpms", "enabled", "status"}
Pcs == {"by_dref", "by_businfo", "x11", "by_connector", "done"}

\* The inputs of one call.  A record correlated by bus number or EDID has a
\* connector name; a record reaching this code has been correlated (see
\* BodySeesCorrelatedRecord in DisplayApi).
Env ==
  {e \in [useX11 : BOOLEAN,              \* built with USE_X11
          session : {"x11", "wayland", NoSession},
          forceReliable : BOOLEAN,       \* force_sysfs_reliable
          forceUnreliable : BOOLEAN,     \* force_sysfs_unreliable
          writeDetect : BOOLEAN,         \* enable_write_detect_to_status
          hasDetail : BOOLEAN,           \* dref->detail != NULL
          driver : Drivers,
          foundBy : FoundBy \ {"DRM_CONNECTOR_NOT_CHECKED"},
          connector : BOOLEAN,           \* drm_connector_name != NULL
          x11Ok : BOOLEAN,               \* get_x11_dpms_info() succeeded
          x11State : BOOLEAN,            \* DPMS enabled in the X server
          x11Level : PowerLevels,
          dpms : DpmsReads] :
     e.connector <=> e.foundBy \in Found}

VARIABLES
  env,           \* the inputs of the call
  pc,            \* the function the call is in
  asleep,        \* the result
  touched,       \* sysfs attributes of the connector read so far
  x11Consulted,  \* dpms_is_x11_asleep() has been entered
  detectWritten, \* "detect" has been written to the connector's status
  warned         \* a SYSLOG2 warning has been issued

vars == <<env, pc, asleep, touched, x11Consulted, detectWritten, warned>>

-----------------------------------------------------------------------------
\* is_sysfs_reliable_for_busno / is_sysfs_reliable_for_driver (spec 4.4):
\* an override wins over the driver table, force-unreliable first.
IsSysfsReliableForBusno(e) ==
  IF e.forceUnreliable THEN FALSE
  ELSE IF e.forceReliable THEN TRUE
  ELSE e.driver \in ReliableDrivers

\* streq() is NULL-safe: a NULL session type is not "x11".
IsX11Session(e) == e.session = "x11"

\* possibly_write_detect_to_status_by_connector_name: writes "detect" to the
\* status attribute when enable_write_detect_to_status is set.
PossiblyWriteDetect(e) == e.writeDetect

Init ==
  /\ env \in Env
  /\ pc = "by_dref"
  /\ asleep = FALSE
  /\ touched = {}
  /\ x11Consulted = FALSE
  /\ detectWritten = FALSE
  /\ warned = FALSE

-----------------------------------------------------------------------------
\* dpms_check_drm_asleep_by_dref: only a dref with a bus record is checked.
CheckByDref ==
  /\ pc = "by_dref"
  /\ pc' = IF env.hasDetail THEN "by_businfo" ELSE "done"
  /\ UNCHANGED <<env, asleep, touched, x11Consulted, detectWritten, warned>>

\* Mutant: the X11 path is taken when either condition holds.
CheckByBusinfoEither ==
  LET reliable == IsSysfsReliableForBusno(env) IN
  /\ pc = "by_businfo"
  /\ IF IsX11Session(env) \/ ~reliable
       THEN /\ warned' = TRUE
            /\ pc' = "x11"
       ELSE /\ warned' = ~reliable
            /\ pc' = IF env.connector THEN "by_connector" ELSE "done"
  /\ UNCHANGED <<env, asleep, touched, x11Consulted, detectWritten>>

\* dpms_check_drm_asleep_by_businfo: X11 session and unreliable sysfs defer
\* to X11; otherwise unreliable sysfs means not asleep (with a warning), and
\* reliable sysfs reads the connector, if the record has one.
CheckByBusinfo ==
  LET reliable == IsSysfsReliableForBusno(env) IN
  /\ pc = "by_businfo"
  /\ IF IsX11Session(env) /\ ~reliable
       THEN /\ warned' = TRUE
            /\ pc' = "x11"
       ELSE /\ env.foundBy # "DRM_CONNECTOR_NOT_CHECKED"   \* the assert
            /\ warned' = ~reliable
            /\ pc' = IF reliable /\ env.connector THEN "by_connector" ELSE "done"
  /\ UNCHANGED <<env, asleep, touched, x11Consulted, detectWritten>>

\* dpms_is_x11_asleep: with USE_X11 and an x11 session, asleep when
\* get_x11_dpms_info() succeeds with DPMS enabled and a level other than On.
IsX11Asleep ==
  /\ pc = "x11"
  /\ x11Consulted' = TRUE
  /\ asleep' = /\ env.useX11
               /\ IsX11Session(env)
               /\ env.x11Ok
               /\ env.x11State
               /\ env.x11Level # "DPMSModeOn"
  /\ pc' = "done"
  /\ UNCHANGED <<env, touched, detectWritten, warned>>

\* dpms_check_drm_asleep_by_connector: possibly write "detect", read dpms,
\* enabled and status; asleep = !streq(dpms, "On").
CheckByConnector ==
  /\ pc = "by_connector"
  /\ detectWritten' = PossiblyWriteDetect(env)
  /\ touched' = Attrs
  /\ asleep' = (env.dpms # "On")
  /\ pc' = "done"
  /\ UNCHANGED <<env, x11Consulted, warned>>

\* The call has returned.
Returned ==
  /\ pc = "done"
  /\ UNCHANGED vars

Next == CheckByDref \/ CheckByBusinfo \/ IsX11Asleep \/ CheckByConnector \/ Returned

Spec == Init /\ [][Next]_vars /\ WF_vars(Next)

-----------------------------------------------------------------------------
\* The detector implements the decision procedure of spec 4.6: each call
\* returns, with the result the spec gives, having consulted X11 only in
\* the x11-session/unreliable case and read the dpms attribute only when
\* sysfs is reliable and the record has a connector.
Abstract == INSTANCE DpmsSpec WITH
  DpmsValues <- DpmsReads \ {NoAttr},
  Unreadable <- NoAttr,
  rec <- [hasRecord |-> env.hasDetail,
          x11Session |-> IsX11Session(env),
          reliable |-> IsSysfsReliableForBusno(env),
          connector |-> env.connector,
          dpms |-> env.dpms,
          x11Answer |-> env.useX11 /\ env.x11Ok /\ env.x11State
                        /\ env.x11Level # "DPMSModeOn"],
  done <- pc = "done",
  dpmsRead <- "dpms" \in touched,
  x11Queried <- x11Consulted

ImplementsDpmsSpec == Abstract!Spec

=============================================================================
