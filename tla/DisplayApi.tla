----------------------------- MODULE DisplayApi -----------------------------
(***************************************************************************)
(* Concurrent libddcutil API calls on display references against a        *)
(* redetection sweep that discards and rebuilds the I2C bus registry.      *)
(*                                                                         *)
(* From the source (src/libmain): the entry points that take a             *)
(* DDCA_Display_Ref, the WITH_VALIDATED_DR4 macro that wraps them          *)
(* (api_displays_internal.h) and the unlocked path of                      *)
(* ddca_report_parsed_capabilities_by_dref (api_capabilities.c).  From the *)
(* spec (the code is not under src/): the quiesce gate of API_PROLOGX,     *)
(* dref_lock/dref_unlock, dref_from_published_ddca_dref, validation, and   *)
(* the sweep of ddca_redetect_displays (discard_all, add_bus, correlate).  *)
(***************************************************************************)
EXTENDS Naturals, FiniteSets, TLC

CONSTANTS
  Threads,          \* client threads calling the API
  Buses,            \* I2C bus numbers that may carry a display
  MaxSweeps,        \* bound on the number of redetection sweeps
  NoOwner,          \* model value: a dref mutex that nobody holds
  NoDref,           \* model value: NULL returned by dref_from_published_ddca_dref
  LockModes         \* what dref_lock() may do on a held mutex: TRUE = fail, FALSE = wait

ASSUME MaxSweeps \in Nat
ASSUME LockModes \subseteq BOOLEAN
ASSUME NoOwner \notin Threads

\* Drm_Connector_Found_By (base/i2c_bus_base.h), abstracted to whether the
\* connector has been checked: NOT_FOUND, FOUND_BY_BUSNO and FOUND_BY_EDID
\* are all "Checked" here (DpmsDetect tells them apart).  Absent: the bus
\* has no I2C_Bus_Info.
NotChecked == "DRM_CONNECTOR_NOT_CHECKED"
Checked    == "checked"
FoundBy    == {NotChecked, Checked}
Absent     == "absent"

\* Entry points wrapped by WITH_VALIDATED_DR4, and the one that is not.
DR4Ops      == {"ddca_get_feature_list_by_dref", "ddca_get_feature_metadata_by_dref",
                "ddca_dfr_check_by_dref"}
UnlockedOps == {"ddca_report_parsed_capabilities_by_dref"}
Ops         == DR4Ops \cup UnlockedOps

\* A display reference: the bus it is anchored to and the sweep that made it.
Drefs == Buses \X (0 .. MaxSweeps)
Status == {"OK", "DDCRC_ARG", "DDCRC_LOCKED", "DDCRC_NOT_FOUND", "DDCRC_BAD_DATA"}
Pcs == {"idle", "lock", "validate", "body", "unlock", "return"}

VARIABLES
  busFoundBy,  \* bus -> drm_connector_found_by of its record, or Absent
  gen,         \* sweeps that have discarded the registry so far
  published,   \* display refs handed out to clients so far
  sweep,       \* phase of ddca_redetect_displays: "idle" | "drain" | "scan"
  scanned,     \* buses the current rescan has handled
  active,      \* threads inside a RESPECT_QUIESCE API call
  drefLock,    \* dref -> thread holding its mutex, or NoOwner
  pc, op, ref, dref0, rc,
  aborted,     \* g_mutex_unlock() on an unlocked mutex aborted the process
  lockMayFail  \* the build's dref_lock() gives up on a held mutex (fixed)

vars == <<busFoundBy, gen, published, sweep, scanned, active, drefLock,
          pc, op, ref, dref0, rc, aborted, lockMayFail>>
threadVars == <<pc, op, ref, dref0, rc>>
sweepVars  == <<busFoundBy, gen, published, sweep, scanned>>

-----------------------------------------------------------------------------
(* Helpers                                                                 *)

\* The quiesce gate is closed while a sweep runs (spec 4.7).
Quiesced == sweep # "idle"

\* dref_from_published_ddca_dref: the refs of the current generation are
\* the published ones; a ref from before the last discard maps to NULL.
FromPublished(r) == IF r[2] = gen /\ busFoundBy[r[1]] # Absent THEN r ELSE NoDref

\* ddci_validate_ddca_display_ref2 / ddc_validate_display_ref2 with
\* DREF_VALIDATE_BASIC_ONLY: the ref must be a live display of this generation.
Valid(r) == FromPublished(r) # NoDref

Goto(t, where) == pc' = [pc EXCEPT ![t] = where]

\* The locals of an idle thread, which hold no meaning between calls.
NoOp  == CHOOSE o \in DR4Ops : TRUE
NoRef == CHOOSE r \in Drefs : TRUE

-----------------------------------------------------------------------------
Init ==
  \* ddca_init() has detected and correlated the displays, and the client
  \* holds the ref of at least one of them.
  /\ busFoundBy \in [Buses -> {Checked, Absent}]
  /\ \E b \in Buses : busFoundBy[b] # Absent
  /\ gen = 0
  /\ published = {<<b, 0>> : b \in {x \in Buses : busFoundBy[x] # Absent}}
  /\ sweep = "idle"
  /\ scanned = {}
  /\ active = {}
  /\ drefLock = [r \in Drefs |-> NoOwner]
  /\ pc = [t \in Threads |-> "idle"]
  /\ op = [t \in Threads |-> NoOp]
  /\ ref = [t \in Threads |-> NoRef]
  /\ dref0 = [t \in Threads |-> NoDref]
  /\ rc = [t \in Threads |-> "OK"]
  /\ aborted = FALSE
  /\ lockMayFail \in LockModes

-----------------------------------------------------------------------------
(* API threads                                                             *)

\* Mutant: the prologue does not respect the quiesce gate.
CallIgnoringQuiesce(t, o, r) ==
  /\ pc[t] = "idle"
  /\ active' = active \cup {t}
  /\ op' = [op EXCEPT ![t] = o]
  /\ ref' = [ref EXCEPT ![t] = r]
  /\ rc' = [rc EXCEPT ![t] = "OK"]
  /\ Goto(t, IF o \in DR4Ops THEN "lock" ELSE "validate")
  /\ UNCHANGED <<sweepVars, drefLock, dref0, aborted, lockMayFail>>

\* API_PROLOGX(RESPECT_QUIESCE): a call with a published ref enters only
\* while no sweep runs, and is counted as active until its epilogue.
Call(t, o, r) ==
  /\ pc[t] = "idle"
  /\ ~Quiesced
  /\ active' = active \cup {t}
  /\ op' = [op EXCEPT ![t] = o]
  /\ ref' = [ref EXCEPT ![t] = r]
  /\ rc' = [rc EXCEPT ![t] = "OK"]
  /\ Goto(t, IF o \in DR4Ops THEN "lock" ELSE "validate")
  /\ UNCHANGED <<sweepVars, drefLock, dref0, aborted, lockMayFail>>

\* Mutant: the macro validates and runs the action on a NULL dref0 too,
\* taking a lock slot for it.
DrefLockOnNull(t) ==
  LET d == FromPublished(ref[t]) IN
  /\ pc[t] = "lock"
  /\ dref0' = [dref0 EXCEPT ![t] = d]
  /\ drefLock' = [x \in DOMAIN drefLock \cup {d} |->
                    IF x = d THEN t ELSE drefLock[x]]
  /\ UNCHANGED rc
  /\ Goto(t, "validate")
  /\ UNCHANGED <<sweepVars, active, op, ref, aborted, lockMayFail>>

\* WITH_VALIDATED_DR4, lines 30-33: dref0 = dref_from_published_ddca_dref;
\* if non-NULL, _ddcrc = dref_lock(dref0).  The lock waits while another
\* thread holds it, or, when lockMayFail, gives up with DDCRC_LOCKED.
DrefLock(t) ==
  LET d == FromPublished(ref[t]) IN
  /\ pc[t] = "lock"
  /\ dref0' = [dref0 EXCEPT ![t] = d]
  /\ \/ /\ d = NoDref
        /\ UNCHANGED <<drefLock, rc>>
        /\ Goto(t, "validate")
     \/ /\ d # NoDref
        /\ drefLock[d] = NoOwner
        /\ drefLock' = [drefLock EXCEPT ![d] = t]
        /\ UNCHANGED rc
        /\ Goto(t, "validate")
     \/ /\ d # NoDref
        /\ drefLock[d] \notin {NoOwner, t}
        /\ lockMayFail
        /\ rc' = [rc EXCEPT ![t] = "DDCRC_LOCKED"]
        /\ UNCHANGED drefLock
        /\ Goto(t, "unlock")
  /\ UNCHANGED <<sweepVars, active, op, ref, aborted, lockMayFail>>

\* Lines 34-38 of WITH_VALIDATED_DR4, and lines 472-480 of
\* ddca_report_parsed_capabilities_by_dref: validate, then run the action;
\* a DR4 call that fails validation still goes on to the unlock.
Validate(t) ==
  /\ pc[t] = "validate"
  /\ IF Valid(ref[t])
       THEN /\ Goto(t, "body")
            /\ UNCHANGED rc
       ELSE /\ rc' = [rc EXCEPT ![t] = "DDCRC_ARG"]
            /\ Goto(t, IF op[t] \in DR4Ops THEN "unlock" ELSE "return")
  /\ UNCHANGED <<sweepVars, active, drefLock, op, ref, dref0, aborted, lockMayFail>>

\* Where a call goes once its action is done.
AfterAction(t) == IF op[t] \in DR4Ops THEN "unlock" ELSE "return"

\* The actions run on a validated ref; each reads the display ref and the
\* bus record behind it.  ddca_get_feature_list_by_dref:
\* get_vcp_version_by_dref, dyn_create_feature_set; always succeeds.
FeatureListAction(t) ==
  /\ pc[t] = "body" /\ op[t] = "ddca_get_feature_list_by_dref"
  /\ Goto(t, AfterAction(t))
  /\ UNCHANGED <<sweepVars, active, drefLock, op, ref, dref0, rc, aborted, lockMayFail>>

\* ddca_get_feature_metadata_by_dref: DDCRC_NOT_FOUND when
\* dyn_get_feature_metadata_by_dref finds no metadata.
FeatureMetadataAction(t) ==
  /\ pc[t] = "body" /\ op[t] = "ddca_get_feature_metadata_by_dref"
  /\ \E found \in BOOLEAN :
       rc' = [rc EXCEPT ![t] = IF found THEN "OK" ELSE "DDCRC_NOT_FOUND"]
  /\ Goto(t, AfterAction(t))
  /\ UNCHANGED <<sweepVars, active, drefLock, op, ref, dref0, aborted, lockMayFail>>

\* ddca_dfr_check_by_dref: an error of dfr_check_by_dref is returned,
\* except DDCRC_NOT_FOUND (no feature definition file), which is success.
DfrCheckAction(t) ==
  /\ pc[t] = "body" /\ op[t] = "ddca_dfr_check_by_dref"
  /\ \E excp \in {"none", "DDCRC_NOT_FOUND", "DDCRC_BAD_DATA"} :
       rc' = [rc EXCEPT ![t] = IF excp \in {"none", "DDCRC_NOT_FOUND"} THEN "OK" ELSE excp]
  /\ Goto(t, AfterAction(t))
  /\ UNCHANGED <<sweepVars, active, drefLock, op, ref, dref0, aborted, lockMayFail>>

\* ddca_report_parsed_capabilities_by_dref: ddci_report_parsed_capabilities_by_dref
\* runs on the validated dref; no dref lock is held.
ReportCapabilitiesAction(t) ==
  /\ pc[t] = "body" /\ op[t] = "ddca_report_parsed_capabilities_by_dref"
  /\ Goto(t, AfterAction(t))
  /\ UNCHANGED <<sweepVars, active, drefLock, op, ref, dref0, rc, aborted, lockMayFail>>

\* Mutant: dref_unlock() leaves the mutex held.
DrefUnlockLeaks(t) ==
  /\ pc[t] = "unlock"
  /\ Goto(t, "return")
  /\ UNCHANGED <<sweepVars, active, drefLock, op, ref, dref0, rc, aborted, lockMayFail>>

\* Lines 39-40: if (dref0) dref_unlock(dref0), whatever dref_lock returned.
\* g_mutex_unlock releases the mutex whoever holds it, and aborts the
\* process when it is not locked at all.
DrefUnlock(t) ==
  LET d == dref0[t] IN
  /\ pc[t] = "unlock"
  /\ \/ /\ d = NoDref
        /\ UNCHANGED <<drefLock, aborted>>
     \/ /\ d # NoDref
        /\ drefLock[d] # NoOwner
        /\ drefLock' = [drefLock EXCEPT ![d] = NoOwner]
        /\ UNCHANGED aborted
     \/ /\ d # NoDref
        /\ drefLock[d] = NoOwner
        /\ aborted' = TRUE
        /\ UNCHANGED drefLock
  /\ Goto(t, "return")
  /\ UNCHANGED <<sweepVars, active, op, ref, dref0, rc, lockMayFail>>

\* API_EPILOG_RET_DDCRC(RESPECT_QUIESCE): the call returns rc and is no
\* longer active.
Return(t) ==
  /\ pc[t] = "return"
  /\ active' = active \ {t}
  /\ op' = [op EXCEPT ![t] = NoOp]
  /\ ref' = [ref EXCEPT ![t] = NoRef]
  /\ dref0' = [dref0 EXCEPT ![t] = NoDref]
  /\ rc' = [rc EXCEPT ![t] = "OK"]
  /\ Goto(t, "idle")
  /\ UNCHANGED <<sweepVars, drefLock, aborted, lockMayFail>>

-----------------------------------------------------------------------------
(* Redetection sweep (ddca_redetect_displays)                              *)

\* Quiesce: close the gate to new calls.
SweepStart ==
  /\ sweep = "idle"
  /\ gen < MaxSweeps
  /\ sweep' = "drain"
  /\ UNCHANGED <<busFoundBy, gen, published, scanned, active, drefLock,
                 threadVars, aborted, lockMayFail>>

\* Mutant: the registry is discarded without waiting for active calls.
SweepDiscardEarly ==
  /\ sweep = "drain"
  /\ busFoundBy' = [b \in Buses |-> Absent]
  /\ gen' = gen + 1
  /\ sweep' = "scan"
  /\ scanned' = {}
  /\ UNCHANGED <<published, active, drefLock, threadVars, aborted, lockMayFail>>

\* i2c_discard_buses once every active call has returned: every record and
\* every display ref of the old generation is gone.
SweepDiscard ==
  /\ sweep = "drain"
  /\ active = {}
  /\ busFoundBy' = [b \in Buses |-> Absent]
  /\ gen' = gen + 1
  /\ sweep' = "scan"
  /\ scanned' = {}
  /\ UNCHANGED <<published, active, drefLock, threadVars, aborted, lockMayFail>>

\* i2c_add_bus for a bus that (still) has a display: a fresh record whose
\* connector has not been checked; or no record when nothing answers.
SweepAddBus(b) ==
  /\ sweep = "scan"
  /\ b \notin scanned
  /\ \E connected \in BOOLEAN :
       busFoundBy' = [busFoundBy EXCEPT ![b] = IF connected THEN NotChecked ELSE Absent]
  /\ scanned' = scanned \cup {b}
  /\ UNCHANGED <<gen, published, sweep, active, drefLock, threadVars, aborted, lockMayFail>>

\* Connector correlation (spec 4.3) annotates a fresh record exactly once.
SweepCorrelate(b) ==
  /\ sweep = "scan"
  /\ busFoundBy[b] = NotChecked
  /\ busFoundBy' = [busFoundBy EXCEPT ![b] = Checked]
  /\ UNCHANGED <<gen, published, sweep, scanned, active, drefLock, threadVars, aborted, lockMayFail>>

\* Publish the new display refs and reopen the gate, only once rescan and
\* correlation are complete (spec 4.7).
SweepFinish ==
  /\ sweep = "scan"
  /\ scanned = Buses
  /\ \A b \in Buses : busFoundBy[b] # NotChecked
  /\ published' = published \cup {<<b, gen>> : b \in {x \in Buses : busFoundBy[x] # Absent}}
  /\ sweep' = "idle"
  /\ UNCHANGED <<busFoundBy, gen, scanned, active, drefLock, threadVars, aborted, lockMayFail>>

-----------------------------------------------------------------------------
\* The process has aborted: nothing more happens.
Halted ==
  /\ aborted
  /\ UNCHANGED vars

ThreadStep(t) ==
  \/ DrefLock(t) \/ Validate(t) \/ DrefUnlock(t) \/ Return(t)
  \/ FeatureListAction(t) \/ FeatureMetadataAction(t) \/ DfrCheckAction(t)
  \/ ReportCapabilitiesAction(t)

SweepStep ==
  \/ SweepStart \/ SweepDiscard \/ SweepFinish
  \/ \E b \in Buses : SweepAddBus(b) \/ SweepCorrelate(b)

Next ==
  \/ /\ ~aborted
     /\ \/ \E t \in Threads, o \in Ops, r \in published : Call(t, o, r)
        \/ \E t \in Threads : ThreadStep(t)
        \/ SweepStep
  \/ Halted

\* Threads are OS threads the scheduler keeps running; a waiter gets a
\* mutex that is released infinitely often.  Clients need never call.
Fairness ==
  /\ \A t \in Threads : WF_vars(ThreadStep(t) /\ pc[t] # "lock")
  /\ \A t \in Threads : SF_vars(DrefLock(t))
  /\ WF_vars(SweepStep)

Symm == Permutations(Threads) \cup Permutations(Buses)

Spec == Init /\ [][Next]_vars /\ Fairness

-----------------------------------------------------------------------------
(* Properties                                                              *)

TypeOK ==
  /\ busFoundBy \in [Buses -> FoundBy \cup {Absent}]
  /\ gen \in 0 .. MaxSweeps
  /\ published \subseteq Drefs
  /\ sweep \in {"idle", "drain", "scan"}
  /\ scanned \subseteq Buses
  /\ active \subseteq Threads
  /\ drefLock \in [Drefs -> Threads \cup {NoOwner}]
  /\ pc \in [Threads -> Pcs]
  /\ op \in [Threads -> Ops]
  /\ ref \in [Threads -> Drefs]
  /\ dref0 \in [Threads -> Drefs \cup {NoDref}]
  /\ rc \in [Threads -> Status]
  /\ aborted \in BOOLEAN
  /\ lockMayFail \in BOOLEAN

\* An API action never runs on a half-rebuilt registry (spec 5): while a
\* thread is in the action of any entry point, its ref is of the current
\* generation and the bus record behind it exists and has been correlated.
\* This is also what the assert in dpms_check_drm_asleep_by_businfo
\* (sysfs_dpms.c:215) relies on.
BodySeesCorrelatedRecord ==
  \A t \in Threads :
    pc[t] = "body" =>
      /\ ref[t][2] = gen
      /\ busFoundBy[ref[t][1]] \notin {Absent, NotChecked}

\* Two WITH_VALIDATED_DR4 actions never run at once on the same display
\* ref: the dref mutex excludes them (spec 4.7).
DrefExclusive ==
  \A t1, t2 \in Threads :
    (/\ t1 # t2
     /\ pc[t1] = "body" /\ pc[t2] = "body"
     /\ op[t1] \in DR4Ops /\ op[t2] \in DR4Ops)
      => ref[t1] # ref[t2]

\* Every entry point that reads a display ref holds its lock while it does
\* (spec 4.7): no call reads a ref in its action while another thread runs
\* a locked action on the same ref without the reader holding the lock.
NoUnlockedReadDuringLockedCall ==
  \A t1, t2 \in Threads :
    (/\ t1 # t2
     /\ pc[t1] = "body" /\ pc[t2] = "body"
     /\ op[t1] \in DR4Ops
     /\ ref[t1] = ref[t2])
      => drefLock[ref[t2]] = t2

\* With a dref_lock that waits for the mutex, every API call that has
\* started eventually returns.
EveryCallReturns ==
  ~lockMayFail => \A t \in Threads : pc[t] # "idle" ~> pc[t] = "idle"

\* With a dref_lock that waits, a sweep that has closed the gate
\* eventually reopens it: the calls it drains all return.
SweepCompletes == ~lockMayFail => (Quiesced ~> ~Quiesced)

=============================================================================
