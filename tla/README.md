# TLA+ models of ddcutil: API locking, discovery, and the objects the API hands out

This directory holds TLA+ models of parts of ddcutil (the `src/` tree of this
repository), the TLC configurations that check them, and `PROJECT.json`. That
file lists the components, the runs, the mutants that show each property can
fail, the source lines each definition translates, the findings and the hazards.

## The system and its parts

`spec.md` describes the display bus and connector discovery subsystem. Much of
its implementation is not in this tree: for the registry, correlation, X37
cache and locks, `src/` has only headers. What is in `src/`, and how the parts
interact:

| Part | Source | Role |
|---|---|---|
| API entry points on display refs | `libmain/api_metadata.c`, `libmain/api_capabilities.c` | Client calls. Most are wrapped in `WITH_VALIDATED_DR4`, which takes the dref lock, validates, runs the action and unlocks. |
| Lock/validation macros | `libmain/api_displays_internal.h` | `WITH_VALIDATED_DR4` and `WITH_VALIDATED_DH3` |
| Bus registry, found-by, X37 cache | `base/i2c_bus_base.h` (header only) | The records that a redetection sweep rebuilds and that calls read |
| DPMS detector | `sysfs/sysfs_dpms.c` | Is a display asleep? Uses sysfs `dpms`, or X11 when sysfs is unreliable. |
| Reliability classifier | `sysfs/sysfs_base.h` (header only) | Trust sysfs for this driver? |
| Sysfs scanner | `sysfs/sysfs_i2c_sys_info.c` | Walks `/sys/bus/i2c/devices/i2c-N` to find the driver and the DRM connector |
| Feature metadata | `base/feature_metadata.c`, `public/ddcutil_types.h` | SL value tables; conversion of internal metadata to client metadata |
| Config file | `util/ddcutil_config_file.c` | Merges the options in `ddcutilrc` into argv |
| Experimental app options | `app_ddcutil/app_experimental.c` | Reporting, and a test loop that repeats discard and redetect |

## Modules

### `BusRegistry`: the registry, the X37 table and correlation

Only the types and prototypes of `base/i2c_bus_base.h` are under `src/`. The
operations are modelled from spec 4.1, 4.3 and 4.5 and are marked
`spec_modelled`. Their values are the header's own: the
`Drm_Connector_Found_By` and `X37_Detection_State` enums, the `I2C_BUS_*`
flags, the fields of `I2C_Bus_Info` that detection uses, and
`use_x37_detection_table`.

The world is modelled beside the registry:
- `attached`: which monitor is plugged into each connector. A connector is
  named for the bus wired to it. `Plug` and `Unplug` change it.
- `connStatus` and `connEdid`: the connector's sysfs attributes. `Unplug`
  may leave both stale, which makes a phantom connector. A connector that
  keeps only one of the two is never an EDID candidate, so it behaves as a
  clean one and is not a separate case.
- Fixed for a run:
  - which monitors answer at 0x37 (the constant `Answering`);
  - which buses sit under their connector in sysfs (`Contained`);
  - whether the X37 table is used (chosen in `Init`, so one run covers both
    builds).

The registry's actions:

| Action | Code it models |
|---|---|
| `AddBus`, `RemoveBus` | `i2c_add_bus`, `i2c_remove_bus_by_busno` |
| `CheckBus` | Reads the EDID at 0x50. It then takes the monitor's X37 state from `i2c_query_x37_detected`, or probes 0x37 live and calls `i2c_record_x37_detected`. It sets `PROBED`, `X50_EDID` and `ADDR_X37`. |
| `Correlate` | Spec 4.3 in precedence order, as `Correlation`: containment (`FOUND_BY_BUSNO`), then an EDID match on exactly one connected connector (`FOUND_BY_EDID`), else `NOT_FOUND`. |
| `DiscardBuses` | `i2c_discard_buses`. Every record goes, and the X37 table is kept. |

The only property kept on the registry is `X37FlagTruthful`, which relates
a record's `ADDR_X37` flag to its monitor after probes, hotplugs and
discards. Properties that only restated one of these spec-modelled actions
are not stated: a refinement of the spec 4.5 history, uniqueness of an EDID
match (`Correlation`'s guard) and completion of detection (a consequence of
the fairness alone).

`BusRegistry` defines the operations and the properties, and
`DetectionVariants` gives the specification that drives them.

### `DetectionVariants`: the detection test loop of `app_experimental.c`

`test_display_detection_variants` (utility option `--f4`) runs through the
rows of its `choices` table. Here it drives the registry, with hotplugs and
the display watch thread interleaving:

| Action | Code it models |
|---|---|
| `LoopStartRow` | Lines 189-212: it sets `DDC_Read_Bytewise`, `EDID_Read_Bytewise` and `EDID_Read_Size` from the row, passes the size assert, then calls `ddc_discard_detected_displays` (`DiscardBuses`). |
| `LoopDetect` | `ddc_ensure_displays_detected`: a record for every bus that has none. `CheckBus` and `Correlate` then run on them. |
| `LoopCount` | Once detection has returned, `ddc_get_display_count(false)` counts the checked records that answered at 0x37. The result is stored, and the loop moves to the next row or ends. |
| `WatchEvent` | The watch thread adds or removes a bus record. It is bounded by `MaxWatchEvents`. |
| `Finished` | The summary, which only prints. |

The timings in `Choice_Results` are left out.

`Choices` is the code's table, with the columns the loop reads. The loop
never applies three columns:
- `write_before_read`;
- the I/O strategy;
- `edid_uses_i2c_layer`. That column is `_DNA` (2) stored in a `bool`, so it
  is always reported as "I2C Layer".

So rows that differ only in `write_before_read` measure the same
configuration. No property states this, because the table has no promise
to check it against.

### `DisplayApi`: concurrent API calls against a redetection sweep

This module models client threads calling the dref entry points while a
`ddca_redetect_displays` sweep runs. A thread's `pc` walks the macro in order:

| Action | Code it models |
|---|---|
| `Call` | `API_PROLOGX(RESPECT_QUIESCE)`: blocked while quiesced, then the thread is active |
| `DrefLock` | `dref_from_published_ddca_dref`, then `dref_lock` |
| `Validate` | `ddci_validate_ddca_display_ref2` |
| `FeatureListAction`, `FeatureMetadataAction`, `DfrCheckAction`, `ReportCapabilitiesAction` | The action of each entry point, with its return codes |
| `DrefUnlock` | `if (dref0) dref_unlock(dref0)` |
| `Return` | The epilogue |

`ReportCapabilitiesAction` is `ddca_report_parsed_capabilities_by_dref`, which
takes no dref lock. It skips the `DrefLock` and `DrefUnlock` steps.

The sweep steps are `SweepStart`, `SweepDiscard`, `SweepAddBus`,
`SweepCorrelate` and `SweepFinish`. They are modelled from spec 4.1 and 4.7,
because their code is not under `src/`:
- The sweep closes the gate.
- It waits for active calls to drain.
- It discards every record and increments the generation.
- It re-adds each bus. A re-added bus may have no display.
- It correlates each record.
- It publishes the new refs and reopens the gate.

A display ref is a pair: its bus, and the generation that created it. A ref
from an earlier generation maps to NULL in `dref_from_published_ddca_dref`.

`dref_lock` and `dref_unlock` follow GLib `GMutex`:
- A lock on a held mutex waits. In the build where `lockMayFail` holds (a
  rigid variable chosen in `Init` from the constant `LockModes`), it can
  instead return `DDCRC_LOCKED`.
- An unlock releases the mutex, whoever holds it.
- Unlocking a mutex that nobody holds aborts the process (`aborted`, then
  `Halted`).

`found_by` is reduced to checked or not checked. `DpmsDetect` and `BusRegistry` tell the
found-by values apart.

### `DpmsDetect` and `DpmsSpec`: the sleep check

`DpmsDetect` steps through one call of `dpms_check_drm_asleep_by_dref`. The
actions are `CheckByDref`, `CheckByBusinfo`, `IsX11Asleep` and
`CheckByConnector`. `Init` chooses the call's inputs, which stay fixed:
- build flag `USE_X11`;
- `XDG_SESSION_TYPE`, which may be unset;
- the override flags and the driver;
- whether the dref has a bus record, and its found-by;
- the X11 DPMS answer;
- the value of the `dpms` attribute.

The reliability classifier is not under `src/`. It is modelled from spec 4.4:
an override wins, force-unreliable first, then the driver table.

`DpmsSpec` is the spec 4.6 decision as one atomic step. It gives the result,
whether X11 is consulted, and whether `dpms` is read. `DpmsDetect` instantiates
it with a refinement mapping and checks `ImplementsDpmsSpec == Abstract!Spec`.

### `ConfigFile`: merging `ddcutilrc` options into argv

One call of `apply_config_file`, step by step:
- `ReadConfigFile` (`read_ddcutil_config_file`): the file may be absent, fail to
  read, or give the global and application options, combined by
  `CombinedOptions`;
- `DispatchReadResult`: the `switch` on its status;
- `TokenizeOptionsLine`: `wordexp` with `WRDE_NOCMD`, modelled by what it does
  over abstract characters (blank, letter, double quote, `|`) in `WordExp`;
- `MergeCommandTokens`: argv[0], then the tokens, then the remaining arguments.

When `wordexp` fails, the code reads a `wordexp_t` it never initialised. That
is undefined, so the model chooses between the outcomes a build can give: a
crash at the `ntsa_length` assert, or an empty token list.

### `FeatureMetadata`: metadata handed to clients, and SL value tables

- **SL value tables** are sequences of entries ending in the terminator.
  `sl_value_table_size`, `copy_sl_value_table` and `sl_value_table_lookup` are
  `RECURSIVE` operators. They are checked against `RefLookup`, a reference
  lookup built from `SelectInSeq`.
- **The heap** is a set of live blocks `<<call, owner, part>>`. Freeing a block
  that is not live sets `heapError`.
- **`ddca_get_feature_metadata_by_vspec`, `_by_dref` and `_by_dh`** build an
  internal `Display_Feature_Metadata` (dfm) in one of three ways:
  - for a known feature, from the feature table;
  - for a user-defined feature, from its `Dyn_Feature_Metadata`;
  - for an unknown feature, as a synthetic default.

  Each call then converts the dfm with `dfm_to_ddca_feature_metadata`, frees it
  with `dfm_free`, and appends the client record to `handed`. `_by_dh` runs
  inside `WITH_VALIDATED_DH3`.
- **`ddca_free_feature_metadata`** checks the marker and
  `DDCA_PERSISTENT_METADATA`. It then frees the name, the description and the
  value table (`free_ddca_feature_metadata`), and writes `'x'` into the marker. It never frees the
  struct itself. `ClientFreeReleasesContents` speaks of the contents, and
  `ClientFreeReleasesRecord` of the struct that
  `dfm_to_ddca_feature_metadata` calloc'ed.
- **`ddca_get_feature_flags_by_vspec`** allocates and frees a transient dfm.

The dfm builders of the VCP feature table are not under `src/`. They are
modelled from spec and marked `spec_modelled`.

### `Capabilities`: parsed capabilities and the capabilities string

- `ddca_parse_capabilities_string` turns a parse result into a
  `DDCA_Capabilities`. Its separately allocated fields are blocks on the same
  heap. The parse result is an input, because `parse_capabilities_string` is
  not under `src/`.
- `ddca_free_parsed_capabilities` frees those blocks.
- `ddca_get_capabilities_string` gives the client a `g_strdup` copy. Its inputs
  are the handle check and the status of the capabilities cache.

### `ApiObjects`: the metadata and capabilities APIs on one heap

`ApiObjects` instantiates both modules over one heap (`live`, `heapError`). It
adds the three report entry points:
- `ddca_report_parsed_capabilities`;
- `ddca_report_parsed_capabilities_by_dref`;
- `ddca_report_parsed_capabilities_by_dh`.

For each feature of the vcp section, a report builds a dfm and frees it
(`ReportParsedCapabilitiesBody`, a fold over the codes).

### `I2cSysInfo`: the sysfs walk of `get_i2c_sys_info`

`Init` chooses the entry of `/sys/bus/i2c/devices` that `report_one_bus_i2c`
is given. It is either a bus node `i2c-N`, or a device such as `1-0037`,
which is ignored. `Init` also chooses an abstract sysfs tree for the bus:
- the kind of its parent: DP connector, other connector, or PCI controller;
- whether the parent's `ddc` link resolves;
- the display class;
- whether a driver link exists;
- whether the `i2c-dev` attributes exist;
- the card's connectors in directory order, each DP or not, each with the bus
  its `ddc` link names, if any.

The actions follow `get_i2c_sys_info` and the node readers it calls, in order.
A connector search stops at the first hit, as `read_drm_nondp_card_connector_node`
does.

`heap` holds the strings the walk allocates. Each is a block named after
the field or local that holds it:
- the record and its fields;
- the parent's realpath;
- `class`;
- the driver realpath;
- the `drm_dp_aux*` name.

A block is removed where the code frees it. For a display controller,
`class` is freed only after the card walk (`FinishCards`). The parent's
realpath is freed where `get_i2c_sys_info` returns (`EndGet`). The record
is freed in `FreeI2cSysInfo`. A connector name from `g_strdup` is keyed by
its connector node, so a second hit would show as a second block.

## Runs

| Run | Expect | What it shows |
|---|---|---|
| `api_live` | pass | Both builds of `dref_lock` are checked in one run. `TypeOK`. `BodySeesCorrelatedRecord`: every action sees a current, correlated record, so the `assert` at `sysfs_dpms.c:215` holds, even when the lock can fail. `EveryCallReturns` and `SweepCompletes` hold under the fairness below in the build whose lock waits. In the failing build a thread can abort the process, so they are stated as `~lockMayFail => ...`. |
| `api_dref_exclusive` | violation | `DrefExclusive` is broken. A failed `dref_lock` is followed by `dref_unlock`, which frees the holder's lock, and two DR4 actions then run on one ref. |
| `api_unlocked_report` | violation | `ddca_report_parsed_capabilities_by_dref` reads a ref while a DR4 call holds its lock. |
| `dpms_readable` | pass | The detector refines the spec 4.6 decision for every input with a readable `dpms`. |
| `dpms_unreadable` | violation | An unreadable `dpms` gives "asleep". The spec says fail-open. |
| `config_apply` | pass | `ConfigAppliedWhenAccepted`: for every options value `wordexp` accepts, and every file outcome, the result is argv[0], then the options, then the arguments. Otherwise argv is unchanged, and the read error is returned, or 0 when there is no file. |
| `config_badline` | violation | An options value `wordexp` rejects (an unbalanced quote, or a `\|`) crashes, or drops the options and returns 0. The header of `apply_config_file` promises an error result. |
| `api_objects` | pass | The calls run in every order, with valid and invalid handles and refs, and repeated frees. Under every order, `NoDoubleFree` holds: no block is freed twice. `ParsedCapabilitiesReleased` holds: a freed `DDCA_Capabilities` leaves nothing live. `ClientTableLookupAgrees` holds: every value table a client gets answers lookups as the feature's table does. |
| `sysinfo_walk` | pass | `SysInfoWalkReleasesAll`: when `report_one_bus_i2c` returns, every string the walk allocated has been freed, for every tree and branch. `SysInfoMatchesReference`: for every tree with up to 3 connectors, the walk's connector, driver, DP flag and i2c-dev attributes match the spec 4.2 resolution. That is the DP parent when its `ddc` link resolves, else the first non-DP connector whose `ddc` is the bus. |
| `registry_x37` | pass | Module `DetectionVariants`: two rows of the test loop, with hotplugs and watch events. `X37FlagTruthful`: the `ADDR_X37` flag of every checked record is its own monitor's answer, never one inherited from another monitor on the bus. It holds across monitor swaps, phantoms and the discard at the start of each row, after which the table, not a probe, supplies the state. |
| `fm_struct_leak` | violation | `ClientFreeReleasesRecord`: after one get and one `ddca_free_feature_metadata` of an ordinary record, the `DDCA_Feature_Metadata` struct is still live. `free_ddca_feature_metadata` (`feature_metadata.c:629-647`) never frees it, and the API has no other call that does. |
| `fm_persistent_leak` | violation | `ClientFreeReleasesContents`: metadata of a user-defined feature is marked `DDCA_PERSISTENT_METADATA` when it is copied to the client (`feature_metadata.c:610`), so `ddca_free_feature_metadata` frees none of it. |

Each property of a passing run has a mutant in `PROJECT.json`: a plausible bug
in the mapped definition under which TLC finds the property violated.

## Bounds

- Two threads, two buses and one sweep (`MaxSweeps = 1`) give four display
  refs. This is enough for the cases that matter:
  - two threads on the same ref;
  - a stale ref from before the sweep;
  - a bus that loses its display in the sweep.
- The DPMS run enumerates every input combination: 3 drivers, 2 of them
  reliable, and 4 readable `dpms` values. The unreadable run adds NULL.
- Config file: options values of up to 2 characters over {letter, blank,
  quote, `|`}, and up to one argument. These include an empty value, a
  blank-only value, an unbalanced quote and a rejected character.
- `api_objects`:
  - one feature with every kind of source: known or user-defined, with or
    without a name, description or table;
  - value tables of up to 2 entries, with a code repeated under two names, so
    first-match lookup is tested;
  - one get, one parse (or failed parse) and one capabilities-string call,
    with the frees and reports in any order;
  - the metadata run (`fm_persistent_leak`) allows 2 gets.

  The cfg sets `VIEW HeapView`. This view leaves out `lastRc`, `parseRc` and
  `reportRc`, the status codes of the last calls, which no guard and no
  property reads. States that differ only in them have the same futures, so
  merging them is sound for the invariants checked. It cuts the run from
  616,512 states to 72,000.
- `registry_x37`:
  - two buses and two monitors, so a monitor can move to the other bus, or be
    replaced by the other monitor;
  - two hotplug events, which are enough to unplug and replug, or to make a
    phantom and then plug elsewhere;
  - two rows, so there are two discards: the second row depends on the
    table surviving the first;
  - one watch event, which can remove a bus during detection;
  - one contained and one uncontained bus, so both correlation methods
    happen;
  - one monitor that answers at 0x37 and one that does not, so a state
    handed to the wrong monitor shows;
  - both builds of the table.

  The run reaches 121,485 states in a few seconds.
- `sysinfo_walk`: up to 3 connectors, so a hit can come first, in the middle,
  or after a DP connector; two buses, so a `ddc` link can name another bus;
  a bus entry and a device entry. The run reaches 254,244 states in a few
  seconds.

## Fairness

Client threads are OS threads. Once a call has started, it keeps running:
there is weak fairness on every step of a call except taking the lock.
Taking the lock has strong fairness, since a mutex released infinitely often
is eventually acquired by a waiter. Starting a call (`Call`) has no fairness,
because a client need never call. The sweep runs in its own thread, with weak
fairness.

`ApiObjects`, `DetectionVariants`, `ConfigFile`, `I2cSysInfo` and `DpmsDetect` check only
invariants, and each ends in a terminal stuttering step. That step is
`Done`/`Finished`/`Returned`, or a state where nothing more can be called
within the bounds. These modules assume no fairness.

## Not modelled yet

1. **Bus check window**: `CheckBus` is atomic. If it were split in two, a
   hotplug between the EDID read and the 0x37 probe would write the other
   monitor's answer under the EDID. That breaks `X37FlagTruthful`. The
   check code is not under `src/`, and the spec does not say how it guards
   this window, so there is nothing to model faithfully.
2. **Display handles**: open and close, so that `DisplayApi` and `ApiObjects`
   can share one display model. At present a handle is valid or invalid.
3. **Liveness in `ApiObjects`**: client-side obligations, such as "every
   handed-out record is eventually freed", are the client's and not the
   library's, so none is stated.

Left out:
- `report_experimental_options`, which only prints (it saves the
  ornamentation setting and restores it);
- the dynamic-feature-file prototypes;
- the `interpret_*` flag formatters;
- the `dbgrpt_*` reports, `dbgrpt_i2c_sys_info` among them;
- the loop of `dbgrpt_sys_bus_i2c` over every entry. Each entry is one
  `report_one_bus_i2c` call with nothing carried over, so one entry is
  modelled.
- the `ddca_feature_list_*` wrappers and `ddca_feature_list_from_capabilities`.
  They pass a bitmap by value to the bit operations of `base/feature_lists.c`,
  which is not under `src/`. They hold no state and take no lock. The lock
  discipline of `ddca_get_feature_list_by_dref` is `FeatureListAction` in
  `DisplayApi`.

What is left of `src/` is not a step a model checker can add to. It is one of
four kinds:
- code compiled out by `#ifdef OLD`, `UNUSED`, `NEVER_RELEASED`, `IN_PROGRESS`,
  `DEPRECATED` or `UNPUBLISHED`;
- report and formatting code (`dbgrpt_*`, `interpret_*`, trace messages);
- type and constant declarations (`ddcutil_types.h`);
- thin wrappers over code outside `src/`.
