--------------------------- MODULE FeatureMetadata ---------------------------
(***************************************************************************)
(* The lifecycle of feature metadata handed to a client: the API calls    *)
(* ddca_get_feature_metadata_by_vspec/_by_dref/_by_dh build an internal    *)
(* Display_Feature_Metadata (dfm), convert it to a DDCA_Feature_Metadata   *)
(* with dfm_to_ddca_feature_metadata and free the dfm; the client later    *)
(* calls ddca_free_feature_metadata, possibly more than once.  The heap is *)
(* a set of live blocks <<call, owner, part>>, so leaks, shared pointers   *)
(* and double frees are visible.  SL value tables are sequences of         *)
(* entries ending in the terminating entry; copy and lookup are the loops  *)
(* of src/base/feature_metadata.c.                                         *)
(***************************************************************************)
EXTENDS Naturals, Sequences, SequencesExt

CONSTANTS
  Features,     \* VCP feature codes the client asks about
  Codes,        \* SL value codes that tables use (0 is the terminator's)
  ValueNames,   \* value names of table entries
  MaxTableLen,  \* bound on the entries of a table before the terminator
  MaxGets,      \* bound on the metadata instances handed out
  Null          \* model value: a NULL pointer

ASSUME 0 \notin Codes /\ MaxTableLen \in Nat /\ MaxGets \in Nat

\* Global feature flags (public/ddcutil_types.h:443-447) as names.
PERSISTENT   == "DDCA_PERSISTENT_METADATA"
USER_DEFINED == "DDCA_USER_DEFINED"
SYNTHETIC    == "DDCA_SYNTHETIC"

Entries    == [code : Codes, name : ValueNames]
Terminator == [code |-> 0, name |-> Null]
Tables     == {t \o <<Terminator>> : t \in BoundedSeq(Entries, MaxTableLen)}

\* What the feature tables know of a feature: whether the VCP table knows it,
\* whether a user-defined (dynamic) definition exists, which strings it
\* has, its SL value table, and whether its table entry is persistent.
FeatureSources ==
  [known : BOOLEAN, udf : BOOLEAN, hasName : BOOLEAN, hasDesc : BOOLEAN,
   slValues : Tables \cup {Null}, tablePersistent : BOOLEAN]

-----------------------------------------------------------------------------
(* SL value tables                                                         *)

\* sl_value_table_size: entries up to and including the terminator.
RECURSIVE SizeFrom(_, _)
SizeFrom(t, i) == IF t[i].name = Null THEN i ELSE SizeFrom(t, i + 1)
SlValueTableSize(t) == IF t = Null THEN 0 ELSE SizeFrom(t, 1)

\* copy_sl_value_table: a new table of the same size; each entry's code is
\* copied, and its name duplicated, up to and including the terminator.
CopySlValueTable(t) ==
  IF t = Null THEN Null
  ELSE [i \in 1 .. SlValueTableSize(t) |-> [code |-> t[i].code, name |-> t[i].name]]

\* Mutant: the loop has no break and returns the last matching entry.
RECURSIVE LookupLastFrom(_, _, _)
LookupLastFrom(t, v, i) ==
  IF t[i].name = Null THEN Null
  ELSE LET rest == LookupLastFrom(t, v, i + 1)
       IN IF rest = Null /\ t[i].code = v THEN t[i].name ELSE rest
SlValueTableLookupLast(t, v) == LookupLastFrom(t, v, 1)

\* sl_value_table_lookup: the name of the first entry with the code, NULL
\* if the terminator comes first.
RECURSIVE LookupFrom(_, _, _)
LookupFrom(t, v, i) ==
  IF t[i].name = Null THEN Null
  ELSE IF t[i].code = v THEN t[i].name
  ELSE LookupFrom(t, v, i + 1)
SlValueTableLookup(t, v) == LookupFrom(t, v, 1)

\* ddca_get_simple_nc_feature_value_name_by_table: the lookup's name, and
\* DDCRC_NOT_FOUND when there is none.
GetSimpleNcFeatureValueNameByTable(t, v) ==
  LET name == SlValueTableLookup(t, v)
  IN [rc |-> IF name = Null THEN "DDCRC_NOT_FOUND" ELSE "0", name |-> name]

\* Reference: among the entries before the terminator, the first one with
\* the code.
RefLookup(t, v) ==
  LET n    == SelectInSeq(t, LAMBDA e : e.name = Null)
      hits == {i \in 1 .. n - 1 : t[i].code = v}
  IN IF hits = {} THEN Null ELSE t[Min(hits)].name

-----------------------------------------------------------------------------
(* Metadata records and the heap                                           *)

\* Separately allocated parts of a record: the record, its feature_name and
\* feature_desc strings, its SL value table array and the k-th value_name.
Struct       == <<"struct", 0>>
Name         == <<"feature_name", 0>>
Desc         == <<"feature_desc", 0>>
Table        == <<"sl_values", 0>>
ValueName(k) == <<"value_name", k>>

\* The blocks of an SL value table: the array and each entry's value_name.
SlTableParts(t) ==
  IF t = Null THEN {}
  ELSE {Table} \cup {ValueName(k) : k \in 1 .. SlValueTableSize(t) - 1}

\* Parts of a metadata record that are separately allocated.
Parts(r) ==
  {Struct} \cup (IF r.name THEN {Name} ELSE {})
             \cup (IF r.desc THEN {Desc} ELSE {})
             \cup SlTableParts(r.slValues)

\* The blocks of a record of call n with the given owner ("dfm" or "meta").
Blocks(n, owner, r) == {<<n, owner, p>> : p \in Parts(r)}

Alloc(h, B) == [live |-> h.live \cup B, err |-> h.err]

\* free() of a block that is not live is a double free.
FreeBlocks(h, B) == [live |-> h.live \ B, err |-> h.err \/ ~(B \subseteq h.live)]

\* free_sl_value_table: each value_name up to the terminator, then the
\* array; nothing for NULL.
FreeSlValueTable(t) ==
  IF t = Null THEN {}
  ELSE {ValueName(k) : k \in 1 .. SizeFrom(t, 1) - 1} \cup {Table}

\* dfm_free: the name, the description, the value table and the record.
DfmFree(h, n, dfm) ==
  FreeBlocks(h, {<<n, "dfm", p>> :
                   p \in {Struct} \cup ({Name, Desc} \cap Parts(dfm))
                         \cup FreeSlValueTable(dfm.slValues)})

\* get_version_feature_info_by_vspec_dfm: a dfm from the VCP feature table,
\* or a default one when the feature is unknown and creation is asked for.
GetVersionFeatureInfoDfm(src, create) ==
  IF src.known
  THEN [global   |-> IF src.tablePersistent THEN {PERSISTENT} ELSE {},
        name     |-> src.hasName, desc |-> src.hasDesc,
        slValues |-> CopySlValueTable(src.slValues)]
  ELSE IF create
  THEN [global |-> {SYNTHETIC}, name |-> TRUE, desc |-> TRUE, slValues |-> Null]
  ELSE Null

\* dfm_from_dyn_feature_metadata: copies the user-defined definition; its
\* global flags carry USER_DEFINED and PERSISTENT (both asserted).
DfmFromDynFeatureMetadata(src) ==
  [global   |-> {USER_DEFINED, PERSISTENT},
   name     |-> src.hasName, desc |-> src.hasDesc,
   slValues |-> CopySlValueTable(src.slValues)]

\* dyn_get_feature_metadata_by_dref/_by_dh with check_udf: a user-defined
\* definition first, then the VCP feature table.
DynGetFeatureMetadata(src, create) ==
  IF src.udf THEN DfmFromDynFeatureMetadata(src)
  ELSE GetVersionFeatureInfoDfm(src, create)

\* Mutant: the client record shares the dfm's SL value table.
DfmToDdcaSharedTable(n, f, dfm) ==
  [feature  |-> f, marker |-> "FMET",
   flags    |-> IF PERSISTENT \in dfm.global THEN {PERSISTENT} ELSE {},
   name     |-> dfm.name, desc |-> dfm.desc,
   slValues |-> dfm.slValues,
   blocks   |-> [p \in Parts(dfm) |->
                  IF p \in {Struct, Name, Desc} THEN <<n, "meta", p>>
                  ELSE <<n, "dfm", p>>]]

\* dfm_to_ddca_feature_metadata: a new record, the PERSISTENT global flag
\* copied into feature_flags, strings duplicated, the table deep-copied.
DfmToDdcaFeatureMetadata(n, f, dfm) ==
  [feature  |-> f, marker |-> "FMET",
   flags    |-> IF PERSISTENT \in dfm.global THEN {PERSISTENT} ELSE {},
   name     |-> dfm.name, desc |-> dfm.desc,
   slValues |-> CopySlValueTable(dfm.slValues),
   blocks   |-> [p \in Parts(dfm) |-> <<n, "meta", p>>]]

-----------------------------------------------------------------------------
VARIABLES
  source,   \* feature -> what the feature tables hold for it
  live,     \* the heap: blocks allocated and not yet freed
  heapError,\* a free() of a block that was not live has happened
  handed,   \* the metadata records returned to the client, in order
  freedByClient, \* indices of records passed to ddca_free_feature_metadata
  lastRc    \* status of the last get call

vars == <<source, live, heapError, handed, freedByClient, lastRc>>

OK                    == "0"
DDCRC_ARG             == "DDCRC_ARG"
DDCRC_NOT_FOUND       == "DDCRC_NOT_FOUND"
DDCRC_UNKNOWN_FEATURE == "DDCRC_UNKNOWN_FEATURE"

Init ==
  /\ source \in [Features -> FeatureSources]
  /\ live = {}
  /\ heapError = FALSE
  /\ handed = << >>
  /\ freedByClient = {}
  /\ lastRc = OK

\* The common body of the three get calls: convert the dfm for the
\* client, then dfm_free it; a NULL dfm gives failRc and a NULL result.
HandOut(f, dfm, failRc) ==
  /\ Len(handed) < MaxGets
  /\ IF dfm = Null
     THEN /\ lastRc' = failRc
          /\ UNCHANGED <<live, heapError, handed>>
     ELSE LET n    == Len(handed) + 1
              m    == DfmToDdcaFeatureMetadata(n, f, dfm)
              h1   == Alloc([live |-> live, err |-> heapError], Blocks(n, "dfm", dfm))
              h2   == Alloc(h1, {m.blocks[p] : p \in DOMAIN m.blocks})
              h3   == DfmFree(h2, n, dfm)
          IN /\ live' = h3.live
             /\ heapError' = h3.err
             /\ handed' = Append(handed, m)
             /\ lastRc' = OK
  /\ UNCHANGED <<source, freedByClient>>

\* ddca_get_feature_metadata_by_vspec: DDCRC_ARG unless a dfm is found.
GetFeatureMetadataByVspec(f, create) ==
  HandOut(f, GetVersionFeatureInfoDfm(source[f], create), DDCRC_ARG)

\* ddca_get_feature_metadata_by_dref: user-defined features first.
GetFeatureMetadataByDref(f, create) ==
  HandOut(f, DynGetFeatureMetadata(source[f], create), DDCRC_NOT_FOUND)

\* WITH_VALIDATED_DH3: the action runs only if validate_ddca_display_handle
\* accepts the handle; otherwise its status (DDCRC_ARG) is returned.
WithValidatedDh3(dhValid, action) ==
  IF dhValid THEN action
  ELSE /\ lastRc' = DDCRC_ARG
       /\ UNCHANGED <<source, live, heapError, handed, freedByClient>>

\* ddca_get_feature_metadata_by_dh: as by_dref, through a validated handle.
GetFeatureMetadataByDh(f, create, dhValid) ==
  WithValidatedDh3(dhValid,
                   HandOut(f, DynGetFeatureMetadata(source[f], create), DDCRC_NOT_FOUND))

\* ddca_get_feature_flags_by_vspec: for a valid version, the flags of the
\* table's dfm (no default is created), which is dfm_free'd at once.
GetFeatureFlagsByVspec(f, vspecValid) ==
  LET dfm == GetVersionFeatureInfoDfm(source[f], FALSE)
      h   == DfmFree(Alloc([live |-> live, err |-> heapError], Blocks(0, "dfm", dfm)),
                     0, dfm)
  IN /\ IF vspecValid /\ dfm # Null
        THEN /\ live' = h.live
             /\ heapError' = h.err
             /\ lastRc' = OK
        ELSE /\ lastRc' = IF vspecValid THEN DDCRC_UNKNOWN_FEATURE ELSE DDCRC_ARG
             /\ UNCHANGED <<live, heapError>>
     /\ UNCHANGED <<source, handed, freedByClient>>

\* free_ddca_feature_metadata: frees feature_name, feature_desc and the SL
\* value table (free(NULL) does nothing), never the record itself.
FreeDdcaFeatureMetadata(h, m) ==
  FreeBlocks(h, {m.blocks[p] :
                   p \in ({Name, Desc} \cap DOMAIN m.blocks) \cup FreeSlValueTable(m.slValues)})

\* ddca_free_feature_metadata: only records with the marker and without
\* PERSISTENT reach free_ddca_feature_metadata, which frees the strings
\* and the table (dangling pointers stay in the record) and sets marker[3]
\* to 'x'.  The record itself is not freed.
FreeFeatureMetadata(i) ==
  LET m == handed[i] IN
  /\ IF m.marker = "FMET" /\ PERSISTENT \notin m.flags
     THEN LET h == FreeDdcaFeatureMetadata([live |-> live, err |-> heapError], m)
          IN /\ live' = h.live
             /\ heapError' = h.err
             /\ handed' = [handed EXCEPT ![i].marker = "FMEx"]
     ELSE UNCHANGED <<live, heapError, handed>>
  /\ freedByClient' = freedByClient \cup {i}
  /\ UNCHANGED <<source, lastRc>>

\* The client is done: it has used up its calls and freed what it got.
Done ==
  /\ Len(handed) = MaxGets
  /\ freedByClient = 1 .. MaxGets
  /\ UNCHANGED vars

Next ==
  \/ \E f \in Features, create \in BOOLEAN :
        \/ GetFeatureMetadataByVspec(f, create)
        \/ GetFeatureMetadataByDref(f, create)
        \/ \E dhValid \in BOOLEAN : GetFeatureMetadataByDh(f, create, dhValid)
        \/ \E valid \in BOOLEAN : GetFeatureFlagsByVspec(f, valid)
  \/ \E i \in 1 .. Len(handed) : FreeFeatureMetadata(i)
  \/ Done

Spec == Init /\ [][Next]_vars

-----------------------------------------------------------------------------
(* Properties                                                              *)

\* No block is freed twice: ddca_free_feature_metadata may be called again
\* on a record it already freed, and dfm_free frees the dfm's copies only,
\* never the client's.
NoDoubleFree == ~heapError

\* Every SL value table the client received answers
\* ddca_get_simple_nc_feature_value_name_by_table as the feature's own
\* table does: copy_sl_value_table keeps every entry
\* up to the terminator and the lookup returns the first matching name.
ClientTableLookupAgrees ==
  \A i \in 1 .. Len(handed) :
    handed[i].slValues # Null =>
      \A v \in Codes \cup {0} :
        LET r == GetSimpleNcFeatureValueNameByTable(handed[i].slValues, v)
        IN /\ r.name = RefLookup(source[handed[i].feature].slValues, v)
           /\ (r.rc = "0") = (r.name # Null)

\* ddca_free_feature_metadata releases the strings and the value table of
\* every record passed to it (its comment: persistent internal instances
\* never reach the client).
ClientFreeReleasesContents ==
  \A i \in freedByClient :
    \A p \in DOMAIN handed[i].blocks \ {Struct} : handed[i].blocks[p] \notin live

\* Every record that ddca_free_feature_metadata accepts (marker set, not
\* PERSISTENT) is released in full, the DDCA_Feature_Metadata itself that
\* dfm_to_ddca_feature_metadata calloc'ed included: the API offers the
\* client no other way to free it.
ClientFreeReleasesRecord ==
  \A i \in freedByClient :
    PERSISTENT \notin handed[i].flags => handed[i].blocks[Struct] \notin live

=============================================================================
