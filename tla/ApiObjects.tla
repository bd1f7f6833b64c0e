------------------------------ MODULE ApiObjects ------------------------------
(***************************************************************************)
(* The objects the library allocates for a client: feature metadata and    *)
(* parsed capabilities, built and released through one heap.  A client     *)
(* interleaves the calls of both in any order.                             *)
(***************************************************************************)
EXTENDS Naturals, Sequences, SequencesExt

CONSTANTS Features, Codes, ValueNames, MaxTableLen, MaxGets,
          MaxVcp, MaxParses, Null

VARIABLES source, live, heapError, handed, freedByClient, lastRc,
          parsed, capsFreed, parseRc, capsCalls, capsLoc,
          reportRc  \* status of the last capabilities report

FM   == INSTANCE FeatureMetadata
Caps == INSTANCE Capabilities WITH FeatureCodes <- Features

fmOnly   == <<source, handed, freedByClient, lastRc>>
capsOnly == <<parsed, capsFreed, parseRc, capsCalls, capsLoc>>
vars     == <<fmOnly, capsOnly, live, heapError, reportRc>>

Init == FM!Init /\ Caps!CapsInit /\ reportRc = "0"

\* ddci_report_parsed_capabilities_by_dref: for each feature of the vcp()
\* section, dyn_get_feature_metadata_by_dref with a default created (the
\* result is asserted non-NULL) is reported and dfm_free'd.  Value lists
\* are empty in this build, so no value is looked up.
ReportParsedCapabilitiesBody(i) ==
  LET step(h, f) ==
        LET d == FM!DynGetFeatureMetadata(source[f], TRUE)
        IN FM!DfmFree(FM!Alloc(h, FM!Blocks(0, "dfm", d)), 0, d)
      h == FoldLeft(step, [live |-> live, err |-> heapError], parsed[i].codes)
  IN /\ live' = h.live
     /\ heapError' = h.err

\* A report reads a DDCA_Capabilities the client has not freed.
Reportable(i) == i \in 1 .. Len(parsed) \ capsFreed

\* ddca_report_parsed_capabilities_by_dref: a NULL dref is allowed; a dref
\* that is not published or not valid gives DDCRC_ARG without a report.
ReportParsedCapabilitiesByDref(i, dref) ==
  /\ Reportable(i)
  /\ IF dref = "invalid"
     THEN /\ reportRc' = "DDCRC_ARG"
          /\ UNCHANGED <<live, heapError>>
     ELSE /\ ReportParsedCapabilitiesBody(i)
          /\ reportRc' = "0"
  /\ UNCHANGED <<fmOnly, capsOnly>>

\* ddca_report_parsed_capabilities: the report without a display.
ReportParsedCapabilities(i) ==
  /\ Reportable(i)
  /\ ReportParsedCapabilitiesBody(i)
  /\ UNCHANGED <<fmOnly, capsOnly, reportRc>>

\* ddca_report_parsed_capabilities_by_dh: DDCRC_ARG for a handle without
\* the marker; otherwise the report on the handle's dref.
ReportParsedCapabilitiesByDh(i, dhValid) ==
  /\ Reportable(i)
  /\ IF dhValid
     THEN /\ ReportParsedCapabilitiesBody(i)
          /\ reportRc' = "0"
     ELSE /\ reportRc' = "DDCRC_ARG"
          /\ UNCHANGED <<live, heapError>>
  /\ UNCHANGED <<fmOnly, capsOnly>>

Next ==
  \/ FM!Next /\ UNCHANGED <<capsOnly, reportRc>>
  \/ Caps!CapsNext /\ UNCHANGED <<fmOnly, reportRc>>
  \/ \E i \in 1 .. Len(parsed) :
        \/ \E dref \in {"null", "valid", "invalid"} : ReportParsedCapabilitiesByDref(i, dref)
        \/ ReportParsedCapabilities(i)
        \/ \E dhValid \in BOOLEAN : ReportParsedCapabilitiesByDh(i, dhValid)

Spec == Init /\ [][Next]_vars

\* The state without the status codes of the last calls (lastRc, parseRc,
\* reportRc): no guard reads them, so states that differ only in them have
\* the same futures, and no property below reads them either.
HeapView == <<source, handed, freedByClient, live, heapError,
              parsed, capsFreed, capsCalls, capsLoc>>

\* No block is ever freed twice, whatever order the client makes its get,
\* parse and free calls in, repeated ddca_free_feature_metadata included.
NoDoubleFree == ~heapError

\* Client SL value tables answer lookups as the feature's own table does.
ClientTableLookupAgrees == FM!ClientTableLookupAgrees

\* ddca_free_parsed_capabilities releases all that
\* ddca_parse_capabilities_string allocated.
ParsedCapabilitiesReleased == Caps!ParsedCapabilitiesReleased

==============================================================================
