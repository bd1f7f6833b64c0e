----------------------------- MODULE Capabilities -----------------------------
(***************************************************************************)
(* The parsed capabilities a client owns: ddca_parse_capabilities_string   *)
(* converts the internal Parsed_Capabilities into a DDCA_Capabilities and  *)
(* frees the internal one; ddca_free_parsed_capabilities releases it.      *)
(* The heap is the set of live blocks <<parse, "caps", field>>, shared     *)
(* with FeatureMetadata in ApiObjects.                                     *)
(***************************************************************************)
EXTENDS Naturals, Sequences, SequencesExt

CONSTANTS
  FeatureCodes, \* feature codes a vcp() section may list
  MaxVcp,       \* bound on the features of the vcp() section
  MaxParses,    \* bound on the capabilities strings parsed
  Null          \* model value: a NULL pointer

\* What parse_capabilities_string returns: NULL, or whether it found a
\* cmds() section, the vcp() features (NULL when there is no vcp()
\* section) and whether it recorded parse messages.
ParseResults ==
  {Null} \cup [commands : BOOLEAN, vcpFeatures : {Null} \cup BoundedSeq(FeatureCodes, MaxVcp),
               messages : BOOLEAN]

\* The separately allocated fields of a DDCA_Capabilities.  Each
\* DDCA_Cap_Vcp's values stays NULL: neither CFR_BVA nor CFR_BBF is defined.
CapsFields(p) ==
  {"struct", "unparsed_string"}
    \cup (IF p.commands THEN {"cmd_codes"} ELSE {})
    \cup (IF p.vcpFeatures # Null THEN {"vcp_codes"} ELSE {})
    \cup (IF p.messages THEN {"messages"} ELSE {})

VARIABLES
  live,      \* the heap: blocks allocated and not yet freed
  heapError, \* a free() of a block that was not live has happened
  parsed,    \* the DDCA_Capabilities returned to the client, in order
  capsFreed, \* indices passed to ddca_free_parsed_capabilities
  parseRc,   \* status of the last call of this module
  capsCalls, \* calls of ddca_get_capabilities_string
  capsLoc    \* *pcaps_loc of ddca_get_capabilities_string: NULL or its copy

capsVars == <<live, heapError, parsed, capsFreed, parseRc, capsCalls, capsLoc>>

CapsInit ==
  /\ live = {}
  /\ heapError = FALSE
  /\ parsed = << >>
  /\ capsFreed = {}
  /\ parseRc = "0"
  /\ capsCalls = 0
  /\ capsLoc = Null

\* ddca_parse_capabilities_string: DDCRC_BAD_DATA and NULL when parsing
\* fails; else a new DDCA_Capabilities with the string duplicated, the
\* command codes and vcp codes copied, messages duplicated, and the
\* Parsed_Capabilities freed.
ParseCapabilitiesString(p) ==
  /\ Len(parsed) < MaxParses
  /\ IF p = Null
     THEN /\ parseRc' = "DDCRC_BAD_DATA"
          /\ UNCHANGED <<live, parsed>>
     ELSE LET n == Len(parsed) + 1
              c == [codes  |-> IF p.vcpFeatures = Null THEN << >> ELSE p.vcpFeatures,
                    blocks |-> {<<n, "caps", x>> : x \in CapsFields(p)}]
          IN /\ live' = live \cup c.blocks
             /\ parsed' = Append(parsed, c)
             /\ parseRc' = "0"
  /\ UNCHANGED <<heapError, capsFreed, capsCalls, capsLoc>>

\* The fields ddca_free_parsed_capabilities passes to free() or ntsa_free().
FreedFields == {"unparsed_string", "vcp_codes", "cmd_codes", "messages", "struct"}

\* Mutant: the messages array is not freed.
FreeParsedCapabilitiesKeepsMessages(i) ==
  LET B == {<<i, "caps", x>> : x \in FreedFields \ {"messages"}} \cap parsed[i].blocks
  IN /\ i \notin capsFreed
     /\ live' = live \ B
     /\ heapError' = (heapError \/ ~(B \subseteq live))
     /\ capsFreed' = capsFreed \cup {i}
     /\ UNCHANGED <<parsed, parseRc, capsCalls, capsLoc>>

\* ddca_free_parsed_capabilities: frees unparsed_string, each vcp entry's
\* values (NULL), vcp_codes, cmd_codes, the messages array and the struct;
\* free(NULL) does nothing.
\* A record is passed at most once: a second call would read the marker of
\* freed memory.
FreeParsedCapabilities(i) ==
  LET B == {<<i, "caps", x>> : x \in FreedFields} \cap parsed[i].blocks
  IN /\ i \notin capsFreed
     /\ live' = live \ B
     /\ heapError' = (heapError \/ ~(B \subseteq live))
     /\ capsFreed' = capsFreed \cup {i}
     /\ UNCHANGED <<parsed, parseRc, capsCalls, capsLoc>>

\* ddca_get_capabilities_string: *pcaps_loc is set to NULL; if
\* validate_ddca_display_handle rejects the handle its status is returned;
\* otherwise ddc_get_capabilities_string either fails with a status, or
\* yields its cached string, of which a g_strdup copy goes to the client.
\* capsLoc holds the copy, the block <<k, "capstr", "string">> of the k-th
\* call; the client owns it (it is never freed by the library).
GetCapabilitiesString(dhValid, ddcStatus) ==
  /\ capsCalls < MaxParses
  /\ capsCalls' = capsCalls + 1
  /\ IF dhValid /\ ddcStatus = "0"
     THEN /\ capsLoc' = <<capsCalls + 1, "capstr", "string">>
          /\ live' = live \cup {capsLoc'}
     ELSE /\ capsLoc' = Null
          /\ UNCHANGED live
  /\ parseRc' = IF dhValid THEN ddcStatus ELSE "DDCRC_ARG"
  /\ UNCHANGED <<heapError, parsed, capsFreed>>

CapsNext ==
  \/ \E p \in ParseResults : ParseCapabilitiesString(p)
  \/ \E i \in 1 .. Len(parsed) : FreeParsedCapabilities(i)
  \/ \E dhValid \in BOOLEAN, st \in {"0", "DDCRC_READ_ALL_ZERO"} :
       GetCapabilitiesString(dhValid, st)

\* ddca_free_parsed_capabilities releases every block that
\* ddca_parse_capabilities_string allocated for the record.
ParsedCapabilitiesReleased ==
  \A i \in capsFreed : parsed[i].blocks \cap live = {}

==============================================================================
