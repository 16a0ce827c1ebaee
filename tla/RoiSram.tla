------------------------------ MODULE RoiSram -------------------------------
(***************************************************************************)
(* The ROI SRAM in ADAPS_DTOF::FillSetWrapperParamFromEepromInfo: where    *)
(* the coordinates of the spots come from, the copy in which they are      *)
(* moved from the centre of a spot to its corner                           *)
(* (roisram_anchor_preproccess), and the check that looks for illegal and  *)
(* duplicated coordinates (roiCoordinatesDumpCheck and                     *)
(* multipleRoiCoordinatesDumpCheck).                                       *)
(*                                                                         *)
(* A ROI SRAM is a sequence of pairs <<row, column>>.  It consists of      *)
(* groups of ZonesPerGroup zones of PairsPerZone pairs each, of which the  *)
(* first SpotsPerZone are used and the others are zero.                    *)
(***************************************************************************)
EXTENDS Integers, Sequences, FiniteSets

CONSTANTS
  Contents,        \* the contents of a ROI SRAM, by position
  Garbage,         \* a pair of bytes that nobody wrote
  Height, Width,   \* m_sns_param.out_frm_height and out_frm_width
  RowOffset, ColOffset,          \* what Misc_Device::get_anchorOffset returns
  PairsPerZone, SpotsPerZone,    \* 256 and 240 in the code
  ZonesPerGroup, Groups,         \* 4, and 2 or more
  RawSizes,        \* sizes, in pairs, of the ROI SRAM of a module that is not SPOT
  LoadedSizes,     \* and of a loaded one
  LengthModulus,   \* the length of a loaded one is passed as an u16 (2^15 pairs)
  CountModulus     \* a cell of frameCoordinatesMap is an u8 (2^8)

GroupPairs == ZonesPerGroup * PairsPerZone
Positions == 1 .. Groups * GroupPairs
Origin == <<0, 0>>

ASSUME GeometryAssumption ==
  /\ Height \in Nat \ {0} /\ Width \in Nat \ {0}
  /\ RowOffset \in Nat /\ ColOffset \in Nat
  /\ PairsPerZone \in Nat \ {0} /\ SpotsPerZone \in 1 .. PairsPerZone
  /\ ZonesPerGroup \in Nat \ {0} /\ Groups \in Nat \ {0, 1}
ASSUME SizesAssumption ==
  /\ RawSizes \subseteq Nat /\ LoadedSizes \subseteq 1 .. Groups * GroupPairs
  /\ \A size \in RawSizes : size <= Groups * GroupPairs
  /\ LengthModulus \in Nat \ {0}
  /\ CountModulus \in Nat \ {0, 1, 2}
ASSUME GarbageAssumption == Garbage \notin Nat \X Nat

\* The used slots hold any coordinates, the padding of a zone is zero.
IsPadding(p) == (p - 1) % PairsPerZone >= SpotsPerZone

ASSUME ContentsAssumption ==
  \A data \in Contents :
    /\ data \in [Positions -> Nat \X Nat]
    /\ \A p \in Positions : IsPadding(p) => data[p] = Origin

VARIABLES
  source,           \* the module's type, or "loaded"
  checkEnabled,     \* roi_sram_coordinates_check_enable is "true"
  memory,           \* the EEPROM, copied_roisram_4_anchorX, and what was loaded
  pc,
  spot_cali_data,   \* the region setparam->spot_cali_data points into
  rawDataSize,      \* in pairs
  pos,              \* the loop's index, from 1
  group,            \* the group under the check, from 0
  frameCoordinatesMap,
  duplicates,       \* the coordinates reported as duplicated in this group
  illegal_spot_cnt,
  spot_cnt

resultVars == <<duplicates, illegal_spot_cnt, spot_cnt>>
checkVars == <<group, frameCoordinatesMap, resultVars>>
vars == <<source, checkEnabled, memory, pc, spot_cali_data, rawDataSize, pos, checkVars>>

Regions == {"eeprom", "copy", "loaded"}
Cells == (0 .. Height - 1) \X (0 .. Width - 1)

TypeOK ==
  /\ source \in {"spot", "flood", "bigfov", "loaded"}
  /\ checkEnabled \in BOOLEAN
  /\ memory \in [Regions -> [Positions -> (Nat \X Nat) \cup {Garbage}]]
  /\ pc \in {"choose", "shift", "check", "counted", "done", "failed", "faulted"}
  /\ spot_cali_data \in Regions \cup {"null"}
  /\ rawDataSize \in 0 .. Groups * GroupPairs
  /\ pos \in 1 .. Groups * GroupPairs + 1
  /\ group \in {0, 1}
  /\ frameCoordinatesMap \in [Cells -> 0 .. CountModulus - 1]
  /\ duplicates \subseteq Cells \ {Origin}
  /\ illegal_spot_cnt \in Nat
  /\ spot_cnt \in Nat

Init ==
  /\ source \in {"spot", "flood", "bigfov", "loaded"}
  /\ checkEnabled \in BOOLEAN
  /\ \E data \in Contents :
       memory = [r \in Regions |->
                   IF r = "copy" THEN [p \in Positions |-> Garbage] ELSE data]
  /\ pc = "choose"
  /\ spot_cali_data = "null"
  /\ rawDataSize = 0
  /\ pos = 1
  /\ group = 0
  /\ frameCoordinatesMap = [c \in Cells |-> 0]
  /\ duplicates = {}
  /\ illegal_spot_cnt = 0
  /\ spot_cnt = 0

-----------------------------------------------------------------------------
(* FillSetWrapperParamFromEepromInfo. *)

ClearedMap == [c \in Cells |-> 0]

\* Fault: memset is called for the first group only.
BeginCheck_MapKept(g) ==
  /\ pc' = "check"
  /\ group' = g
  /\ pos' = 1
  /\ frameCoordinatesMap' = IF g = 0 THEN ClearedMap ELSE frameCoordinatesMap
  /\ duplicates' = {}
  /\ illegal_spot_cnt' = 0
  /\ spot_cnt' = 0

\* The check of one group begins with a map of zeroes.
BeginCheck(g) ==
  /\ pc' = "check"
  /\ group' = g
  /\ pos' = 1
  /\ frameCoordinatesMap' = ClearedMap
  /\ duplicates' = {}
  /\ illegal_spot_cnt' = 0
  /\ spot_cnt' = 0

\* The source is known and prepared: check it, or leave it at that.
DataReady ==
  IF checkEnabled
    THEN BeginCheck(0)
    ELSE /\ pc' = "done"
         /\ pos' = 1
         /\ UNCHANGED checkVars

\* loaded_roi_sram_data and loaded_roi_sram_size, which are not assigned
\* anywhere, happen to designate some memory ...
UseLoaded ==
  /\ pc = "choose"
  /\ source = "loaded"
  /\ spot_cali_data' = "loaded"
  /\ rawDataSize' \in LoadedSizes
  /\ DataReady
  /\ UNCHANGED <<source, checkEnabled, memory>>

\* ... or none: the check follows the pointer.
LoadedFaults ==
  /\ pc = "choose"
  /\ source = "loaded"
  /\ checkEnabled
  /\ pc' = "faulted"
  /\ UNCHANGED <<source, checkEnabled, memory, spot_cali_data, rawDataSize, pos, checkVars>>

\* malloc returns null: nothing is set and -1 is returned.
AllocFails ==
  /\ pc = "choose"
  /\ source = "spot"
  /\ pc' = "failed"
  /\ UNCHANGED <<source, checkEnabled, memory, spot_cali_data, rawDataSize, pos, checkVars>>

CopyTo(region, size) ==
  [memory EXCEPT ![region] =
     [p \in Positions |-> IF p <= size THEN memory["eeprom"][p] ELSE memory[region][p]]]

\* The pass over the pairs is left out when both offsets are zero.
ShiftNext ==
  IF RowOffset = 0 /\ ColOffset = 0
    THEN DataReady
    ELSE /\ pc' = "shift"
         /\ pos' = 1
         /\ UNCHANGED checkVars

\* Faults: the anchor is applied to the EEPROM itself; both groups are
\* declared but only one is copied.
CopyRoiSram_With(region, size) ==
  /\ pc = "choose"
  /\ source = "spot"
  /\ memory' = CopyTo("copy", GroupPairs)
  /\ spot_cali_data' = region
  /\ rawDataSize' = size
  /\ ShiftNext
  /\ UNCHANGED <<source, checkEnabled>>

CopyRoiSram_InPlace == CopyRoiSram_With("eeprom", GroupPairs)
CopyRoiSram_BothDeclared == CopyRoiSram_With("copy", 2 * GroupPairs)

\* A SPOT module: one group of the EEPROM is copied, "to keep the original
\* mmaped ROI sram data not be changed".
CopyRoiSram ==
  /\ pc = "choose"
  /\ source = "spot"
  /\ memory' = CopyTo("copy", GroupPairs)
  /\ spot_cali_data' = "copy"
  /\ rawDataSize' = GroupPairs
  /\ ShiftNext
  /\ UNCHANGED <<source, checkEnabled>>

\* A flood module with one group, or the size forced by the environment; a
\* module with a big field of view has as many zones as its EEPROM says.
UseEeprom ==
  /\ pc = "choose"
  /\ source \in {"flood", "bigfov"}
  /\ spot_cali_data' = "eeprom"
  /\ rawDataSize' \in RawSizes \cup {GroupPairs}
  /\ DataReady
  /\ UNCHANGED <<source, checkEnabled, memory>>

\* Fault: the loop advances by one byte, so the column offset is also taken
\* from the rows.
Shifted_ByteStep(pair) ==
  <<IF pair[1] > ColOffset THEN pair[1] - ColOffset ELSE pair[1],
    IF pair[2] > ColOffset THEN pair[2] - ColOffset ELSE pair[2]>>

\* The corner of the spot: a coordinate up to the offset stays as it is.
Shifted(pair) ==
  <<IF pair[1] > RowOffset THEN pair[1] - RowOffset ELSE pair[1],
    IF pair[2] > ColOffset THEN pair[2] - ColOffset ELSE pair[2]>>

\* One iteration of roisram_anchor_preproccess, through the pointer.
ShiftPair ==
  /\ pc = "shift"
  /\ pos <= rawDataSize
  /\ memory' = [memory EXCEPT ![spot_cali_data][pos] = Shifted(@)]
  /\ pos' = pos + 1
  /\ UNCHANGED <<source, checkEnabled, pc, spot_cali_data, rawDataSize, checkVars>>

EndShift ==
  /\ pc = "shift"
  /\ pos > rawDataSize
  /\ DataReady
  /\ UNCHANGED <<source, checkEnabled, memory, spot_cali_data, rawDataSize>>

-----------------------------------------------------------------------------
(* The check of the coordinates. *)

\* A loaded ROI SRAM is read through to its length, an u16, padding included;
\* of the others the used slots of one group are read.
CheckedCount ==
  IF spot_cali_data = "loaded" THEN rawDataSize % LengthModulus
                               ELSE ZonesPerGroup * SpotsPerZone

Slot(i) ==
  IF spot_cali_data = "loaded" THEN i
  ELSE group * GroupPairs + ((i - 1) \div SpotsPerZone) * PairsPerZone
         + ((i - 1) % SpotsPerZone) + 1

Legal(pair) == pair[1] < Height /\ pair[2] < Width

\* Fault: the counter does not wrap.
CountOf_Wide(n) == n + 1

CountOf(n) == (n + 1) % CountModulus

CheckPair ==
  /\ pc = "check"
  /\ pos <= CheckedCount
  /\ LET pair == memory[spot_cali_data][Slot(pos)]
         count == CountOf(frameCoordinatesMap[pair])
     IN  IF Legal(pair)
           THEN /\ frameCoordinatesMap' = [frameCoordinatesMap EXCEPT ![pair] = count]
                /\ duplicates' = IF pair # Origin /\ count > 1 THEN duplicates \cup {pair}
                                                               ELSE duplicates
                /\ UNCHANGED illegal_spot_cnt
           ELSE /\ illegal_spot_cnt' = illegal_spot_cnt + 1
                /\ UNCHANGED <<frameCoordinatesMap, duplicates>>
  /\ pos' = pos + 1
  /\ UNCHANGED <<source, checkEnabled, memory, pc, spot_cali_data, rawDataSize, group, spot_cnt>>

\* Fault: the origin counts as a spot.
CountSpots_WithOrigin ==
  /\ pc = "check"
  /\ pos > CheckedCount
  /\ spot_cnt' = Cardinality({c \in Cells : frameCoordinatesMap[c] # 0})
  /\ pc' = "counted"
  /\ UNCHANGED <<source, checkEnabled, memory, spot_cali_data, rawDataSize, pos, group,
                 frameCoordinatesMap, duplicates, illegal_spot_cnt>>

\* The map is printed and its cells in use are counted; "(0,0) is illegal".
CountSpots ==
  /\ pc = "check"
  /\ pos > CheckedCount
  /\ spot_cnt' = Cardinality({c \in Cells \ {Origin} : frameCoordinatesMap[c] # 0})
  /\ pc' = "counted"
  /\ UNCHANGED <<source, checkEnabled, memory, spot_cali_data, rawDataSize, pos, group,
                 frameCoordinatesMap, duplicates, illegal_spot_cnt>>

\* The second group follows if the data has two; no further one is checked.
NextGroup ==
  /\ pc = "counted"
  /\ spot_cali_data # "loaded"
  /\ group = 0
  /\ rawDataSize >= 2 * GroupPairs
  /\ BeginCheck(1)
  /\ UNCHANGED <<source, checkEnabled, memory, spot_cali_data, rawDataSize>>

EndCheck ==
  /\ pc = "counted"
  /\ spot_cali_data = "loaded" \/ group = 1 \/ rawDataSize < 2 * GroupPairs
  /\ pc' = "done"
  /\ UNCHANGED <<source, checkEnabled, memory, spot_cali_data, rawDataSize, pos, checkVars>>

Next ==
  \/ UseLoaded \/ LoadedFaults \/ AllocFails \/ CopyRoiSram \/ UseEeprom
  \/ ShiftPair \/ EndShift
  \/ CheckPair \/ CountSpots \/ NextGroup \/ EndCheck

Spec == Init /\ [][Next]_vars

-----------------------------------------------------------------------------
(* Properties. *)

\* The copy is made "to keep the original mmaped ROI sram data not be changed"
\* (adaps_dtof.cpp:335): the driver's EEPROM mapping is never written.
EepromUntouched == [][memory'["eeprom"] = memory["eeprom"]]_vars

\* No byte is shifted or checked that was not read from the EEPROM or loaded:
\* of the two groups the copy has room for only one is copied.
OnlyCopiedDataRead ==
  /\ pc = "shift" /\ pos <= rawDataSize => memory[spot_cali_data][pos] # Garbage
  /\ pc = "check" /\ pos <= CheckedCount => memory[spot_cali_data][Slot(pos)] # Garbage

\* Moving the coordinates makes two spots of one fall together only when one
\* of them lies within the offset of the edge, where it is not moved
\* (adaps_dtof.cpp:266-271).
AtEdge(pair) == pair[1] \in 1 .. RowOffset \/ pair[2] \in 1 .. ColOffset

OnlyEdgeSpotsCollide ==
  (spot_cali_data = "copy" /\ pc \in {"check", "counted", "done"}) =>
    \A p, q \in 1 .. GroupPairs :
      memory["copy"][p] = memory["copy"][q] =>
        \/ memory["eeprom"][p] = memory["eeprom"][q]
        \/ AtEdge(memory["eeprom"][p])
        \/ AtEdge(memory["eeprom"][q])

\* What the check ought to find, in terms of the data alone.
Occurrences(pair) ==
  {i \in 1 .. CheckedCount : memory[spot_cali_data][Slot(i)] = pair}

\* The coordinates reported as duplicated are those that occur more than once
\* in the group, even if a count wraps, and whatever the group before held.
DuplicatesSeen ==
  pc = "counted" =>
    duplicates = {c \in Cells \ {Origin} : Cardinality(Occurrences(c)) >= 2}

\* The number of spots logged for a group is that of the distinct coordinates
\* in use, unless one occurs so often that its cell is zero again; the number
\* of illegal ones is exact.
SpotsCounted ==
  pc = "counted" =>
    /\ illegal_spot_cnt =
         Cardinality({i \in 1 .. CheckedCount : ~Legal(memory[spot_cali_data][Slot(i)])})
    /\ LET used == {c \in Cells \ {Origin} : Occurrences(c) # {}}
       IN  \/ spot_cnt = Cardinality(used)
           \/ \E c \in used : Cardinality(Occurrences(c)) % CountModulus = 0
=============================================================================
