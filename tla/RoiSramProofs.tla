---------------------------- MODULE RoiSramProofs ----------------------------
(***************************************************************************)
(* RoiSram for every size and content of the ROI SRAM, every offset of the *)
(* anchor and every range of the counters: the EEPROM is not written, no   *)
(* byte is used that was not read, only spots at the edge fall together,   *)
(* and the check of the coordinates finds what it ought to find.           *)
(***************************************************************************)
EXTENDS RoiSram, FiniteSetTheorems, TLAPS

Total == Groups * GroupPairs
Used == ZonesPerGroup * SpotsPerZone

\* What the check reads at its i-th step.
Item(i) == memory[spot_cali_data][Slot(i)]

\* The EEPROM and a loaded ROI SRAM hold pairs of numbers.
Readable ==
  /\ memory["eeprom"] \in [Positions -> Nat \X Nat]
  /\ memory["loaded"] \in [Positions -> Nat \X Nat]

\* The copy is one group of the EEPROM, shifted as far as the pass has come.
CopyInv ==
  spot_cali_data = "copy" =>
    /\ rawDataSize = GroupPairs
    /\ \A p \in 1 .. GroupPairs :
         memory["copy"][p] = IF pc = "shift" /\ p >= pos THEN memory["eeprom"][p]
                                                         ELSE Shifted(memory["eeprom"][p])

\* Where the pointer points at each stage, and how far the loops go.
Progress ==
  /\ pc = "choose" => spot_cali_data = "null" /\ group = 0
  /\ pc = "shift" => spot_cali_data = "copy" /\ pos <= rawDataSize + 1 /\ group = 0
  /\ pc \in {"check", "counted"} => spot_cali_data # "null" /\ pos <= CheckedCount + 1
  /\ pc = "counted" => pos > CheckedCount
  /\ group = 1 => spot_cali_data = "eeprom"

IInv == TypeOK /\ Readable /\ CopyInv /\ Progress

-----------------------------------------------------------------------------
(* Sizes and places. *)

\* The sizes of zones, groups and memories.
LEMMA Sizes ==
  /\ GroupPairs \in Nat \ {0} /\ Total \in Nat \ {0} /\ Used \in Nat \ {0}
  /\ Used <= GroupPairs /\ 2 * GroupPairs <= Total
<1>1. GroupPairs \in Nat \ {0}
  BY GeometryAssumption DEF GroupPairs
<1>2. /\ Used \in Nat \ {0} /\ Used <= GroupPairs
  BY GeometryAssumption DEF GroupPairs, Used
<1>3. Total \in Nat \ {0} /\ 2 * GroupPairs <= Total
  BY <1>1, GeometryAssumption DEF Total
<1> QED
  BY <1>1, <1>2, <1>3

\* A slot in use lies in its group.
LEMMA SlotInGroup ==
  ASSUME NEW i \in 1 .. Used, spot_cali_data # "loaded", group \in {0, 1}
  PROVE  Slot(i) \in group * GroupPairs + 1 .. group * GroupPairs + GroupPairs
<1> DEFINE z == (i - 1) \div SpotsPerZone
           r == (i - 1) % SpotsPerZone
<1>1. /\ SpotsPerZone \in Nat \ {0} /\ PairsPerZone \in Nat \ {0} /\ SpotsPerZone <= PairsPerZone
      /\ ZonesPerGroup \in Nat \ {0}
  BY GeometryAssumption
<1>2. i \in Nat \ {0} /\ i <= ZonesPerGroup * SpotsPerZone
  BY Sizes DEF Used
<1>3. z \in Int /\ r \in 0 .. SpotsPerZone - 1 /\ i - 1 = z * SpotsPerZone + r
  BY <1>1, <1>2
<1>4. Slot(i) = group * GroupPairs + z * PairsPerZone + r + 1
  BY DEF Slot
<1> HIDE DEF z, r
<1>5. z >= 0
  <2> SUFFICES ASSUME z <= -1 PROVE FALSE
    BY <1>3
  <2>1. z * SpotsPerZone <= -SpotsPerZone
    BY <1>1, <1>3
  <2>2. z * SpotsPerZone \in Int
    BY <1>1, <1>3
  <2> QED BY <1>1, <1>2, <1>3, <2>1, <2>2
<1>6. z <= ZonesPerGroup - 1
  <2> SUFFICES ASSUME z >= ZonesPerGroup PROVE FALSE
    BY <1>1, <1>3
  <2>1. z * SpotsPerZone >= ZonesPerGroup * SpotsPerZone
    BY <1>1, <1>3
  <2>2. z * SpotsPerZone \in Int /\ ZonesPerGroup * SpotsPerZone \in Int
    BY <1>1, <1>3
  <2> QED BY <1>1, <1>2, <1>3, <2>1, <2>2
<1>7. z * PairsPerZone + PairsPerZone <= GroupPairs /\ z * PairsPerZone >= 0
  BY <1>1, <1>3, <1>5, <1>6 DEF GroupPairs
<1>8. z * PairsPerZone \in Int /\ group * GroupPairs \in Int
  BY <1>1, <1>3, Sizes
<1>9. z * PairsPerZone + r + 1 \in 1 .. GroupPairs
  BY <1>1, <1>3, <1>7, <1>8, Sizes
<1> QED
  BY <1>3, <1>4, <1>8, <1>9, Sizes

\* The number of steps of the check, and the places it looks at.
LEMMA CheckedRange ==
  ASSUME IInv, pc \in {"check", "counted"}
  PROVE  /\ CheckedCount \in 0 .. Total
         /\ \A i \in 1 .. CheckedCount : Slot(i) \in Positions
         /\ spot_cali_data = "copy" => \A i \in 1 .. CheckedCount : Slot(i) \in 1 .. GroupPairs
<1>1. rawDataSize \in 0 .. Total /\ group \in {0, 1} /\ spot_cali_data \in Regions
  BY DEF IInv, TypeOK, Progress, Total
<1>2. CASE spot_cali_data = "loaded"
  <2>1. rawDataSize % LengthModulus \in 0 .. rawDataSize
    BY <1>1, SizesAssumption, Sizes
  <2> QED BY <1>1, <1>2, <2>1, Sizes DEF CheckedCount, Slot, Positions, Total
<1>3. CASE spot_cali_data # "loaded"
  <2>1. CheckedCount = Used
    BY <1>3 DEF CheckedCount, Used
  <2>2. \A i \in 1 .. CheckedCount :
           Slot(i) \in group * GroupPairs + 1 .. group * GroupPairs + GroupPairs
    BY <1>1, <1>3, <2>1, SlotInGroup
  <2>3. group * GroupPairs \in {0, GroupPairs}
    BY <1>1, Sizes
  <2>4. \A i \in 1 .. CheckedCount : Slot(i) \in Positions
    BY <2>2, <2>3, Sizes DEF Positions, Total
  <2>5. spot_cali_data = "copy" => \A i \in 1 .. CheckedCount : Slot(i) \in 1 .. GroupPairs
    <3>1. spot_cali_data = "copy" => group * GroupPairs = 0
      BY <1>1, Sizes DEF IInv, Progress
    <3> QED BY <2>2, <3>1, Sizes
  <2> QED BY <2>1, <2>4, <2>5, Sizes
<1> QED
  BY <1>2, <1>3

\* A pair that is moved remains a pair of numbers.
LEMMA ShiftedType ==
  ASSUME NEW pair \in Nat \X Nat
  PROVE  Shifted(pair) \in Nat \X Nat
BY GeometryAssumption DEF Shifted

\* The check reads pairs of numbers.
LEMMA ItemType ==
  ASSUME IInv, pc \in {"check", "counted"}, NEW i \in 1 .. CheckedCount
  PROVE  Item(i) \in Nat \X Nat
<1>1. Slot(i) \in Positions /\ (spot_cali_data = "copy" => Slot(i) \in 1 .. GroupPairs)
  BY CheckedRange
<1>2. spot_cali_data \in {"eeprom", "loaded", "copy"}
  BY DEF IInv, TypeOK, Progress, Regions
<1>3. CASE spot_cali_data \in {"eeprom", "loaded"}
  BY <1>1, <1>3 DEF IInv, Readable, Item
<1>4. CASE spot_cali_data = "copy"
  <2>1. memory["copy"][Slot(i)] = Shifted(memory["eeprom"][Slot(i)])
    BY <1>1, <1>4 DEF IInv, CopyInv
  <2>2. memory["eeprom"][Slot(i)] \in Nat \X Nat
    BY <1>1 DEF IInv, Readable
  <2> QED BY <1>4, <2>1, <2>2, ShiftedType DEF Item
<1> QED
  BY <1>2, <1>3, <1>4

\* The map has finitely many cells.
LEMMA CellsFinite == IsFiniteSet(Cells)
<1>1. IsFiniteSet(0 .. Height - 1) /\ IsFiniteSet(0 .. Width - 1)
  BY GeometryAssumption, FS_Interval
<1> QED
  BY <1>1, FS_Product DEF Cells

-----------------------------------------------------------------------------
(* The inductive invariant. *)

\* The initial state satisfies it.
LEMMA InitIInv == Init => IInv
<1> SUFFICES ASSUME Init PROVE IInv
  OBVIOUS
<1>1. PICK data \in Contents :
         memory = [r \in Regions |-> IF r = "copy" THEN [p \in Positions |-> Garbage] ELSE data]
  BY DEF Init
<1>2. data \in [Positions -> Nat \X Nat]
  BY <1>1, ContentsAssumption
<1>3. memory \in [Regions -> [Positions -> (Nat \X Nat) \cup {Garbage}]] /\ Readable
  BY <1>1, <1>2 DEF Regions, Readable
<1>4. rawDataSize \in 0 .. Total /\ pos \in 1 .. Total + 1
  BY Sizes DEF Init
<1>5. frameCoordinatesMap \in [Cells -> 0 .. CountModulus - 1]
  BY SizesAssumption DEF Init
<1>6. TypeOK
  BY <1>3, <1>4, <1>5 DEF Init, TypeOK, Total
<1>7. CopyInv /\ Progress
  BY DEF Init, CopyInv, Progress
<1> QED
  BY <1>3, <1>6, <1>7 DEF IInv

\* The types of what a check leaves behind.
ChecksOK ==
  /\ frameCoordinatesMap \in [Cells -> 0 .. CountModulus - 1]
  /\ duplicates \subseteq Cells \ {Origin}
  /\ illegal_spot_cnt \in Nat
  /\ spot_cnt \in Nat

\* A group is checked from its first pair on.
LEMMA CheckBegins ==
  ASSUME NEW g \in {0, 1}, BeginCheck(g), spot_cali_data' \in Regions, rawDataSize' \in 0 .. Total
  PROVE  /\ ChecksOK' /\ pc' = "check" /\ pos' = 1 /\ group' = g
         /\ pos' \in 1 .. Total + 1 /\ pos' <= CheckedCount' + 1
<1>1. CheckedCount' \in Nat
  <2>1. rawDataSize' \in Int /\ LengthModulus \in Nat \ {0}
    BY SizesAssumption, Sizes
  <2>2. \A n \in Int, m \in Nat \ {0} : n % m \in Nat
    OBVIOUS
  <2>3. CheckedCount' \in {rawDataSize' % LengthModulus, Used}
    BY DEF CheckedCount, Used
  <2> QED BY <2>1, <2>2, <2>3, Sizes
<1>2. ChecksOK'
  BY SizesAssumption DEF BeginCheck, ChecksOK, ClearedMap
<1>3. pc' = "check" /\ pos' = 1 /\ group' = g
  BY DEF BeginCheck
<1>4. pos' \in 1 .. Total + 1
  BY <1>3, Sizes
<1>5. pos' <= CheckedCount' + 1
  <2>1. \A n \in Nat : 1 <= n + 1
    OBVIOUS
  <2> QED BY <1>1, <1>3, <2>1
<1> QED
  BY <1>2, <1>3, <1>4, <1>5

\* Once the source is ready it is checked, or left alone.
LEMMA ReadyStep ==
  ASSUME IInv, DataReady, group = 0, spot_cali_data' \in Regions, rawDataSize' \in 0 .. Total
  PROVE  /\ ChecksOK' /\ pc' \in {"check", "done"} /\ group' = 0
         /\ pos' \in 1 .. Total + 1
         /\ pc' = "check" => pos' <= CheckedCount' + 1
<1>1. CASE checkEnabled
  BY <1>1, CheckBegins DEF DataReady
<1>2. CASE ~checkEnabled
  BY <1>2, Sizes DEF DataReady, checkVars, resultVars, IInv, TypeOK, ChecksOK
<1> QED
  BY <1>1, <1>2

\* The choice of the source.
LEMMA ChooseInv ==
  ASSUME IInv, UseLoaded \/ UseEeprom
  PROVE  IInv'
<1>1. TypeOK /\ Readable /\ group = 0 /\ memory' = memory /\ UNCHANGED <<source, checkEnabled>>
  BY DEF IInv, Progress, UseLoaded, UseEeprom
<1>2. /\ spot_cali_data' \in Regions /\ spot_cali_data' # "copy" /\ spot_cali_data' # "null"
      /\ rawDataSize' \in 0 .. Total /\ DataReady
  <2>1. RawSizes \cup {GroupPairs} \cup LoadedSizes \subseteq 0 .. Total
    <3>1. GroupPairs \in 0 .. Total
      BY Sizes
    <3>2. RawSizes \subseteq 0 .. Total
      BY SizesAssumption, Sizes DEF Total
    <3>3. LoadedSizes \subseteq 0 .. Total
      BY SizesAssumption, Sizes DEF Total
    <3> QED BY <3>1, <3>2, <3>3
  <2>2. /\ spot_cali_data' \in {"loaded", "eeprom"} /\ DataReady
        /\ rawDataSize' \in RawSizes \cup {GroupPairs} \cup LoadedSizes
    BY DEF UseLoaded, UseEeprom
  <2>3. rawDataSize' \in 0 .. Total
    BY <2>1, <2>2
  <2> QED BY <2>2, <2>3 DEF Regions
<1>3. /\ ChecksOK' /\ pc' \in {"check", "done"} /\ group' = 0
      /\ pos' \in 1 .. Total + 1 /\ (pc' = "check" => pos' <= CheckedCount' + 1)
  BY <1>1, <1>2, ReadyStep
<1>4. TypeOK'
  BY <1>1, <1>2, <1>3 DEF TypeOK, ChecksOK, Total
<1>5. Progress'
  <2>1. pc' = "check" => pos' <= CheckedCount' + 1
    BY <1>3
  <2>2. pc' \in {"check", "done"} /\ group' = 0 /\ spot_cali_data' # "null"
    BY <1>2, <1>3
  <2> QED BY <2>1, <2>2 DEF Progress
<1> QED
  BY <1>1, <1>2, <1>4, <1>5 DEF IInv, Readable, CopyInv

\* The copy, after which one group holds the EEPROM's pairs.
LEMMA CopyStepInv ==
  ASSUME IInv, CopyRoiSram
  PROVE  IInv'
<1>1. TypeOK /\ Readable /\ group = 0 /\ UNCHANGED <<source, checkEnabled>>
  BY DEF IInv, Progress, CopyRoiSram
<1>2. /\ spot_cali_data' = "copy" /\ rawDataSize' = GroupPairs
      /\ GroupPairs \in 0 .. Total /\ ShiftNext
  BY Sizes DEF CopyRoiSram
<1>3. /\ memory' \in [Regions -> [Positions -> (Nat \X Nat) \cup {Garbage}]]
      /\ memory'["eeprom"] = memory["eeprom"] /\ memory'["loaded"] = memory["loaded"]
      /\ \A p \in 1 .. GroupPairs : memory'["copy"][p] = memory["eeprom"][p]
  <2>1. memory' = [memory EXCEPT !["copy"] =
           [p \in Positions |-> IF p <= GroupPairs THEN memory["eeprom"][p] ELSE memory["copy"][p]]]
    BY DEF CopyRoiSram, CopyTo
  <2>2. \A p \in 1 .. GroupPairs : p \in Positions /\ p <= GroupPairs
    BY Sizes DEF Positions, Total
  <2>3. memory \in [Regions -> [Positions -> (Nat \X Nat) \cup {Garbage}]]
    BY <1>1 DEF TypeOK
  <2> QED BY <2>1, <2>2, <2>3 DEF Regions
<1>4. /\ ChecksOK' /\ group' = 0 /\ pos' \in 1 .. Total + 1
      /\ \/ pc' = "shift" /\ pos' = 1
         \/ /\ pc' \in {"check", "done"} /\ RowOffset = 0 /\ ColOffset = 0
            /\ pc' = "check" => pos' <= CheckedCount' + 1
  <2>1. CASE RowOffset = 0 /\ ColOffset = 0
    BY <1>1, <1>2, <2>1, ReadyStep DEF ShiftNext, Regions
  <2>2. CASE ~(RowOffset = 0 /\ ColOffset = 0)
    BY <1>1, <1>2, <2>2, Sizes DEF ShiftNext, TypeOK, ChecksOK, checkVars, resultVars
  <2> QED BY <2>1, <2>2
<1>5. TypeOK'
  BY <1>1, <1>2, <1>3, <1>4 DEF TypeOK, ChecksOK, Total, Regions
<1>6. CopyInv'
  <2> SUFFICES ASSUME NEW p \in 1 .. GroupPairs
               PROVE  memory'["copy"][p] = IF pc' = "shift" /\ p >= pos' THEN memory'["eeprom"][p]
                                           ELSE Shifted(memory'["eeprom"][p])
    BY <1>2 DEF CopyInv
  <2>1. CASE pc' = "shift" /\ pos' = 1
    BY <1>3, <2>1, Sizes
  <2>2. CASE pc' # "shift" /\ RowOffset = 0 /\ ColOffset = 0
    <3>1. p \in Positions
      BY Sizes DEF Positions, Total
    <3>2. memory["eeprom"][p] \in Nat \X Nat
      BY <1>1, <3>1 DEF Readable
    <3>3. Shifted(memory["eeprom"][p]) = memory["eeprom"][p]
      BY <2>2, <3>2 DEF Shifted
    <3> QED BY <1>3, <2>2, <3>3
  <2> QED BY <1>4, <2>1, <2>2
<1>7. Progress'
  BY <1>2, <1>4, Sizes DEF Progress
<1> QED
  BY <1>1, <1>3, <1>5, <1>6, <1>7 DEF IInv, Readable

\* One iteration of the pass, and its end.
LEMMA ShiftInv ==
  ASSUME IInv, ShiftPair \/ EndShift
  PROVE  IInv'
<1>1. /\ TypeOK /\ Readable /\ group = 0 /\ pc = "shift" /\ spot_cali_data = "copy"
      /\ rawDataSize = GroupPairs /\ pos <= GroupPairs + 1 /\ pos \in Nat \ {0}
      /\ \A p \in 1 .. GroupPairs :
           memory["copy"][p] = IF p >= pos THEN memory["eeprom"][p]
                                           ELSE Shifted(memory["eeprom"][p])
  <2>1. pos \in Nat \ {0}
    BY Sizes DEF IInv, TypeOK, Total
  <2> QED BY <2>1 DEF IInv, CopyInv, Progress, ShiftPair, EndShift
<1>2. CASE ShiftPair
  <2>1. /\ pos \in 1 .. GroupPairs /\ pos \in Positions
        /\ memory["copy"][pos] = memory["eeprom"][pos]
        /\ memory["eeprom"][pos] \in Nat \X Nat
    <3>1. pos \in 1 .. GroupPairs /\ pos \in Positions
      BY <1>1, <1>2, Sizes DEF ShiftPair, Positions, Total
    <3>2. memory["copy"][pos] = memory["eeprom"][pos]
      BY <1>1, <3>1, Sizes
    <3> QED BY <1>1, <3>1, <3>2 DEF Readable
  <2>2. memory \in [Regions -> [Positions -> (Nat \X Nat) \cup {Garbage}]]
    BY <1>1 DEF TypeOK
  <2>3. Shifted(memory["copy"][pos]) \in Nat \X Nat
    BY <2>1, ShiftedType
  <2>4. memory' = [memory EXCEPT !["copy"] = [@ EXCEPT ![pos] = Shifted(memory["copy"][pos])]]
    BY <1>1, <1>2 DEF ShiftPair
  <2>5. /\ memory' \in [Regions -> [Positions -> (Nat \X Nat) \cup {Garbage}]]
        /\ memory'["eeprom"] = memory["eeprom"] /\ memory'["loaded"] = memory["loaded"]
        /\ memory'["copy"] = [memory["copy"] EXCEPT ![pos] = Shifted(memory["eeprom"][pos])]
    BY <2>1, <2>2, <2>3, <2>4 DEF Regions
  <2>6. /\ pos' = pos + 1
        /\ UNCHANGED <<source, checkEnabled, pc, spot_cali_data, rawDataSize, checkVars>>
    BY <1>2 DEF ShiftPair
  <2>7. CopyInv'
    <3> SUFFICES ASSUME NEW p \in 1 .. GroupPairs
                 PROVE  memory'["copy"][p] = IF p >= pos + 1 THEN memory["eeprom"][p]
                                             ELSE Shifted(memory["eeprom"][p])
      BY <1>1, <2>5, <2>6 DEF CopyInv
    <3>1. memory["copy"] \in [Positions -> (Nat \X Nat) \cup {Garbage}] /\ p \in Positions
      BY <2>2, Sizes DEF Regions, Positions, Total
    <3>2. CASE p = pos
      BY <1>1, <2>5, <3>1, <3>2
    <3>3. CASE p # pos
      BY <1>1, <2>5, <3>1, <3>3, Sizes
    <3> QED BY <3>2, <3>3
  <2>8. pos' \in 1 .. Total + 1
    BY <1>1, <2>1, <2>6, Sizes
  <2>9. TypeOK'
    BY <1>1, <2>5, <2>6, <2>8 DEF TypeOK, checkVars, resultVars, Total
  <2>10. Progress'
    BY <1>1, <2>1, <2>6, Sizes DEF Progress, checkVars
  <2> QED BY <1>1, <2>5, <2>7, <2>9, <2>10 DEF IInv, Readable
<1>3. CASE EndShift
  <2>1. /\ UNCHANGED <<source, checkEnabled, memory, spot_cali_data, rawDataSize>>
        /\ DataReady /\ pos > GroupPairs
    BY <1>1, <1>3 DEF EndShift
  <2>2. /\ ChecksOK' /\ pc' \in {"check", "done"} /\ group' = 0
        /\ pos' \in 1 .. Total + 1 /\ (pc' = "check" => pos' <= CheckedCount' + 1)
    <3>1. spot_cali_data' \in Regions /\ rawDataSize' \in 0 .. Total
      BY <1>1, <2>1, Sizes DEF Regions
    <3> QED BY <1>1, <2>1, <3>1, ReadyStep
  <2>3. TypeOK'
    BY <1>1, <2>1, <2>2 DEF TypeOK, ChecksOK, Total
  <2>4. CopyInv'
    <3>1. \A p \in 1 .. GroupPairs : memory["copy"][p] = Shifted(memory["eeprom"][p])
      BY <1>1, <2>1, Sizes
    <3> QED BY <1>1, <2>1, <2>2, <3>1 DEF CopyInv
  <2>5. Progress'
    BY <1>1, <2>1, <2>2 DEF Progress
  <2> QED BY <1>1, <2>1, <2>3, <2>4, <2>5 DEF IInv, Readable
<1> QED
  BY <1>2, <1>3

\* What the check of one pair does to the map and the reports.
LEMMA CheckPairStep ==
  ASSUME IInv, CheckPair
  PROVE  /\ pos \in 1 .. CheckedCount /\ Item(pos) \in Nat \X Nat /\ pos' = pos + 1
         /\ Legal(Item(pos)) <=> Item(pos) \in Cells
         /\ Legal(Item(pos)) =>
              /\ frameCoordinatesMap' = [frameCoordinatesMap EXCEPT
                     ![Item(pos)] = CountOf(frameCoordinatesMap[Item(pos)])]
              /\ duplicates' = IF /\ Item(pos) # Origin
                                  /\ CountOf(frameCoordinatesMap[Item(pos)]) > 1
                               THEN duplicates \cup {Item(pos)} ELSE duplicates
              /\ illegal_spot_cnt' = illegal_spot_cnt
         /\ ~Legal(Item(pos)) =>
              /\ illegal_spot_cnt' = illegal_spot_cnt + 1
              /\ UNCHANGED <<frameCoordinatesMap, duplicates>>
<1>1. pc = "check" /\ pos <= CheckedCount /\ pos' = pos + 1 /\ CheckedCount \in Nat
  BY CheckedRange, Sizes DEF CheckPair
<1>2. pos \in Nat \ {0}
  BY Sizes DEF IInv, TypeOK, Total
<1>3. pos \in 1 .. CheckedCount
  BY <1>1, <1>2
<1>4. Item(pos) \in Nat \X Nat
  BY <1>1, <1>3, ItemType
<1>5. Legal(Item(pos)) <=> Item(pos) \in Cells
  <2> DEFINE pair == Item(pos)
  <2> HIDE DEF pair
  <2>1. ASSUME pair \in Nat \X Nat PROVE Legal(pair) <=> pair \in Cells
    BY <2>1, GeometryAssumption DEF Legal, Cells
  <2> QED BY <1>4, <2>1 DEF pair
<1>6. Item(pos) = memory[spot_cali_data][Slot(pos)]
  BY DEF Item
<1> QED
  BY <1>1, <1>3, <1>4, <1>5, <1>6 DEF CheckPair

\* The check keeps the types.
LEMMA CheckPairInv ==
  ASSUME IInv, CheckPair
  PROVE  IInv'
<1> DEFINE pair == Item(pos)
           count == CountOf(frameCoordinatesMap[pair])
<1>1. /\ TypeOK /\ Readable /\ CopyInv /\ Progress /\ pc = "check"
      /\ UNCHANGED <<source, checkEnabled, memory, pc, spot_cali_data, rawDataSize, group,
                     spot_cnt>>
  BY DEF IInv, CheckPair
<1>2. /\ pos \in 1 .. CheckedCount /\ CheckedCount \in 0 .. Total /\ pos' = pos + 1
      /\ (Legal(pair) <=> pair \in Cells)
  BY <1>1, CheckPairStep, CheckedRange
<1>3. pos' \in 1 .. Total + 1 /\ pos' <= CheckedCount + 1
  BY <1>2, Sizes
<1>4. CheckedCount' = CheckedCount
  BY <1>1 DEF CheckedCount
<1>5. /\ frameCoordinatesMap' \in [Cells -> 0 .. CountModulus - 1]
      /\ duplicates' \subseteq Cells \ {Origin}
      /\ illegal_spot_cnt' \in Nat
  <2>1. CASE Legal(pair)
    <3>1. pair \in Cells
      BY <1>2, <2>1
    <3>2. frameCoordinatesMap \in [Cells -> 0 .. CountModulus - 1]
      BY <1>1 DEF TypeOK
    <3>3. frameCoordinatesMap[pair] \in Int
      BY <3>1, <3>2, SizesAssumption
    <3>4. count \in 0 .. CountModulus - 1
      BY <3>3, SizesAssumption DEF CountOf
    <3>5. /\ frameCoordinatesMap' = [frameCoordinatesMap EXCEPT ![pair] = count]
          /\ duplicates' \in {duplicates, duplicates \cup {pair}}
          /\ pair = Origin => duplicates' = duplicates
          /\ illegal_spot_cnt' = illegal_spot_cnt
      BY <2>1, CheckPairStep
    <3> HIDE DEF pair, count
    <3> QED BY <1>1, <3>1, <3>2, <3>4, <3>5 DEF TypeOK
  <2>2. CASE ~Legal(pair)
    BY <1>1, <2>2, CheckPairStep DEF TypeOK
  <2> QED BY <2>1, <2>2
<1> HIDE DEF pair, count
<1>6. TypeOK'
  BY <1>1, <1>3, <1>5 DEF TypeOK, Total
<1>7. Progress'
  BY <1>1, <1>3, <1>4 DEF Progress
<1>8. CopyInv'
  BY <1>1 DEF CopyInv
<1> QED
  BY <1>1, <1>6, <1>7, <1>8 DEF IInv, Readable

\* The other steps of the check keep the invariant.
LEMMA CheckEndInv ==
  ASSUME IInv, CountSpots \/ NextGroup \/ EndCheck \/ LoadedFaults \/ AllocFails
  PROVE  IInv'
<1>1. /\ TypeOK /\ Readable /\ CopyInv /\ Progress
      /\ UNCHANGED <<source, checkEnabled, memory, spot_cali_data, rawDataSize>>
      /\ pc # "shift" /\ pc' # "shift"
  BY DEF IInv, CountSpots, NextGroup, EndCheck, LoadedFaults, AllocFails, BeginCheck
<1>2. Readable' /\ CopyInv'
  BY <1>1 DEF Readable, CopyInv
<1>3. CASE CountSpots
  <2>1. spot_cnt' \in Nat
    <3>1. {c \in Cells \ {Origin} : frameCoordinatesMap[c] # 0} \subseteq Cells
      OBVIOUS
    <3>2. IsFiniteSet({c \in Cells \ {Origin} : frameCoordinatesMap[c] # 0})
      BY <3>1, CellsFinite, FS_Subset
    <3> QED BY <1>3, <3>2, FS_CardinalityType DEF CountSpots
  <2>2. TypeOK'
    BY <1>1, <1>3, <2>1 DEF CountSpots, TypeOK
  <2>3. Progress'
    BY <1>1, <1>3 DEF CountSpots, Progress, CheckedCount
  <2> QED BY <1>2, <2>2, <2>3 DEF IInv
<1>4. CASE NextGroup
  <2>1. BeginCheck(1) /\ spot_cali_data \in Regions \ {"loaded"} /\ rawDataSize \in 0 .. Total
        /\ rawDataSize >= 2 * GroupPairs
    BY <1>1, <1>4 DEF NextGroup, TypeOK, Progress, Total
  <2>2. spot_cali_data = "eeprom"
    <3>1. spot_cali_data = "copy" => rawDataSize = GroupPairs
      BY <1>1 DEF CopyInv
    <3>2. spot_cali_data # "copy"
      BY <2>1, <3>1, Sizes
    <3> QED BY <2>1, <3>2 DEF Regions
  <2>3. /\ ChecksOK' /\ pc' = "check" /\ group' = 1
        /\ pos' \in 1 .. Total + 1 /\ pos' <= CheckedCount' + 1
    BY <1>1, <2>1, CheckBegins
  <2>4. TypeOK'
    BY <1>1, <2>3 DEF TypeOK, ChecksOK, Total
  <2>5. Progress'
    BY <1>1, <2>2, <2>3 DEF Progress
  <2> QED BY <1>2, <2>4, <2>5 DEF IInv
<1>5. CASE EndCheck \/ LoadedFaults \/ AllocFails
  <2>1. /\ UNCHANGED <<pos, checkVars>> /\ pc' \in {"done", "faulted", "failed"}
    BY <1>5 DEF EndCheck, LoadedFaults, AllocFails
  <2>2. TypeOK'
    BY <1>1, <2>1 DEF TypeOK, checkVars, resultVars
  <2>3. Progress'
    BY <1>1, <2>1 DEF Progress, checkVars
  <2> QED BY <1>2, <2>2, <2>3 DEF IInv
<1> QED
  BY <1>3, <1>4, <1>5

\* Every step keeps the invariant.
LEMMA NextIInv == IInv /\ [Next]_vars => IInv'
<1> SUFFICES ASSUME IInv, [Next]_vars
             PROVE  IInv'
  OBVIOUS
<1>1. CASE UNCHANGED vars
  <2>1. TypeOK'
    BY <1>1 DEF vars, checkVars, resultVars, IInv, TypeOK
  <2>2. Readable' /\ CopyInv'
    BY <1>1 DEF vars, IInv, Readable, CopyInv
  <2>3. CheckedCount' = CheckedCount
    BY <1>1 DEF vars, CheckedCount
  <2>4. Progress'
    BY <1>1, <2>3 DEF vars, checkVars, IInv, Progress
  <2> QED BY <2>1, <2>2, <2>4 DEF IInv
<1> QED
  BY <1>1, ChooseInv, CopyStepInv, ShiftInv, CheckPairInv, CheckEndInv DEF Next

\* The invariant holds in every reachable state.
THEOREM Invariance == Spec => []IInv
BY InitIInv, NextIInv, PTL DEF Spec

\* Every reachable state is well typed.
THEOREM TypeCorrect == Spec => []TypeOK
<1>1. IInv => TypeOK
  BY DEF IInv
<1> QED BY <1>1, Invariance, PTL

\* The EEPROM is never written.
THEOREM EepromKept == Spec => EepromUntouched
<1>1. IInv /\ [Next]_vars => [memory'["eeprom"] = memory["eeprom"]]_vars
  <2> SUFFICES ASSUME IInv, [Next]_vars
               PROVE  memory'["eeprom"] = memory["eeprom"]
    OBVIOUS
  <2>1. memory \in [Regions -> [Positions -> (Nat \X Nat) \cup {Garbage}]]
    BY DEF IInv, TypeOK
  <2>2. CASE ShiftPair
    <3>1. spot_cali_data = "copy"
      BY <2>2 DEF ShiftPair, IInv, Progress
    <3> QED BY <2>1, <2>2, <3>1 DEF ShiftPair, Regions
  <2>3. CASE CopyRoiSram
    BY <2>1, <2>3 DEF CopyRoiSram, CopyTo, Regions
  <2>4. CASE ~(ShiftPair \/ CopyRoiSram)
    BY <2>4 DEF Next, UseLoaded, LoadedFaults, AllocFails, UseEeprom, EndShift, CheckPair,
      CountSpots, NextGroup, EndCheck, vars
  <2> QED BY <2>2, <2>3, <2>4
<1> QED
  BY <1>1, Invariance, PTL DEF Spec, EepromUntouched

\* Nothing is shifted or checked that was not read before.
THEOREM OnlyReadDataUsed == Spec => []OnlyCopiedDataRead
<1>1. IInv => OnlyCopiedDataRead
  <2> SUFFICES ASSUME IInv PROVE OnlyCopiedDataRead
    OBVIOUS
  <2>1. pos \in Nat \ {0}
    BY Sizes DEF IInv, TypeOK, Total
  <2>2. ASSUME pc = "shift", pos <= rawDataSize
        PROVE  memory[spot_cali_data][pos] # Garbage
    <3>1. spot_cali_data = "copy" /\ rawDataSize = GroupPairs
      BY <2>2 DEF IInv, Progress, CopyInv
    <3>2. pos \in 1 .. GroupPairs /\ pos \in Positions /\ pos >= pos
      BY <2>1, <2>2, <3>1, Sizes DEF Positions, Total
    <3>3. memory["copy"][pos] = memory["eeprom"][pos]
      BY <2>2, <3>1, <3>2 DEF IInv, CopyInv
    <3>4. memory["eeprom"][pos] \in Nat \X Nat
      BY <3>2 DEF IInv, Readable
    <3> QED BY <3>1, <3>3, <3>4, GarbageAssumption
  <2>3. ASSUME pc = "check", pos <= CheckedCount
        PROVE  memory[spot_cali_data][Slot(pos)] # Garbage
    <3>1. pos \in 1 .. CheckedCount
      BY <2>1, <2>3, CheckedRange, Sizes
    <3> QED BY <2>3, <3>1, ItemType, GarbageAssumption DEF Item
  <2> QED BY <2>2, <2>3 DEF OnlyCopiedDataRead
<1> QED BY <1>1, Invariance, PTL

\* Away from the edge the shift is injective.
LEMMA ShiftInjective ==
  ASSUME NEW a \in Nat \X Nat, NEW b \in Nat \X Nat, Shifted(a) = Shifted(b),
         ~AtEdge(a), ~AtEdge(b)
  PROVE  a = b
<1>1. /\ Shifted(a)[1] = Shifted(b)[1] /\ Shifted(a)[2] = Shifted(b)[2]
      /\ RowOffset \in Nat /\ ColOffset \in Nat
  BY GeometryAssumption
<1>2. /\ a[1] \in Nat /\ a[2] \in Nat /\ b[1] \in Nat /\ b[2] \in Nat
      /\ a = <<a[1], a[2]>> /\ b = <<b[1], b[2]>>
  OBVIOUS
<1>3. a[1] = b[1]
  BY <1>1, <1>2 DEF Shifted, AtEdge
<1>4. a[2] = b[2]
  BY <1>1, <1>2 DEF Shifted, AtEdge
<1> QED
  BY <1>2, <1>3, <1>4

\* Only spots within the offset of the edge fall together.
THEOREM OnlyEdgeCollides == Spec => []OnlyEdgeSpotsCollide
<1>1. IInv => OnlyEdgeSpotsCollide
  <2> SUFFICES ASSUME IInv, spot_cali_data = "copy", pc \in {"check", "counted", "done"},
                      NEW p \in 1 .. GroupPairs, NEW q \in 1 .. GroupPairs,
                      memory["copy"][p] = memory["copy"][q],
                      ~AtEdge(memory["eeprom"][p]), ~AtEdge(memory["eeprom"][q])
               PROVE  memory["eeprom"][p] = memory["eeprom"][q]
    BY DEF OnlyEdgeSpotsCollide
  <2>1. p \in Positions /\ q \in Positions
    BY Sizes DEF Positions, Total
  <2>2. memory["eeprom"][p] \in Nat \X Nat /\ memory["eeprom"][q] \in Nat \X Nat
    BY <2>1 DEF IInv, Readable
  <2>3. Shifted(memory["eeprom"][p]) = Shifted(memory["eeprom"][q])
    BY DEF IInv, CopyInv
  <2> QED BY <2>2, <2>3, ShiftInjective
<1> QED BY <1>1, Invariance, PTL

-----------------------------------------------------------------------------
(* The check of the coordinates. *)

\* The steps before i at which the check met a coordinate, or an illegal one.
Seen(i, pair) == {k \in 1 .. i - 1 : Item(k) = pair}
SeenIllegal(i) == {k \in 1 .. i - 1 : ~Legal(Item(k))}

\* What the map and the reports hold after the steps before pos.
CountInv ==
  pc \in {"check", "counted"} =>
    /\ \A c \in Cells : frameCoordinatesMap[c] = Cardinality(Seen(pos, c)) % CountModulus
    /\ duplicates = {c \in Cells \ {Origin} : Cardinality(Seen(pos, c)) >= 2}
    /\ illegal_spot_cnt = Cardinality(SeenIllegal(pos))
    /\ pc = "counted" =>
         spot_cnt = Cardinality({c \in Cells \ {Origin} : frameCoordinatesMap[c] # 0})

\* The steps before i are finitely many.
LEMMA SeenFinite ==
  ASSUME NEW i \in Nat
  PROVE  /\ IsFiniteSet(SeenIllegal(i)) /\ Cardinality(SeenIllegal(i)) \in Nat
         /\ \A pair : IsFiniteSet(Seen(i, pair)) /\ Cardinality(Seen(i, pair)) \in Nat
<1>1. IsFiniteSet(1 .. i - 1)
  BY FS_Interval
<1>2. SeenIllegal(i) \subseteq 1 .. i - 1 /\ \A pair : Seen(i, pair) \subseteq 1 .. i - 1
  BY DEF SeenIllegal, Seen
<1> QED
  BY <1>1, <1>2, FS_Subset, FS_CardinalityType

\* One more step is one more element of the set it belongs to.
LEMMA SeenNext ==
  ASSUME NEW i \in Nat \ {0}
  PROVE  /\ \A pair : Cardinality(Seen(i + 1, pair)) =
                       Cardinality(Seen(i, pair)) + (IF Item(i) = pair THEN 1 ELSE 0)
         /\ Cardinality(SeenIllegal(i + 1)) =
              Cardinality(SeenIllegal(i)) + (IF Legal(Item(i)) THEN 0 ELSE 1)
<1>1. 1 .. i + 1 - 1 = (1 .. i - 1) \cup {i} /\ i \notin 1 .. i - 1
  OBVIOUS
<1>2. ASSUME NEW pair
      PROVE  Cardinality(Seen(i + 1, pair)) =
               Cardinality(Seen(i, pair)) + (IF Item(i) = pair THEN 1 ELSE 0)
  <2>1. IsFiniteSet(Seen(i, pair)) /\ Cardinality(Seen(i, pair)) \in Nat /\ i \notin Seen(i, pair)
    BY <1>1, SeenFinite DEF Seen
  <2>2. CASE Item(i) = pair
    <3>1. Seen(i + 1, pair) = Seen(i, pair) \cup {i}
      BY <1>1, <2>2 DEF Seen
    <3> QED BY <2>1, <2>2, <3>1, FS_AddElement
  <2>3. CASE Item(i) # pair
    <3>1. Seen(i + 1, pair) = Seen(i, pair)
      BY <1>1, <2>3 DEF Seen
    <3> QED BY <2>1, <2>3, <3>1
  <2> QED BY <2>2, <2>3
<1>3. Cardinality(SeenIllegal(i + 1)) =
        Cardinality(SeenIllegal(i)) + (IF Legal(Item(i)) THEN 0 ELSE 1)
  <2>1. /\ IsFiniteSet(SeenIllegal(i)) /\ Cardinality(SeenIllegal(i)) \in Nat
        /\ i \notin SeenIllegal(i)
    BY <1>1, SeenFinite DEF SeenIllegal
  <2>2. CASE ~Legal(Item(i))
    <3>1. SeenIllegal(i + 1) = SeenIllegal(i) \cup {i}
      BY <1>1, <2>2 DEF SeenIllegal
    <3> QED BY <2>1, <2>2, <3>1, FS_AddElement
  <2>3. CASE Legal(Item(i))
    <3>1. SeenIllegal(i + 1) = SeenIllegal(i)
      BY <1>1, <2>3 DEF SeenIllegal
    <3> QED BY <2>1, <2>3, <3>1
  <2> QED BY <2>2, <2>3
<1> QED
  BY <1>2, <1>3

\* Counting on with the wrapped count wraps to the same.
LEMMA CountWraps ==
  ASSUME NEW n \in Nat
  PROVE  /\ CountOf(n % CountModulus) = (n + 1) % CountModulus
         /\ n = 0 => CountOf(n % CountModulus) = 1
         /\ n = 1 => CountOf(n % CountModulus) = 2
<1> DEFINE M == CountModulus
           q == n \div M
           r == n % M
<1>1. M \in Nat /\ M >= 3
  BY SizesAssumption
<1>2. q \in Int /\ r \in 0 .. M - 1 /\ n = q * M + r
  BY <1>1
<1>3. CountOf(r) = (r + 1) % M
  BY DEF CountOf
<1>4. (n = 0 => r = 0) /\ (n = 1 => r = 1)
  BY <1>1
<1>5. (1 % M = 1) /\ (2 % M = 2)
  BY <1>1
<1> HIDE DEF q, r, M
<1>6. (r + 1) % M = (n + 1) % M
  <2> DEFINE s == (r + 1) % M
  <2>1. CASE r + 1 < M
    <3>1. s = r + 1
      BY <1>1, <1>2, <2>1
    <3>2. n + 1 = M * q + (r + 1) /\ r + 1 \in 0 .. M - 1
      BY <1>1, <1>2, <2>1
    <3>3. (n + 1) % M = r + 1
      BY <1>1, <1>2, <3>2
    <3> QED BY <3>1, <3>3
  <2>2. CASE r + 1 = M
    <3>1. s = 0
      BY <1>1, <1>2, <2>2
    <3>2. n + 1 = M * (q + 1) + 0
      BY <1>1, <1>2, <2>2
    <3>3. (n + 1) % M = 0
      BY <1>1, <1>2, <3>2
    <3> QED BY <3>1, <3>3
  <2> QED BY <1>1, <1>2, <2>1, <2>2
<1> QED
  BY <1>1, <1>3, <1>4, <1>5, <1>6 DEF r, M

\* Nothing was seen when a group begins.
LEMMA CountBegins ==
  ASSUME NEW g \in {0, 1}, BeginCheck(g)
  PROVE  CountInv'
<1>1. /\ pc' = "check" /\ pos' = 1 /\ frameCoordinatesMap' = ClearedMap
      /\ duplicates' = {} /\ illegal_spot_cnt' = 0
  BY DEF BeginCheck
<1>2. 1 .. 1 - 1 = {}
  OBVIOUS
<1>3. /\ \A c : (Seen(pos, c))' = {}
      /\ (SeenIllegal(pos))' = {}
  BY <1>1, <1>2 DEF Seen, SeenIllegal
<1>4. /\ \A c : (Cardinality(Seen(pos, c)))' = 0
      /\ (Cardinality(SeenIllegal(pos)))' = 0
  BY <1>3, FS_EmptySet
<1>5. 0 % CountModulus = 0 /\ ~(0 >= 2)
  BY SizesAssumption
<1> QED
  BY <1>1, <1>4, <1>5 DEF CountInv, ClearedMap

\* A step of the check counts one pair.
LEMMA CheckPairCount ==
  ASSUME IInv, CountInv, CheckPair
  PROVE  CountInv'
<1> DEFINE pair == Item(pos)
           n == Cardinality(Seen(pos, pair))
<1>1. /\ pc = "check" /\ pc' = "check" /\ pos' = pos + 1
      /\ UNCHANGED <<memory, spot_cali_data, group>> /\ pos \in Nat \ {0}
  BY Sizes DEF CheckPair, IInv, TypeOK, Total
<1>2. \A k : Item(k)' = Item(k)
  BY <1>1 DEF Item, Slot
<1>3. /\ \A c : (Seen(pos, c))' = Seen(pos + 1, c)
      /\ (SeenIllegal(pos))' = SeenIllegal(pos + 1)
  BY <1>1, <1>2 DEF Seen, SeenIllegal
<1>4. \A c : /\ Cardinality(Seen(pos, c)) \in Nat
             /\ Cardinality(Seen(pos + 1, c)) =
                  Cardinality(Seen(pos, c)) + (IF pair = c THEN 1 ELSE 0)
  BY <1>1, <1>3, SeenNext, SeenFinite
<1>5. \A c : (Cardinality(Seen(pos, c)))' = Cardinality(Seen(pos + 1, c))
  BY <1>3
<1>6. /\ Cardinality(SeenIllegal(pos)) \in Nat
      /\ (Cardinality(SeenIllegal(pos)))' =
           Cardinality(SeenIllegal(pos)) + (IF Legal(pair) THEN 0 ELSE 1)
  BY <1>1, <1>3, SeenNext, SeenFinite
<1>7. /\ \A c \in Cells : frameCoordinatesMap[c] = Cardinality(Seen(pos, c)) % CountModulus
      /\ duplicates = {c \in Cells \ {Origin} : Cardinality(Seen(pos, c)) >= 2}
      /\ illegal_spot_cnt = Cardinality(SeenIllegal(pos))
  BY <1>1 DEF CountInv
<1>8. frameCoordinatesMap \in [Cells -> 0 .. CountModulus - 1]
  BY DEF IInv, TypeOK
<1>9. CASE Legal(pair)
  <2>1. pair \in Cells
    BY <1>9, CheckPairStep
  <2>2. /\ frameCoordinatesMap' = [frameCoordinatesMap EXCEPT
              ![pair] = CountOf(frameCoordinatesMap[pair])]
        /\ duplicates' = IF pair # Origin /\ CountOf(frameCoordinatesMap[pair]) > 1
                           THEN duplicates \cup {pair} ELSE duplicates
        /\ illegal_spot_cnt' = illegal_spot_cnt
    BY <1>9, CheckPairStep
  <2>3. n \in Nat /\ frameCoordinatesMap[pair] = n % CountModulus
    BY <1>4, <1>7, <2>1
  <2>4. /\ CountOf(frameCoordinatesMap[pair]) = (n + 1) % CountModulus
        /\ n = 0 => CountOf(frameCoordinatesMap[pair]) = 1
        /\ n = 1 => CountOf(frameCoordinatesMap[pair]) = 2
    BY <2>3, CountWraps
  <2>5. Cardinality(Seen(pos + 1, pair)) = n + 1
    BY <1>4
  <2> HIDE DEF pair, n
  <2>6. \A c \in Cells : frameCoordinatesMap'[c] = Cardinality(Seen(pos + 1, c)) % CountModulus
    <3> SUFFICES ASSUME NEW c \in Cells
                 PROVE  frameCoordinatesMap'[c] = Cardinality(Seen(pos + 1, c)) % CountModulus
      OBVIOUS
    <3>1. CASE c = pair
      BY <1>8, <2>1, <2>2, <2>4, <2>5, <3>1
    <3>2. CASE c # pair
      <4>1. Cardinality(Seen(pos + 1, c)) = Cardinality(Seen(pos, c)) + 0
        BY <1>4, <3>2
      <4>2. Cardinality(Seen(pos + 1, c)) = Cardinality(Seen(pos, c))
        BY <1>4, <4>1
      <4>3. frameCoordinatesMap'[c] = frameCoordinatesMap[c]
        BY <1>8, <2>1, <2>2, <3>2
      <4> QED BY <1>7, <4>2, <4>3
    <3> QED BY <3>1, <3>2
  <2>7. \A c \in Cells \ {Origin} :
           c \in duplicates' <=> Cardinality(Seen(pos + 1, c)) >= 2
    <3> SUFFICES ASSUME NEW c \in Cells \ {Origin}
                 PROVE  c \in duplicates' <=> Cardinality(Seen(pos + 1, c)) >= 2
      OBVIOUS
    <3>1. CASE c = pair
      <4>1. n = 0 \/ n = 1 \/ n >= 2
        BY <2>3
      <4>2. c \in duplicates <=> n >= 2
        BY <1>7, <3>1 DEF n
      <4>3. CASE n = 0
        BY <2>2, <2>4, <2>5, <3>1, <4>2, <4>3
      <4>4. CASE n = 1
        BY <2>2, <2>4, <2>5, <3>1, <4>2, <4>4
      <4>5. CASE n >= 2
        BY <2>2, <2>3, <2>5, <3>1, <4>2, <4>5
      <4> QED BY <4>1, <4>3, <4>4, <4>5
    <3>2. CASE c # pair
      <4>1. Cardinality(Seen(pos + 1, c)) = Cardinality(Seen(pos, c))
        BY <1>4, <3>2
      <4>2. c \in duplicates' <=> c \in duplicates
        BY <2>2, <3>2
      <4> QED BY <1>7, <4>1, <4>2
    <3> QED BY <3>1, <3>2
  <2>8. duplicates' \subseteq Cells \ {Origin}
    BY <1>7, <2>1, <2>2
  <2>9. duplicates' = {c \in Cells \ {Origin} : Cardinality(Seen(pos + 1, c)) >= 2}
    BY <2>7, <2>8
  <2>10. illegal_spot_cnt' = (Cardinality(SeenIllegal(pos)))'
    BY <1>6, <1>7, <1>9, <2>2 DEF pair
  <2> QED BY <1>1, <1>5, <2>6, <2>9, <2>10 DEF CountInv
<1>10. CASE ~Legal(pair)
  <2>1. pair \notin Cells
    BY <1>10, CheckPairStep
  <2>2. illegal_spot_cnt' = illegal_spot_cnt + 1 /\ UNCHANGED <<frameCoordinatesMap, duplicates>>
    BY <1>10, CheckPairStep
  <2>3. \A c \in Cells : Cardinality(Seen(pos + 1, c)) = Cardinality(Seen(pos, c))
    BY <1>4, <2>1
  <2>4. illegal_spot_cnt' = (Cardinality(SeenIllegal(pos)))'
    BY <1>6, <1>7, <1>10, <2>2
  <2> QED BY <1>1, <1>7, <1>5, <2>2, <2>3, <2>4 DEF CountInv
<1> QED
  BY <1>9, <1>10

\* Every step keeps the counts right.
LEMMA NextCount == IInv /\ CountInv /\ [Next]_vars => CountInv'
<1> SUFFICES ASSUME IInv, CountInv, [Next]_vars
             PROVE  CountInv'
  OBVIOUS
<1>1. CASE CheckPair
  BY <1>1, CheckPairCount
<1>2. CASE CountSpots
  <2>1. /\ UNCHANGED <<memory, spot_cali_data, group, pos, frameCoordinatesMap, duplicates,
                       illegal_spot_cnt>>
        /\ pc = "check"
        /\ spot_cnt' = Cardinality({c \in Cells \ {Origin} : frameCoordinatesMap[c] # 0})
    BY <1>2 DEF CountSpots
  <2>2. /\ \A c : (Seen(pos, c))' = Seen(pos, c)
        /\ (SeenIllegal(pos))' = SeenIllegal(pos)
    BY <2>1 DEF Seen, SeenIllegal, Item, Slot
  <2> QED BY <2>1, <2>2 DEF CountInv
<1>3. CASE pc' \notin {"check", "counted"}
  BY <1>3 DEF CountInv
<1>4. CASE BeginCheck(0) \/ BeginCheck(1)
  BY <1>4, CountBegins
<1>5. CASE UNCHANGED vars
  <2>1. /\ UNCHANGED <<pc, spot_cnt, frameCoordinatesMap, duplicates, illegal_spot_cnt>>
        /\ \A c : (Seen(pos, c))' = Seen(pos, c)
        /\ (SeenIllegal(pos))' = SeenIllegal(pos)
    BY <1>5 DEF vars, checkVars, resultVars, Seen, SeenIllegal, Item, Slot
  <2> QED BY <2>1 DEF CountInv
<1>6. \/ CheckPair \/ CountSpots \/ pc' \notin {"check", "counted"}
      \/ BeginCheck(0) \/ BeginCheck(1) \/ UNCHANGED vars
  BY DEF Next, UseLoaded, LoadedFaults, AllocFails, CopyRoiSram, UseEeprom, ShiftNext, ShiftPair,
    EndShift, NextGroup, EndCheck, DataReady
<1> QED
  BY <1>1, <1>2, <1>3, <1>4, <1>5, <1>6

\* The counts are right in every reachable state.
THEOREM CountsRight == Spec => [](IInv /\ CountInv)
<1>1. Init => IInv /\ CountInv
  BY InitIInv DEF Init, CountInv
<1>2. IInv /\ CountInv /\ [Next]_vars => IInv' /\ CountInv'
  BY NextIInv, NextCount
<1> QED
  BY <1>1, <1>2, PTL DEF Spec

\* At the end of a group everything was seen.
LEMMA AllSeen ==
  ASSUME IInv, pc = "counted"
  PROVE  /\ \A pair : Seen(pos, pair) = Occurrences(pair)
         /\ SeenIllegal(pos) =
              {i \in 1 .. CheckedCount : ~Legal(memory[spot_cali_data][Slot(i)])}
<1>1. pos = CheckedCount + 1 /\ CheckedCount \in Nat
  <2>1. pos \in Nat /\ CheckedCount \in Nat
    BY CheckedRange, Sizes DEF IInv, TypeOK, Total
  <2> QED BY <2>1 DEF IInv, Progress
<1>2. 1 .. pos - 1 = 1 .. CheckedCount
  BY <1>1
<1> QED
  BY <1>2 DEF Seen, SeenIllegal, Occurrences, Item

\* The coordinates reported as duplicated are the duplicated ones.
THEOREM DuplicatesFound == Spec => []DuplicatesSeen
<1>1. IInv /\ CountInv => DuplicatesSeen
  BY AllSeen DEF CountInv, DuplicatesSeen
<1> QED
  BY <1>1, CountsRight, PTL

\* The number of illegal spots is exact, that of the spots too unless a count
\* wrapped to zero.
THEOREM SpotCountRight == Spec => []SpotsCounted
<1>1. IInv /\ CountInv => SpotsCounted
  <2> SUFFICES ASSUME IInv, CountInv, pc = "counted"
               PROVE  SpotsCounted
    BY DEF SpotsCounted
  <2> DEFINE used == {c \in Cells \ {Origin} : Occurrences(c) # {}}
  <2>1. illegal_spot_cnt =
          Cardinality({i \in 1 .. CheckedCount : ~Legal(memory[spot_cali_data][Slot(i)])})
    BY AllSeen DEF CountInv
  <2>2. ASSUME \A c \in used : Cardinality(Occurrences(c)) % CountModulus # 0
        PROVE  spot_cnt = Cardinality(used)
    <3>1. \A c \in Cells : frameCoordinatesMap[c] = Cardinality(Occurrences(c)) % CountModulus
      BY AllSeen DEF CountInv
    <3>2. Cardinality({}) = 0 /\ 0 % CountModulus = 0
      BY FS_EmptySet, SizesAssumption
    <3>3. \A c \in Cells \ {Origin} : frameCoordinatesMap[c] # 0 <=> Occurrences(c) # {}
      BY <2>2, <3>1, <3>2
    <3>4. used = {c \in Cells \ {Origin} : frameCoordinatesMap[c] # 0}
      BY <3>3
    <3> QED BY <3>4 DEF CountInv
  <2> QED BY <2>1, <2>2 DEF SpotsCounted
<1> QED
  BY <1>1, CountsRight, PTL
=============================================================================
