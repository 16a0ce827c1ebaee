------------------------- MODULE DecoderSetupProofs --------------------------
(***************************************************************************)
(* Proofs about DecoderSetup, for any sizes of the ROI SRAM, temperatures  *)
(* and number of frames.                                                   *)
(***************************************************************************)
EXTENDS DecoderSetup, TLAPS

\* Until the library is created no frame has been counted or passed on.
Progress ==
  /\ pc = "misc" => eeproms = {}
  /\ pc # "decoding" => /\ m_input_frame_cnt = 0 /\ m_output_frame_cnt = 0
                        /\ calledWith = {} /\ ~library.inited

\* A pointer to EEPROM data exists only for the type of the module that is
\* plugged in, and then everything else of the module is known as well: what
\* module_static_data held before the driver's first answer does not matter.
EepromKnown ==
  eeproms # {} =>
    /\ misc = "mapped" /\ driver.ready
    /\ module_type = driver.type
    /\ anchor_colOffset = IF driver.type = "spot" THEN 1 ELSE 0

\* What CalibrationOfThisModule says of the EEPROM, from the moment the parameters are filled in.
ParamsOfThisModule ==
  pc \in {"create", "decoding"} =>
    /\ misc = "mapped" /\ driver.ready
    /\ set_param.layout = driver.type
    /\ set_param.shifted <=> set_param.spots = "copy"
    /\ set_param.spots = "copy" => driver.type = "spot"
    /\ set_param.walkerror = "eeprom" => driver.type # "flood"

\* What it says of the exposure, likewise.
ExposureKnown ==
  /\ pc = "initParams" => exposureParam = "sensor's"
  /\ pc \in {"create", "decoding"} => set_param.exposure = "sensor's"

\* Only a library whose creation succeeded is called, with the handle it gave or
\* left as it was, and the last reported temperature is kept.
LibraryRules ==
  /\ library.inited => library.handle = IF unwritten THEN "garbage" ELSE "valid"
  /\ calledWith # {} => ~skip /\ library.inited
  /\ calledWith \subseteq {library.handle}
  /\ status = lastReport

IInv ==
  /\ TypeOK
  /\ Progress
  /\ EepromKnown
  /\ ParamsOfThisModule
  /\ ExposureKnown
  /\ LibraryRules
  /\ LaserTemperature
  /\ ImagesPerRound

-----------------------------------------------------------------------------
(* Lemmas. *)

\* What LaserTemperature asks of the temperature passed on for a reported one.
Nearest(value, t) ==
  IF t \in CHIP_TEMPERATURE_MIN .. CHIP_TEMPERATURE_MAX THEN value = t
  ELSE /\ value \in {CHIP_TEMPERATURE_MIN, CHIP_TEMPERATURE_MAX}
       /\ value < t <=> t > CHIP_TEMPERATURE_MAX

\* The clamped temperature is in the chip's range and as near as can be.
LEMMA ClampedRange ==
  ASSUME NEW t \in Nat
  PROVE  /\ Clamped(t) \in CHIP_TEMPERATURE_MIN .. CHIP_TEMPERATURE_MAX
         /\ Nearest(Clamped(t), t)
<1> DEFINE low  == CHIP_TEMPERATURE_MIN
           high == CHIP_TEMPERATURE_MAX
<1>1. low \in Nat /\ high \in Nat /\ low <= high
  BY DEF CHIP_TEMPERATURE_MIN, CHIP_TEMPERATURE_MAX
<1>2. Clamped(t) = IF t < low THEN low ELSE IF t > high THEN high ELSE t
  BY DEF Clamped
<1>3. \A value : Nearest(value, t) <=>
        IF t \in low .. high THEN value = t
        ELSE /\ value \in {low, high}
             /\ value < t <=> t > high
  BY DEF Nearest
<1> HIDE DEF low, high
<1>4. Clamped(t) \in low .. high
  BY <1>1, <1>2
<1>5. Nearest(Clamped(t), t)
  BY <1>1, <1>2, <1>3
<1> QED
  BY <1>4, <1>5 DEF low, high

\* The number of complete rounds grows by one with the last frame of a round.
LEMMA RoundCount ==
  ASSUME NEW n \in Nat, NEW M \in Nat \ {0}
  PROVE  (n + 1) \div M = (n \div M) + (IF (n + 1) % M = 0 THEN 1 ELSE 0)
<1> DEFINE q == n \div M
           r == n % M
<1>1. q \in Int /\ r \in 0 .. M - 1 /\ n = q * M + r
  OBVIOUS
<1> HIDE DEF q, r
<1>2. CASE r + 1 < M
  <2>1. n + 1 = M * q + (r + 1) /\ r + 1 \in 0 .. M - 1
    BY <1>1, <1>2
  <2>2. (n + 1) \div M = q /\ (n + 1) % M = r + 1
    BY <1>1, <2>1
  <2> QED BY <1>1, <2>2 DEF q
<1>3. CASE r + 1 = M
  <2>1. n + 1 = M * (q + 1) + 0
    BY <1>1, <1>3
  <2>2. (n + 1) \div M = q + 1 /\ (n + 1) % M = 0
    BY <1>1, <2>1
  <2> QED BY <1>1, <2>2 DEF q
<1> QED
  BY <1>1, <1>2, <1>3

-----------------------------------------------------------------------------
(* The inductive invariant. *)

\* The initial states satisfy the invariant.
LEMMA InitInv == Init => IInv
<1> SUFFICES ASSUME Init PROVE IInv
  OBVIOUS
<1>1. set_param \in [layout : ModuleTypes \cup {"none"},
                    spots : {"none", "eeprom", "copy", "loaded"}, shifted : BOOLEAN,
                    walkerror : {"none", "eeprom"}, exposure : {"zero", "garbage", "sensor's"}]
  BY DEF Init, NoParams
<1>2. /\ library \in [handle : {"garbage", "null", "valid"}, inited : BOOLEAN]
      /\ ~library.inited
  BY DEF Init
<1>3. /\ frames \in 0 .. MaxFrames /\ m_input_frame_cnt \in 0 .. frames
      /\ m_output_frame_cnt \in 0 .. m_input_frame_cnt
  BY ParameterAssumption DEF Init
<1>4. TypeOK
  BY <1>1, <1>2, <1>3 DEF Init, TypeOK
<1>5. ImagesPerRound
  BY DEF Init, ImagesPerRound
<1> QED
  BY <1>2, <1>4, <1>5 DEF Init, IInv, Progress, EepromKnown, ParamsOfThisModule, ExposureKnown,
                    LibraryRules, LaserTemperature

\* The driver's answer makes the module known, and nothing else does.
LEMMA ReadKeepsKnown ==
  ASSUME TypeOK, EepromKnown, ReadStaticData, UNCHANGED driver,
         misc' = misc \/ eeproms = {}, misc' \in {"closed", "unmapped", "mapped"}
  PROVE  /\ EepromKnown'
         /\ module_static_data' \in [type : ModuleTypes, ready : BOOLEAN]
         /\ module_type' \in ModuleTypes \cup {"0"}
         /\ eeproms' \subseteq ModuleTypes
         /\ anchor_colOffset' \in {0, 1}
<1>1. driver.type \in ModuleTypes
  BY DEF TypeOK
<1>2. CASE UNCHANGED <<module_static_data, module_type, eeproms, anchor_colOffset>>
  BY <1>2 DEF TypeOK, EepromKnown
<1>3. CASE /\ ~driver.ready
           /\ module_static_data' = driver
           /\ UNCHANGED <<module_type, eeproms, anchor_colOffset>>
  BY <1>3 DEF TypeOK, EepromKnown
<1>4. CASE driver.ready /\ StaticDataReady
  <2>1. /\ module_static_data' = driver /\ module_type' = driver.type
        /\ eeproms' = eeproms \cup (IF misc' = "mapped" THEN {driver.type} ELSE {})
        /\ anchor_colOffset' = IF driver.type = "spot" THEN 1 ELSE 0
    BY <1>4 DEF StaticDataReady, MappedPointer
  <2> QED BY <1>1, <1>4, <2>1 DEF TypeOK, EepromKnown
<1> QED
  BY <1>2, <1>3, <1>4 DEF ReadStaticData

\* The driver's becoming ready keeps the invariant: what is known was read when it was.
LEMMA EepromReadyInv == IInv /\ EepromReady => IInv'
<1> SUFFICES ASSUME IInv, EepromReady PROVE IInv'
  OBVIOUS
<1>1. /\ ~driver.ready /\ driver' = [driver EXCEPT !.ready = TRUE]
      /\ UNCHANGED <<pc, misc, module_static_data, module_type, eeproms, anchor_colOffset,
                     initialParam, exposureParam, rolling, skip, pcm, loaded, set_param, rawZones,
                     sub_frame_cnt_per_image_frame, library, unwritten>>
      /\ UNCHANGED <<status, laser, m_input_frame_cnt, m_output_frame_cnt, frames, lastReport,
                     calledWith>>
  BY DEF EepromReady, miscVars, paramVars, frameVars
<1>2. driver' \in [type : ModuleTypes, ready : BOOLEAN] /\ driver'.type = driver.type
  BY <1>1 DEF IInv, TypeOK
<1>3. TypeOK'
  BY <1>1, <1>2 DEF IInv, TypeOK
<1>4. EepromKnown' /\ ParamsOfThisModule'
  BY <1>1, <1>2 DEF IInv, EepromKnown, ParamsOfThisModule
<1> QED
  BY <1>1, <1>3, <1>4 DEF IInv, Progress, ExposureKnown, LibraryRules, LaserTemperature,
                          ImagesPerRound

\* The first read keeps the invariant.
LEMMA ConstructMiscInv == IInv /\ ConstructMisc => IInv'
<1> SUFFICES ASSUME IInv, ConstructMisc PROVE IInv'
  OBVIOUS
<1>1. /\ pc = "misc" /\ pc' = "initialParam" /\ rolling' \in BOOLEAN
      /\ UNCHANGED <<driver, initialParam, exposureParam, skip, pcm, loaded, set_param, rawZones,
                     sub_frame_cnt_per_image_frame, library, unwritten>>
      /\ UNCHANGED <<status, laser, m_input_frame_cnt, m_output_frame_cnt, frames, lastReport,
                     calledWith>>
  BY DEF ConstructMisc, paramVars, frameVars
<1>2. /\ ReadStaticData
      /\ misc' \in {"closed", "unmapped", "mapped"}
  BY DEF ConstructMisc, ReadStaticData
<1>3. eeproms = {}
  BY <1>1 DEF IInv, Progress
<1>4. /\ EepromKnown'
      /\ module_static_data' \in [type : ModuleTypes, ready : BOOLEAN]
      /\ module_type' \in ModuleTypes \cup {"0"}
      /\ eeproms' \subseteq ModuleTypes
      /\ anchor_colOffset' \in {0, 1}
  BY <1>1, <1>2, <1>3, ReadKeepsKnown DEF IInv
<1>5. TypeOK'
  BY <1>1, <1>2, <1>4 DEF IInv, TypeOK
<1> QED
  BY <1>1, <1>4, <1>5 DEF IInv, Progress, ParamsOfThisModule, ExposureKnown, LibraryRules,
                          LaserTemperature, ImagesPerRound

\* Sending the initial parameters keeps the invariant.
LEMMA SendInitialParamInv == IInv /\ SendInitialParam => IInv'
<1> SUFFICES ASSUME IInv, SendInitialParam PROVE IInv'
  OBVIOUS
<1>1. /\ pc = "initialParam" /\ pc' \in {"exposure", "failed"}
      /\ initialParam' \in {"unsent", "zero", "garbage"}
      /\ UNCHANGED <<driver, misc, module_static_data, module_type, eeproms, anchor_colOffset,
                     exposureParam, rolling, skip, pcm, loaded, set_param, rawZones,
                     sub_frame_cnt_per_image_frame, library, unwritten>>
      /\ UNCHANGED <<status, laser, m_input_frame_cnt, m_output_frame_cnt, frames, lastReport,
                     calledWith>>
  BY DEF SendInitialParam, miscVars, paramVars, frameVars, IInv, TypeOK
<1>2. TypeOK'
  BY <1>1 DEF IInv, TypeOK
<1> QED
  BY <1>1, <1>2 DEF IInv, Progress, EepromKnown, ParamsOfThisModule, ExposureKnown,
                    LibraryRules, LaserTemperature, ImagesPerRound

\* Reading the exposure keeps the invariant.
LEMMA ReadExposureInv == IInv /\ ReadExposure => IInv'
<1> SUFFICES ASSUME IInv, ReadExposure PROVE IInv'
  OBVIOUS
<1>1. /\ pc = "exposure"
      /\ \/ pc' = "initParams" /\ exposureParam' = "sensor's"
         \/ pc' = "failed" /\ exposureParam' = exposureParam
      /\ UNCHANGED <<driver, misc, module_static_data, module_type, eeproms, anchor_colOffset,
                     initialParam, rolling, skip, pcm, loaded, set_param, rawZones,
                     sub_frame_cnt_per_image_frame, library, unwritten>>
      /\ UNCHANGED <<status, laser, m_input_frame_cnt, m_output_frame_cnt, frames, lastReport,
                     calledWith>>
  BY DEF ReadExposure, miscVars, paramVars, frameVars
<1>2. TypeOK'
  BY <1>1 DEF IInv, TypeOK
<1> QED
  BY <1>1, <1>2 DEF IInv, Progress, EepromKnown, ParamsOfThisModule, ExposureKnown,
                    LibraryRules, LaserTemperature, ImagesPerRound

\* Only the ROI SRAM data of a spot module is copied, and exactly what is
\* copied is shifted.
LEMMA SourceRules ==
  ASSUME NEW type \in ModuleTypes, NEW source \in SpotSources(type),
         anchor_colOffset' = IF type = "spot" THEN 1 ELSE 0
  PROVE  /\ source.spots \in {"none", "eeprom", "copy", "loaded"}
         /\ source.shifted \in BOOLEAN
         /\ source.zones \in Nat
         /\ source.shifted <=> source.spots = "copy"
         /\ source.spots = "copy" => type = "spot"
<1>1. PER_GROUP \in Nat /\ ZoneCounts \subseteq Nat
  BY ParameterAssumption DEF PER_GROUP
<1> HIDE DEF PER_GROUP
<1>2. CASE loaded
  <2>1. source \in [spots : {"loaded"}, shifted : {FALSE}, zones : ZoneCounts]
    BY <1>2 DEF SpotSources
  <2>2. source.spots = "loaded" /\ source.shifted = FALSE /\ source.zones \in ZoneCounts
    BY <2>1
  <2> QED BY <1>1, <2>2
<1>3. CASE ~loaded /\ type = "spot"
  <2>1. \/ source \in [spots : {"copy"}, shifted : {anchor_colOffset' # 0}, zones : {PER_GROUP}]
        \/ source \in [spots : {"none"}, shifted : {FALSE}, zones : {0}]
    BY <1>3 DEF SpotSources
  <2>2. CASE source \in [spots : {"copy"}, shifted : {anchor_colOffset' # 0},
                         zones : {PER_GROUP}]
    <3>1. /\ source.spots = "copy" /\ source.shifted = (anchor_colOffset' # 0)
          /\ source.zones = PER_GROUP
      BY <2>2
    <3>2. anchor_colOffset' # 0
      BY <1>3
    <3>3. source.shifted \in BOOLEAN /\ source.shifted
      BY <3>1, <3>2, Zenon
    <3>4. source.shifted <=> source.spots = "copy"
      BY <3>1, <3>3, Zenon
    <3>5. /\ source.spots \in {"none", "eeprom", "copy", "loaded"}
          /\ source.zones \in Nat
          /\ source.spots = "copy" => type = "spot"
      BY <1>1, <1>3, <3>1
    <3> QED BY <3>3, <3>4, <3>5, Zenon
  <2>3. CASE source \in [spots : {"none"}, shifted : {FALSE}, zones : {0}]
    <3>1. source.spots = "none" /\ source.zones \in Nat
      BY <2>3
    <3>2. source.shifted = FALSE
      BY <2>3
    <3>3. source.shifted \in BOOLEAN /\ ~source.shifted
      BY <3>2, Zenon
    <3>4. source.spots # "copy"
      BY <3>1
    <3>5. source.shifted <=> source.spots = "copy"
      BY <3>3, <3>4, Zenon
    <3> QED BY <3>1, <3>3, <3>4, <3>5
  <2> QED BY <2>1, <2>2, <2>3
<1>4. CASE ~loaded /\ type \in {"flood", "bigfov"}
  <2>1. source \in [spots : {"eeprom"}, shifted : {FALSE}, zones : {PER_GROUP} \cup ZoneCounts]
    BY <1>4 DEF SpotSources
  <2>2. source.spots = "eeprom" /\ source.shifted = FALSE /\ source.zones \in Nat
    BY <1>1, <2>1
  <2> QED BY <2>2
<1> QED
  BY <1>2, <1>3, <1>4 DEF ModuleTypes

\* Filling in the parameters keeps the invariant: they are filled in only with
\* a pointer to the EEPROM data of the module.
LEMMA InitParamsInv == IInv /\ InitParams => IInv'
<1> SUFFICES ASSUME IInv, InitParams PROVE IInv'
  OBVIOUS
<1>1. /\ pc = "initParams" /\ misc' = misc
      /\ UNCHANGED <<driver, initialParam, exposureParam, rolling, skip, pcm, loaded, library,
                     unwritten>>
      /\ UNCHANGED <<status, laser, m_input_frame_cnt, m_output_frame_cnt, frames, lastReport,
                     calledWith>>
  BY DEF InitParams, CalibEepromParam, frameVars
<1>2. /\ EepromKnown'
      /\ module_static_data' \in [type : ModuleTypes, ready : BOOLEAN]
      /\ module_type' \in ModuleTypes \cup {"0"}
      /\ eeproms' \subseteq ModuleTypes
      /\ anchor_colOffset' \in {0, 1}
  <2>1. CASE module_static_data.ready
    <3>1. UNCHANGED <<misc, module_static_data, module_type, eeproms, anchor_colOffset>>
      BY <2>1 DEF InitParams, CalibEepromParam
    <3> QED BY <1>1, <3>1 DEF IInv, TypeOK, EepromKnown
  <2>2. CASE ~module_static_data.ready
    <3>1. ReadStaticData
      BY <2>2 DEF InitParams, CalibEepromParam
    <3> QED BY <1>1, <3>1, ReadKeepsKnown DEF IInv, TypeOK
  <2> QED BY <2>1, <2>2
<1>3. /\ m_input_frame_cnt = 0 /\ m_output_frame_cnt = 0 /\ calledWith = {} /\ ~library.inited
      /\ exposureParam = "sensor's"
  BY <1>1 DEF IInv, Progress, ExposureKnown
<1>4. CASE ~HasEeprom
  <2>1. pc' = "failed" /\ UNCHANGED <<set_param, rawZones, sub_frame_cnt_per_image_frame>>
    BY <1>4 DEF InitParams, paramVars
  <2>2. TypeOK'
    BY <1>1, <1>2, <2>1 DEF IInv, TypeOK
  <2> QED BY <1>1, <1>2, <1>3, <2>1, <2>2
          DEF IInv, Progress, ParamsOfThisModule, ExposureKnown, LibraryRules,
              LaserTemperature, ImagesPerRound
<1>5. CASE HasEeprom
  <2> DEFINE type == driver.type
  <2>1. /\ eeproms' # {} /\ type \in ModuleTypes
        /\ misc' = "mapped" /\ driver.ready /\ module_type' = type
        /\ anchor_colOffset' = IF type = "spot" THEN 1 ELSE 0
    BY <1>1, <1>2, <1>5 DEF HasEeprom, EepromKnown, IInv, TypeOK
  <2>2. Branch(module_type') = type
    BY <2>1 DEF Branch, ModuleTypes
  <2>3. PICK source \in SpotSources(type) :
           \E walkerror \in WalkErrors(type, source.spots) :
             /\ set_param' = [layout    |-> type,
                              spots     |-> source.spots,
                              shifted   |-> source.shifted,
                              walkerror |-> walkerror,
                              exposure  |-> exposureParam]
             /\ rawZones' = source.zones
             /\ sub_frame_cnt_per_image_frame' = SubFrameCount
             /\ pc' = "create"
    BY <1>5, <2>2 DEF InitParams
  <2>4. PICK walkerror \in WalkErrors(type, source.spots) :
          /\ set_param' = [layout    |-> type,
                           spots     |-> source.spots,
                           shifted   |-> source.shifted,
                           walkerror |-> walkerror,
                           exposure  |-> exposureParam]
          /\ rawZones' = source.zones
          /\ sub_frame_cnt_per_image_frame' = SubFrameCount
          /\ pc' = "create"
    BY <2>3
  <2>5. /\ source.spots \in {"none", "eeprom", "copy", "loaded"}
        /\ source.shifted \in BOOLEAN
        /\ source.zones \in Nat
        /\ source.shifted <=> source.spots = "copy"
        /\ source.spots = "copy" => type = "spot"
    BY <2>1, SourceRules
  <2>6. walkerror \in {"eeprom", "none"} /\ (walkerror = "eeprom" => type # "flood")
    BY DEF WalkErrors
  <2>7. sub_frame_cnt_per_image_frame' \in Nat
    <3>1. rawZones' \in Nat /\ rolling \in BOOLEAN
      BY <2>4, <2>5 DEF IInv, TypeOK
    <3>2. \A n \in Nat : (n \div PER_GROUP) * 4 \in Nat
      BY DEF PER_GROUP
    <3> QED BY <2>4, <3>1, <3>2 DEF SubFrameCount
  <2>8. ParamsOfThisModule'
    BY <1>1, <2>1, <2>4, <2>5, <2>6 DEF ParamsOfThisModule
  <2>9. set_param' \in [layout : ModuleTypes \cup {"none"},
                    spots : {"none", "eeprom", "copy", "loaded"}, shifted : BOOLEAN,
                    walkerror : {"none", "eeprom"}, exposure : {"zero", "garbage", "sensor's"}]
    BY <1>3, <2>1, <2>4, <2>5, <2>6
  <2>10. TypeOK'
    BY <1>1, <1>2, <2>4, <2>5, <2>7, <2>9 DEF IInv, TypeOK
  <2>11. ExposureKnown'
    BY <1>3, <2>4 DEF ExposureKnown
  <2>12. LaserTemperature' /\ ImagesPerRound'
    <3>1. \A m \in Nat : m # 0 => 0 \div m = 0
      OBVIOUS
    <3>2. m_input_frame_cnt' = 0 /\ m_output_frame_cnt' = 0 /\ calledWith' = {}
      BY <1>1, <1>3
    <3> QED BY <2>7, <3>1, <3>2 DEF LaserTemperature, ImagesPerRound
  <2> QED BY <1>1, <1>2, <1>3, <2>4, <2>8, <2>10, <2>11, <2>12
          DEF IInv, Progress, LibraryRules
<1> QED
  BY <1>4, <1>5

\* Creating the library keeps the invariant, whatever the result says.
LEMMA CreateLibraryInv == IInv /\ CreateLibrary => IInv'
<1> SUFFICES ASSUME IInv, CreateLibrary PROVE IInv'
  OBVIOUS
<1>1. /\ pc = "create" /\ pc' \in {"decoding", "failed"}
      /\ UNCHANGED <<driver, misc, module_static_data, module_type, eeproms, anchor_colOffset,
                     initialParam, exposureParam, rolling, skip, pcm, loaded, set_param, rawZones,
                     sub_frame_cnt_per_image_frame>>
      /\ UNCHANGED <<status, laser, m_input_frame_cnt, m_output_frame_cnt, frames, lastReport,
                     calledWith>>
  BY DEF CreateLibrary, miscVars, paramVars, frameVars
<1>2. PICK handle \in {"valid", "null", library.handle}, success \in BOOLEAN :
        /\ library' = [handle |-> handle, inited |-> success /\ handle # "null"]
        /\ unwritten' = (success /\ handle = "garbage")
        /\ pc' = IF success THEN "decoding" ELSE "failed"
  BY DEF CreateLibrary
<1>3. handle \in {"garbage", "null", "valid"} /\ library'.handle = handle
  BY <1>2 DEF IInv, TypeOK
<1>4. library'.inited = (success /\ handle # "null")
  BY <1>2
<1>5. library'.inited \in BOOLEAN /\ unwritten' \in BOOLEAN
  BY <1>2, <1>4, Zenon
<1>6. library' \in [handle : {"garbage", "null", "valid"}, inited : BOOLEAN]
  BY <1>2, <1>3
<1>7. library'.inited => success /\ handle # "null"
  BY <1>4, Zenon
<1>8. /\ library'.inited => library'.handle = IF unwritten' THEN "garbage" ELSE "valid"
      /\ pc' # "decoding" => ~library'.inited
  <2>1. CASE success
    <3>1. unwritten' <=> handle = "garbage"
      BY <1>2, <2>1, Zenon
    <3> QED BY <1>2, <1>3, <1>7, <2>1, <3>1
  <2>2. CASE ~success
    BY <1>7, <2>2
  <2> QED BY <2>1, <2>2
<1>9. TypeOK'
  BY <1>1, <1>5, <1>6 DEF IInv, TypeOK
<1>10. calledWith = {}
  BY <1>1 DEF IInv, Progress
<1> QED
  BY <1>1, <1>8, <1>9, <1>10 DEF IInv, Progress, EepromKnown, ParamsOfThisModule, ExposureKnown,
                          LibraryRules, LaserTemperature, ImagesPerRound

\* A frame keeps the invariant: only a created library is called, with the
\* temperature of the last report, and an image is counted once per round.
LEMMA DecodeFrameInv == IInv /\ DecodeFrame => IInv'
<1> SUFFICES ASSUME IInv, DecodeFrame PROVE IInv'
  OBVIOUS
<1>1. /\ pc = "decoding" /\ frames < MaxFrames /\ frames' = frames + 1
      /\ UNCHANGED <<pc, driver, misc, module_static_data, module_type, eeproms,
                     anchor_colOffset, initialParam, exposureParam, rolling, skip, pcm, loaded,
                     set_param, rawZones, sub_frame_cnt_per_image_frame, library, unwritten>>
      /\ ReadRuntimeStatus
      /\ IF library.inited
           THEN CallLibrary \/ SkipLibrary
           ELSE UNCHANGED <<laser, m_input_frame_cnt, m_output_frame_cnt, calledWith>>
  BY DEF DecodeFrame, miscVars, paramVars
<1>2. /\ EepromKnown' /\ ParamsOfThisModule' /\ ExposureKnown' /\ Progress'
  BY <1>1 DEF IInv, EepromKnown, ParamsOfThisModule, ExposureKnown, Progress
<1>3. status' \in Nat /\ lastReport' = status'
  BY <1>1, ParameterAssumption DEF ReadRuntimeStatus, IInv, TypeOK, LibraryRules
<1>4. /\ frames \in Nat /\ m_input_frame_cnt \in 0 .. frames
      /\ m_output_frame_cnt \in 0 .. m_input_frame_cnt
      /\ sub_frame_cnt_per_image_frame \in Nat
      /\ frames' \in 0 .. MaxFrames
  BY <1>1, ParameterAssumption DEF IInv, TypeOK
<1>5. ASSUME /\ m_input_frame_cnt' \in 0 .. frames'
             /\ m_output_frame_cnt' \in 0 .. m_input_frame_cnt'
             /\ calledWith' \subseteq {"garbage", "null", "valid"}
             /\ laser' = 0 \/ laser' \in CHIP_TEMPERATURE_MIN .. CHIP_TEMPERATURE_MAX
      PROVE  TypeOK'
  BY <1>1, <1>3, <1>4, <1>5 DEF IInv, TypeOK
<1>6. CASE ~library.inited
  <2>1. UNCHANGED <<laser, m_input_frame_cnt, m_output_frame_cnt, calledWith>>
    BY <1>1, <1>6
  <2>2. calledWith = {}
    BY <1>6 DEF IInv, LibraryRules
  <2>3. m_input_frame_cnt' \in 0 .. frames' /\ m_output_frame_cnt' \in 0 .. m_input_frame_cnt'
    BY <1>1, <1>4, <2>1
  <2>4. TypeOK'
    BY <1>5, <2>1, <2>3 DEF IInv, TypeOK
  <2> QED BY <1>1, <1>2, <1>3, <2>1, <2>2, <2>4
          DEF IInv, LibraryRules, LaserTemperature, ImagesPerRound
<1>7. CASE library.inited /\ CallLibrary
  <2>1. /\ ~skip /\ laser' = Clamped(status') /\ calledWith' = calledWith \cup {library.handle}
        /\ m_input_frame_cnt' = m_input_frame_cnt + 1
        /\ m_output_frame_cnt' \in {m_output_frame_cnt, m_output_frame_cnt + 1}
    BY <1>7 DEF CallLibrary, CountFrame, IInv, LibraryRules
  <2>2. m_input_frame_cnt' \in 0 .. frames' /\ m_output_frame_cnt' \in 0 .. m_input_frame_cnt'
    BY <1>1, <1>4, <2>1
  <2>3. /\ laser' \in CHIP_TEMPERATURE_MIN .. CHIP_TEMPERATURE_MAX
        /\ Nearest(laser', lastReport')
    BY <1>3, <2>1, ClampedRange
  <2>4. calledWith' \subseteq {library'.handle}
    BY <1>1, <2>1 DEF IInv, LibraryRules
  <2>5. TypeOK'
    <3>1. library'.handle \in {"garbage", "null", "valid"}
      BY <1>1 DEF IInv, TypeOK
    <3> QED BY <1>5, <2>2, <2>3, <2>4, <3>1
  <2>6. LaserTemperature'
    BY <2>3 DEF LaserTemperature, Nearest
  <2>7. LibraryRules'
    <3>1. library' = library /\ unwritten' = unwritten /\ skip' = skip
      BY <1>1
    <3>2. library'.inited /\ ~skip'
      BY <1>7, <2>1, <3>1, Zenon
    <3>3. library'.inited => library'.handle = IF unwritten' THEN "garbage" ELSE "valid"
      BY <3>1, Zenon DEF IInv, LibraryRules
    <3> QED BY <1>3, <2>4, <3>2, <3>3, Zenon DEF LibraryRules
  <2>8. ImagesPerRound'
    BY <1>1, <2>1 DEF ImagesPerRound
  <2> QED BY <1>2, <2>5, <2>6, <2>7, <2>8 DEF IInv
<1>8. CASE library.inited /\ SkipLibrary
  <2> DEFINE n == m_input_frame_cnt
             M == sub_frame_cnt_per_image_frame
  <2>1. /\ skip /\ UNCHANGED <<laser, calledWith>>
        /\ m_input_frame_cnt' = n + 1
        /\ pcm => m_output_frame_cnt' = m_output_frame_cnt + 1
        /\ ~pcm => m_output_frame_cnt' = IF M # 0 /\ (n + 1) % M = 0
                                           THEN m_output_frame_cnt + 1 ELSE m_output_frame_cnt
    <3>1. skip /\ UNCHANGED <<laser, calledWith>>
      BY <1>8 DEF SkipLibrary
    <3>2. CountFrame(pcm \/ (M # 0 /\ (n + 1) % M = 0))
      BY <1>8 DEF SkipLibrary
    <3>3. CASE pcm
      BY <3>1, <3>2, <3>3, Zenon DEF CountFrame
    <3>4. CASE ~pcm
      <4>1. CASE M # 0 /\ (n + 1) % M = 0
        BY <3>1, <3>2, <3>4, <4>1, Zenon DEF CountFrame
      <4>2. CASE ~(M # 0 /\ (n + 1) % M = 0)
        BY <3>1, <3>2, <3>4, <4>2, Zenon DEF CountFrame
      <4> QED BY <4>1, <4>2
    <3> QED BY <3>3, <3>4
  <2>2. m_input_frame_cnt' \in 0 .. frames' /\ m_output_frame_cnt' \in 0 .. m_input_frame_cnt'
    BY <1>1, <1>4, <2>1
  <2>3. calledWith' = {}
    BY <2>1 DEF IInv, LibraryRules
  <2>4. laser' = laser /\ (laser = 0 \/ laser \in CHIP_TEMPERATURE_MIN .. CHIP_TEMPERATURE_MAX)
    BY <2>1 DEF IInv, TypeOK
  <2>5. TypeOK'
    BY <1>5, <2>2, <2>3, <2>4
  <2>6. m_output_frame_cnt = IF pcm THEN n ELSE IF M = 0 THEN 0 ELSE n \div M
    BY <2>1 DEF IInv, ImagesPerRound
  <2>7. m_output_frame_cnt' = IF pcm THEN n + 1 ELSE IF M = 0 THEN 0 ELSE (n + 1) \div M
    <3>1. n \in Nat /\ M \in Nat
      BY <1>4
    <3>0. CASE pcm
      BY <2>1, <2>6, <3>0
    <3>2. CASE ~pcm /\ M = 0
      BY <2>1, <2>6, <3>2
    <3>3. CASE ~pcm /\ M # 0
      <4>1. (n + 1) \div M = (n \div M) + (IF (n + 1) % M = 0 THEN 1 ELSE 0)
        BY <3>1, <3>3, RoundCount
      <4>2. n \div M \in Int
        BY <3>1, <3>3
      <4> HIDE DEF n, M
      <4> QED BY <2>1, <2>6, <3>3, <4>1, <4>2
    <3> QED BY <3>0, <3>2, <3>3
  <2>8. ImagesPerRound'
    BY <1>1, <2>1, <2>7 DEF ImagesPerRound
  <2>9. LibraryRules' /\ LaserTemperature'
    BY <1>1, <1>3, <2>3 DEF IInv, LibraryRules, LaserTemperature
  <2> QED BY <1>2, <2>5, <2>8, <2>9 DEF IInv
<1> QED
  BY <1>1, <1>6, <1>7, <1>8

\* Every step keeps the invariant.
LEMMA NextInv == IInv /\ [Next]_vars => IInv'
<1> SUFFICES ASSUME IInv, [Next]_vars PROVE IInv'
  OBVIOUS
<1>1. CASE UNCHANGED vars
  <2>1. /\ UNCHANGED <<pc, driver, misc, module_static_data, module_type, eeproms,
                       anchor_colOffset, initialParam, exposureParam, rolling, skip, pcm, loaded,
                       set_param, rawZones, sub_frame_cnt_per_image_frame, library, unwritten>>
        /\ UNCHANGED <<status, laser, m_input_frame_cnt, m_output_frame_cnt, frames,
                       lastReport, calledWith>>
    BY <1>1 DEF vars, miscVars, paramVars, frameVars
  <2>2. TypeOK'
    BY <2>1 DEF IInv, TypeOK
  <2> QED BY <2>1, <2>2 DEF IInv, Progress, EepromKnown, ParamsOfThisModule, ExposureKnown,
                            LibraryRules, LaserTemperature, ImagesPerRound
<1>2. CASE Next
  BY <1>2, EepromReadyInv, ConstructMiscInv, SendInitialParamInv, ReadExposureInv,
     InitParamsInv, CreateLibraryInv, DecodeFrameInv DEF Next
<1> QED
  BY <1>1, <1>2

-----------------------------------------------------------------------------
(* Theorems. *)

\* The inductive invariant holds whatever the driver answers and whenever its
\* EEPROM becomes ready.
THEOREM Invariance == Spec => []IInv
BY InitInv, NextInv, PTL DEF Spec

\* The start-up and the decoder keep their types (dtof_main.cpp:5-142,
\* adaps_dtof.cpp:541-705).
THEOREM TypeCorrect == Spec => []TypeOK
<1>1. IInv => TypeOK
  BY DEF IInv
<1> QED
  BY Invariance, <1>1, PTL

\* The library is created only with the calibration of the module that is
\* plugged in and the exposure of the streaming sensor, although the static data
\* is garbage until the driver answers.
THEOREM CalibrationRight == Spec => []CalibrationOfThisModule
<1>1. IInv => CalibrationOfThisModule
  BY DEF IInv, Progress, ParamsOfThisModule, ExposureKnown, CalibrationOfThisModule
<1> QED
  BY Invariance, <1>1, PTL

\* No call is made before a creation reported success, nor with a null handle; the
\* handle is uninitialised only if such a creation did not write it.
THEOREM CallsOnlyCreated == Spec => []OnlyCreatedLibraryCalled
<1>1. IInv => OnlyCreatedLibraryCalled
  BY DEF IInv, LibraryRules, OnlyCreatedLibraryCalled
<1> QED
  BY Invariance, <1>1, PTL

\* The library gets the last reported temperature, kept in the chip's range.
THEOREM TemperatureRight == Spec => []LaserTemperature
<1>1. IInv => LaserTemperature
  BY DEF IInv
<1> QED
  BY Invariance, <1>1, PTL

\* One image is counted per frame in PCM mode and per complete round in the other
\* modes, for any number of frames and any ROI SRAM.
THEOREM RoundsCounted == Spec => []ImagesPerRound
<1>1. IInv => ImagesPerRound
  BY DEF IInv
<1> QED
  BY Invariance, <1>1, PTL
=============================================================================
