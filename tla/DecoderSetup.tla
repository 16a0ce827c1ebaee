---------------------------- MODULE DecoderSetup ----------------------------
(***************************************************************************)
(* What the decoder is told about the sensor module: Misc_Device reads the *)
(* module type, the calibration EEPROM, the exposure and the temperature   *)
(* from the kernel driver, V4L2 and ADAPS_DTOF pass them on to the         *)
(* algorithm library, and dtof_frame_decode hands it the frames.           *)
(*                                                                         *)
(* Each read may fail, and the driver may have the EEPROM ready only later *)
(* (ads6401 reports "ready" with the module's static data).                *)
(***************************************************************************)
EXTENDS Integers

CONSTANTS
  ZoneCounts,     \* sizes of the ROI SRAM data of a big-FoV module or of the
                  \*   environment's forced size, in zones
  Temperatures,   \* inside_temperature_x100 the driver may report
  MaxFrames       \* bound on the frames decoded

ASSUME ParameterAssumption ==
  /\ ZoneCounts \subseteq Nat /\ ZoneCounts # {}
  /\ Temperatures \subseteq Nat
  /\ MaxFrames \in Nat

VARIABLES
  pc,
  driver,                  \* the kernel driver: the module's type and whether its EEPROM is ready
  misc,                    \* "closed", "unmapped" (mmap failed) or "mapped"
  module_static_data,      \* the driver's last answer, garbage before the first
  module_type,             \* Misc_Device's own copy of the type
  eeproms,                 \* the types whose p_*_module_eeprom points into the mapping
  anchor_colOffset,
  initialParam,            \* the fields of the initial parameters that nothing assigns
  exposureParam,           \* Misc_Device's exposure parameters
  rolling,                 \* is the ROI SRAM to be rolled?
  skip,                    \* skip_frame_decode: the library is not called
  pcm,                     \* is the sensor's mode PCM?
  loaded,                  \* loaded_roi_sram_data and _size, never assigned, are not zero
  set_param,               \* the parameters for the library
  rawZones,                \* initInputParams.rawDataSize, in zones
  sub_frame_cnt_per_image_frame,
  library,                 \* m_handlerDepthLib and m_conversionLibInited
  status,                  \* last_runtime_status_param.inside_temperature_x100
  laser,                   \* depthConfig's laser_realtime_tempe, times 100
  m_input_frame_cnt,
  m_output_frame_cnt,
  frames,                  \* frames handed to dtof_frame_decode
  lastReport,              \* history: the last temperature the driver reported
  unwritten,               \* history: the library's creation succeeded but gave no handle
  calledWith               \* history: the handles ProcessFrame was called with

miscVars == <<misc, module_static_data, module_type, eeproms, anchor_colOffset>>
paramVars == <<set_param, rawZones, sub_frame_cnt_per_image_frame>>
frameVars == <<status, laser, m_input_frame_cnt, m_output_frame_cnt, frames,
               lastReport, calledWith>>
vars == <<pc, driver, miscVars, initialParam, exposureParam, rolling, skip, pcm, loaded, paramVars,
          library, unwritten, frameVars>>

\* The two generations of big-FoV modules are treated alike.
ModuleTypes == {"spot", "flood", "bigfov"}

\* Any type but the first two, 0 included, takes the branch of the big-FoV modules.
Branch(type) == IF type \in {"spot", "flood"} THEN type ELSE "bigfov"

PER_GROUP == 4   \* ZONE_COUNT_PER_SRAM_GROUP

CHIP_TEMPERATURE_MIN == 1500
CHIP_TEMPERATURE_MAX == 9000

NoParams == [layout |-> "none", spots |-> "none", shifted |-> FALSE, walkerror |-> "none",
             exposure |-> "zero"]

TypeOK ==
  /\ pc \in {"misc", "initialParam", "exposure", "initParams", "create", "decoding", "failed"}
  /\ driver \in [type : ModuleTypes, ready : BOOLEAN]
  /\ misc \in {"closed", "unmapped", "mapped"}
  /\ module_static_data \in [type : ModuleTypes, ready : BOOLEAN]
  /\ module_type \in ModuleTypes \cup {"0"}
  /\ eeproms \subseteq ModuleTypes
  /\ anchor_colOffset \in {0, 1}
  /\ initialParam \in {"unsent", "zero", "garbage"}
  /\ exposureParam \in {"garbage", "sensor's"}
  /\ rolling \in BOOLEAN /\ skip \in BOOLEAN /\ pcm \in BOOLEAN /\ loaded \in BOOLEAN
  /\ set_param \in [layout : ModuleTypes \cup {"none"},
                    spots : {"none", "eeprom", "copy", "loaded"}, shifted : BOOLEAN,
                    walkerror : {"none", "eeprom"}, exposure : {"zero", "garbage", "sensor's"}]
  /\ rawZones \in Nat
  /\ sub_frame_cnt_per_image_frame \in Nat
  /\ library \in [handle : {"garbage", "null", "valid"}, inited : BOOLEAN]
  /\ unwritten \in BOOLEAN
  /\ status \in Nat
  /\ laser = 0 \/ laser \in CHIP_TEMPERATURE_MIN .. CHIP_TEMPERATURE_MAX
  /\ m_input_frame_cnt \in 0 .. frames
  /\ m_output_frame_cnt \in 0 .. m_input_frame_cnt
  /\ frames \in 0 .. MaxFrames
  /\ lastReport \in Nat
  /\ calledWith \subseteq {"garbage", "null", "valid"}

\* Members that no constructor assigns hold what was in memory.
Init ==
  /\ pc = "misc"
  /\ driver \in [type : ModuleTypes, ready : BOOLEAN]
  /\ misc = "closed"
  /\ module_static_data \in [type : ModuleTypes, ready : BOOLEAN]
  /\ module_type = "0"
  /\ eeproms = {}
  /\ anchor_colOffset = 0
  /\ initialParam = "unsent"
  /\ exposureParam = "garbage"
  /\ rolling = FALSE
  /\ skip \in BOOLEAN
  /\ pcm \in BOOLEAN
  /\ loaded \in BOOLEAN
  /\ set_param = NoParams
  /\ rawZones = 0
  /\ sub_frame_cnt_per_image_frame = 0
  /\ library \in [handle : {"garbage", "null"}, inited : {FALSE}]
  /\ unwritten = FALSE
  /\ status = 0 /\ laser = 0 /\ lastReport = 0
  /\ m_input_frame_cnt = 0 /\ m_output_frame_cnt = 0 /\ frames = 0
  /\ calledWith = {}

-----------------------------------------------------------------------------
(* The kernel driver. *)

\* The driver finishes reading the EEPROM.
EepromReady ==
  /\ ~driver.ready
  /\ driver' = [driver EXCEPT !.ready = TRUE]
  /\ UNCHANGED <<pc, miscVars, initialParam, exposureParam, rolling, skip, pcm, loaded, paramVars,
                 library, unwritten, frameVars>>

-----------------------------------------------------------------------------
(* Misc_Device. *)

\* The pointer to the EEPROM data is the base of the mapping: null if mmap
\* failed.
MappedPointer == IF misc' = "mapped" THEN {driver.type} ELSE {}

\* Fault: the type is not copied from the driver's answer.
StaticDataReady_TypeForgotten ==
  /\ module_static_data' = driver
  /\ eeproms' = eeproms \cup MappedPointer
  /\ anchor_colOffset' = IF driver.type = "spot" THEN 1 ELSE 0
  /\ UNCHANGED module_type

\* The driver answered that the EEPROM is ready.
StaticDataReady ==
  /\ module_static_data' = driver
  /\ module_type' = driver.type
  /\ eeproms' = eeproms \cup MappedPointer
  /\ anchor_colOffset' = IF driver.type = "spot" THEN 1 ELSE 0

\* read_dtof_module_static_data: the ioctl fails, the EEPROM is not ready, or it is.
ReadStaticData ==
  \/ UNCHANGED <<module_static_data, module_type, eeproms, anchor_colOffset>>
  \/ /\ misc' # "closed"
     /\ ~driver.ready
     /\ module_static_data' = driver
     /\ UNCHANGED <<module_type, eeproms, anchor_colOffset>>
  \/ /\ misc' # "closed"
     /\ driver.ready
     /\ StaticDataReady

\* The constructor: after a failed open or mmap the static data is not read.
\* The rolling switch of the command line is set on the new object.
ConstructMisc ==
  /\ pc = "misc"
  /\ \/ /\ misc' \in {"closed", "unmapped"}
        /\ UNCHANGED <<module_static_data, module_type, eeproms, anchor_colOffset>>
     \/ /\ misc' = "mapped"
        /\ ReadStaticData
  /\ rolling' \in BOOLEAN
  /\ pc' = "initialParam"
  /\ UNCHANGED <<driver, initialParam, exposureParam, skip, pcm, loaded, paramVars, library,
                 unwritten, frameVars>>

-----------------------------------------------------------------------------
(* V4L2. *)

\* V4l2_initilize sends the initial parameters, whose exposure and search
\* range fields are never assigned.  Anything that fails there or later in
\* V4l2_initilize ends the initialisation.
SendInitialParam ==
  /\ pc = "initialParam"
  /\ \/ /\ misc # "closed"
        /\ initialParam' \in {"zero", "garbage"}
        /\ pc' \in {"exposure", "failed"}
     \/ /\ pc' = "failed"
        /\ UNCHANGED initialParam
  /\ UNCHANGED <<driver, miscVars, exposureParam, rolling, skip, pcm, loaded, paramVars,
                 library, unwritten, frameVars>>

\* Start_streaming reads the exposure the driver chose, or fails.
ReadExposure ==
  /\ pc = "exposure"
  /\ \/ /\ exposureParam' = "sensor's"
        /\ pc' = "initParams"
     \/ /\ pc' = "failed"
        /\ UNCHANGED exposureParam
  /\ UNCHANGED <<driver, miscVars, initialParam, rolling, skip, pcm, loaded, paramVars, library,
                 unwritten, frameVars>>

-----------------------------------------------------------------------------
(* ADAPS_DTOF::initParams. *)

\* get_dtof_calib_eeprom_param: the static data is read again unless it is ready.
CalibEepromParam ==
  /\ UNCHANGED misc
  /\ IF module_static_data.ready
       THEN UNCHANGED <<module_static_data, module_type, eeproms, anchor_colOffset>>
       ELSE ReadStaticData

\* ... and the pointer of the type the driver last reported is returned.
HasEeprom == module_static_data'.type \in eeproms'

\* FillSetWrapperParamFromEepromInfo: where the ROI SRAM data comes from and its
\* size.  A spot module's is copied and shifted by the anchor; without memory
\* for the copy the rest is not filled in, and the caller does not notice.
SpotSources(type) ==
  IF loaded
    THEN [spots : {"loaded"}, shifted : {FALSE}, zones : ZoneCounts]
  ELSE CASE type = "spot" ->
              [spots : {"copy"}, shifted : {anchor_colOffset' # 0}, zones : {PER_GROUP}]
                \cup [spots : {"none"}, shifted : {FALSE}, zones : {0}]
         [] type = "flood" ->
              [spots : {"eeprom"}, shifted : {FALSE}, zones : {PER_GROUP} \cup (ZoneCounts \ {0})]
         [] type = "bigfov" ->
              [spots : {"eeprom"}, shifted : {FALSE}, zones : ZoneCounts]

\* Only a flood module has no walk error parameters; the environment may
\* disable them.
WalkErrors(type, spots) ==
  IF type = "flood" \/ spots = "none" THEN {"none"} ELSE {"eeprom", "none"}

SubFrameCount == IF rolling THEN (rawZones' \div PER_GROUP) * 4 ELSE 4

\* initParams, with the branches taken by Misc_Device's copy of the module type.
InitParams ==
  /\ pc = "initParams"
  /\ CalibEepromParam
  /\ IF HasEeprom
       THEN \E source \in SpotSources(Branch(module_type')) :
            \E walkerror \in WalkErrors(Branch(module_type'), source.spots) :
              /\ set_param' = [layout    |-> Branch(module_type'),
                               spots     |-> source.spots,
                               shifted   |-> source.shifted,
                               walkerror |-> walkerror,
                               exposure  |-> exposureParam]
              /\ rawZones' = source.zones
              /\ sub_frame_cnt_per_image_frame' = SubFrameCount
              /\ pc' = "create"
       ELSE /\ pc' = "failed"
            /\ UNCHANGED paramVars
  /\ UNCHANGED <<driver, initialParam, exposureParam, rolling, skip, pcm, loaded, library,
                 unwritten, frameVars>>

\* adaps_dtof_initilize: DepthMapWrapperCreate gives a handle, or null, or leaves
\* the handle as it is, which is what was in memory; and it fails or not.  A
\* handle that is not null passes the test; the caller looks at the result only.
CreateLibrary ==
  /\ pc = "create"
  /\ \E handle \in {"valid", "null", library.handle}, success \in BOOLEAN :
       /\ library' = [handle |-> handle, inited |-> success /\ handle # "null"]
       /\ unwritten' = (success /\ handle = "garbage")
       /\ pc' = IF success THEN "decoding" ELSE "failed"
  /\ UNCHANGED <<driver, miscVars, initialParam, exposureParam, rolling, skip, pcm, loaded,
                 paramVars, frameVars>>

-----------------------------------------------------------------------------
(* Frames. *)

\* Capture_frame reads the runtime status; a failure keeps the last one.
ReadRuntimeStatus ==
  \/ UNCHANGED <<status, lastReport>>
  \/ \E t \in Temperatures : status' = t /\ lastReport' = t

\* Faults: the temperature is passed on as it is, or, out of the chip's range,
\* left as in the last frame.
Clamped_Raw(t) == t

Clamped_Skipped(t) == IF t \in CHIP_TEMPERATURE_MIN .. CHIP_TEMPERATURE_MAX THEN t ELSE laser

\* PrepareFrameParam keeps the temperature within the chip's range.
Clamped(t) ==
  IF t < CHIP_TEMPERATURE_MIN THEN CHIP_TEMPERATURE_MIN
  ELSE IF t > CHIP_TEMPERATURE_MAX THEN CHIP_TEMPERATURE_MAX
  ELSE t

\* The decoder counts a frame and whether it completed an image.
CountFrame(done) ==
  /\ m_input_frame_cnt' = m_input_frame_cnt + 1
  /\ m_output_frame_cnt' = IF done THEN m_output_frame_cnt + 1 ELSE m_output_frame_cnt

\* The library says whether the frame completed an image.
CallLibrary ==
  /\ ~skip
  /\ laser' = Clamped(status')
  /\ calledWith' = calledWith \cup {library.handle}
  /\ \E done \in BOOLEAN : CountFrame(done)

\* Fault: the frame is counted after the test.
SkipLibrary_CountedLate ==
  /\ skip
  /\ CountFrame(\/ pcm
                \/ /\ sub_frame_cnt_per_image_frame # 0
                   /\ m_input_frame_cnt % sub_frame_cnt_per_image_frame = 0)
  /\ UNCHANGED <<laser, calledWith>>

\* Without the library every frame is an image in PCM mode, and every
\* sub_frame_cnt_per_image_frame-th completes one in the others.  Division by
\* zero gives zero on the aarch64 target, so the remainder is the frame count
\* itself, which is not zero.
SkipLibrary ==
  /\ skip
  /\ CountFrame(\/ pcm
                \/ /\ sub_frame_cnt_per_image_frame # 0
                   /\ (m_input_frame_cnt + 1) % sub_frame_cnt_per_image_frame = 0)
  /\ UNCHANGED <<laser, calledWith>>

\* Fault: the library's initialisation is not checked.
DecodeFrame_Unchecked ==
  /\ pc = "decoding"
  /\ frames < MaxFrames
  /\ frames' = frames + 1
  /\ ReadRuntimeStatus
  /\ CallLibrary \/ SkipLibrary
  /\ UNCHANGED <<pc, driver, miscVars, initialParam, exposureParam, rolling, skip, pcm, loaded,
                 paramVars, library, unwritten>>

\* A frame is captured and given to dtof_frame_decode, which does nothing
\* unless the library was initialised.
DecodeFrame ==
  /\ pc = "decoding"
  /\ frames < MaxFrames
  /\ frames' = frames + 1
  /\ ReadRuntimeStatus
  /\ IF library.inited
       THEN CallLibrary \/ SkipLibrary
       ELSE UNCHANGED <<laser, m_input_frame_cnt, m_output_frame_cnt, calledWith>>
  /\ UNCHANGED <<pc, driver, miscVars, initialParam, exposureParam, rolling, skip, pcm, loaded,
                 paramVars, library, unwritten>>

Next ==
  \/ EepromReady
  \/ ConstructMisc \/ SendInitialParam \/ ReadExposure \/ InitParams \/ CreateLibrary
  \/ DecodeFrame

Spec == Init /\ [][Next]_vars

-----------------------------------------------------------------------------
(* Properties. *)

\* The library is given the calibration of the module that is plugged in: the
\* driver had the EEPROM ready, its layout is that of the driver's type, the
\* anchor shift is applied to a copy and to a spot module only, walk error
\* parameters are taken only from modules that have them, and the exposure was
\* read from the streaming sensor: the order dtof_main.cpp:47 asks for.
CalibrationOfThisModule ==
  library.inited =>
    /\ misc = "mapped" /\ driver.ready
    /\ set_param.layout = driver.type
    /\ set_param.shifted <=> set_param.spots = "copy"
    /\ set_param.spots = "copy" => driver.type = "spot"
    /\ set_param.walkerror = "eeprom" => driver.type # "flood"
    /\ set_param.exposure = "sensor's"

\* DepthMapWrapperProcessFrame is called only after a creation that reported
\* success, although frames also arrive after one that gave a null handle, and
\* never with null.  The handle is uninitialised memory only if that creation
\* did not write it, which the test of adaps_dtof.cpp:641 cannot see.
OnlyCreatedLibraryCalled ==
  /\ calledWith # {} => library.inited
  /\ calledWith \subseteq IF unwritten THEN {"garbage"} ELSE {"valid"}

\* The library gets the last temperature the driver reported, whichever later
\* reads failed, moved to the nearer end of the chip's range if it is outside.
LaserTemperature ==
  calledWith # {} =>
    LET range == CHIP_TEMPERATURE_MIN .. CHIP_TEMPERATURE_MAX
    IN  IF lastReport \in range THEN laser = lastReport
        ELSE /\ laser \in {CHIP_TEMPERATURE_MIN, CHIP_TEMPERATURE_MAX}
             /\ laser < lastReport <=> lastReport > CHIP_TEMPERATURE_MAX

\* With skip_frame_decode the decoder outputs one image per frame in PCM mode,
\* and in the other modes one per complete round of sub-frames, and never one
\* when the rolled ROI SRAM has less than one group.
ImagesPerRound ==
  skip =>
    m_output_frame_cnt =
      IF pcm THEN m_input_frame_cnt
      ELSE IF sub_frame_cnt_per_image_frame = 0 THEN 0
      ELSE m_input_frame_cnt \div sub_frame_cnt_per_image_frame
=============================================================================
