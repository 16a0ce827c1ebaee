---------------------------- MODULE FrameDecode -----------------------------
(***************************************************************************)
(* DToF_Main::frame_decode with ADAPS_DTOF::dtof_frame_decode: what one    *)
(* captured frame after the other does to the depth buffer, to the images  *)
(* that are output from it and to the files that are saved.                *)
(*                                                                         *)
(* The algorithm library adds the spots of a frame to the depth buffer and *)
(* reports when an image is complete; frame_decode then logs and saves the *)
(* image and clears the buffer.  The content of the buffer is the set of   *)
(* the numbers of the frames that were added to it.                        *)
(*                                                                         *)
(* The capture buffer the frame is in went back to the driver before (see  *)
(* FrameWorker), so DMA may replace the frame while it is saved or decoded.*)
(***************************************************************************)
EXTENDS Integers, Sequences

CONSTANTS
  MaxFrames,       \* bound on the frame numbers
  MaxPasses,       \* bound on the calls of frame_decode
  BufferCount,     \* number of capture buffers (6 in the code)
  SubFrames,       \* sub_frame_cnt_per_image_frame
  Quotas,          \* values tried for sns_param.to_dump_frame_cnt
  Intervals,       \* depth map dump intervals tried, as atoi returns them
  CounterModulus   \* an uint32_t counts modulo this (2^32 in the code)

ASSUME BoundsAssumption == MaxFrames \in Nat /\ MaxPasses \in Nat
ASSUME BufferCountAssumption == BufferCount \in Nat \ {0}
ASSUME SubFramesAssumption == SubFrames \in Nat \ {0}
ASSUME QuotasAssumption == Quotas \subseteq Nat
ASSUME CounterAssumption ==
  /\ CounterModulus \in Nat \ {0}
  /\ Intervals \subseteq Int
  /\ \A interval \in Intervals : interval = 0 \/ interval % CounterModulus # 0

VARIABLES
  options,             \* the work mode, the environment and what was set up
  pc,                  \* where frame_decode is, "idle" between two calls
  frm_sequence,        \* the number of the frame in param, -1 before the first
  grayscale,           \* frm_type in param, of the types that are decoded
  content,             \* the frames the capture buffer of param has pieces of; -1 is
                       \*   whatever the pointer in an unassigned param leads to
  passes,              \* the number of calls
  decodeRet,
  depth_buffer,        \* the frames the buffer has spots of
  m_input_frame_cnt,
  outputed_frame_cnt,
  dumped_frame_cnt,
  decoded,             \* history: the frames the library added to the buffer,
  overtaken,           \*   those of them it read in the place of the frame in param,
  images,              \*   the content of each image output,
  sinceDump,           \*   the images since the last depth map was logged,
  rawFiles,            \*   the frames saved raw,
  imageFiles           \*   and the images saved, by their place in images

fileVars == <<rawFiles, imageFiles>>
outputVars == <<outputed_frame_cnt, images, sinceDump, imageFiles>>
bufferVars == <<depth_buffer, decoded, overtaken, m_input_frame_cnt>>
frameVars == <<frm_sequence, grayscale, content>>
vars == <<options, pc, frameVars, passes, decodeRet, bufferVars, dumped_frame_cnt,
          outputVars, rawFiles>>

EINVAL == 22

\* pcm: the work mode, in which the frames are grayscale; inited: the library was
\* created; buffer: its malloc succeeded; quota: sns_param.to_dump_frame_cnt, 0
\* means none; interval: after how many depth images one is logged; the others
\* are switches of the environment.
Options ==
  [pcm : BOOLEAN, inited : BOOLEAN, buffer : BOOLEAN, skip : BOOLEAN,
   saveRaw : BOOLEAN, saveDepth : BOOLEAN, interval : Intervals,
   quota : Quotas]

Frames == 0 .. MaxFrames - 1
Numbers == Frames \cup {-1}

TypeOK ==
  /\ options \in Options
  /\ pc \in {"idle", "saveRaw", "decode", "output", "finish", "ended"}
  /\ frm_sequence \in Numbers
  /\ grayscale \in BOOLEAN
  /\ content \subseteq Numbers
  /\ passes \in 0 .. MaxPasses
  /\ decodeRet \in {0, -1, -EINVAL}
  /\ depth_buffer \subseteq Numbers
  /\ m_input_frame_cnt \in Nat
  /\ outputed_frame_cnt \in 0 .. CounterModulus - 1
  /\ dumped_frame_cnt \in 0 .. options.quota
  /\ decoded \subseteq Numbers
  /\ overtaken \subseteq Numbers
  /\ images \in Seq(SUBSET Numbers)
  /\ sinceDump \in Nat
  /\ rawFiles \subseteq Numbers
  /\ imageFiles \subseteq 1 .. Len(images)

\* No constructor assigns outputed_frame_cnt.
Init ==
  /\ options \in Options
  /\ pc = "idle"
  /\ frm_sequence = -1
  /\ grayscale = FALSE
  /\ content = {-1}
  /\ passes = 0
  /\ decodeRet = 0
  /\ depth_buffer = {}
  /\ m_input_frame_cnt = 0
  /\ outputed_frame_cnt \in 0 .. CounterModulus - 1
  /\ dumped_frame_cnt = 0
  /\ decoded = {}
  /\ overtaken = {}
  /\ images = <<>>
  /\ sinceDump = 0
  /\ rawFiles = {}
  /\ imageFiles = {}

-----------------------------------------------------------------------------
(* frame_decode. *)

\* A call of frame_decode with a frame of a type that is decoded.
Call ==
  /\ pc = "idle"
  /\ passes < MaxPasses
  /\ passes' = passes + 1
  /\ pc' = "saveRaw"
  /\ UNCHANGED <<options, decodeRet, bufferVars, dumped_frame_cnt, outputVars, rawFiles>>

\* Capture_frame assigned param: a later frame, of the type of the work mode.
NextFrame ==
  /\ Call
  /\ frm_sequence' \in Frames
  /\ frm_sequence' > frm_sequence
  /\ grayscale' = options.pcm
  /\ content' = {frm_sequence'}

\* Capture_frame met a buffer with the ERROR flag and left param as it was.
SameFrame ==
  /\ Call
  /\ frm_sequence # -1
  /\ UNCHANGED frameVars

\* So did all calls before: param was never assigned.  Its type may be any, one
\* that is decoded ...
GarbageFrame ==
  /\ Call
  /\ frm_sequence = -1
  /\ grayscale' \in BOOLEAN
  /\ UNCHANGED <<frm_sequence, content>>

\* ... or another: "Unsupported input frame type".
UnsupportedFrame ==
  /\ pc = "idle"
  /\ passes < MaxPasses
  /\ frm_sequence = -1
  /\ passes' = passes + 1
  /\ decodeRet' = -EINVAL
  /\ pc' = "finish"
  /\ UNCHANGED <<options, frameVars, bufferVars, dumped_frame_cnt, outputVars, rawFiles>>

\* The driver fills the capture buffer again, with a frame at least BufferCount
\* younger (FrameWorker!OverwriteMargin) ...  (It may at any time, but only what
\* comes before the content is read makes a difference.)
OverwriteBegins ==
  /\ pc \in {"saveRaw", "decode"}
  /\ frm_sequence # -1
  /\ \E old \in content, new \in Frames :
       /\ content = {old}
       /\ new >= old + BufferCount
       /\ content' = {old, new}
  /\ UNCHANGED <<options, pc, frm_sequence, grayscale, passes, decodeRet, bufferVars,
                 dumped_frame_cnt, outputVars, rawFiles>>

\* ... until nothing of the older frame is left.
OverwriteEnds ==
  /\ pc \in {"saveRaw", "decode"}
  /\ \E old, new \in content :
       /\ old < new
       /\ content' = {new}
  /\ UNCHANGED <<options, pc, frm_sequence, grayscale, passes, decodeRet, bufferVars,
                 dumped_frame_cnt, outputVars, rawFiles>>

WithinQuota == options.quota > 0 /\ dumped_frame_cnt < options.quota

\* Fault: the last frame of the quota is not saved.
SaveRaw_OneShort ==
  /\ pc = "saveRaw"
  /\ rawFiles' = IF options.quota > 0 /\ dumped_frame_cnt + 1 < options.quota /\ options.saveRaw
                   THEN rawFiles \cup content ELSE rawFiles
  /\ pc' = "decode"
  /\ UNCHANGED <<options, frameVars, passes, decodeRet, bufferVars, dumped_frame_cnt,
                 outputVars>>

\* save_frame of what the capture buffer holds; its result is not looked at.
SaveRaw ==
  /\ pc = "saveRaw"
  /\ rawFiles' = IF WithinQuota /\ options.saveRaw THEN rawFiles \cup content ELSE rawFiles
  /\ pc' = "decode"
  /\ UNCHANGED <<options, frameVars, passes, decodeRet, bufferVars, dumped_frame_cnt,
                 outputVars>>

\* dtof_frame_decode reports a complete image, or not.
Report(complete) ==
  /\ decodeRet' = IF complete THEN 0 ELSE -1
  /\ pc' = IF complete THEN "output" ELSE "finish"
  /\ UNCHANGED <<options, frameVars, passes, dumped_frame_cnt, outputVars, rawFiles>>

\* "ConversionLib Init Fail"
NotInitialised ==
  /\ pc = "decode"
  /\ ~options.inited
  /\ Report(FALSE)
  /\ UNCHANGED bufferVars

\* DepthMapWrapperProcessFrame adds the spots of what the capture buffer holds
\* to the depth buffer, if there is one, and says whether the image is complete.
LibraryDecodes ==
  /\ pc = "decode"
  /\ options.inited
  /\ ~options.skip
  /\ \E complete \in BOOLEAN : Report(complete)
  /\ m_input_frame_cnt' = m_input_frame_cnt + 1
  /\ IF options.buffer
       THEN /\ depth_buffer' = depth_buffer \cup content
            /\ decoded' = decoded \cup content
            /\ overtaken' = overtaken \cup (content \ {frm_sequence})
       ELSE UNCHANGED <<depth_buffer, decoded, overtaken>>

\* skip_frame_decode: every SubFrames-th frame completes an image, in PCM mode
\* every frame.
DecodeSkipped ==
  /\ pc = "decode"
  /\ options.inited
  /\ options.skip
  /\ m_input_frame_cnt' = m_input_frame_cnt + 1
  /\ Report(options.pcm \/ (m_input_frame_cnt + 1) % SubFrames = 0)
  /\ UNCHANGED <<depth_buffer, decoded, overtaken>>

\* depthMapDump: the interval is converted to unsigned before the remainder.
DumpDue(count) ==
  /\ options.buffer
  /\ options.interval # 0
  /\ count % (options.interval % CounterModulus) = 0

\* Fault: the image is counted when it is saved.
OutputImage_CountedWhenSaved ==
  /\ pc = "output"
  /\ images' = Append(images, depth_buffer)
  /\ imageFiles' = IF WithinQuota /\ options.saveDepth THEN imageFiles \cup {Len(images) + 1}
                                                       ELSE imageFiles
  /\ IF grayscale
       THEN UNCHANGED <<outputed_frame_cnt, sinceDump>>
       ELSE LET count == IF WithinQuota THEN (outputed_frame_cnt + 1) % CounterModulus
                                        ELSE outputed_frame_cnt
            IN  /\ outputed_frame_cnt' = count
                /\ sinceDump' = IF DumpDue(count) THEN 0 ELSE sinceDump + 1
  /\ pc' = "finish"
  /\ UNCHANGED <<options, frameVars, passes, decodeRet, bufferVars, dumped_frame_cnt, rawFiles>>

\* A complete image: a depth image is counted and now and then logged, and
\* either kind is saved while the quota lasts.
OutputImage ==
  /\ pc = "output"
  /\ images' = Append(images, depth_buffer)
  /\ imageFiles' = IF WithinQuota /\ options.saveDepth THEN imageFiles \cup {Len(images) + 1}
                                                       ELSE imageFiles
  /\ IF grayscale
       THEN UNCHANGED <<outputed_frame_cnt, sinceDump>>
       ELSE LET count == (outputed_frame_cnt + 1) % CounterModulus
            IN  /\ outputed_frame_cnt' = count
                /\ sinceDump' = IF DumpDue(count) THEN 0 ELSE sinceDump + 1
  /\ pc' = "finish"
  /\ UNCHANGED <<options, frameVars, passes, decodeRet, bufferVars, dumped_frame_cnt, rawFiles>>

\* Fault: the worker does not leave at the quota.
CountCall_NeverEnds ==
  /\ dumped_frame_cnt' = IF options.quota > 0 THEN dumped_frame_cnt + 1 ELSE dumped_frame_cnt
  /\ pc' = "idle"

\* The quota counts the call, whatever it did; the worker leaves at the quota.
CountCall ==
  /\ dumped_frame_cnt' = IF options.quota > 0 THEN dumped_frame_cnt + 1 ELSE dumped_frame_cnt
  /\ pc' = IF options.quota > 0 /\ dumped_frame_cnt + 1 >= options.quota THEN "ended" ELSE "idle"

\* Faults: the buffer is cleared after every call; it is cleared only while
\* images are saved.
Finish_With(clear) ==
  /\ pc = "finish"
  /\ depth_buffer' = IF clear THEN {} ELSE depth_buffer
  /\ CountCall
  /\ UNCHANGED <<options, frameVars, passes, decodeRet, decoded, overtaken, m_input_frame_cnt,
                 outputVars, rawFiles>>

Finish_AlwaysCleared == Finish_With(TRUE)
Finish_ClearedWhenSaved == Finish_With(decodeRet = 0 /\ WithinQuota /\ options.saveDepth)

\* The end of frame_decode: the buffer is cleared after an image, and kept
\* while one is incomplete.
Finish ==
  /\ pc = "finish"
  /\ depth_buffer' = IF decodeRet = 0 THEN {} ELSE depth_buffer
  /\ CountCall
  /\ UNCHANGED <<options, frameVars, passes, decodeRet, decoded, overtaken, m_input_frame_cnt,
                 outputVars, rawFiles>>

\* The files and the logs are cancellation points, and following the pointer of
\* an unassigned param may fault and end the process.
Cancelled ==
  /\ pc \in {"saveRaw", "decode", "output"}
  /\ pc' = "ended"
  /\ UNCHANGED <<options, frameVars, passes, decodeRet, bufferVars, dumped_frame_cnt,
                 outputVars, rawFiles>>

Next ==
  \/ NextFrame \/ SameFrame \/ GarbageFrame \/ UnsupportedFrame
  \/ OverwriteBegins \/ OverwriteEnds \/ SaveRaw
  \/ NotInitialised \/ LibraryDecodes \/ DecodeSkipped
  \/ OutputImage \/ Finish \/ Cancelled

Spec == Init /\ [][Next]_vars

-----------------------------------------------------------------------------
(* Properties. *)

\* What the library has added to the buffer is output: between two calls
\* whatever was decoded is in an image or still in the buffer.
NothingDiscarded ==
  pc = "idle" =>
    decoded = depth_buffer \cup UNION {images[i] : i \in 1 .. Len(images)}

\* The images follow one another: no frame of one is younger than a frame of
\* the next, so that the two share at most the last frame of the first, when
\* it is decoded again after an erroneous buffer.  Only a frame that DMA put
\* into a buffer that was still being read is in an image too early.
ImagesInOrder ==
  \A i, j \in 1 .. Len(images) :
    i < j => \A f \in images[i] \ overtaken, g \in images[j] : f <= g

\* When raw frames are saved, every frame of a saved image is among them: the
\* quota that is tested twice has not run out between an image and its frames.
\* Only what DMA wrote after a frame was saved and before it was decoded is not.
RawOfEachImage ==
  options.saveRaw => \A i \in imageFiles : images[i] \ overtaken \subseteq rawFiles

\* With an interval n > 0 at least every n-th depth image is logged, whatever
\* the counter starts with and although it wraps.
DumpSpacing ==
  (options.interval > 0 /\ options.buffer) => sinceDump < options.interval
=============================================================================
