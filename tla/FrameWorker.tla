---------------------------- MODULE FrameWorker -----------------------------
(***************************************************************************)
(* The frame processing thread (DToF_Main::FrameProcessThread) with        *)
(* everything one iteration calls: poll, V4L2::Capture_frame and           *)
(* DToF_Main::frame_decode, running against the kernel's capture queue.    *)
(* DToF_Main::stop, called from a signal handler in the main thread, may   *)
(* interleave with any of it.                                              *)
(*                                                                         *)
(* Capture_frame requeues the buffer before frame_decode reads it, so the  *)
(* driver may overwrite a frame while it is being decoded.                 *)
(***************************************************************************)
EXTENDS Vb2Queue, FrameLossChecker

CONSTANTS
  ToDump,           \* sns_param.to_dump_frame_cnt: 0 means no quota
  LossCheck,        \* frame_drop_check_enable is set, the mode is not PCM, the library initialised
  WorkerInterrupts  \* may a signal handler run on the worker, so that poll fails with EINTR?

ASSUME ToDumpAssumption == ToDump \in Nat
ASSUME SwitchAssumption == LossCheck \in BOOLEAN /\ WorkerInterrupts \in BOOLEAN

VARIABLES
  pc,                    \* where the worker is
  frame_process_thread,  \* frame_process_thread_id # PTHREAD_INVALID
  cancelled,             \* pthread_cancel was called for the worker
  param,                 \* the worker's frame_decode_param
  errorFlag,             \* v4l2_buf.flags & V4L2_BUF_FLAG_ERROR of the last DQBUF
  rxFrameCnt,
  erroneous,             \* history: the buffers dequeued with the ERROR flag
  dumped_frame_cnt,
  flc,                   \* the decoder's FrameLossChecker
  lastDecoded,           \* history: frm_sequence of the last frame decoded, -1 if none
  firstChecked,          \* history: the first and the last frame the loss check has
  lastChecked            \*   read from memory, by their full numbers; a negative
                         \*   number is a garbage id, read through an unset param

appVars == <<frame_process_thread, cancelled>>
decodeVars == <<dumped_frame_cnt, flc, lastDecoded, firstChecked, lastChecked>>
captureVars == <<param, errorFlag, rxFrameCnt, erroneous>>
vars == <<queueVars, pc, appVars, captureVars, decodeVars>>

\* "ended": the thread has returned or was cancelled.  "faulted": it followed
\* a garbage pointer and the handler of SIGSEGV exits the process.
Locations ==
  {"loop", "poll", "dequeue", "requeue", "decode", "library", "sleep", "ended", "faulted"}

\* The stack variable param before the first Capture_frame assigns it.
UnsetParam == [seq |-> -1, buf |-> NoBuffer]

TypeOK ==
  /\ QueueTypeOK
  /\ pc \in Locations
  /\ frame_process_thread \in BOOLEAN
  /\ cancelled \in BOOLEAN
  /\ param \in [seq : Int, buf : Buffers] \cup {UnsetParam}
  /\ errorFlag \in BOOLEAN
  /\ rxFrameCnt \in Nat
  /\ erroneous \in Nat
  /\ dumped_frame_cnt \in Nat
  /\ flc \in LossCheckers
  /\ lastDecoded \in Int
  /\ firstChecked \in Int
  /\ lastChecked \in Int

Init ==
  /\ QueueInit
  /\ pc = "loop"
  /\ frame_process_thread = TRUE
  /\ cancelled = FALSE
  /\ param = UnsetParam
  /\ errorFlag = FALSE
  /\ rxFrameCnt = 0
  /\ erroneous = 0
  /\ dumped_frame_cnt = 0
  /\ flc = InitFrameChecker
  /\ lastDecoded = -1
  /\ firstChecked = 0
  /\ lastChecked = 0

-----------------------------------------------------------------------------
(* The worker's loop. *)

\* Fault: the loop does not look at frame_process_thread_id.
LoopTest_IgnoresId ==
  /\ pc = "loop"
  /\ pc' = "poll"
  /\ UNCHANGED <<queueVars, appVars, captureVars, decodeVars>>

\* while (PTHREAD_INVALID != frame_process_thread_id)
LoopTest ==
  /\ pc = "loop"
  /\ pc' = IF frame_process_thread THEN "poll" ELSE "ended"
  /\ UNCHANGED <<queueVars, appVars, captureVars, decodeVars>>

\* Fault: poll waits without a timeout.
Poll_Forever ==
  /\ pc = "poll"
  /\ Readable \/ failed
  /\ pc' = IF Readable THEN "dequeue" ELSE "sleep"
  /\ UNCHANGED <<queueVars, appVars, captureVars, decodeVars>>

\* Fault: the buffer is dequeued whatever poll reported.
Poll_IgnoresRevents ==
  /\ pc = "poll"
  /\ pc' = "dequeue"
  /\ UNCHANGED <<queueVars, appVars, captureVars, decodeVars>>

\* Fault: frame_decode is called after a timeout too.
Poll_DecodesOnTimeout ==
  /\ pc = "poll"
  /\ pc' = IF Readable THEN "dequeue" ELSE "decode"
  /\ UNCHANGED <<queueVars, appVars, captureVars, decodeVars>>

\* poll finds data, or times out after 100 ms, or reports POLLERR: without
\* POLLIN the iteration does nothing.
Poll ==
  /\ pc = "poll"
  /\ pc' = IF Readable THEN "dequeue" ELSE "sleep"
  /\ UNCHANGED <<queueVars, appVars, captureVars, decodeVars>>

\* poll fails (a signal handler ran on this thread): the loop is left.
PollInterrupted ==
  /\ pc = "poll"
  /\ WorkerInterrupts
  /\ pc' = "ended"
  /\ UNCHANGED <<queueVars, appVars, captureVars, decodeVars>>

\* Faults: the buffer index is off by one, past the end or wrapped; the frame
\* number is off by one.
DequeueFrame_With(newParam) ==
  /\ pc = "dequeue"
  /\ Dqbuf
  /\ errorFlag' = flagged[Head(done)]
  /\ IF flagged[Head(done)]
       THEN /\ erroneous' = erroneous + 1
            /\ UNCHANGED <<param, rxFrameCnt>>
       ELSE /\ param' = newParam
            /\ rxFrameCnt' = rxFrameCnt + 1
            /\ UNCHANGED erroneous
  /\ pc' = "requeue"
  /\ UNCHANGED <<appVars, decodeVars>>

DequeueFrame_IndexPastEnd ==
  DequeueFrame_With([seq |-> mem[Head(done)], buf |-> Head(done) + 1])

DequeueFrame_IndexWrapped ==
  DequeueFrame_With([seq |-> mem[Head(done)], buf |-> (Head(done) + 1) % BufferCount])

DequeueFrame_NumberOffByOne ==
  DequeueFrame_With([seq |-> mem[Head(done)] + 1, buf |-> Head(done)])

\* Capture_frame, from VIDIOC_DQBUF to the error_exit label.  A buffer with
\* the ERROR flag leaves param as the previous call left it.
DequeueFrame ==
  /\ pc = "dequeue"
  /\ Dqbuf
  /\ errorFlag' = flagged[Head(done)]
  /\ IF flagged[Head(done)]
       THEN /\ erroneous' = erroneous + 1
            /\ UNCHANGED <<param, rxFrameCnt>>
       ELSE /\ param' = [seq |-> mem[Head(done)], buf |-> Head(done)]
            /\ rxFrameCnt' = rxFrameCnt + 1
            /\ UNCHANGED erroneous
  /\ pc' = "requeue"
  /\ UNCHANGED <<appVars, decodeVars>>

\* Capture_frame, from error_exit: the buffer goes back to the driver.
RequeueBuffer ==
  /\ pc = "requeue"
  /\ Qbuf
  /\ pc' = "decode"
  /\ UNCHANGED <<appVars, captureVars, decodeVars>>

\* Fault: the return value of Capture_frame is ignored.
CaptureFails_Ignored ==
  /\ pc \in {"dequeue", "requeue"}
  /\ failed
  /\ pc' = "decode"
  /\ UNCHANGED <<queueVars, appVars, captureVars, decodeVars>>

\* VIDIOC_DQBUF or VIDIOC_QBUF fails: Capture_frame returns < 0, the loop is left.
CaptureFails ==
  /\ pc \in {"dequeue", "requeue"}
  /\ failed
  /\ pc' = "ended"
  /\ UNCHANGED <<queueVars, appVars, captureVars, decodeVars>>

\* Fault: the quota is never compared.
CountDumped_NoQuota ==
  /\ dumped_frame_cnt' = IF ToDump > 0 THEN dumped_frame_cnt + 1 ELSE dumped_frame_cnt
  /\ pc' = "sleep"

\* The end of frame_decode and of the iteration: the frame counts towards the
\* quota whatever the decoder returned, and the loop is left at the quota.
CountDumped ==
  /\ dumped_frame_cnt' = IF ToDump > 0 THEN dumped_frame_cnt + 1 ELSE dumped_frame_cnt
  /\ pc' = IF ToDump > 0 /\ dumped_frame_cnt + 1 >= ToDump THEN "ended" ELSE "sleep"

\* frame_decode up to the call of the algorithm library: check_frame_loss
\* reads the id of the frame that is in the buffer now.
DecodeFrame ==
  /\ pc = "decode"
  /\ param.buf # NoBuffer
  /\ lastDecoded' = param.seq
  /\ IF LossCheck
       THEN /\ flc' = CheckFrameLoss(flc, mem[param.buf] % IdModulus)
            /\ lastChecked' = mem[param.buf]
            /\ firstChecked' = IF flc.first_frame THEN mem[param.buf] ELSE firstChecked
       ELSE UNCHANGED <<flc, firstChecked, lastChecked>>
  /\ pc' = "library"
  /\ UNCHANGED <<queueVars, appVars, captureVars, dumped_frame_cnt>>

\* DepthMapWrapperProcessFrame returns.
DecodeReturns ==
  /\ pc = "library"
  /\ CountDumped
  /\ UNCHANGED <<queueVars, appVars, captureVars, flc, lastDecoded, firstChecked, lastChecked>>

\* Every buffer so far had the ERROR flag, so param was never assigned.  Either
\* its frm_type selects the "Unsupported input frame type" branch ...
DecodeUnset ==
  /\ pc = "decode"
  /\ param.buf = NoBuffer
  /\ CountDumped
  /\ UNCHANGED <<queueVars, appVars, captureVars, flc, lastDecoded, firstChecked, lastChecked>>

\* ... or it is a raw frame type and what frm_buffer points to is decoded; the
\* loss check reads an arbitrary id there, or declines a null pointer or a short
\* length ...
DecodeGarbage ==
  /\ pc = "decode"
  /\ param.buf = NoBuffer
  /\ \/ UNCHANGED <<flc, firstChecked, lastChecked>>
     \/ /\ LossCheck
        /\ \E id \in FrameIds :
             /\ flc' = CheckFrameLoss(flc, id)
             /\ lastChecked' = id - IdModulus
             /\ firstChecked' = IF flc.first_frame THEN id - IdModulus ELSE firstChecked
  /\ pc' = "library"
  /\ UNCHANGED <<queueVars, appVars, captureVars, dumped_frame_cnt, lastDecoded>>

\* ... or following the pointer faults.
DecodeFaults ==
  /\ pc = "decode"
  /\ param.buf = NoBuffer
  /\ pc' = "faulted"
  /\ UNCHANGED <<queueVars, appVars, captureVars, decodeVars>>

\* usleep(FRAME_PROCESS_THREAD_INTERVAL_US)
Sleep ==
  /\ pc = "sleep"
  /\ pc' = "loop"
  /\ UNCHANGED <<queueVars, appVars, captureVars, decodeVars>>

\* Cancellation is acted upon in poll, in usleep, and in the log and file
\* writes of Capture_frame and frame_decode; ioctl is no cancellation point.
ActOnCancel ==
  /\ cancelled
  /\ pc \in {"poll", "requeue", "decode", "library", "sleep"}
  /\ pc' = "ended"
  /\ UNCHANGED <<queueVars, appVars, captureVars, decodeVars>>

Worker ==
  \/ LoopTest \/ Poll \/ PollInterrupted
  \/ DequeueFrame \/ RequeueBuffer \/ CaptureFails
  \/ DecodeFrame \/ DecodeReturns \/ DecodeUnset \/ DecodeGarbage \/ DecodeFaults
  \/ Sleep \/ ActOnCancel

-----------------------------------------------------------------------------
(* DToF_Main::stopFrameProcessThread, in the SIGINT handler. *)

ForgetThread ==
  /\ frame_process_thread
  /\ frame_process_thread' = FALSE
  /\ UNCHANGED <<queueVars, pc, cancelled, captureVars, decodeVars>>

CancelThread ==
  /\ ~frame_process_thread
  /\ ~cancelled
  /\ cancelled' = TRUE
  /\ UNCHANGED <<queueVars, pc, frame_process_thread, captureVars, decodeVars>>

Stop == ForgetThread \/ CancelThread

DriverStep == Driver /\ UNCHANGED <<pc, appVars, captureVars, decodeVars>>

Next == Worker \/ DriverStep \/ Stop

Spec == Init /\ [][Next]_vars

\* The scheduler eventually runs the worker when it can run.  The sensor, the
\* device failure, the user's CTRL-C and the cancellation need not happen.
WorkerLoop ==
  \/ LoopTest \/ Poll \/ DequeueFrame \/ RequeueBuffer \/ CaptureFails
  \/ DecodeFrame \/ DecodeReturns \/ DecodeUnset \/ DecodeGarbage \/ Sleep

WorkerSpec == Spec /\ WF_vars(WorkerLoop)

\* The sensor emits frames as long as it is streaming.
SensorStep ==
  (FrameStart \/ FrameDropped \/ FrameEnd) /\ UNCHANGED <<pc, appVars, captureVars, decodeVars>>

-----------------------------------------------------------------------------
(* Properties. *)

\* VIDIOC_DQBUF is called only when a buffer is complete or the queue has
\* failed, so the blocking call returns: the reason dtof_main.cpp:287 gives
\* for polling first.
DqbufNeverBlocks == pc = "dequeue" => (done # <<>> \/ failed)

\* No buffer is ever in two places of the capture cycle, and none is missing:
\* dequeueing, requeueing and DMA hand the same BufferCount buffers around.
EachBufferOnce ==
  /\ Len(Rotation) = BufferCount
  /\ \A i, j \in 1 .. BufferCount : i # j => Rotation[i] # Rotation[j]

\* The buffers are reused strictly in turn: a buffer that is i-th in the
\* rotation was last written at least BufferCount - i + 1 frames ago.
OldestFirst ==
  \A i \in 1 .. BufferCount : sent - mem[Rotation[i]] >= BufferCount - i + 1

\* A frame is read after its buffer went back to the driver (v4l2.cpp:645,
\* dtof_main.cpp:328).  If DMA has overwritten it meanwhile, then with a frame
\* at least BufferCount younger: the decoder is safe while it lags less than
\* BufferCount frames behind the sensor.
OverwriteMargin ==
  param.buf # NoBuffer => \/ mem[param.buf] = param.seq
                          \/ mem[param.buf] >= param.seq + BufferCount

\* A frame without the ERROR flag is never decoded twice nor after a younger
\* one; only the frame before an erroneous buffer is decoded again.  This is
\* about the numbers in param; for the content of the buffer see OverwriteMargin.
FreshUnlessFlagged == (pc = "decode" /\ ~errorFlag) => param.seq > lastDecoded

\* The dropped and the total counters of the loss checker account for the
\* distance between the first and the last id it read, modulo the id's range,
\* whatever was lost, repeated, overwritten or garbage in between.
LossCountCongruent ==
  flc.total_frames > 0 =>
    (flc.dropped_frames + flc.total_frames - 1) % IdModulus
       = (lastChecked - firstChecked) % IdModulus

\* The quota counts captured frames: dtof_main.cpp:329 says the worker quits
\* "if already capture expected frames".
QuotaMeansCaptured ==
  (ToDump > 0 /\ dumped_frame_cnt >= ToDump) => rxFrameCnt >= ToDump

\* check_frame_loss returns the "Number of dropped frames" (adaps_dtof.cpp:67):
\* it cannot have counted more than the sensor emitted.  (A garbage id, read
\* through a param that was never assigned, is left out.)
DroppedAtMostSent == firstChecked >= 0 => flc.dropped_frames <= sent

\* The capture path implements the abstract feed of frames.
Feed == INSTANCE FrameFeed WITH last <- lastDecoded
FeedSpec == Feed!Spec

\* The thread is no more than what AppLifecycle assumes of it.
PhaseOf(location) ==
  CASE location = "loop" -> "test"
    [] location \in {"dequeue", "requeue", "decode", "library"} -> "use"
    [] OTHER -> location

Thread == INSTANCE WorkerPhases WITH
  phase <- PhaseOf(pc), threadValid <- frame_process_thread
ThreadSpec == Thread!Spec

\* After DToF_Main::stop has cleared frame_process_thread_id the worker ends,
\* even when no frame arrives any more and the cancellation is not acted upon.
StopEndsWorker == ~frame_process_thread ~> pc \in {"ended", "faulted"}

\* With a quota and a sensor that keeps streaming, the worker ends by itself,
\* erroneous buffers or not, unless the device fails.
QuotaEndsWorker ==
  WF_vars(SensorStep) => <>(pc \in {"ended", "faulted"} \/ failed)

\* Every call counted towards the quota used up a dequeued buffer of its own,
\* and between two iterations all of them are counted: what the quota counts
\* beyond the frames captured are the buffers with the ERROR flag, for each of
\* which the frame before is decoded and counted once more.  Nothing else, no
\* timeout, device failure or stop, uses up the quota.
QuotaCountsBuffers ==
  ToDump > 0 =>
    /\ dumped_frame_cnt <= rxFrameCnt + erroneous
    /\ pc \in {"loop", "poll", "dequeue", "sleep"} => dumped_frame_cnt = rxFrameCnt + erroneous
=============================================================================
