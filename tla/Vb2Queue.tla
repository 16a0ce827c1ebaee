------------------------------ MODULE Vb2Queue ------------------------------
(***************************************************************************)
(* The kernel side of video streaming, as V4L2::Capture_frame and          *)
(* DToF_Main::FrameProcessThread see it through poll, VIDIOC_DQBUF and     *)
(* VIDIOC_QBUF: a videobuf2 capture queue of BufferCount memory-mapped     *)
(* buffers.  The driver fills the buffers in the order in which they were  *)
(* queued and completes them in the order in which they were filled; the   *)
(* process dequeues completed buffers in that order too.                   *)
(*                                                                         *)
(* A frame is named by its number: the sensor emits frames 0, 1, 2, ...    *)
(* The content of a buffer is the number of the frame the driver last      *)
(* began to write into it, because DMA overwrites the buffer from the      *)
(* start of the frame on.  A buffer never written holds a negative number. *)
(***************************************************************************)
EXTENDS Integers, Sequences

CONSTANTS
  BufferCount,    \* number of capture buffers (6 in the code)
  MaxFrames,      \* bound on the frames the sensor emits
  NoBuffer,       \* "no buffer index"
  FrameErrors,    \* may the driver complete a buffer with the ERROR flag?
  DeviceFailures  \* may the driver put the whole queue in the error state?

ASSUME BufferCountAssumption == BufferCount \in Nat \ {0}
ASSUME MaxFramesAssumption == MaxFrames \in Nat
ASSUME FaultSwitchAssumption == FrameErrors \in BOOLEAN /\ DeviceFailures \in BOOLEAN

Buffers == 0 .. BufferCount - 1

ASSUME NoBufferAssumption == NoBuffer \notin Buffers

VARIABLES
  queued,    \* buffers the driver may fill, oldest first
  filling,   \* the buffer DMA is writing, or NoBuffer
  done,      \* completed buffers waiting to be dequeued, oldest first
  held,      \* the buffer the process has dequeued and not yet requeued
  mem,       \* the frame each buffer holds
  flagged,   \* V4L2_BUF_FLAG_ERROR of each buffer
  sent,      \* number of frames the sensor has begun to emit
  failed     \* the queue is in the error state

queueVars == <<queued, filling, done, held, mem, flagged, sent, failed>>

QueueTypeOK ==
  /\ queued \in Seq(Buffers)
  /\ done \in Seq(Buffers)
  /\ filling \in Buffers \cup {NoBuffer}
  /\ held \in Buffers \cup {NoBuffer}
  /\ mem \in [Buffers -> Int]
  /\ flagged \in [Buffers -> BOOLEAN]
  /\ sent \in Nat
  /\ failed \in BOOLEAN

(***************************************************************************)
(* V4L2::alloc_buffers queues buffers 0, 1, ... in index order.  Their     *)
(* contents are numbered as if they had been filled in that order before   *)
(* frame 0.                                                                *)
(***************************************************************************)
QueueInit ==
  /\ queued = [i \in 1 .. BufferCount |-> i - 1]
  /\ filling = NoBuffer
  /\ done = <<>>
  /\ held = NoBuffer
  /\ mem = [b \in Buffers |-> b - BufferCount]
  /\ flagged = [b \in Buffers |-> FALSE]
  /\ sent = 0
  /\ failed = FALSE

-----------------------------------------------------------------------------
(* Driver steps. *)

\* A frame starts: DMA takes the oldest queued buffer and begins to overwrite it.
FrameStart ==
  /\ ~failed
  /\ sent < MaxFrames
  /\ filling = NoBuffer
  /\ queued # <<>>
  /\ filling' = Head(queued)
  /\ queued' = Tail(queued)
  /\ mem' = [mem EXCEPT ![Head(queued)] = sent]
  /\ sent' = sent + 1
  /\ UNCHANGED <<done, held, flagged, failed>>

\* A frame starts while no buffer is queued: it is lost.
FrameDropped ==
  /\ ~failed
  /\ sent < MaxFrames
  /\ filling = NoBuffer
  /\ queued = <<>>
  /\ sent' = sent + 1
  /\ UNCHANGED <<queued, filling, done, held, mem, flagged, failed>>

\* The frame is complete, possibly with errors on the receiver link.
FrameEnd ==
  /\ ~failed
  /\ filling # NoBuffer
  /\ done' = Append(done, filling)
  /\ \E error \in IF FrameErrors THEN BOOLEAN ELSE {FALSE} :
       flagged' = [flagged EXCEPT ![filling] = error]
  /\ filling' = NoBuffer
  /\ UNCHANGED <<queued, held, mem, sent, failed>>

\* The driver meets a fatal error: poll reports POLLERR, DQBUF and QBUF fail.
QueueFailure ==
  /\ DeviceFailures
  /\ ~failed
  /\ failed' = TRUE
  /\ UNCHANGED <<queued, filling, done, held, mem, flagged, sent>>

Driver == FrameStart \/ FrameDropped \/ FrameEnd \/ QueueFailure

-----------------------------------------------------------------------------
(* System calls of the process.  A definition whose name has an underscore *)
(* and a suffix, here and in the modules that extend this one, is a faulty *)
(* variant of the definition after it; no specification uses it, it serves *)
(* to see that a property notices the fault.                               *)

\* poll reports POLLIN.  A queue in the error state reports POLLERR alone.
Readable == ~failed /\ done # <<>>

\* VIDIOC_DQBUF.  The device is opened without O_NONBLOCK: with nothing
\* completed the call blocks, that is, the action is disabled.
Dqbuf ==
  /\ Readable
  /\ held' = Head(done)
  /\ done' = Tail(done)
  /\ UNCHANGED <<queued, filling, mem, flagged, sent, failed>>

\* Fault: v4l2_buf is cleared before VIDIOC_QBUF, so index 0 is requeued.
Qbuf_IndexCleared ==
  /\ ~failed
  /\ held # NoBuffer
  /\ queued' = Append(queued, 0)
  /\ held' = NoBuffer
  /\ UNCHANGED <<filling, done, mem, flagged, sent, failed>>

\* VIDIOC_QBUF of the buffer the process holds.
Qbuf ==
  /\ ~failed
  /\ held # NoBuffer
  /\ queued' = Append(queued, held)
  /\ held' = NoBuffer
  /\ UNCHANGED <<filling, done, mem, flagged, sent, failed>>

-----------------------------------------------------------------------------
(* All buffers in the order of their last use: those waiting for DMA come  *)
(* first, then the one the process holds, the completed ones, and the one  *)
(* being written.                                                          *)

OneOrNone(b) == IF b = NoBuffer THEN <<>> ELSE <<b>>

Rotation == queued \o OneOrNone(held) \o done \o OneOrNone(filling)
=============================================================================
