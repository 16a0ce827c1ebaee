----------------------- MODULE FrameWorkerRefinement ------------------------
(***************************************************************************)
(* Frames are captured and decoded in the order in which they were sent,   *)
(* so FrameWorker implements what the rest of the project assumes of it:   *)
(* the feed of frames FrameFeed and the thread WorkerPhases.               *)
(*                                                                         *)
(* Then: what is left to the thread after a stop (StopIsFinal), what the   *)
(* counters of lost and of dumped frames say of the frames sent, and what  *)
(* it takes to make them wrong (QuotaRightWithoutErrors,                   *)
(* FaultNeedsErrorFirst, LossRightWhenPrompt).                             *)
(***************************************************************************)
EXTENDS FrameWorkerProofs

\* Completed frames, the frame under DMA and the frame in param are in the
\* order of their numbers, and all of them were sent.
CaptureOrder ==
  /\ param.seq < sent
  /\ \A i \in 1 .. Len(done) : param.seq < mem[done[i]] /\ mem[done[i]] < sent
  /\ \A i, j \in 1 .. Len(done) : i < j => mem[done[i]] < mem[done[j]]
  /\ filling # NoBuffer =>
       /\ param.seq < mem[filling] /\ mem[filling] < sent
       /\ \A i \in 1 .. Len(done) : mem[done[i]] < mem[filling]

\* The last frame decoded is the one in param or an older one; it is older
\* while a frame that was just captured waits for being decoded.
DecodeOrder ==
  /\ lastDecoded <= param.seq
  /\ (pc \in {"requeue", "decode"} /\ ~errorFlag) => lastDecoded < param.seq

OrderInv == IInv /\ DqbufNeverBlocks /\ CaptureOrder /\ DecodeOrder

-----------------------------------------------------------------------------
(* Steps that matter to the order. *)

\* The frame number in param is a number even before the first capture.
LEMMA ParamSeqType ==
  ASSUME TypeOK
  PROVE  param.seq \in Int
BY DEF TypeOK, UnsetParam

\* The oldest queued buffer is none of the completed ones.
LEMMA HeadNotDone ==
  ASSUME IInv, queued # <<>>
  PROVE  \A i \in 1 .. Len(done) : done[i] # Head(queued)
<1> SUFFICES ASSUME NEW i \in 1 .. Len(done) PROVE done[i] # Head(queued)
  OBVIOUS
<1>1. /\ queued \in Seq(Buffers) /\ done \in Seq(Buffers)
      /\ held \in Buffers \cup {NoBuffer} /\ filling \in Buffers \cup {NoBuffer}
  BY DEF IInv, TypeOK, QueueTypeOK
<1>2. 1 \in 1 .. Len(queued) /\ Head(queued) = queued[1]
  BY <1>1, EmptySeq, HeadTailProperties
<1>3. Rotation = Line(queued, held, done, filling)
  BY DEF Rotation, Line
<1>4. Apart(Rotation, 1, queued[1], done[i])
  BY <1>1, <1>2, <1>3, PlacesInLine
<1> QED
  BY <1>2, <1>4 DEF IInv, EachBufferOnce, Apart

\* The start of a frame keeps the order: the new frame is the youngest.
LEMMA FrameStartOrder ==
  ASSUME OrderInv, FrameStart, UNCHANGED param
  PROVE  CaptureOrder'
<1> DEFINE b == Head(queued)
<1>1. /\ b \in Buffers /\ done \in Seq(Buffers) /\ mem \in [Buffers -> Int] /\ sent \in Nat
      /\ param.seq \in Int
  BY ParamSeqType, HeadTailProperties DEF OrderInv, IInv, TypeOK, QueueTypeOK, FrameStart
<1>2. \A i \in 1 .. Len(done) : done[i] \in Buffers /\ done[i] # b
  BY <1>1, HeadNotDone, ElementOfSeq DEF OrderInv, FrameStart
<1>3. \A i \in 1 .. Len(done) : mem'[done[i]] = mem[done[i]] /\ mem[done[i]] \in Int
  BY <1>1, <1>2 DEF FrameStart
<1>4. mem'[b] = sent /\ filling' = b /\ sent' = sent + 1 /\ done' = done
  BY <1>1 DEF FrameStart
<1> QED
  BY <1>1, <1>3, <1>4 DEF OrderInv, CaptureOrder

\* A frame that starts without a buffer keeps the order.
LEMMA FrameDroppedOrder ==
  ASSUME OrderInv, FrameDropped, UNCHANGED param
  PROVE  CaptureOrder'
<1>1. /\ done \in Seq(Buffers) /\ mem \in [Buffers -> Int] /\ sent \in Nat
      /\ param.seq \in Int
  BY ParamSeqType DEF OrderInv, IInv, TypeOK, QueueTypeOK
<1>2. \A i \in 1 .. Len(done) : mem[done[i]] \in Int
  BY <1>1, ElementOfSeq
<1> QED
  BY <1>1, <1>2 DEF OrderInv, CaptureOrder, FrameDropped

\* The frame that ends is younger than the completed ones.
LEMMA FrameEndOrder ==
  ASSUME OrderInv, FrameEnd, UNCHANGED param
  PROVE  CaptureOrder'
<1>1. done \in Seq(Buffers) /\ filling \in Buffers
  BY DEF OrderInv, IInv, TypeOK, QueueTypeOK, FrameEnd
<1>2. /\ Len(done') = Len(done) + 1 /\ Len(done) \in Nat
      /\ \A i \in 1 .. Len(done) : done'[i] = done[i]
      /\ done'[Len(done) + 1] = filling
  BY <1>1, AppendProperties, LenProperties DEF FrameEnd
<1>3. mem' = mem /\ sent' = sent /\ filling' = NoBuffer
  BY DEF FrameEnd
<1>4. \A i \in 1 .. Len(done') : i \in 1 .. Len(done) \/ i = Len(done) + 1
  BY <1>2
<1>5. \A i \in 1 .. Len(done') : param.seq < mem[done'[i]] /\ mem[done'[i]] < sent
  BY <1>2, <1>4 DEF OrderInv, CaptureOrder, FrameEnd
<1>6. \A i, j \in 1 .. Len(done') : i < j => mem[done'[i]] < mem[done'[j]]
  BY <1>2, <1>4 DEF OrderInv, CaptureOrder, FrameEnd
<1> QED
  BY <1>3, <1>5, <1>6 DEF OrderInv, CaptureOrder

\* The frame that is dequeued is older than those that stay, and younger than
\* the one captured before.
LEMMA DequeueOrder ==
  ASSUME OrderInv, DequeueFrame
  PROVE  CaptureOrder' /\ DecodeOrder'
<1>1. /\ done \in Seq(Buffers) /\ done # <<>> /\ mem \in [Buffers -> Int] /\ sent \in Nat
      /\ lastDecoded \in Int /\ param.seq \in Int
  BY ParamSeqType DEF OrderInv, IInv, TypeOK, QueueTypeOK, DequeueFrame, Dqbuf, Readable
<1>2. /\ Len(done) \in Nat \ {0} /\ Head(done) = done[1] /\ Head(done) \in Buffers
      /\ Len(Tail(done)) = Len(done) - 1
      /\ \A i \in 1 .. Len(done) - 1 : Tail(done)[i] = done[i + 1]
  BY <1>1, EmptySeq, HeadTailProperties
<1>3. /\ done' = Tail(done) /\ mem' = mem /\ sent' = sent /\ filling' = filling
      /\ lastDecoded' = lastDecoded /\ pc' = "requeue"
      /\ errorFlag' = flagged[Head(done)]
  BY DEF DequeueFrame, Dqbuf, decodeVars
<1>4. \A i \in 1 .. Len(done') : i + 1 \in 1 .. Len(done) /\ done'[i] = done[i + 1]
  BY <1>2, <1>3
<1>5. \A i \in 1 .. Len(done) : mem[done[i]] \in Int
  BY <1>1, ElementOfSeq
<1>6. \A i, j \in 1 .. Len(done') : i < j => mem[done'[i]] < mem[done'[j]]
  <2> SUFFICES ASSUME NEW i \in 1 .. Len(done'), NEW j \in 1 .. Len(done'), i < j
               PROVE  mem[done'[i]] < mem[done'[j]]
    OBVIOUS
  <2> QED BY <1>2, <1>3, <1>4 DEF OrderInv, CaptureOrder
<1>7. \A i \in 1 .. Len(done') : mem[done[1]] < mem[done'[i]] /\ mem[done'[i]] < sent
  <2> SUFFICES ASSUME NEW i \in 1 .. Len(done')
               PROVE  mem[done[1]] < mem[done'[i]] /\ mem[done'[i]] < sent
    OBVIOUS
  <2>1. 1 \in 1 .. Len(done) /\ i + 1 \in 1 .. Len(done) /\ 1 < i + 1
    BY <1>2, <1>3, <1>4
  <2> QED BY <1>4, <2>1 DEF OrderInv, CaptureOrder
<1>8. filling # NoBuffer => \A i \in 1 .. Len(done') : mem[done'[i]] < mem[filling]
  BY <1>4 DEF OrderInv, CaptureOrder
<1>9. /\ param.seq < mem[done[1]] /\ mem[done[1]] < sent
      /\ filling # NoBuffer => mem[done[1]] < mem[filling]
  BY <1>2 DEF OrderInv, CaptureOrder
<1>10. CASE flagged[Head(done)]
  <2>1. param' = param /\ errorFlag'
    BY <1>3, <1>10 DEF DequeueFrame
  <2>2. \A i \in 1 .. Len(done') : param.seq < mem[done'[i]]
    BY <1>4 DEF OrderInv, CaptureOrder
  <2> QED
    BY <1>3, <1>6, <1>7, <1>8, <2>1, <2>2 DEF OrderInv, CaptureOrder, DecodeOrder
<1>11. CASE ~flagged[Head(done)]
  <2>1. param'.seq = mem[done[1]]
    BY <1>2, <1>11 DEF DequeueFrame
  <2>2. lastDecoded < mem[done[1]]
    BY <1>1, <1>2, <1>5, <1>9 DEF OrderInv, DecodeOrder
  <2>3. CaptureOrder'
    <3>1. filling' # NoBuffer => mem[filling] < sent
      BY <1>3 DEF OrderInv, CaptureOrder
    <3> QED BY <1>3, <1>6, <1>7, <1>8, <1>9, <2>1, <3>1 DEF CaptureOrder
  <2>4. DecodeOrder'
    BY <1>1, <1>2, <1>3, <1>5, <2>1, <2>2 DEF DecodeOrder
  <2> QED BY <2>3, <2>4
<1> QED
  BY <1>10, <1>11

\* A step that leaves the queue and param alone keeps the capture order.
LEMMA SameCapture ==
  ASSUME CaptureOrder, UNCHANGED <<queueVars, param>>
  PROVE  CaptureOrder'
BY DEF CaptureOrder, queueVars

-----------------------------------------------------------------------------
(* The inductive invariant. *)

\* The initial state satisfies the inductive invariant.
LEMMA InitOrder == Init => OrderInv
<1> SUFFICES ASSUME Init PROVE OrderInv
  OBVIOUS
<1>1. DqbufNeverBlocks /\ DecodeOrder
  BY DEF Init, UnsetParam, DqbufNeverBlocks, DecodeOrder
<1>2. Len(done) = 0 /\ filling = NoBuffer /\ param.seq = -1 /\ sent = 0
  BY EmptySeq DEF Init, QueueInit, UnsetParam
<1>3. CaptureOrder
  BY <1>2 DEF CaptureOrder
<1> QED
  BY <1>1, <1>3, InitIInv DEF OrderInv

\* Every step preserves the inductive invariant.
LEMMA NextOrder == OrderInv /\ [Next]_vars => OrderInv'
<1> SUFFICES ASSUME OrderInv, [Next]_vars
             PROVE  OrderInv'
  OBVIOUS
<1>1. IInv /\ IInv' /\ TypeOK /\ QueueTypeOK
  BY NextIInv DEF OrderInv, IInv, TypeOK
<1> SUFFICES DqbufNeverBlocks' /\ CaptureOrder' /\ DecodeOrder'
  BY <1>1 DEF OrderInv
<1> USE DEF appVars, decodeVars, captureVars, queueVars
<1>2. lastDecoded \in Int /\ param.seq \in Int
  BY <1>1, ParamSeqType DEF TypeOK
<1>3. ASSUME UNCHANGED <<queueVars, param, errorFlag, lastDecoded>>,
             pc' = "dequeue" => pc' = pc \/ Readable,
             pc' \in {"requeue", "decode"} => pc \in {"requeue", "decode"}
      PROVE  DqbufNeverBlocks' /\ CaptureOrder' /\ DecodeOrder'
  <2>1. CaptureOrder'
    BY <1>3, SameCapture DEF OrderInv
  <2>2. DqbufNeverBlocks'
    BY <1>3 DEF OrderInv, DqbufNeverBlocks, Readable
  <2>3. DecodeOrder'
    BY <1>3 DEF OrderInv, DecodeOrder
  <2> QED BY <2>1, <2>2, <2>3
<1>4. CASE LoopTest
  BY <1>3, <1>4 DEF LoopTest
<1>5. CASE Poll
  BY <1>3, <1>5 DEF Poll
<1>6. CASE PollInterrupted
  BY <1>3, <1>6 DEF PollInterrupted
<1>7. CASE DequeueFrame
  BY <1>7, DequeueOrder DEF DequeueFrame, DqbufNeverBlocks
<1>8. CASE RequeueBuffer
  <2>1. UNCHANGED <<done, filling, mem, sent, param, errorFlag, lastDecoded>> /\ pc' = "decode"
    BY <1>8 DEF RequeueBuffer, Qbuf
  <2>2. CaptureOrder'
    BY <2>1 DEF OrderInv, CaptureOrder
  <2>3. DqbufNeverBlocks' /\ DecodeOrder'
    BY <1>8, <2>1 DEF RequeueBuffer, OrderInv, DqbufNeverBlocks, DecodeOrder
  <2> QED BY <2>2, <2>3
<1>9. CASE CaptureFails
  BY <1>3, <1>9 DEF CaptureFails
<1>10. CASE DecodeFrame
  <2>1. CaptureOrder'
    BY <1>10, SameCapture DEF DecodeFrame, OrderInv
  <2>2. DqbufNeverBlocks' /\ DecodeOrder'
    BY <1>2, <1>10 DEF DecodeFrame, DqbufNeverBlocks, DecodeOrder
  <2> QED BY <2>1, <2>2
<1>11. CASE DecodeReturns
  BY <1>3, <1>11 DEF DecodeReturns, CountDumped
<1>12. CASE DecodeUnset
  BY <1>3, <1>12 DEF DecodeUnset, CountDumped
<1>13. CASE DecodeFaults
  BY <1>3, <1>13 DEF DecodeFaults
<1>14. CASE Sleep
  BY <1>3, <1>14 DEF Sleep
<1>15. CASE ActOnCancel
  BY <1>3, <1>15 DEF ActOnCancel
<1>16. CASE DriverStep
  <2>1. UNCHANGED <<pc, param, errorFlag, lastDecoded>>
    BY <1>16 DEF DriverStep
  <2>2. DecodeOrder'
    BY <2>1 DEF OrderInv, DecodeOrder
  <2>3. CASE FrameStart
    BY <2>1, <2>2, <2>3, FrameStartOrder DEF FrameStart, OrderInv, DqbufNeverBlocks
  <2>4. CASE FrameDropped
    BY <2>1, <2>2, <2>4, FrameDroppedOrder DEF FrameDropped, OrderInv, DqbufNeverBlocks
  <2>5. CASE FrameEnd
    <3>1. done' # <<>>
      BY <1>1, <2>5, AppendProperties DEF FrameEnd, QueueTypeOK
    <3>2. CaptureOrder'
      BY <2>1, <2>5, FrameEndOrder
    <3> QED BY <2>2, <3>1, <3>2 DEF DqbufNeverBlocks
  <2>6. CASE QueueFailure
    <3>1. CaptureOrder' /\ DqbufNeverBlocks'
      BY <2>1, <2>6 DEF QueueFailure, OrderInv, CaptureOrder, DqbufNeverBlocks
    <3> QED BY <2>2, <3>1
  <2> QED BY <1>16, <2>3, <2>4, <2>5, <2>6 DEF DriverStep, Driver
<1>17. CASE Stop
  BY <1>3, <1>17 DEF Stop, ForgetThread, CancelThread
<1>18. CASE DecodeGarbage
  BY <1>3, <1>18 DEF DecodeGarbage
<1>19. CASE UNCHANGED vars
  BY <1>3, <1>19 DEF vars
<1> QED
  BY <1>4, <1>5, <1>6, <1>7, <1>8, <1>9, <1>10, <1>11, <1>12, <1>13, <1>14, <1>15,
     <1>16, <1>17, <1>18, <1>19 DEF Next, Worker

\* The order holds in every reachable state.
THEOREM OrderInvariance == Spec => []OrderInv
BY InitOrder, NextOrder, PTL DEF Spec

\* The blocking VIDIOC_DQBUF is called only when it returns.
THEOREM NeverBlocks == Spec => []DqbufNeverBlocks
<1>1. OrderInv => DqbufNeverBlocks
  BY DEF OrderInv
<1> QED BY <1>1, OrderInvariance, PTL

\* Buffers are reused strictly in turn.
THEOREM OldestReusedFirst == Spec => []OldestFirst
<1>1. IInv => OldestFirst
  BY DEF IInv
<1> QED BY <1>1, Invariance, PTL

\* Only the frame before an erroneous buffer is ever decoded again.
THEOREM NoStaleDecode == Spec => []FreshUnlessFlagged
<1>1. OrderInv => FreshUnlessFlagged
  <2> SUFFICES ASSUME OrderInv, pc = "decode", ~errorFlag
               PROVE  param.seq > lastDecoded
    BY DEF FreshUnlessFlagged
  <2>1. lastDecoded \in Int /\ param.seq \in Int
    BY ParamSeqType DEF OrderInv, IInv, TypeOK
  <2> QED BY <2>1 DEF OrderInv, DecodeOrder
<1> QED BY <1>1, OrderInvariance, PTL

-----------------------------------------------------------------------------
(* The refinements. *)

\* The capture path implements the feed of frames: the start of a frame is an
\* Emit, decoding it a Deliver, decoding it again a stuttering step.
THEOREM ImplementsFeed == Spec => FeedSpec
<1>1. Init => Feed!Init
  BY DEF Init, QueueInit, Feed!Init
<1>2. OrderInv /\ [Next]_vars => [Feed!Next]_<<sent, lastDecoded>>
  <2> SUFFICES ASSUME OrderInv, [Next]_vars, UNCHANGED <<sent, lastDecoded>> => FALSE
               PROVE  Feed!Next
    OBVIOUS
  <2> USE DEF appVars, decodeVars, captureVars, queueVars
  <2>1. CASE DecodeFrame
    <3>1. lastDecoded \in Int /\ param.seq \in Int /\ sent \in Nat
      BY ParamSeqType DEF OrderInv, IInv, TypeOK, QueueTypeOK
    <3>2. lastDecoded' = param.seq /\ sent' = sent
      BY <2>1 DEF DecodeFrame
    <3>3. lastDecoded <= param.seq /\ param.seq < sent
      BY DEF OrderInv, DecodeOrder, CaptureOrder
    <3>4. param.seq \in lastDecoded + 1 .. sent - 1
      BY <3>1, <3>2, <3>3
    <3> QED BY <3>2, <3>4 DEF Feed!Next, Feed!Deliver
  <2>2. CASE DriverStep
    <3>1. FrameStart \/ FrameDropped
      BY <2>2 DEF DriverStep, Driver, FrameEnd, QueueFailure
    <3>2. sent' = sent + 1 /\ lastDecoded' = lastDecoded
      BY <2>2, <3>1 DEF DriverStep, FrameStart, FrameDropped
    <3> QED BY <3>2 DEF Feed!Next, Feed!Emit
  <2>3. DecodeFrame \/ DriverStep
    BY DEF Next, Worker, Stop, vars, LoopTest, Poll, PollInterrupted, DequeueFrame, Dqbuf,
      RequeueBuffer, Qbuf, CaptureFails, DecodeReturns, CountDumped, DecodeUnset,
      DecodeGarbage, DecodeFaults,
      Sleep, ActOnCancel, ForgetThread, CancelThread
  <2> QED BY <2>1, <2>2, <2>3
<1> QED
  BY <1>1, <1>2, OrderInvariance, PTL DEF Spec, FeedSpec, Feed!Spec

\* The thread is what the life cycle of the application assumes of it.
THEOREM ImplementsThread == Spec => ThreadSpec
<1>1. Init => Thread!Init
  BY DEF Init, Thread!Init, PhaseOf
<1>2. [Next]_vars => [Thread!Next]_Thread!workerVars
  <2> SUFFICES ASSUME [Next]_vars
               PROVE  [Thread!Next]_Thread!workerVars
    OBVIOUS
  <2> USE DEF appVars, Thread!workerVars, Thread!Next, Thread!ThreadStep, Thread!ThreadLoop, PhaseOf
  <2>1. CASE LoopTest
    BY <2>1 DEF LoopTest, Thread!Test
  <2>2. CASE Poll
    BY <2>2 DEF Poll, Thread!PollReturns
  <2>3. CASE PollInterrupted
    BY <2>3 DEF PollInterrupted, Thread!PollFails
  <2>4. CASE DequeueFrame \/ RequeueBuffer \/ DecodeFrame \/ DecodeGarbage
    BY <2>4 DEF DequeueFrame, RequeueBuffer, DecodeFrame, DecodeGarbage
  <2>5. CASE CaptureFails
    BY <2>5 DEF CaptureFails, Thread!UseReturns
  <2>6. CASE DecodeReturns
    BY <2>6 DEF DecodeReturns, CountDumped, Thread!UseReturns
  <2>7. CASE DecodeUnset
    BY <2>7 DEF DecodeUnset, CountDumped, Thread!UseReturns
  <2>8. CASE DecodeFaults
    BY <2>8 DEF DecodeFaults, Thread!UseFaults
  <2>9. CASE Sleep
    BY <2>9 DEF Sleep, Thread!WakeUp
  <2>10. CASE ActOnCancel
    BY <2>10 DEF ActOnCancel, Thread!ActOnCancel
  <2>11. CASE DriverStep
    BY <2>11 DEF DriverStep
  <2>12. CASE ForgetThread
    BY <2>12 DEF ForgetThread, Thread!ClearThreadId
  <2>13. CASE CancelThread
    BY <2>13 DEF CancelThread, Thread!RequestCancel
  <2>14. CASE UNCHANGED vars
    BY <2>14 DEF vars
  <2> QED
    BY <2>1, <2>2, <2>3, <2>4, <2>5, <2>6, <2>7, <2>8, <2>9, <2>10, <2>11, <2>12, <2>13, <2>14
    DEF Next, Worker, Stop
<1> QED
  BY <1>1, <1>2, PTL DEF Spec, ThreadSpec, Thread!Spec

-----------------------------------------------------------------------------
(* The thread after a stop. *)

\* A requeue has a buffer to give back.
HeldToRequeue == pc = "requeue" => held # NoBuffer

\* No call of the worker's loop waits for anything: VIDIOC_DQBUF finds a buffer
\* or fails, VIDIOC_QBUF has one or fails (every other step has no guard).
WorkerNeverWaits ==
  /\ pc = "dequeue" => Readable \/ failed
  /\ pc = "requeue" => held # NoBuffer \/ failed

\* Whatever the sensor, the driver and the signals do, the worker can go on.
THEOREM NeverWaits == Spec => []WorkerNeverWaits
<1>1. Init => HeldToRequeue
  BY DEF Init, HeldToRequeue
<1>2. TypeOK /\ HeldToRequeue /\ [Next]_vars => HeldToRequeue'
  <2> SUFFICES ASSUME TypeOK, HeldToRequeue, [Next]_vars, pc' = "requeue"
               PROVE  held' # NoBuffer
    BY DEF HeldToRequeue
  <2>1. CASE DequeueFrame
    <3>1. done \in Seq(Buffers) /\ done # <<>>
      BY <2>1 DEF DequeueFrame, Dqbuf, Readable, TypeOK, QueueTypeOK
    <3>2. Head(done) \in Buffers
      BY <3>1, HeadTailProperties
    <3> QED BY <2>1, <3>2, NoBufferAssumption DEF DequeueFrame, Dqbuf
  <2>2. CASE UNCHANGED <<pc, held>>
    BY <2>2 DEF HeldToRequeue
  <2>3. DequeueFrame \/ UNCHANGED <<pc, held>>
    BY DEF Next, Worker, DriverStep, Driver, FrameStart, FrameDropped, FrameEnd, QueueFailure,
      Stop, vars, LoopTest, Poll, PollInterrupted, RequeueBuffer, CaptureFails, DecodeFrame,
      DecodeReturns, CountDumped, DecodeUnset,
      DecodeGarbage, DecodeFaults, Sleep, ActOnCancel, ForgetThread,
      CancelThread, queueVars
  <2> QED BY <2>1, <2>2, <2>3
<1>3. DqbufNeverBlocks /\ HeldToRequeue => WorkerNeverWaits
  BY DEF DqbufNeverBlocks, HeldToRequeue, WorkerNeverWaits, Readable
<1> QED
  BY <1>1, <1>2, <1>3, InitTypeOK, NextTypeOK, NeverBlocks, PTL DEF Spec

\* The steps the worker still takes once frame_process_thread_id is cleared.
StepsToEnd ==
  CASE pc = "poll"    -> 7
    [] pc = "dequeue" -> 6
    [] pc = "requeue" -> 5
    [] pc = "decode"  -> 4
    [] pc = "library" -> 3
    [] pc = "sleep"   -> 2
    [] pc = "loop"    -> 1
    [] OTHER          -> 0

\* The id stays cleared, and every step of the worker brings its end nearer.
StopIsFinal ==
  [][~frame_process_thread =>
       /\ ~frame_process_thread'
       /\ pc' # pc => StepsToEnd' \in Nat /\ StepsToEnd' < StepsToEnd]_vars

\* After DToF_Main::stop the worker takes at most seven steps, and none of
\* them waits (NeverWaits): it ends as soon as it was scheduled that often.
THEOREM EndsWithinAnIteration == Spec => StopIsFinal
<1>1. [Next]_vars =>
        [~frame_process_thread =>
           /\ ~frame_process_thread'
           /\ pc' # pc => StepsToEnd' \in Nat /\ StepsToEnd' < StepsToEnd]_vars
  <2> SUFFICES ASSUME Next, ~frame_process_thread
               PROVE  /\ ~frame_process_thread'
                      /\ pc' # pc => StepsToEnd' \in Nat /\ StepsToEnd' < StepsToEnd
    OBVIOUS
  <2>1. ~frame_process_thread'
    <3>1. UNCHANGED frame_process_thread
      BY DEF Next, Worker, DriverStep, Stop, LoopTest, Poll, PollInterrupted, DequeueFrame,
        RequeueBuffer, CaptureFails, DecodeFrame, DecodeReturns, DecodeUnset,
        DecodeGarbage, DecodeFaults,
        Sleep, ActOnCancel, ForgetThread, CancelThread, appVars
    <3> QED BY <3>1, Zenon
  <2> SUFFICES ASSUME pc' # pc
               PROVE  StepsToEnd' \in Nat /\ StepsToEnd' < StepsToEnd
    BY <2>1
  <2>2. CASE Worker
    <3>1. CASE LoopTest
      BY <3>1 DEF LoopTest, StepsToEnd
    <3>2. CASE Poll \/ PollInterrupted \/ DequeueFrame \/ RequeueBuffer \/ CaptureFails
      BY <3>2 DEF Poll, PollInterrupted, DequeueFrame, RequeueBuffer, CaptureFails, StepsToEnd
    <3>3. CASE DecodeFrame \/ DecodeReturns \/ DecodeUnset \/ DecodeGarbage \/ DecodeFaults
      BY <3>3 DEF DecodeFrame, DecodeReturns, CountDumped, DecodeUnset,
        DecodeGarbage, DecodeFaults, StepsToEnd
    <3>4. CASE Sleep \/ ActOnCancel
      BY <3>4 DEF Sleep, ActOnCancel, StepsToEnd
    <3> QED BY <2>2, <3>1, <3>2, <3>3, <3>4 DEF Worker
  <2>3. CASE DriverStep \/ Stop
    BY <2>3 DEF DriverStep, Stop, ForgetThread, CancelThread
  <2> QED BY <2>2, <2>3 DEF Next
<1> QED
  BY <1>1, PTL DEF Spec, StopIsFinal

-----------------------------------------------------------------------------
(* The counters of the loss checker. *)

\* a and b differ by a multiple of the id's range.
Congruent(a, b) == \E k \in Int : a - b = k * IdModulus

\* Every number is congruent to its remainder.
LEMMA RemainderCongruent ==
  ASSUME NEW a \in Int
  PROVE  a % IdModulus \in 0 .. IdModulus - 1 /\ Congruent(a, a % IdModulus)
<1>1. a % IdModulus \in 0 .. IdModulus - 1 /\ a \div IdModulus \in Int
  BY IdModulusAssumption
<1>2. a - (a % IdModulus) = (a \div IdModulus) * IdModulus
  BY IdModulusAssumption
<1> QED
  BY <1>1, <1>2 DEF Congruent

\* A number between 0 and the range is the remainder of what it is congruent to.
LEMMA RemainderUnique ==
  ASSUME NEW a \in Int, NEW r \in 0 .. IdModulus - 1, NEW k \in Int,
         a = IdModulus * k + r
  PROVE  r = a % IdModulus
BY IdModulusAssumption, SMTT(30)

\* Congruent numbers have the same remainder.
LEMMA CongruentRemainder ==
  ASSUME NEW a \in Int, NEW b \in Int, Congruent(a, b)
  PROVE  a % IdModulus = b % IdModulus
<1>1. PICK j \in Int : a - b = j * IdModulus
  BY DEF Congruent
<1> DEFINE r == b % IdModulus
<1>2. r \in 0 .. IdModulus - 1 /\ Congruent(b, r)
  BY RemainderCongruent
<1> HIDE DEF r
<1>3. PICK k \in Int : b - r = k * IdModulus
  BY <1>2 DEF Congruent
<1>4. a = IdModulus * (j + k) + r /\ j + k \in Int
  BY <1>1, <1>2, <1>3, IdModulusAssumption
<1>5. r = a % IdModulus
  BY <1>2, <1>4, RemainderUnique
<1> QED
  BY <1>5 DEF r

\* The loss of one check is a number.
LEMMA LostCountType ==
  ASSUME NEW checker \in LossCheckers, NEW id \in FrameIds
  PROVE  LostCount(checker, id) \in Int
<1>1. (checker.last_id + 1) % IdModulus \in 0 .. IdModulus - 1
  BY IdModulusAssumption DEF LossCheckers, FrameIds
<1> QED
  BY <1>1, IdModulusAssumption DEF LostCount, FrameIds

\* The loss of one check is congruent to the distance of the two ids, less one.
LEMMA LostCongruent ==
  ASSUME NEW checker \in LossCheckers, ~checker.first_frame, NEW id \in FrameIds
  PROVE  Congruent(LostCount(checker, id), id - checker.last_id - 1)
<1> DEFINE last == checker.last_id
           e == (last + 1) % IdModulus
<1>1. last \in 0 .. IdModulus - 1 /\ id \in 0 .. IdModulus - 1 /\ IdModulus \in Nat \ {0}
  BY IdModulusAssumption DEF LossCheckers, FrameIds
<1>2. \/ last + 1 < IdModulus /\ e = last + 1
      \/ last + 1 = IdModulus /\ e = 0
  <2>1. CASE last + 1 < IdModulus
    <3>1. last + 1 = IdModulus * 0 + (last + 1) /\ last + 1 \in 0 .. IdModulus - 1
      BY <1>1, <2>1
    <3> QED BY <1>1, <2>1, <3>1, RemainderUnique
  <2>2. CASE last + 1 = IdModulus
    <3>1. last + 1 = IdModulus * 1 + 0 /\ 0 \in 0 .. IdModulus - 1
      BY <1>1, <2>2
    <3> QED BY <1>1, <2>2, <3>1, RemainderUnique
  <2> QED BY <1>1, <2>1, <2>2
<1>3. LostCount(checker, id) = IF id = e THEN 0
                               ELSE IF id > e THEN id - e ELSE IdModulus - (e - id)
  BY DEF LostCount
<1> HIDE DEF last, e
<1>4. \E k \in {-1, 0, 1, 2} : LostCount(checker, id) - (id - last - 1) = k * IdModulus
  <2>1. \/ LostCount(checker, id) - (id - last - 1) = 0
        \/ LostCount(checker, id) - (id - last - 1) = IdModulus
        \/ LostCount(checker, id) - (id - last - 1) = 2 * IdModulus
    BY <1>1, <1>2, <1>3
  <2> QED BY <1>1, <2>1
<1> QED
  BY <1>4 DEF Congruent, last

\* Congruences add up.
LEMMA CongruentSum ==
  ASSUME NEW a \in Int, NEW b \in Int, NEW c \in Int, NEW d \in Int,
         Congruent(a, b), Congruent(c, d)
  PROVE  Congruent(a + c, b + d) /\ Congruent(b, a)
<1>1. PICK j \in Int : a - b = j * IdModulus
  BY DEF Congruent
<1>2. PICK k \in Int : c - d = k * IdModulus
  BY DEF Congruent
<1>3. (a + c) - (b + d) = (j + k) * IdModulus /\ b - a = (-j) * IdModulus
  BY <1>1, <1>2, IdModulusAssumption
<1>4. j + k \in Int /\ -j \in Int
  OBVIOUS
<1> QED
  BY <1>3, <1>4 DEF Congruent

\* The counts are congruent to the distance of the first and the last frame
\* checked, and the id remembered to the number of the last.
LossInv ==
  /\ flc.first_frame <=> flc.total_frames = 0
  /\ flc.total_frames = 0 => flc.dropped_frames = 0
  /\ flc.total_frames > 0 =>
       /\ Congruent(flc.last_id, lastChecked)
       /\ Congruent(flc.dropped_frames + flc.total_frames - 1, lastChecked - firstChecked)

\* The loss check reads an id through a param that was never assigned.
ReadsGarbage ==
  /\ DecodeGarbage
  /\ \E id \in FrameIds :
       /\ flc' = CheckFrameLoss(flc, id)
       /\ lastChecked' = id - IdModulus
       /\ firstChecked' = IF flc.first_frame THEN id - IdModulus ELSE firstChecked

\* Every other step leaves the loss checker alone.
LEMMA OnlyDecodeChecks ==
  ASSUME [Next]_vars
  PROVE  \/ DecodeFrame /\ LossCheck
         \/ ReadsGarbage
         \/ UNCHANGED <<flc, firstChecked, lastChecked>>
<1>1. CASE DecodeFrame \/ DecodeGarbage
  BY <1>1 DEF DecodeFrame, DecodeGarbage, ReadsGarbage
<1>2. CASE ~(DecodeFrame \/ DecodeGarbage)
  BY <1>2 DEF Next, Worker, DriverStep, Stop, vars, LoopTest, Poll, PollInterrupted,
    DequeueFrame, RequeueBuffer, CaptureFails, DecodeReturns, DecodeUnset,
    DecodeFaults, Sleep, ActOnCancel, ForgetThread, CancelThread, decodeVars
<1> QED
  BY <1>1, <1>2

\* A check preserves the relation of the counts and the numbers, whatever it reads.
LEMMA CheckKeepsCount ==
  ASSUME TypeOK, LossInv, NEW m \in Int, NEW id \in FrameIds, Congruent(m, id),
         flc' = CheckFrameLoss(flc, id), lastChecked' = m,
         firstChecked' = IF flc.first_frame THEN m ELSE firstChecked
  PROVE  LossInv'
<1> DEFINE lost == LostCount(flc, id)
<1>1. /\ m \in Int /\ flc \in LossCheckers
      /\ firstChecked \in Int /\ lastChecked \in Int
  BY DEF TypeOK
<1>2. id \in FrameIds /\ Congruent(m, id)
  OBVIOUS
<1>3. /\ flc' = CheckFrameLoss(flc, id) /\ lastChecked' = m
      /\ firstChecked' = IF flc.first_frame THEN m ELSE firstChecked
  OBVIOUS
<1>4. id \in Int
  BY <1>2, IdModulusAssumption DEF FrameIds
<1>5. /\ flc'.last_id = id /\ flc'.first_frame = FALSE
      /\ flc'.total_frames = flc.total_frames + 1
      /\ flc'.dropped_frames = flc.dropped_frames + lost
  BY <1>3 DEF CheckFrameLoss
<1>6. /\ flc.total_frames \in Nat /\ flc.dropped_frames \in Nat /\ flc.last_id \in Int
  BY <1>1, IdModulusAssumption DEF LossCheckers, FrameIds
<1>7. flc'.total_frames > 0
  BY <1>5, <1>6
<1>8. Congruent(id, m)
  BY <1>1, <1>2, <1>4, CongruentSum
<1>9. Congruent(flc'.dropped_frames + flc'.total_frames - 1, lastChecked' - firstChecked')
  <2>1. CASE flc.first_frame
    <3>1. lost = 0
      BY <2>1 DEF LostCount
    <3>2. flc.total_frames = 0 /\ flc.dropped_frames = 0
      BY <2>1 DEF LossInv
    <3>3. flc'.dropped_frames + flc'.total_frames - 1 = 0
      BY <1>5, <3>1, <3>2
    <3>4. lastChecked' - firstChecked' = 0
      BY <1>1, <1>3, <2>1
    <3>5. 0 - 0 = 0 * IdModulus
      BY IdModulusAssumption
    <3> QED BY <3>3, <3>4, <3>5 DEF Congruent
  <2>2. CASE ~flc.first_frame
    <3>1. flc.total_frames > 0
      <4>1. flc.total_frames # 0
        BY <2>2 DEF LossInv
      <4> QED BY <1>6, <4>1
    <3> DEFINE last == flc.last_id
               count == flc.dropped_frames + flc.total_frames - 1
    <3>2. Congruent(last, lastChecked) /\ Congruent(count, lastChecked - firstChecked)
      BY <3>1 DEF LossInv
    <3>3. Congruent(lost, id - last - 1)
      BY <1>1, <1>2, <2>2, LostCongruent
    <3>4. lost \in Int
      BY <1>1, <1>2, LostCountType
    <3>5. firstChecked' = firstChecked
      BY <1>3, <2>2
    <3>6. flc'.dropped_frames + flc'.total_frames - 1 = count + lost + 1 /\ count \in Int
      BY <1>5, <1>6, <3>4
    <3> HIDE DEF last, count, lost
    <3>7. PICK h \in Int : last - lastChecked = h * IdModulus
      BY <3>2 DEF Congruent
    <3>8. PICK i \in Int : count - (lastChecked - firstChecked) = i * IdModulus
      BY <3>2 DEF Congruent
    <3>9. PICK j \in Int : lost - (id - last - 1) = j * IdModulus
      BY <3>3 DEF Congruent
    <3>10. PICK k \in Int : id - m = k * IdModulus
      BY <1>8 DEF Congruent
    <3>11. (count + lost + 1) - (m - firstChecked) = (k - h + i + j) * IdModulus
      <4> DEFINE H == h * IdModulus
                 I == i * IdModulus
                 J == j * IdModulus
                 K == k * IdModulus
      <4>1. H \in Int /\ I \in Int /\ J \in Int /\ K \in Int
        BY IdModulusAssumption
      <4>2. (k - h + i + j) * IdModulus = K - H + I + J
        BY IdModulusAssumption
      <4>3. /\ last - lastChecked = H /\ count - (lastChecked - firstChecked) = I
            /\ lost - (id - last - 1) = J /\ id - m = K
        BY <3>7, <3>8, <3>9, <3>10
      <4>4. last \in Int /\ lost \in Int /\ count \in Int
        BY <1>6, <3>4, <3>6 DEF last
      <4> HIDE DEF H, I, J, K
      <4>5. (count + lost + 1) - (m - firstChecked) = K - H + I + J
        BY <1>1, <1>4, <4>1, <4>3, <4>4
      <4> QED BY <4>2, <4>5
    <3>12. k - h + i + j \in Int
      OBVIOUS
    <3> QED BY <1>3, <3>5, <3>6, <3>11, <3>12 DEF Congruent
  <2> QED BY <2>1, <2>2
<1>10. flc'.first_frame <=> flc'.total_frames = 0
  <2>1. flc'.total_frames # 0
    BY <1>5, <1>6
  <2>2. ~flc'.first_frame
    BY <1>5
  <2> QED BY <2>1, <2>2
<1>11. flc'.total_frames # 0 /\ Congruent(flc'.last_id, lastChecked')
  BY <1>3, <1>5, <1>6, <1>8
<1> QED
  BY <1>9, <1>10, <1>11 DEF LossInv

\* Every step preserves the relation of the counts and the numbers.
LEMMA NextLoss == TypeOK /\ LossInv /\ [Next]_vars => LossInv'
<1> SUFFICES ASSUME TypeOK, LossInv, [Next]_vars
             PROVE  LossInv'
  OBVIOUS
<1>1. CASE DecodeFrame /\ LossCheck
  <2> DEFINE m == mem[param.buf]
             id == m % IdModulus
  <2>1. m \in Int
    BY <1>1 DEF TypeOK, QueueTypeOK, DecodeFrame, UnsetParam
  <2>2. id \in FrameIds /\ Congruent(m, id)
    BY <2>1, RemainderCongruent DEF FrameIds
  <2>3. /\ flc' = CheckFrameLoss(flc, id) /\ lastChecked' = m
        /\ firstChecked' = IF flc.first_frame THEN m ELSE firstChecked
    BY <1>1 DEF DecodeFrame
  <2> HIDE DEF m, id
  <2> QED BY <2>1, <2>2, <2>3, CheckKeepsCount
<1>2. ASSUME ReadsGarbage
      PROVE  LossInv'
  <2>1. PICK id \in FrameIds :
          /\ flc' = CheckFrameLoss(flc, id) /\ lastChecked' = id - IdModulus
          /\ firstChecked' = IF flc.first_frame THEN id - IdModulus ELSE firstChecked
    BY <1>2 DEF ReadsGarbage
  <2> DEFINE m == id - IdModulus
  <2>2. m \in Int /\ m - id = (-1) * IdModulus /\ -1 \in Int
    BY IdModulusAssumption DEF FrameIds
  <2>3. Congruent(m, id)
    BY <2>2 DEF Congruent
  <2>4. /\ flc' = CheckFrameLoss(flc, id) /\ lastChecked' = m
        /\ firstChecked' = IF flc.first_frame THEN m ELSE firstChecked
    BY <2>1
  <2> HIDE DEF m
  <2> QED BY <2>2, <2>3, <2>4, CheckKeepsCount
<1>3. CASE UNCHANGED <<flc, firstChecked, lastChecked>>
  BY <1>3 DEF LossInv
<1> QED
  BY <1>1, <1>2, <1>3, OnlyDecodeChecks

\* The relation holds in every reachable state.
LEMMA LossInvariance == Spec => []LossInv
<1>1. Init => LossInv
  BY DEF Init, InitFrameChecker, LossInv
<1> QED
  BY <1>1, NextLoss, InitTypeOK, NextTypeOK, PTL DEF Spec

\* The counters account for the distance of the frames checked, for every range
\* of the id and whatever was lost, repeated or overwritten.
THEOREM LossAccounted == Spec => []LossCountCongruent
<1>1. TypeOK /\ LossInv => LossCountCongruent
  <2> SUFFICES ASSUME TypeOK, LossInv, flc.total_frames > 0
               PROVE  (flc.dropped_frames + flc.total_frames - 1) % IdModulus
                         = (lastChecked - firstChecked) % IdModulus
    BY DEF LossCountCongruent
  <2> DEFINE count == flc.dropped_frames + flc.total_frames - 1
             distance == lastChecked - firstChecked
  <2>1. count \in Int /\ distance \in Int
    BY DEF TypeOK, LossCheckers
  <2>2. Congruent(count, distance)
    BY DEF LossInv
  <2> HIDE DEF count, distance
  <2>3. count % IdModulus = distance % IdModulus
    BY <2>1, <2>2, CongruentRemainder
  <2> QED BY <2>3 DEF count, distance
<1> QED
  BY <1>1, LossInvariance, TypeCorrect, PTL

-----------------------------------------------------------------------------
(* The quota. *)

\* A dequeued buffer whose call of frame_decode is not counted yet.
InHand == IF pc \in {"requeue", "decode", "library"} THEN 1 ELSE 0

\* Every dequeued buffer is counted once its call is over, unless the worker ended first.
QuotaInv ==
  ToDump > 0 =>
    /\ dumped_frame_cnt + InHand <= rxFrameCnt + erroneous
    /\ pc \notin {"ended", "faulted"} => dumped_frame_cnt + InHand = rxFrameCnt + erroneous

\* Every step preserves it.
LEMMA NextQuota == TypeOK /\ QuotaInv /\ [Next]_vars => QuotaInv'
<1> SUFFICES ASSUME TypeOK, QuotaInv, [Next]_vars, ToDump > 0
             PROVE  /\ dumped_frame_cnt' + InHand' <= rxFrameCnt' + erroneous'
                    /\ pc' \notin {"ended", "faulted"}
                         => dumped_frame_cnt' + InHand' = rxFrameCnt' + erroneous'
  BY DEF QuotaInv
<1>1. dumped_frame_cnt \in Nat /\ rxFrameCnt \in Nat /\ erroneous \in Nat
  BY DEF TypeOK
<1>2. /\ dumped_frame_cnt + InHand <= rxFrameCnt + erroneous
      /\ pc \notin {"ended", "faulted"} => dumped_frame_cnt + InHand = rxFrameCnt + erroneous
  BY DEF QuotaInv
<1>3. CASE DequeueFrame
  <2>1. InHand = 0 /\ InHand' = 1 /\ pc \notin {"ended", "faulted"}
    BY <1>3 DEF DequeueFrame, InHand
  <2>2. rxFrameCnt' + erroneous' = rxFrameCnt + erroneous + 1
    BY <1>1, <1>3 DEF DequeueFrame
  <2>3. dumped_frame_cnt' = dumped_frame_cnt
    BY <1>3 DEF DequeueFrame, decodeVars
  <2> QED BY <1>1, <1>2, <2>1, <2>2, <2>3
<1>4. CASE DecodeReturns \/ DecodeUnset
  <2>1. InHand = 1 /\ InHand' = 0 /\ pc \notin {"ended", "faulted"}
    BY <1>4 DEF DecodeReturns, DecodeUnset, CountDumped, InHand
  <2>2. dumped_frame_cnt' = dumped_frame_cnt + 1
    BY <1>4 DEF DecodeReturns, DecodeUnset, CountDumped
  <2>3. rxFrameCnt' = rxFrameCnt /\ erroneous' = erroneous
    BY <1>4 DEF DecodeReturns, DecodeUnset, captureVars
  <2> QED BY <1>1, <1>2, <2>1, <2>2, <2>3
<1>5. CASE /\ UNCHANGED <<dumped_frame_cnt, rxFrameCnt, erroneous>>
           /\ \/ pc' \in {"ended", "faulted"}
              \/ /\ pc \notin {"ended", "faulted"}
                 /\ pc' \in {"requeue", "decode", "library"} <=> pc \in {"requeue", "decode", "library"}
  <2>1. InHand \in 0 .. 1
    BY DEF InHand
  <2>2. CASE pc' \in {"ended", "faulted"}
    <3>1. InHand' = 0
      BY <2>2 DEF InHand
    <3> QED BY <1>1, <1>2, <1>5, <2>1, <2>2, <3>1
  <2>3. CASE pc' \notin {"ended", "faulted"}
    <3>1. InHand' = InHand
      BY <1>5, <2>3 DEF InHand
    <3> QED BY <1>2, <1>5, <2>3, <3>1
  <2> QED BY <2>2, <2>3
<1>6. CASE UNCHANGED <<pc, dumped_frame_cnt, rxFrameCnt, erroneous>>
  BY <1>2, <1>6 DEF InHand
<1>7. \/ DequeueFrame \/ DecodeReturns \/ DecodeUnset
      \/ UNCHANGED <<pc, dumped_frame_cnt, rxFrameCnt, erroneous>>
      \/ /\ UNCHANGED <<dumped_frame_cnt, rxFrameCnt, erroneous>>
         /\ \/ pc' \in {"ended", "faulted"}
            \/ /\ pc \notin {"ended", "faulted"}
               /\ pc' \in {"requeue", "decode", "library"} <=> pc \in {"requeue", "decode", "library"}
  BY DEF Next, Worker, DriverStep, Stop, vars, LoopTest, Poll, PollInterrupted,
    RequeueBuffer, CaptureFails, DecodeFrame, DecodeGarbage, DecodeFaults, Sleep, ActOnCancel,
    ForgetThread, CancelThread, captureVars, decodeVars
<1> QED
  BY <1>3, <1>4, <1>5, <1>6, <1>7

\* The relation holds in every reachable state.
LEMMA QuotaInvariance == Spec => []QuotaInv
<1>1. Init => QuotaInv
  BY DEF Init, QuotaInv, InHand
<1> QED
  BY <1>1, NextQuota, InitTypeOK, NextTypeOK, PTL DEF Spec

\* The quota counts the buffers dequeued, each once, and nothing else: it exceeds
\* the frames captured by the buffers that had the ERROR flag.
THEOREM QuotaCountsEachBufferOnce == Spec => []QuotaCountsBuffers
<1>1. TypeOK /\ QuotaInv => QuotaCountsBuffers
  <2> SUFFICES ASSUME TypeOK, QuotaInv, ToDump > 0
               PROVE  /\ dumped_frame_cnt <= rxFrameCnt + erroneous
                      /\ pc \in {"loop", "poll", "dequeue", "sleep"}
                           => dumped_frame_cnt = rxFrameCnt + erroneous
    BY DEF QuotaCountsBuffers
  <2>1. dumped_frame_cnt \in Nat /\ rxFrameCnt \in Nat /\ erroneous \in Nat /\ InHand \in 0 .. 1
    BY DEF TypeOK, InHand
  <2>2. pc \in {"loop", "poll", "dequeue", "sleep"} => InHand = 0 /\ pc \notin {"ended", "faulted"}
    BY DEF InHand
  <2> QED BY <2>1, <2>2 DEF QuotaInv
<1> QED
  BY <1>1, QuotaInvariance, TypeCorrect, PTL

\* The quota is met exactly: the worker is still running below it and has
\* ended at it, so no frame beyond the quota is decoded.
QuotaMetExactly ==
  ToDump > 0 =>
    /\ dumped_frame_cnt <= ToDump
    /\ pc # "ended" => dumped_frame_cnt < ToDump

\* With a quota exactly that many calls of frame_decode are counted, stop or no stop.
THEOREM StopsAtQuota == Spec => []QuotaMetExactly
<1>1. Init => QuotaMetExactly
  BY ToDumpAssumption DEF Init, QuotaMetExactly
<1>2. TypeOK /\ QuotaMetExactly /\ [Next]_vars => QuotaMetExactly'
  <2> SUFFICES ASSUME TypeOK, QuotaMetExactly, [Next]_vars
               PROVE  QuotaMetExactly'
    OBVIOUS
  <2>1. dumped_frame_cnt \in Nat /\ ToDump \in Nat
    BY ToDumpAssumption DEF TypeOK
  <2>2. CASE DecodeReturns \/ DecodeUnset
    <3>1. CountDumped /\ pc # "ended"
      BY <2>2 DEF DecodeReturns, DecodeUnset
    <3> QED BY <2>1, <3>1 DEF CountDumped, QuotaMetExactly
  <2>3. CASE UNCHANGED dumped_frame_cnt /\ (pc = "ended" => pc' = "ended")
    BY <2>1, <2>3 DEF QuotaMetExactly
  <2>4. DecodeReturns \/ DecodeUnset \/ (UNCHANGED dumped_frame_cnt /\ (pc = "ended" => pc' = "ended"))
    BY DEF Next, Worker, DriverStep, Stop, vars, LoopTest, Poll, PollInterrupted, DequeueFrame,
      RequeueBuffer, CaptureFails, DecodeFrame, DecodeGarbage, DecodeFaults, Sleep, ActOnCancel,
      ForgetThread, CancelThread, decodeVars
  <2> QED BY <2>2, <2>3, <2>4
<1> QED
  BY <1>1, <1>2, InitTypeOK, NextTypeOK, PTL DEF Spec

\* What dtof_main.cpp:329 says of the quota is violated by erroneous buffers
\* and by nothing else: in a behaviour in which VIDIOC_DQBUF returns none, a
\* worker that quits at the quota has captured that many frames.
THEOREM QuotaRightWithoutErrors == Spec /\ []~errorFlag => []QuotaMeansCaptured
<1> DEFINE NoErrors == erroneous = 0
<1>1. Init => NoErrors
  BY DEF Init
<1>2. NoErrors /\ (~errorFlag)' /\ [Next]_vars => NoErrors'
  <2> SUFFICES ASSUME NoErrors, ~errorFlag', [Next]_vars
               PROVE  NoErrors'
    OBVIOUS
  <2>1. CASE DequeueFrame
    BY <2>1 DEF DequeueFrame
  <2>2. CASE ~DequeueFrame
    BY <2>2 DEF Next, Worker, DriverStep, Stop, vars, LoopTest, Poll, PollInterrupted,
      RequeueBuffer, CaptureFails, DecodeFrame, DecodeReturns, DecodeUnset, DecodeGarbage,
      DecodeFaults, Sleep, ActOnCancel, ForgetThread, CancelThread, captureVars
  <2> QED BY <2>1, <2>2
<1>3. TypeOK /\ QuotaCountsBuffers /\ NoErrors => QuotaMeansCaptured
  BY ToDumpAssumption DEF TypeOK, QuotaCountsBuffers, QuotaMeansCaptured
<1> HIDE DEF NoErrors
<1> QED
  BY <1>1, <1>2, <1>3, TypeCorrect, QuotaCountsEachBufferOnce, PTL DEF Spec

\* What is known of the worker before its first good frame.
UnsetInv ==
  /\ param.buf = NoBuffer => rxFrameCnt = 0
  /\ (pc \in {"requeue", "decode"} /\ param.buf = NoBuffer) => errorFlag = TRUE
  /\ pc = "faulted" => rxFrameCnt = 0 /\ errorFlag = TRUE

\* frame_decode is given a frame_decode_param nobody assigned, and follows its
\* pointer, only if all buffers so far had the ERROR flag: one good frame rules
\* it out.
UnsetBeforeFirstFrame ==
  (pc = "faulted" \/ (pc = "decode" /\ param.buf = NoBuffer)) => rxFrameCnt = 0 /\ errorFlag

\* These facts hold in every reachable state.
LEMMA UnsetInvariance == Spec => []UnsetInv
<1>1. Init => UnsetInv
  BY DEF Init, UnsetInv
<1>2. TypeOK /\ UnsetInv /\ [Next]_vars => UnsetInv'
  <2> SUFFICES ASSUME TypeOK, UnsetInv, [Next]_vars
               PROVE  UnsetInv'
    OBVIOUS
  <2>1. CASE DequeueFrame
    <3>1. pc' = "requeue"
      BY <2>1 DEF DequeueFrame
    <3>2. CASE flagged[Head(done)]
      <4>1. UNCHANGED <<param, rxFrameCnt>>
        BY <2>1, <3>2 DEF DequeueFrame
      <4>2. errorFlag' = TRUE
        <5>1. Head(done) \in Buffers /\ flagged \in [Buffers -> BOOLEAN]
          BY <2>1, HeadTailProperties DEF TypeOK, QueueTypeOK, DequeueFrame, Dqbuf, Readable
        <5>2. flagged[Head(done)] \in BOOLEAN
          BY <5>1
        <5>3. \A x \in BOOLEAN : x => x = TRUE
          OBVIOUS
        <5>4. flagged[Head(done)] = TRUE
          BY <3>2, <5>2, <5>3, Zenon
        <5> QED BY <2>1, <5>4 DEF DequeueFrame
      <4> QED BY <3>1, <4>1, <4>2 DEF UnsetInv
    <3>3. CASE ~flagged[Head(done)]
      <4>1. param'.buf = Head(done)
        BY <2>1, <3>3 DEF DequeueFrame
      <4>2. Head(done) \in Buffers
        BY <2>1, HeadTailProperties DEF TypeOK, QueueTypeOK, DequeueFrame, Dqbuf, Readable
      <4> QED BY <3>1, <4>1, <4>2, NoBufferAssumption DEF UnsetInv
    <3> QED BY <3>2, <3>3
  <2>2. CASE DecodeFaults
    BY <2>2 DEF DecodeFaults, captureVars, UnsetInv
  <2>3. CASE /\ UNCHANGED <<param, rxFrameCnt, errorFlag>>
             /\ pc' \in {"requeue", "decode"} => pc \in {"requeue", "decode"}
             /\ pc' = "faulted" => pc = "faulted"
    BY <2>3 DEF UnsetInv
  <2>4. \/ DequeueFrame \/ DecodeFaults
        \/ /\ UNCHANGED <<param, rxFrameCnt, errorFlag>>
           /\ pc' \in {"requeue", "decode"} => pc \in {"requeue", "decode"}
           /\ pc' = "faulted" => pc = "faulted"
    BY DEF Next, Worker, DriverStep, Stop, vars, LoopTest, Poll, PollInterrupted,
      RequeueBuffer, CaptureFails, DecodeFrame, DecodeReturns, DecodeUnset, DecodeGarbage,
      CountDumped, Sleep, ActOnCancel, ForgetThread, CancelThread, captureVars
  <2> QED BY <2>1, <2>2, <2>3, <2>4
<1> QED
  BY <1>1, <1>2, InitTypeOK, NextTypeOK, PTL DEF Spec

\* A param that was never assigned is used, and faults, only after an erroneous
\* buffer and before every good one.
THEOREM FaultNeedsErrorFirst == Spec => []UnsetBeforeFirstFrame
<1>1. UnsetInv => UnsetBeforeFirstFrame
  BY DEF UnsetInv, UnsetBeforeFirstFrame
<1> QED
  BY <1>1, UnsetInvariance, PTL

-----------------------------------------------------------------------------
(* When the loss checker counts right. *)

\* A frame no older than one rotation of the buffers is still in its buffer.
IntactWithinRotation ==
  (param.buf # NoBuffer /\ sent <= param.seq + BufferCount) => mem[param.buf] = param.seq

\* What was sent bounds what is in memory and what was read from there; before
\* the first good frame only garbage is read.
SentInv ==
  /\ \A b \in Buffers : mem[b] < sent
  /\ param.buf # NoBuffer => param.seq >= 0
  /\ flc.total_frames > 0 => lastChecked < sent
  /\ (flc.total_frames > 0 /\ param.buf = NoBuffer) => firstChecked < 0

\* The buffer that is dequeued holds a frame that was sent.
LEMMA DequeuedWasSent ==
  ASSUME OrderInv, SentInv, DequeueFrame
  PROVE  mem[Head(done)] >= 0
<1>1. /\ mem \in [Buffers -> Int] /\ param.seq \in Int /\ done \in Seq(Buffers)
      /\ param \in [seq : Int, buf : Buffers] \cup {UnsetParam}
  BY ParamSeqType DEF OrderInv, IInv, TypeOK, QueueTypeOK
<1>2. done # <<>>
  BY DEF DequeueFrame, Dqbuf, Readable
<1>3. 1 \in 1 .. Len(done) /\ Head(done) = done[1] /\ Head(done) \in Buffers
  BY <1>1, <1>2, EmptySeq, HeadTailProperties
<1>4. param.seq < mem[Head(done)] /\ mem[Head(done)] \in Int
  BY <1>1, <1>3 DEF OrderInv, CaptureOrder
<1>5. param.seq >= -1
  <2>1. CASE param = UnsetParam
    BY <2>1 DEF UnsetParam
  <2>2. CASE param \in [seq : Int, buf : Buffers]
    BY <2>2, NoBufferAssumption DEF SentInv
  <2> QED BY <1>1, <2>1, <2>2
<1> QED
  BY <1>1, <1>4, <1>5

\* The frame the loss check reads was sent.
LEMMA CheckedWasSent ==
  ASSUME OrderInv, SentInv, DecodeFrame
  PROVE  mem[param.buf] \in Int /\ 0 <= mem[param.buf] /\ mem[param.buf] < sent
<1>1. /\ mem \in [Buffers -> Int] /\ param.seq \in Int /\ sent \in Nat
      /\ param.buf \in Buffers /\ param.buf # NoBuffer
  BY ParamSeqType, NoBufferAssumption DEF OrderInv, IInv, TypeOK, QueueTypeOK, DecodeFrame, UnsetParam
<1>2. mem[param.buf] = param.seq \/ mem[param.buf] >= param.seq + BufferCount
  BY <1>1 DEF OrderInv, IInv, OverwriteMargin
<1>3. param.seq >= 0 /\ mem[param.buf] < sent
  BY <1>1 DEF SentInv
<1> QED
  BY <1>1, <1>2, <1>3, BufferCountAssumption

\* Every step preserves the bounds.
LEMMA NextSent == OrderInv /\ LossInv /\ SentInv /\ [Next]_vars => SentInv'
<1> SUFFICES ASSUME OrderInv, LossInv, SentInv, [Next]_vars
             PROVE  SentInv'
  OBVIOUS
<1>1. /\ mem \in [Buffers -> Int] /\ sent \in Nat
      /\ flc.total_frames \in Nat /\ firstChecked \in Int /\ lastChecked \in Int
  BY DEF OrderInv, IInv, TypeOK, QueueTypeOK, LossCheckers
<1>2. CASE DequeueFrame
  <2>1. UNCHANGED <<mem, sent, flc, firstChecked, lastChecked>>
    BY <1>2 DEF DequeueFrame, Dqbuf, decodeVars
  <2>2. param' = param \/ (param'.seq = mem[Head(done)] /\ param'.buf # NoBuffer)
    <3>1. Head(done) \in Buffers
      BY <1>2, HeadTailProperties DEF OrderInv, IInv, TypeOK, QueueTypeOK, DequeueFrame, Dqbuf, Readable
    <3> QED BY <1>2, <3>1, NoBufferAssumption DEF DequeueFrame
  <2>3. mem[Head(done)] >= 0
    BY <1>2, DequeuedWasSent
  <2> QED BY <2>1, <2>2, <2>3 DEF SentInv
<1>3. CASE DecodeFrame
  <2>1. UNCHANGED <<mem, sent, param>>
    BY <1>3 DEF DecodeFrame, queueVars, captureVars
  <2>2. mem[param.buf] \in Int /\ mem[param.buf] < sent
    BY <1>3, CheckedWasSent
  <2>3. UNCHANGED <<flc, lastChecked>> \/ lastChecked' = mem[param.buf]
    BY <1>3 DEF DecodeFrame
  <2>4. param.buf # NoBuffer
    BY <1>3 DEF DecodeFrame
  <2> QED BY <1>1, <2>1, <2>2, <2>3, <2>4 DEF SentInv
<1>4. CASE DriverStep
  <2>1. UNCHANGED <<param, flc, firstChecked, lastChecked>>
    BY <1>4 DEF DriverStep, captureVars, decodeVars
  <2>2. CASE FrameStart
    <3>1. sent' = sent + 1 /\ \A b \in Buffers : mem'[b] = sent \/ mem'[b] = mem[b]
      BY <1>1, <2>2 DEF FrameStart
    <3> QED BY <1>1, <2>1, <3>1 DEF SentInv
  <2>3. CASE FrameDropped
    BY <1>1, <2>1, <2>3 DEF FrameDropped, SentInv
  <2>4. CASE FrameEnd \/ QueueFailure
    BY <2>1, <2>4 DEF FrameEnd, QueueFailure, SentInv
  <2> QED BY <1>4, <2>2, <2>3, <2>4 DEF DriverStep, Driver
<1>5. CASE ReadsGarbage
  <2>1. PICK id \in FrameIds :
          /\ lastChecked' = id - IdModulus
          /\ firstChecked' = IF flc.first_frame THEN id - IdModulus ELSE firstChecked
    BY <1>5 DEF ReadsGarbage
  <2>2. id - IdModulus \in Int /\ id - IdModulus < 0
    BY IdModulusAssumption DEF FrameIds
  <2>3. UNCHANGED <<mem, sent, param>> /\ param.buf = NoBuffer
    BY <1>5 DEF ReadsGarbage, DecodeGarbage, queueVars, captureVars
  <2>4. ~flc.first_frame => flc.total_frames > 0
    <3>1. ~flc.first_frame => flc.total_frames # 0
      BY DEF LossInv
    <3> QED BY <1>1, <3>1
  <2>5. firstChecked' < 0
    BY <2>1, <2>2, <2>3, <2>4 DEF SentInv
  <2> QED BY <1>1, <2>1, <2>2, <2>3, <2>5 DEF SentInv
<1>6. CASE UNCHANGED <<mem, sent, param, flc, firstChecked, lastChecked>>
  BY <1>6 DEF SentInv
<1>7. DequeueFrame \/ DecodeFrame \/ DriverStep \/ ReadsGarbage
      \/ UNCHANGED <<mem, sent, param, flc, firstChecked, lastChecked>>
  BY DEF Next, Worker, Stop, vars, LoopTest, Poll, PollInterrupted, RequeueBuffer, Qbuf,
    CaptureFails, DecodeReturns, DecodeUnset, DecodeGarbage, ReadsGarbage, DecodeFaults, Sleep,
    ActOnCancel, ForgetThread, CancelThread, queueVars, captureVars, decodeVars
<1> QED
  BY <1>2, <1>3, <1>4, <1>5, <1>6, <1>7

\* The bounds hold in every reachable state.
LEMMA SentInvariance == Spec => []SentInv
<1>1. Init => SentInv
  <2> SUFFICES ASSUME Init PROVE SentInv
    OBVIOUS
  <2>1. sent = 0 /\ param.buf = NoBuffer /\ flc.total_frames = 0
    BY DEF Init, QueueInit, UnsetParam, InitFrameChecker
  <2>2. \A b \in Buffers : mem[b] < 0
    BY BufferCountAssumption DEF Init, QueueInit, Buffers
  <2> QED BY <2>1, <2>2 DEF SentInv
<1> QED
  BY <1>1, NextSent, OrderInvariance, LossInvariance, PTL DEF Spec

\* While the decoder lags no more than one rotation behind the sensor it reads
\* the frame it was given, although its buffer went back to the driver before.
THEOREM IntactWhilePrompt == Spec => []IntactWithinRotation
<1>1. OrderInv /\ SentInv => IntactWithinRotation
  <2> SUFFICES ASSUME OrderInv, SentInv, param.buf # NoBuffer, sent <= param.seq + BufferCount
               PROVE  mem[param.buf] = param.seq
    BY DEF IntactWithinRotation
  <2>1. mem \in [Buffers -> Int] /\ param.seq \in Int /\ sent \in Nat /\ param.buf \in Buffers
    BY ParamSeqType DEF OrderInv, IInv, TypeOK, QueueTypeOK, UnsetParam
  <2>2. mem[param.buf] = param.seq \/ mem[param.buf] >= param.seq + BufferCount
    BY DEF OrderInv, IInv, OverwriteMargin
  <2>3. mem[param.buf] < sent
    BY <2>1 DEF SentInv
  <2> QED BY <2>1, <2>2, <2>3, BufferCountAssumption
<1> QED
  BY <1>1, OrderInvariance, SentInvariance, PTL

\* The loss counted is the number of frames between the last and this one,
\* modulo the id's range.
LEMMA LostIsRemainder ==
  ASSUME NEW checker \in LossCheckers, ~checker.first_frame,
         NEW last \in Int, NEW m \in Int, Congruent(checker.last_id, last)
  PROVE  LostCount(checker, m % IdModulus) = (m - last - 1) % IdModulus
<1> DEFINE id == m % IdModulus
           remembered == checker.last_id
           lost == LostCount(checker, id)
<1>1. id \in 0 .. IdModulus - 1 /\ Congruent(m, id)
  BY RemainderCongruent
<1>2. remembered \in 0 .. IdModulus - 1 /\ IdModulus \in Nat \ {0}
  BY IdModulusAssumption DEF LossCheckers, FrameIds
<1>3. Congruent(lost, id - remembered - 1)
  BY <1>1, LostCongruent DEF FrameIds
<1>4. lost \in 0 .. IdModulus - 1
  <2> DEFINE e == (remembered + 1) % IdModulus
  <2>1. e \in 0 .. IdModulus - 1
    BY <1>2
  <2>2. lost = IF id = e THEN 0 ELSE IF id > e THEN id - e ELSE IdModulus - (e - id)
    BY DEF LostCount
  <2> HIDE DEF e, id, remembered, lost
  <2> QED BY <1>1, <1>2, <2>1, <2>2
<1>5. Congruent(remembered, last)
  OBVIOUS
<1> HIDE DEF id, remembered, lost
<1>6. PICK h \in Int : remembered - last = h * IdModulus
  BY <1>5 DEF Congruent
<1>7. PICK j \in Int : lost - (id - remembered - 1) = j * IdModulus
  BY <1>3 DEF Congruent
<1>8. PICK k \in Int : m - id = k * IdModulus
  BY <1>1 DEF Congruent
<1>9. lost - (m - last - 1) = (j - k - h) * IdModulus
  <2> DEFINE H == h * IdModulus
             J == j * IdModulus
             K == k * IdModulus
  <2>1. H \in Int /\ J \in Int /\ K \in Int /\ (j - k - h) * IdModulus = J - K - H
    BY IdModulusAssumption
  <2>2. remembered - last = H /\ lost - (id - remembered - 1) = J /\ m - id = K
    BY <1>6, <1>7, <1>8
  <2>3. remembered \in Int /\ id \in Int /\ lost \in Int
    BY <1>1, <1>2, <1>4
  <2> HIDE DEF H, J, K
  <2>4. lost - (m - last - 1) = J - K - H
    BY <2>1, <2>2, <2>3
  <2> QED BY <2>1, <2>4
<1>10. lost \in Int /\ m - last - 1 \in Int /\ j - k - h \in Int
  BY <1>2, <1>4
<1>11. Congruent(lost, m - last - 1)
  BY <1>9, <1>10 DEF Congruent
<1>12. lost % IdModulus = (m - last - 1) % IdModulus
  BY <1>10, <1>11, CongruentRemainder
<1>13. lost = lost % IdModulus
  BY <1>4, <1>10, <1>2, RemainderUnique
<1> QED
  BY <1>12, <1>13 DEF lost, id

\* A remainder is at most the number itself, and is it below the range.
LEMMA RemainderAtMost ==
  ASSUME NEW a \in Nat
  PROVE  a % IdModulus <= a /\ (a < IdModulus => a % IdModulus = a)
<1>1. a % IdModulus \in 0 .. IdModulus - 1
  BY RemainderCongruent
<1>2. ASSUME a < IdModulus
      PROVE  a % IdModulus = a
  <2>1. a \in 0 .. IdModulus - 1 /\ a = IdModulus * 0 + a
    BY <1>2, IdModulusAssumption
  <2> QED BY <2>1, RemainderUnique
<1> QED
  BY <1>1, <1>2, IdModulusAssumption

\* The loss check is about to read a frame that is not its first.
ChecksAgain == pc = "decode" /\ param.buf # NoBuffer /\ ~flc.first_frame

\* It reads ever younger frames.
ReadsInOrder == ChecksAgain => mem[param.buf] > lastChecked

\* Fewer frames than the id can count are lost in a row.
GapsShort == ChecksAgain => mem[param.buf] - lastChecked <= IdModulus

\* The loss check has read frames, and no garbage before the first of them.
ChecksFrames == flc.total_frames > 0 /\ firstChecked >= 0

\* The frames between the first and the last one that was checked.
CountsAtMost ==
  ChecksFrames => flc.dropped_frames + flc.total_frames - 1 <= lastChecked - firstChecked

CountsExactly ==
  ChecksFrames => flc.dropped_frames + flc.total_frames - 1 = lastChecked - firstChecked

\* What one check adds to the count of lost frames.
LEMMA CheckAdds ==
  ASSUME TypeOK, LossInv, DecodeFrame, LossCheck
  PROVE  /\ flc'.total_frames = flc.total_frames + 1
         /\ lastChecked' = mem[param.buf] /\ lastChecked' \in Int
         /\ flc.total_frames = 0 =>
              /\ flc'.dropped_frames = 0
              /\ firstChecked' = lastChecked'
         /\ flc.total_frames > 0 =>
              /\ ~flc.first_frame
              /\ firstChecked' = firstChecked
              /\ flc'.dropped_frames
                   = flc.dropped_frames + ((mem[param.buf] - lastChecked - 1) % IdModulus)
<1> DEFINE m == mem[param.buf]
           lost == LostCount(flc, m % IdModulus)
<1>1. m \in Int /\ flc \in LossCheckers /\ lastChecked \in Int
  BY DEF TypeOK, QueueTypeOK, DecodeFrame, UnsetParam
<1>2. /\ flc' = CheckFrameLoss(flc, m % IdModulus) /\ lastChecked' = m
      /\ firstChecked' = IF flc.first_frame THEN m ELSE firstChecked
  BY DEF DecodeFrame
<1>3. /\ flc'.total_frames = flc.total_frames + 1
      /\ flc'.dropped_frames = flc.dropped_frames + lost
  BY <1>2 DEF CheckFrameLoss
<1>4. ASSUME flc.total_frames = 0
      PROVE  flc'.dropped_frames = 0 /\ firstChecked' = lastChecked'
  <2>1. flc.first_frame /\ flc.dropped_frames = 0
    BY <1>4 DEF LossInv
  <2>2. lost = 0
    BY <2>1 DEF LostCount
  <2> QED BY <1>2, <1>3, <2>1, <2>2
<1>5. ASSUME flc.total_frames > 0
      PROVE  /\ ~flc.first_frame /\ firstChecked' = firstChecked
             /\ flc'.dropped_frames = flc.dropped_frames + ((m - lastChecked - 1) % IdModulus)
  <2>1. flc.total_frames # 0
    BY <1>1, <1>5 DEF LossCheckers
  <2>2. ~flc.first_frame /\ Congruent(flc.last_id, lastChecked)
    BY <1>5, <2>1 DEF LossInv
  <2>3. lost = (m - lastChecked - 1) % IdModulus
    BY <1>1, <2>2, LostIsRemainder
  <2> QED BY <1>2, <1>3, <2>2, <2>3
<1> QED
  BY <1>1, <1>2, <1>3, <1>4, <1>5

\* Garbage that is read marks what is counted from then on.
LEMMA GarbageIsMarked ==
  ASSUME TypeOK, LossInv, SentInv, ReadsGarbage
  PROVE  ~(firstChecked' >= 0)
<1>1. PICK id \in FrameIds :
        firstChecked' = IF flc.first_frame THEN id - IdModulus ELSE firstChecked
  BY DEF ReadsGarbage
<1>2. ~(id - IdModulus >= 0)
  BY IdModulusAssumption DEF FrameIds
<1>3. ~flc.first_frame => flc.total_frames > 0
  <2>1. ~flc.first_frame => flc.total_frames # 0
    BY DEF LossInv
  <2> QED BY <2>1 DEF TypeOK, LossCheckers
<1>4. param.buf = NoBuffer
  BY DEF ReadsGarbage, DecodeGarbage
<1>5. flc.total_frames > 0 => ~(firstChecked >= 0)
  BY <1>4 DEF SentInv, TypeOK
<1> QED
  BY <1>1, <1>2, <1>3, <1>5

\* Frames read in order are never counted as lost when they were not.
LEMMA NextCountsAtMost ==
  TypeOK /\ LossInv /\ SentInv /\ ReadsInOrder /\ CountsAtMost /\ [Next]_vars => CountsAtMost'
<1> SUFFICES ASSUME TypeOK, LossInv, SentInv, ReadsInOrder, CountsAtMost, [Next]_vars
             PROVE  CountsAtMost'
  OBVIOUS
<1>1. CASE DecodeFrame /\ LossCheck
  <2> DEFINE m == mem[param.buf]
             gap == m - lastChecked - 1
  <2>1. /\ flc.total_frames \in Nat /\ flc.dropped_frames \in Nat
        /\ firstChecked \in Int /\ lastChecked \in Int /\ m \in Int
    BY <1>1 DEF TypeOK, QueueTypeOK, LossCheckers, DecodeFrame, UnsetParam
  <2>2. CASE flc.total_frames = 0
    BY <1>1, <2>1, <2>2, CheckAdds DEF CountsAtMost, ChecksFrames
  <2>3. CASE flc.total_frames > 0
    <3>1. /\ flc'.total_frames = flc.total_frames + 1 /\ lastChecked' = m
          /\ ~flc.first_frame /\ firstChecked' = firstChecked
          /\ flc'.dropped_frames = flc.dropped_frames + (gap % IdModulus)
      BY <1>1, <2>3, CheckAdds
    <3>2. m > lastChecked
      BY <1>1, <3>1 DEF ReadsInOrder, ChecksAgain, DecodeFrame
    <3>3. gap \in Nat
      BY <2>1, <3>2
    <3>4. gap % IdModulus <= gap /\ gap % IdModulus \in Int
      BY <3>3, RemainderAtMost, RemainderCongruent, IdModulusAssumption
    <3>5. firstChecked >= 0 =>
            flc.dropped_frames + flc.total_frames - 1 <= lastChecked - firstChecked
      BY <2>3 DEF CountsAtMost, ChecksFrames
    <3> DEFINE lost == gap % IdModulus
    <3> HIDE DEF lost, m
    <3>6. firstChecked' >= 0 =>
            flc'.dropped_frames + flc'.total_frames - 1 <= lastChecked' - firstChecked'
      BY <2>1, <3>1, <3>4, <3>5 DEF lost
    <3> QED BY <3>6 DEF CountsAtMost, ChecksFrames
  <2> QED BY <2>1, <2>2, <2>3
<1>2. CASE ReadsGarbage
  BY <1>2, GarbageIsMarked DEF CountsAtMost, ChecksFrames
<1>3. CASE UNCHANGED <<flc, firstChecked, lastChecked>>
  BY <1>3 DEF CountsAtMost, ChecksFrames
<1> QED
  BY <1>1, <1>2, <1>3, OnlyDecodeChecks

\* And as long as no gap is longer than the id can tell, no lost frame is missed.
LEMMA NextCountsExactly ==
  TypeOK /\ LossInv /\ SentInv /\ ReadsInOrder /\ GapsShort /\ CountsExactly /\ [Next]_vars
    => CountsExactly'
<1> SUFFICES ASSUME TypeOK, LossInv, SentInv, ReadsInOrder, GapsShort, CountsExactly, [Next]_vars
             PROVE  CountsExactly'
  OBVIOUS
<1>1. CASE DecodeFrame /\ LossCheck
  <2> DEFINE m == mem[param.buf]
             gap == m - lastChecked - 1
  <2>1. /\ flc.total_frames \in Nat /\ flc.dropped_frames \in Nat
        /\ firstChecked \in Int /\ lastChecked \in Int /\ m \in Int
    BY <1>1 DEF TypeOK, QueueTypeOK, LossCheckers, DecodeFrame, UnsetParam
  <2>2. CASE flc.total_frames = 0
    BY <1>1, <2>1, <2>2, CheckAdds DEF CountsExactly, ChecksFrames
  <2>3. CASE flc.total_frames > 0
    <3>1. /\ flc'.total_frames = flc.total_frames + 1 /\ lastChecked' = m
          /\ ~flc.first_frame /\ firstChecked' = firstChecked
          /\ flc'.dropped_frames = flc.dropped_frames + (gap % IdModulus)
      BY <1>1, <2>3, CheckAdds
    <3>2. m > lastChecked /\ m - lastChecked <= IdModulus
      BY <1>1, <3>1 DEF ReadsInOrder, GapsShort, ChecksAgain, DecodeFrame
    <3>3. gap \in Nat /\ gap < IdModulus
      BY <2>1, <3>2, IdModulusAssumption
    <3>4. gap % IdModulus = gap
      BY <3>3, RemainderAtMost
    <3>5. firstChecked >= 0 =>
            flc.dropped_frames + flc.total_frames - 1 = lastChecked - firstChecked
      BY <2>3 DEF CountsExactly, ChecksFrames
    <3>6. flc'.dropped_frames = flc.dropped_frames + gap
      BY <3>1, <3>4
    <3>7. firstChecked' >= 0 =>
            flc'.dropped_frames + flc'.total_frames - 1 = lastChecked' - firstChecked'
      BY <2>1, <3>1, <3>5, <3>6
    <3> QED BY <3>7 DEF CountsExactly, ChecksFrames
  <2> QED BY <2>1, <2>2, <2>3
<1>2. CASE ReadsGarbage
  BY <1>2, GarbageIsMarked DEF CountsExactly, ChecksFrames
<1>3. CASE UNCHANGED <<flc, firstChecked, lastChecked>>
  BY <1>3 DEF CountsExactly, ChecksFrames
<1> QED
  BY <1>1, <1>2, <1>3, OnlyDecodeChecks

\* The decoder gets to a frame before the sensor is BufferCount frames further.
Prompt == pc = "decode" => sent <= param.seq + BufferCount

\* The last frame that was checked is the last that was decoded.
CheckedIsDecoded ==
  /\ ~LossCheck => flc.first_frame = TRUE
  /\ flc.first_frame = TRUE \/ lastChecked = lastDecoded

\* A prompt decoder that is given no erroneous buffer reads the frames in order.
LEMMA ReadsInOrderWhenPrompt == Spec /\ []~errorFlag /\ []Prompt => []ReadsInOrder
<1>1. Init => CheckedIsDecoded
  BY DEF Init, InitFrameChecker, CheckedIsDecoded
<1>2. TypeOK /\ UnsetInv /\ ~errorFlag /\ IntactWithinRotation /\ Prompt /\ CheckedIsDecoded
        /\ [Next]_vars => CheckedIsDecoded'
  <2> SUFFICES ASSUME TypeOK, UnsetInv, ~errorFlag, IntactWithinRotation, Prompt,
                      CheckedIsDecoded, [Next]_vars
               PROVE  CheckedIsDecoded'
    OBVIOUS
  <2>1. CASE DecodeFrame /\ LossCheck
    <3>1. mem[param.buf] = param.seq
      BY <2>1 DEF DecodeFrame, IntactWithinRotation, Prompt
    <3>2. lastChecked' = lastDecoded'
      BY <2>1, <3>1 DEF DecodeFrame
    <3> QED BY <2>1, <3>2 DEF CheckedIsDecoded
  <2>2. CASE ~(DecodeFrame /\ LossCheck)
    <3>0. ~ReadsGarbage
      <4>1. ReadsGarbage => errorFlag = TRUE
        BY DEF ReadsGarbage, DecodeGarbage, UnsetInv
      <4> QED BY <4>1, Zenon
    <3>1. UNCHANGED <<flc, lastChecked>>
      BY <2>2, <3>0, OnlyDecodeChecks
    <3>2. CASE DecodeFrame
      <4>1. ~LossCheck
        BY <2>2, <3>2
      <4> QED BY <3>1, <4>1 DEF CheckedIsDecoded
    <3>3. CASE ~DecodeFrame
      <4>1. UNCHANGED lastDecoded
        BY <3>3 DEF Next, Worker, DriverStep, Stop, vars, LoopTest, Poll, PollInterrupted,
          DequeueFrame, RequeueBuffer, CaptureFails, DecodeReturns, DecodeUnset,
          DecodeGarbage, DecodeFaults, Sleep, ActOnCancel, ForgetThread, CancelThread, decodeVars
      <4> QED BY <3>1, <4>1 DEF CheckedIsDecoded
    <3> QED BY <3>2, <3>3
  <2> QED BY <2>1, <2>2
<1>3. TypeOK /\ IntactWithinRotation /\ Prompt /\ CheckedIsDecoded /\ FreshUnlessFlagged
        /\ ~errorFlag => ReadsInOrder
  <2> SUFFICES ASSUME TypeOK, IntactWithinRotation, Prompt, CheckedIsDecoded,
                      FreshUnlessFlagged, ~errorFlag, ChecksAgain
               PROVE  mem[param.buf] > lastChecked
    BY DEF ReadsInOrder
  <2>1. pc = "decode" /\ param.buf # NoBuffer /\ ~flc.first_frame
    BY DEF ChecksAgain
  <2>2. mem[param.buf] = param.seq
    BY <2>1 DEF IntactWithinRotation, Prompt
  <2>3. param.seq > lastDecoded
    BY <2>1 DEF FreshUnlessFlagged
  <2>4. flc.first_frame # TRUE
    BY <2>1, Zenon
  <2>5. lastChecked = lastDecoded
    BY <2>4 DEF CheckedIsDecoded
  <2> QED BY <2>2, <2>3, <2>5
<1> QED
  BY <1>1, <1>2, <1>3, TypeCorrect, UnsetInvariance, IntactWhilePrompt, NoStaleDecode, PTL DEF Spec

\* check_frame_loss counts more lost frames than there were only if it reads a
\* frame that is not younger than the one before: a frame decoded again, or one
\* that DMA had overwritten the frame before with.
THEOREM LossNeverOvercounts == Spec /\ []ReadsInOrder => [](CountsAtMost /\ DroppedAtMostSent)
<1>1. Init => CountsAtMost
  BY DEF Init, InitFrameChecker, CountsAtMost, ChecksFrames
<1>2. TypeOK /\ LossInv /\ SentInv /\ CountsAtMost => DroppedAtMostSent
  <2> SUFFICES ASSUME TypeOK, LossInv, SentInv, CountsAtMost, firstChecked >= 0
               PROVE  flc.dropped_frames <= sent
    BY DEF DroppedAtMostSent
  <2>1. /\ flc.total_frames \in Nat /\ flc.dropped_frames \in Nat /\ sent \in Nat
        /\ firstChecked \in Int /\ lastChecked \in Int
    BY DEF TypeOK, QueueTypeOK, LossCheckers
  <2>2. CASE flc.total_frames = 0
    BY <2>1, <2>2 DEF LossInv
  <2>3. CASE flc.total_frames > 0
    BY <2>1, <2>3 DEF SentInv, CountsAtMost, ChecksFrames
  <2> QED BY <2>1, <2>2, <2>3
<1> QED
  BY <1>1, <1>2, NextCountsAtMost, TypeCorrect, LossInvariance, SentInvariance, PTL DEF Spec

\* What adaps_dtof.cpp:67 says is violated by erroneous buffers and by a
\* decoder that lags a whole rotation behind, and by nothing else.
THEOREM LossRightWhenPrompt == Spec /\ []~errorFlag /\ []Prompt => []DroppedAtMostSent
BY ReadsInOrderWhenPrompt, LossNeverOvercounts, PTL

\* Then the counts are exact, not only modulo the id's range, unless more
\* frames are lost in a row than the id tells apart.
THEOREM LossExactWhenPrompt ==
  Spec /\ []~errorFlag /\ []Prompt /\ []GapsShort => []CountsExactly
<1>1. Init => CountsExactly
  BY DEF Init, InitFrameChecker, CountsExactly, ChecksFrames
<1> QED
  BY <1>1, NextCountsExactly, ReadsInOrderWhenPrompt, TypeCorrect, LossInvariance, SentInvariance,
     PTL DEF Spec
=============================================================================
