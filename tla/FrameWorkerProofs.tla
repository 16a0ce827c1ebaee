------------------------- MODULE FrameWorkerProofs --------------------------
(***************************************************************************)
(* Type correctness of FrameWorker, the accounting of its buffers, and the *)
(* margin before DMA overwrites a frame that is being decoded, for every   *)
(* number of buffers and of frames.                                        *)
(***************************************************************************)
EXTENDS FrameWorker, SequenceTheorems, TLAPS

(* The queue: every step of the capture cycle leaves the rotation of the    *)
(* buffers as it is, except that the start of a frame moves the oldest      *)
(* buffer to the end.                                                       *)

\* Rotation as a function of the four places a buffer can be in.
Line(q, h, d, f) == q \o OneOrNone(h) \o d \o OneOrNone(f)

\* OneOrNone is a sequence of at most one buffer.
LEMMA OneOrNoneType ==
  ASSUME NEW b \in Buffers \cup {NoBuffer}
  PROVE  /\ OneOrNone(b) \in Seq(Buffers)
         /\ b = NoBuffer => OneOrNone(b) = <<>>
         /\ b # NoBuffer => OneOrNone(b) = <<b>>
BY NoBufferAssumption DEF OneOrNone

\* Moving the head of d in front of it (VIDIOC_DQBUF) changes nothing.
LEMMA DequeueKeepsLine ==
  ASSUME NEW q \in Seq(Buffers), NEW d \in Seq(Buffers), d # <<>>,
         NEW f \in Buffers \cup {NoBuffer}
  PROVE  Line(q, Head(d), Tail(d), f) = Line(q, NoBuffer, d, f)
<1>1. /\ Head(d) \in Buffers
      /\ Tail(d) \in Seq(Buffers)
      /\ <<Head(d)>> \in Seq(Buffers)
  BY HeadTailProperties
<1>2. OneOrNone(Head(d)) = <<Head(d)>> /\ OneOrNone(NoBuffer) = <<>>
  BY <1>1, NoBufferAssumption DEF OneOrNone
<1>3. <<Head(d)>> \o Tail(d) = d
  BY <1>1, HeadTailProperties
<1>4. (q \o <<Head(d)>>) \o Tail(d) = q \o d
  BY <1>1, <1>3, ConcatAssociative
<1>5. q \o <<>> = q
  BY ConcatEmptySeq
<1> QED
  BY <1>2, <1>4, <1>5 DEF Line

\* Moving the held buffer to the end of q (VIDIOC_QBUF) changes nothing.
LEMMA RequeueKeepsLine ==
  ASSUME NEW q \in Seq(Buffers), NEW h \in Buffers, NEW d \in Seq(Buffers),
         NEW f \in Buffers \cup {NoBuffer}
  PROVE  Line(Append(q, h), NoBuffer, d, f) = Line(q, h, d, f)
<1>1. OneOrNone(h) = <<h>> /\ OneOrNone(NoBuffer) = <<>>
  BY NoBufferAssumption DEF OneOrNone
<1>2. Append(q, h) = q \o <<h>> /\ Append(q, h) \in Seq(Buffers)
  BY AppendIsConcat, AppendProperties
<1>3. Append(q, h) \o <<>> = Append(q, h)
  BY <1>2, ConcatEmptySeq
<1> QED
  BY <1>1, <1>2, <1>3 DEF Line

\* Moving the filled buffer to the end of d (the end of a frame) changes nothing.
LEMMA CompleteKeepsLine ==
  ASSUME NEW q \in Seq(Buffers), NEW h \in Buffers \cup {NoBuffer},
         NEW d \in Seq(Buffers), NEW f \in Buffers
  PROVE  Line(q, h, Append(d, f), NoBuffer) = Line(q, h, d, f)
<1>1. OneOrNone(f) = <<f>> /\ OneOrNone(NoBuffer) = <<>> /\ <<f>> \in Seq(Buffers)
  BY NoBufferAssumption DEF OneOrNone
<1>2. Append(d, f) = d \o <<f>> /\ Append(d, f) \in Seq(Buffers)
  BY AppendIsConcat, AppendProperties
<1> DEFINE p == q \o OneOrNone(h)
<1>3. p \in Seq(Buffers)
  BY OneOrNoneType, ConcatProperties
<1>4. (p \o d) \o <<f>> = p \o (d \o <<f>>)
  BY <1>1, <1>3, ConcatAssociative
<1>5. (p \o Append(d, f)) \o <<>> = p \o Append(d, f)
  BY <1>2, <1>3, ConcatProperties, ConcatEmptySeq
<1> QED
  BY <1>1, <1>2, <1>4, <1>5 DEF Line

\* Moving the head of q to the place of the filled buffer (the start of a
\* frame) rotates the line by one place.
LEMMA StartRotatesLine ==
  ASSUME NEW q \in Seq(Buffers), q # <<>>, NEW h \in Buffers \cup {NoBuffer},
         NEW d \in Seq(Buffers)
  PROVE  LET old == Line(q, h, d, NoBuffer)
             new == Line(Tail(q), h, d, Head(q))
         IN  /\ Len(new) = Len(old)
             /\ Len(old) >= 1
             /\ old[1] = Head(q)
             /\ new[Len(old)] = Head(q)
             /\ \A i \in 1 .. Len(old) - 1 : new[i] = old[i + 1]
<1> DEFINE p == OneOrNone(h)
           r == p \o d
<1>1. p \in Seq(Buffers) /\ r \in Seq(Buffers)
  BY OneOrNoneType, ConcatProperties
<1>2. /\ Head(q) \in Buffers /\ Tail(q) \in Seq(Buffers) /\ Len(Tail(q)) = Len(q) - 1
      /\ \A i \in 1 .. Len(Tail(q)) : Tail(q)[i] = q[i + 1]
      /\ Len(q) \in Nat \ {0} /\ Head(q) = q[1]
  BY HeadTailProperties, EmptySeq
<1>3. OneOrNone(Head(q)) = <<Head(q)>> /\ <<Head(q)>> \in Seq(Buffers)
      /\ OneOrNone(NoBuffer) = <<>>
  BY <1>2, NoBufferAssumption DEF OneOrNone
<1>4. Line(q, h, d, NoBuffer) = q \o r
  <2>1. (q \o p) \o d = q \o r
    BY <1>1, ConcatAssociative
  <2>2. (q \o r) \o <<>> = q \o r
    BY <1>1, ConcatProperties, ConcatEmptySeq
  <2> QED BY <1>3, <2>1, <2>2 DEF Line
<1>5. Line(Tail(q), h, d, Head(q)) = (Tail(q) \o r) \o <<Head(q)>>
  <2>1. (Tail(q) \o p) \o d = Tail(q) \o r
    BY <1>1, <1>2, ConcatAssociative
  <2> QED BY <1>3, <2>1 DEF Line
<1>6. /\ Tail(q) \o r \in Seq(Buffers)
      /\ Len(Tail(q) \o r) = Len(q) - 1 + Len(r)
      /\ \A i \in 1 .. Len(q) - 1 + Len(r) :
            (Tail(q) \o r)[i] = IF i <= Len(q) - 1 THEN Tail(q)[i] ELSE r[i - (Len(q) - 1)]
  BY <1>1, <1>2, ConcatProperties
<1>7. /\ Len(q \o r) = Len(q) + Len(r)
      /\ \A i \in 1 .. Len(q) + Len(r) :
            (q \o r)[i] = IF i <= Len(q) THEN q[i] ELSE r[i - Len(q)]
  BY <1>1, ConcatProperties
<1>8. Len(r) \in Nat
  BY <1>1, LenProperties
<1> DEFINE n == Len(q) + Len(r)
           new == (Tail(q) \o r) \o <<Head(q)>>
<1>9. /\ Len(new) = n
      /\ \A i \in 1 .. n : new[i] = IF i <= n - 1 THEN (Tail(q) \o r)[i] ELSE <<Head(q)>>[i - (n - 1)]
  BY <1>2, <1>3, <1>6, <1>8, ConcatProperties
<1>10. \A i \in 1 .. n - 1 : new[i] = (q \o r)[i + 1]
  <2> SUFFICES ASSUME NEW i \in 1 .. n - 1
               PROVE  new[i] = (q \o r)[i + 1]
    OBVIOUS
  <2>1. new[i] = (Tail(q) \o r)[i]
    BY <1>2, <1>8, <1>9
  <2>2. CASE i <= Len(q) - 1
    BY <2>1, <2>2, <1>2, <1>6, <1>7, <1>8
  <2>3. CASE ~(i <= Len(q) - 1)
    BY <2>1, <2>3, <1>2, <1>6, <1>7, <1>8
  <2> QED BY <2>2, <2>3
<1>11. new[n] = Head(q) /\ (q \o r)[1] = Head(q) /\ n >= 1
  BY <1>2, <1>7, <1>8, <1>9
<1> QED
  BY <1>4, <1>5, <1>7, <1>9, <1>10, <1>11

\* Where the elements of two concatenated sequences are found.
LEMMA ConcatElements ==
  ASSUME NEW s \in Seq(Buffers), NEW t \in Seq(Buffers)
  PROVE  /\ s \o t \in Seq(Buffers)
         /\ Len(s) \in Nat /\ Len(t) \in Nat
         /\ Len(s \o t) = Len(s) + Len(t)
         /\ \A i \in 1 .. Len(s) : (s \o t)[i] = s[i]
         /\ \A i \in 1 .. Len(t) : (s \o t)[Len(s) + i] = t[i]
<1>1. /\ s \o t \in Seq(Buffers)
      /\ Len(s \o t) = Len(s) + Len(t)
      /\ \A i \in 1 .. Len(s) + Len(t) :
            (s \o t)[i] = IF i <= Len(s) THEN s[i] ELSE t[i - Len(s)]
  BY ConcatProperties
<1>2. Len(s) \in Nat /\ Len(t) \in Nat
  BY LenProperties
<1>3. \A i \in 1 .. Len(s) : (s \o t)[i] = s[i]
  BY <1>1, <1>2
<1>4. \A i \in 1 .. Len(t) : (s \o t)[Len(s) + i] = t[i]
  <2> SUFFICES ASSUME NEW i \in 1 .. Len(t)
               PROVE  (s \o t)[Len(s) + i] = t[i]
    OBVIOUS
  <2>1. Len(s) + i \in 1 .. Len(s) + Len(t) /\ ~(Len(s) + i <= Len(s)) /\ (Len(s) + i) - Len(s) = i
    BY <1>2
  <2> QED BY <1>1, <2>1
<1> QED
  BY <1>1, <1>2, <1>3, <1>4

\* Element x of a sequence is at place i of it and y is at another one.
Apart(line, i, x, y) ==
  /\ i \in 1 .. Len(line) /\ line[i] = x
  /\ \E k \in 1 .. Len(line) : i # k /\ line[k] = y

\* A queued and a completed buffer are at different places of the line.
LEMMA PlacesInLine ==
  ASSUME NEW q \in Seq(Buffers), NEW h \in Buffers \cup {NoBuffer},
         NEW d \in Seq(Buffers), NEW f \in Buffers \cup {NoBuffer},
         NEW i \in 1 .. Len(q), NEW j \in 1 .. Len(d)
  PROVE  Apart(Line(q, h, d, f), i, q[i], d[j])
<1> DEFINE a == OneOrNone(h)
           b == OneOrNone(f)
           qa == q \o a
           qad == qa \o d
           line == qad \o b
           m == Len(qa) + j
<1>1. a \in Seq(Buffers) /\ b \in Seq(Buffers)
  BY OneOrNoneType
<1>2. /\ qa \in Seq(Buffers) /\ Len(q) \in Nat /\ Len(a) \in Nat
      /\ Len(qa) = Len(q) + Len(a) /\ qa[i] = q[i]
  BY <1>1, ConcatElements
<1>3. i \in 1 .. Len(qa)
  BY <1>2
<1> HIDE DEF qa
<1>4. /\ qad \in Seq(Buffers) /\ Len(qa) \in Nat /\ Len(d) \in Nat
      /\ Len(qad) = Len(qa) + Len(d) /\ qad[i] = qa[i] /\ qad[m] = d[j]
  BY <1>2, <1>3, ConcatElements
<1>5. i \in 1 .. Len(qad) /\ m \in 1 .. Len(qad) /\ i # m
  BY <1>3, <1>4
<1> HIDE DEF qad, m, b
<1>6. /\ Len(qad) \in Nat /\ Len(b) \in Nat /\ Len(line) = Len(qad) + Len(b)
      /\ line[i] = qad[i] /\ line[m] = qad[m]
  <2>1. qad \in Seq(Buffers) /\ b \in Seq(Buffers)
    BY <1>1, <1>4
  <2>2. /\ Len(qad) \in Nat /\ Len(b) \in Nat /\ Len(line) = Len(qad) + Len(b)
        /\ \A k \in 1 .. Len(qad) : line[k] = qad[k]
    BY <2>1, ConcatElements
  <2> QED BY <1>5, <2>2
<1>7. i \in 1 .. Len(line) /\ m \in 1 .. Len(line)
  BY <1>5, <1>6
<1>8. line = Line(q, h, d, f)
  BY DEF Line, qa, qad, b
<1> HIDE DEF line
<1> QED
  BY <1>2, <1>4, <1>5, <1>6, <1>7, <1>8 DEF Apart

-----------------------------------------------------------------------------
(* The inductive invariant. *)

\* The process holds a buffer only between VIDIOC_DQBUF and VIDIOC_QBUF; a
\* worker that ends between the two never gives the buffer back.
HeldOnlyInCapture == pc \notin {"requeue", "ended"} => held = NoBuffer

IInv ==
  /\ TypeOK
  /\ HeldOnlyInCapture
  /\ EachBufferOnce
  /\ OldestFirst
  /\ OverwriteMargin

-----------------------------------------------------------------------------
(* Facts about the loss checker. *)

\* An id maps the loss checker's records to themselves.
LEMMA CheckFrameLossType ==
  ASSUME NEW checker \in LossCheckers, NEW id \in FrameIds
  PROVE  CheckFrameLoss(checker, id) \in LossCheckers
<1>1. (checker.last_id + 1) % IdModulus \in 0 .. IdModulus - 1
  BY IdModulusAssumption DEF LossCheckers, FrameIds
<1>2. LostCount(checker, id) \in Nat
  BY <1>1, IdModulusAssumption DEF LostCount, LossCheckers, FrameIds
<1> QED
  BY <1>2 DEF CheckFrameLoss, LossCheckers

\* The initial state satisfies the type invariant.
LEMMA InitTypeOK == Init => TypeOK
<1> SUFFICES ASSUME Init PROVE TypeOK
  OBVIOUS
<1>1. queued \in Seq(Buffers)
  BY BufferCountAssumption DEF Init, QueueInit, Buffers
<1>2. QueueTypeOK
  <2>1. mem \in [Buffers -> Int] /\ flagged \in [Buffers -> BOOLEAN]
    BY BufferCountAssumption DEF Init, QueueInit, Buffers
  <2>2. done \in Seq(Buffers)
    BY EmptySeq DEF Init, QueueInit
  <2> QED BY <1>1, <2>1, <2>2 DEF Init, QueueInit, QueueTypeOK
<1>3. flc \in LossCheckers
  BY IdModulusAssumption DEF Init, InitFrameChecker, LossCheckers, FrameIds
<1>4. pc \in Locations /\ param \in [seq : Int, buf : Buffers] \cup {UnsetParam}
  BY DEF Init, Locations
<1>5. frame_process_thread \in BOOLEAN /\ cancelled \in BOOLEAN /\ errorFlag \in BOOLEAN
  BY DEF Init
<1>6. /\ rxFrameCnt \in Nat /\ erroneous \in Nat /\ dumped_frame_cnt \in Nat
      /\ lastDecoded \in Int /\ firstChecked \in Int /\ lastChecked \in Int
  BY DEF Init
<1> QED
  BY <1>2, <1>3, <1>4, <1>5, <1>6 DEF TypeOK

\* Every step preserves the type invariant.
LEMMA NextTypeOK == TypeOK /\ [Next]_vars => TypeOK'
<1> SUFFICES ASSUME TypeOK, [Next]_vars
             PROVE  TypeOK'
  OBVIOUS
<1> USE DEF TypeOK, QueueTypeOK, Locations, appVars, decodeVars, captureVars, queueVars
<1>1. CASE LoopTest
  BY <1>1 DEF LoopTest
<1>2. CASE Poll
  BY <1>2 DEF Poll
<1>3. CASE PollInterrupted
  BY <1>3 DEF PollInterrupted
<1>4. CASE DequeueFrame
  <2>1. Head(done) \in Buffers /\ Tail(done) \in Seq(Buffers)
    BY <1>4, HeadTailProperties DEF DequeueFrame, Dqbuf, Readable
  <2>2. QueueTypeOK'
    BY <1>4, <2>1 DEF DequeueFrame, Dqbuf
  <2>3. /\ param' \in [seq : Int, buf : Buffers] \cup {UnsetParam}
        /\ rxFrameCnt' \in Nat /\ erroneous' \in Nat
    BY <1>4, <2>1 DEF DequeueFrame
  <2>4. errorFlag' \in BOOLEAN
    BY <1>4, <2>1 DEF DequeueFrame
  <2> QED BY <1>4, <2>2, <2>3, <2>4 DEF DequeueFrame
<1>5. CASE RequeueBuffer
  <2>1. Append(queued, held) \in Seq(Buffers)
    BY <1>5, AppendProperties DEF RequeueBuffer, Qbuf
  <2> QED BY <1>5, <2>1 DEF RequeueBuffer, Qbuf
<1>6. CASE CaptureFails
  BY <1>6 DEF CaptureFails
<1>7. CASE DecodeFrame
  <2>1. param \in [seq : Int, buf : Buffers]
    BY <1>7 DEF DecodeFrame, UnsetParam
  <2>2. mem[param.buf] % IdModulus \in FrameIds
    BY <2>1, IdModulusAssumption DEF FrameIds
  <2>3. CheckFrameLoss(flc, mem[param.buf] % IdModulus) \in LossCheckers
    BY <2>2, CheckFrameLossType
  <2>4. flc' \in LossCheckers /\ firstChecked' \in Int /\ lastChecked' \in Int
    BY <1>7, <2>1, <2>3 DEF DecodeFrame
  <2>5. lastDecoded' \in Int
    BY <1>7, <2>1 DEF DecodeFrame
  <2> QED BY <1>7, <2>4, <2>5 DEF DecodeFrame
<1>8. CASE DecodeReturns
  BY <1>8 DEF DecodeReturns, CountDumped
<1>9. CASE DecodeUnset
  BY <1>9 DEF DecodeUnset, CountDumped
<1>10. CASE DecodeFaults
  BY <1>10 DEF DecodeFaults
<1>11. CASE Sleep
  BY <1>11 DEF Sleep
<1>12. CASE ActOnCancel
  BY <1>12 DEF ActOnCancel
<1>13. CASE DriverStep
  <2>1. CASE FrameStart
    <3>1. Head(queued) \in Buffers /\ Tail(queued) \in Seq(Buffers)
      BY <2>1, HeadTailProperties DEF FrameStart
    <3>2. mem' \in [Buffers -> Int]
      BY <2>1, <3>1 DEF FrameStart
    <3> QED BY <1>13, <2>1, <3>1, <3>2 DEF DriverStep, FrameStart
  <2>2. CASE FrameDropped
    BY <1>13, <2>2 DEF DriverStep, FrameDropped
  <2>3. CASE FrameEnd
    <3>1. Append(done, filling) \in Seq(Buffers)
      BY <2>3, AppendProperties DEF FrameEnd
    <3>2. flagged' \in [Buffers -> BOOLEAN]
      BY <2>3 DEF FrameEnd
    <3> QED BY <1>13, <2>3, <3>1, <3>2 DEF DriverStep, FrameEnd
  <2>4. CASE QueueFailure
    BY <1>13, <2>4 DEF DriverStep, QueueFailure
  <2> QED BY <1>13, <2>1, <2>2, <2>3, <2>4 DEF DriverStep, Driver
<1>14. CASE Stop
  BY <1>14 DEF Stop, ForgetThread, CancelThread
<1>15. CASE DecodeGarbage
  <2>1. flc' \in LossCheckers /\ firstChecked' \in Int /\ lastChecked' \in Int
    <3>1. CASE UNCHANGED <<flc, firstChecked, lastChecked>>
      BY <3>1
    <3>2. ASSUME NEW id \in FrameIds, flc' = CheckFrameLoss(flc, id), lastChecked' = id - IdModulus,
                 firstChecked' = IF flc.first_frame THEN id - IdModulus ELSE firstChecked
          PROVE  flc' \in LossCheckers /\ firstChecked' \in Int /\ lastChecked' \in Int
      <4>1. id - IdModulus \in Int
        BY IdModulusAssumption DEF FrameIds
      <4> QED BY <3>2, <4>1, CheckFrameLossType
    <3> QED BY <1>15, <3>1, <3>2 DEF DecodeGarbage
  <2> QED BY <1>15, <2>1 DEF DecodeGarbage
<1>16. CASE UNCHANGED vars
  BY <1>16 DEF vars
<1> QED
  BY <1>1, <1>2, <1>3, <1>4, <1>5, <1>6, <1>7, <1>8, <1>9, <1>10, <1>11, <1>12,
     <1>13, <1>14, <1>15, <1>16 DEF Next, Worker

\* Every reachable state is well typed.
THEOREM TypeCorrect == Spec => []TypeOK
BY InitTypeOK, NextTypeOK, PTL DEF Spec

-----------------------------------------------------------------------------
(* The rotation of the buffers and the margin. *)

\* The initial state satisfies the inductive invariant.
LEMMA InitIInv == Init => IInv
<1> SUFFICES ASSUME Init PROVE IInv
  OBVIOUS
<1> DEFINE start == [i \in 1 .. BufferCount |-> i - 1]
<1>1. start \in Seq(Buffers) /\ Len(start) = BufferCount
  BY BufferCountAssumption DEF Buffers
<1>2. Rotation = start
  <2>1. Rotation = ((start \o <<>>) \o <<>>) \o <<>>
    BY DEF Init, QueueInit, Rotation, OneOrNone
  <2> HIDE DEF start
  <2> QED BY <1>1, <2>1, ConcatEmptySeq
<1>3. EachBufferOnce
  BY <1>1, <1>2, BufferCountAssumption DEF EachBufferOnce
<1>4. OldestFirst
  BY <1>1, <1>2, BufferCountAssumption DEF OldestFirst, Init, QueueInit, Buffers
<1>5. OverwriteMargin
  BY DEF Init, UnsetParam, OverwriteMargin
<1>6. HeldOnlyInCapture
  BY DEF Init, QueueInit, HeldOnlyInCapture
<1> QED
  BY <1>3, <1>4, <1>5, <1>6, InitTypeOK DEF IInv

\* A step that leaves the rotation, the contents, the frame count and param
\* alone preserves what the invariant says of them.
LEMMA UnchangedRotation ==
  ASSUME IInv, Rotation' = Rotation, UNCHANGED <<mem, sent, param>>
  PROVE  EachBufferOnce' /\ OldestFirst' /\ OverwriteMargin'
BY DEF IInv, EachBufferOnce, OldestFirst, OverwriteMargin

\* The rotation's elements are buffers.
LEMMA RotationType ==
  ASSUME TypeOK
  PROVE  /\ Rotation \in Seq(Buffers)
         /\ \A i \in 1 .. Len(Rotation) : Rotation[i] \in Buffers
<1>1. Rotation \in Seq(Buffers)
  <2>1. OneOrNone(held) \in Seq(Buffers) /\ OneOrNone(filling) \in Seq(Buffers)
    BY OneOrNoneType DEF TypeOK, QueueTypeOK
  <2> QED BY <2>1, ConcatProperties DEF Rotation, TypeOK, QueueTypeOK
<1> QED BY <1>1, ElementOfSeq

\* Starting a frame rotates the buffers by one: the oldest is overwritten, and
\* it was last written at least BufferCount frames ago.
LEMMA FrameStartInv ==
  ASSUME IInv, FrameStart, UNCHANGED param
  PROVE  EachBufferOnce' /\ OldestFirst' /\ OverwriteMargin'
<1> DEFINE b == Head(queued)
<1> USE BufferCountAssumption
<1>1. TypeOK /\ QueueTypeOK /\ EachBufferOnce /\ OldestFirst /\ OverwriteMargin
  BY DEF IInv, TypeOK
<1>2. b \in Buffers
  BY <1>1, HeadTailProperties DEF FrameStart, QueueTypeOK
<1>3. /\ Len(Rotation') = BufferCount
      /\ Len(Rotation) = BufferCount
      /\ Rotation[1] = b
      /\ Rotation'[BufferCount] = b
      /\ \A i \in 1 .. BufferCount - 1 : Rotation'[i] = Rotation[i + 1]
  <2>1. Rotation = Line(queued, held, done, NoBuffer)
    BY DEF FrameStart, Rotation, Line
  <2>2. Rotation' = Line(Tail(queued), held, done, Head(queued))
    BY DEF FrameStart, Rotation, Line
  <2>3. queued \in Seq(Buffers) /\ queued # <<>> /\ done \in Seq(Buffers)
        /\ held \in Buffers \cup {NoBuffer}
    BY <1>1 DEF FrameStart, QueueTypeOK
  <2> QED
    BY <1>1, <2>1, <2>2, <2>3, StartRotatesLine DEF EachBufferOnce
<1>4. \A i \in 1 .. BufferCount : Rotation[i] \in Buffers
  BY <1>1, <1>3, RotationType
<1>5. /\ sent' = sent + 1 /\ sent \in Nat
      /\ mem \in [Buffers -> Int]
      /\ mem'[b] = sent
      /\ \A c \in Buffers : c # b => mem'[c] = mem[c]
  BY <1>1, <1>2 DEF FrameStart, QueueTypeOK
<1>6. EachBufferOnce'
  <2> SUFFICES ASSUME NEW i \in 1 .. BufferCount, NEW j \in 1 .. BufferCount, i # j
               PROVE  Rotation'[i] # Rotation'[j]
    BY <1>3 DEF EachBufferOnce
  <2> DEFINE Old(k) == IF k = BufferCount THEN 1 ELSE k + 1
  <2>1. Rotation'[i] = Rotation[Old(i)] /\ Rotation'[j] = Rotation[Old(j)]
    BY <1>3
  <2>2. Old(i) \in 1 .. BufferCount /\ Old(j) \in 1 .. BufferCount /\ Old(i) # Old(j)
    OBVIOUS
  <2> QED BY <1>1, <2>1, <2>2 DEF EachBufferOnce
<1>7. OldestFirst'
  <2> SUFFICES ASSUME NEW i \in 1 .. BufferCount
               PROVE  sent' - mem'[Rotation'[i]] >= BufferCount - i + 1
    BY DEF OldestFirst
  <2>1. CASE i = BufferCount
    BY <1>3, <1>5, <2>1
  <2>2. CASE i # BufferCount
    <3>1. i + 1 \in 1 .. BufferCount /\ Rotation'[i] = Rotation[i + 1]
      BY <1>3, <2>2
    <3>2. Rotation[i + 1] # b
      BY <1>1, <1>3, <2>2, <3>1 DEF EachBufferOnce
    <3>3. mem'[Rotation'[i]] = mem[Rotation[i + 1]] /\ mem[Rotation[i + 1]] \in Int
      BY <1>4, <1>5, <3>1, <3>2
    <3>4. sent - mem[Rotation[i + 1]] >= BufferCount - (i + 1) + 1
      BY <1>1, <3>1 DEF OldestFirst
    <3> QED BY <1>5, <3>3, <3>4
  <2> QED BY <2>1, <2>2
<1>8. OverwriteMargin'
  <2> SUFFICES ASSUME param.buf # NoBuffer
               PROVE  \/ mem'[param.buf] = param.seq
                      \/ mem'[param.buf] >= param.seq + BufferCount
    BY DEF OverwriteMargin
  <2>1. param.buf \in Buffers /\ param.seq \in Int
    BY <1>1 DEF TypeOK, UnsetParam
  <2>2. \/ mem[param.buf] = param.seq
        \/ mem[param.buf] >= param.seq + BufferCount
    BY <1>1 DEF OverwriteMargin
  <2>3. CASE param.buf # b
    BY <1>5, <2>1, <2>2, <2>3
  <2>4. CASE param.buf = b
    <3>1. sent - mem[b] >= BufferCount
      BY <1>1, <1>3 DEF OldestFirst
    <3> QED BY <1>2, <1>5, <2>1, <2>2, <2>4, <3>1
  <2> QED BY <2>3, <2>4
<1> QED
  BY <1>6, <1>7, <1>8

\* Every step preserves the inductive invariant.
LEMMA NextIInv == IInv /\ [Next]_vars => IInv'
<1> SUFFICES ASSUME IInv, [Next]_vars
             PROVE  IInv'
  OBVIOUS
<1>1. TypeOK /\ TypeOK' /\ HeldOnlyInCapture
  BY NextTypeOK DEF IInv
<1>2. QueueTypeOK
  BY <1>1 DEF TypeOK
<1> USE DEF appVars, decodeVars, captureVars, queueVars
<1> SUFFICES HeldOnlyInCapture' /\ EachBufferOnce' /\ OldestFirst' /\ OverwriteMargin'
  BY <1>1 DEF IInv
<1>3. ASSUME UNCHANGED <<queueVars, param>>, HeldOnlyInCapture'
      PROVE  HeldOnlyInCapture' /\ EachBufferOnce' /\ OldestFirst' /\ OverwriteMargin'
  <2>1. Rotation' = Rotation
    BY <1>3 DEF Rotation
  <2> QED BY <1>3, <2>1, UnchangedRotation
<1>4. CASE LoopTest
  BY <1>1, <1>3, <1>4 DEF LoopTest, HeldOnlyInCapture
<1>5. CASE Poll
  BY <1>1, <1>3, <1>5 DEF Poll, HeldOnlyInCapture
<1>6. CASE PollInterrupted
  BY <1>1, <1>3, <1>6 DEF PollInterrupted, HeldOnlyInCapture
<1>7. CASE DequeueFrame
  <2>1. held = NoBuffer /\ done # <<>>
    BY <1>1, <1>7 DEF DequeueFrame, HeldOnlyInCapture, Dqbuf, Readable
  <2>2. Rotation' = Rotation
    <3>1. Rotation = Line(queued, NoBuffer, done, filling)
      BY <2>1 DEF Rotation, Line
    <3>2. Rotation' = Line(queued, Head(done), Tail(done), filling)
      BY <1>7 DEF DequeueFrame, Dqbuf, Rotation, Line
    <3> QED BY <1>2, <2>1, <3>1, <3>2, DequeueKeepsLine DEF QueueTypeOK
  <2>3. EachBufferOnce' /\ OldestFirst'
    BY <1>7, <2>2 DEF DequeueFrame, Dqbuf, IInv, EachBufferOnce, OldestFirst
  <2>4. OverwriteMargin'
    <3>1. CASE flagged[Head(done)]
      BY <1>7, <3>1 DEF DequeueFrame, Dqbuf, IInv, OverwriteMargin
    <3>2. CASE ~flagged[Head(done)]
      BY <1>7, <3>2 DEF DequeueFrame, Dqbuf, OverwriteMargin
    <3> QED BY <3>1, <3>2
  <2>5. HeldOnlyInCapture'
    BY <1>7 DEF DequeueFrame, HeldOnlyInCapture
  <2> QED BY <2>3, <2>4, <2>5
<1>8. CASE RequeueBuffer
  <2>1. held \in Buffers
    BY <1>2, <1>8 DEF RequeueBuffer, Qbuf, QueueTypeOK
  <2>2. Rotation' = Rotation
    <3>1. Rotation = Line(queued, held, done, filling)
      BY DEF Rotation, Line
    <3>2. Rotation' = Line(Append(queued, held), NoBuffer, done, filling)
      BY <1>8 DEF RequeueBuffer, Qbuf, Rotation, Line
    <3> QED BY <1>2, <2>1, <3>1, <3>2, RequeueKeepsLine DEF QueueTypeOK
  <2>3. EachBufferOnce' /\ OldestFirst' /\ OverwriteMargin'
    BY <1>8, <2>2, UnchangedRotation DEF RequeueBuffer, Qbuf
  <2>4. HeldOnlyInCapture'
    BY <1>8 DEF RequeueBuffer, Qbuf, HeldOnlyInCapture
  <2> QED BY <2>3, <2>4
<1>9. CASE CaptureFails
  BY <1>1, <1>3, <1>9 DEF CaptureFails, HeldOnlyInCapture
<1>10. CASE DecodeFrame
  BY <1>1, <1>3, <1>10 DEF DecodeFrame, HeldOnlyInCapture
<1>11. CASE DecodeReturns
  BY <1>1, <1>3, <1>11 DEF DecodeReturns, CountDumped, HeldOnlyInCapture
<1>12. CASE DecodeUnset
  BY <1>1, <1>3, <1>12 DEF DecodeUnset, CountDumped, HeldOnlyInCapture
<1>13. CASE DecodeFaults
  BY <1>1, <1>3, <1>13 DEF DecodeFaults, HeldOnlyInCapture
<1>14. CASE Sleep
  BY <1>1, <1>3, <1>14 DEF Sleep, HeldOnlyInCapture
<1>15. CASE ActOnCancel
  BY <1>1, <1>3, <1>15 DEF ActOnCancel, HeldOnlyInCapture
<1>16. CASE DriverStep
  <2>1. UNCHANGED <<pc, param, held>>
    BY <1>16 DEF DriverStep, Driver, FrameStart, FrameDropped, FrameEnd, QueueFailure
  <2>2. HeldOnlyInCapture'
    BY <1>1, <2>1 DEF HeldOnlyInCapture
  <2>3. CASE FrameStart
    BY <2>1, <2>2, <2>3, FrameStartInv
  <2>4. CASE FrameDropped
    <3>1. Rotation' = Rotation /\ UNCHANGED mem /\ sent' = sent + 1
      BY <2>4 DEF FrameDropped, Rotation
    <3>2. \A i \in 1 .. BufferCount : mem[Rotation[i]] \in Int
      BY <1>1, <1>2, RotationType DEF IInv, EachBufferOnce, QueueTypeOK
    <3>3. OldestFirst'
      BY <1>2, <3>1, <3>2, BufferCountAssumption DEF IInv, OldestFirst, QueueTypeOK
    <3>4. EachBufferOnce' /\ OverwriteMargin'
      BY <2>1, <3>1 DEF IInv, EachBufferOnce, OverwriteMargin
    <3> QED BY <2>2, <3>3, <3>4
  <2>5. CASE FrameEnd
    <3>1. filling \in Buffers
      BY <1>2, <2>5 DEF FrameEnd, QueueTypeOK
    <3>2. Rotation' = Rotation
      <4>1. Rotation = Line(queued, held, done, filling)
        BY DEF Rotation, Line
      <4>2. Rotation' = Line(queued, held, Append(done, filling), NoBuffer)
        BY <2>5 DEF FrameEnd, Rotation, Line
      <4> QED BY <1>2, <3>1, <4>1, <4>2, CompleteKeepsLine DEF QueueTypeOK
    <3> QED BY <2>1, <2>2, <2>5, <3>2, UnchangedRotation DEF FrameEnd
  <2>6. CASE QueueFailure
    <3>1. Rotation' = Rotation /\ UNCHANGED <<mem, sent>>
      BY <2>6 DEF QueueFailure, Rotation
    <3> QED BY <2>1, <2>2, <3>1, UnchangedRotation
  <2> QED BY <1>16, <2>3, <2>4, <2>5, <2>6 DEF DriverStep, Driver
<1>17. CASE Stop
  BY <1>1, <1>3, <1>17 DEF Stop, ForgetThread, CancelThread, HeldOnlyInCapture
<1>18. CASE DecodeGarbage
  BY <1>1, <1>3, <1>18 DEF DecodeGarbage, HeldOnlyInCapture
<1>19. CASE UNCHANGED vars
  BY <1>1, <1>3, <1>19 DEF vars, HeldOnlyInCapture
<1> QED
  BY <1>4, <1>5, <1>6, <1>7, <1>8, <1>9, <1>10, <1>11, <1>12, <1>13, <1>14, <1>15,
     <1>16, <1>17, <1>18, <1>19 DEF Next, Worker

\* The inductive invariant holds in every reachable state.
THEOREM Invariance == Spec => []IInv
BY InitIInv, NextIInv, PTL DEF Spec

\* No buffer is lost from the capture cycle or is in two places of it.
THEOREM BuffersAccounted == Spec => []EachBufferOnce
<1>1. IInv => EachBufferOnce
  BY DEF IInv
<1> QED BY <1>1, Invariance, PTL

\* A frame under decoding is intact or was overwritten by a frame at least
\* BufferCount younger, for every number of buffers.
THEOREM MarginHolds == Spec => []OverwriteMargin
<1>1. IInv => OverwriteMargin
  BY DEF IInv
<1> QED BY <1>1, Invariance, PTL
=============================================================================
