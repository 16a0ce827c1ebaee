-------------------------- MODULE FrameDecodeProofs --------------------------
(***************************************************************************)
(* Type correctness of FrameDecode and its four properties, for every      *)
(* number of frames, quota, interval and range of the counter.             *)
(***************************************************************************)
EXTENDS FrameDecode, SequenceTheorems, TLAPS

\* The worker has left the loop once the quota is used up.
Progress ==
  /\ pc # "ended" => (options.quota = 0 \/ dumped_frame_cnt < options.quota)
  /\ pc = "output" => decodeRet = 0

\* The image just output still is the content of the buffer.
JustOutput == pc = "finish" /\ decodeRet = 0

\* DMA replaces a frame only with a younger one.
ContentNotOlder == \A c \in content : c >= frm_sequence

\* Where the frames are that the library was given.
WhereDecoded ==
  /\ \A f \in decoded \ overtaken : f <= frm_sequence
  /\ depth_buffer \subseteq decoded
  /\ \A i \in 1 .. Len(images) : images[i] \subseteq decoded
  /\ \A f \in decoded : f \in depth_buffer \/ \E i \in 1 .. Len(images) : f \in images[i]
  /\ JustOutput => /\ Len(images) > 0
                   /\ images[Len(images)] = depth_buffer

\* No frame in the buffer is older than one that was output in its place.
BufferYoungest ==
  ~JustOutput => \A i \in 1 .. Len(images) :
                   \A f \in images[i] \ overtaken, g \in depth_buffer : f <= g

\* While the quota lasts, what is decoded in its place was saved before.
SavedFirst ==
  (options.saveRaw /\ WithinQuota) =>
    /\ decoded \ overtaken \subseteq rawFiles
    /\ pc = "decode" => content \cap {frm_sequence} \subseteq rawFiles

\* The images since the last dump are no more than the counter says.
Interval == options.interval % CounterModulus
DumpCount ==
  (options.interval > 0 /\ options.buffer) =>
    sinceDump <= outputed_frame_cnt % Interval

IInv ==
  /\ TypeOK
  /\ Progress
  /\ ContentNotOlder
  /\ WhereDecoded
  /\ BufferYoungest
  /\ ImagesInOrder
  /\ SavedFirst
  /\ RawOfEachImage
  /\ DumpCount

-----------------------------------------------------------------------------
(* Types. *)

\* The types of the options.
LEMMA OptionTypes ==
  ASSUME TypeOK
  PROVE  /\ options.interval \in Intervals /\ options.interval \in Int
         /\ options.quota \in Nat
         /\ options.interval # 0 => Interval \in 1 .. CounterModulus - 1
<1>1. options.interval \in Intervals /\ options.quota \in Quotas
  BY DEF TypeOK, Options
<1>2. options.interval \in Int /\ options.quota \in Nat
  BY <1>1, CounterAssumption, QuotasAssumption
<1>3. options.interval % CounterModulus \in 0 .. CounterModulus - 1
  BY <1>2, CounterAssumption
<1>4. options.interval # 0 => options.interval % CounterModulus # 0
  BY <1>1, CounterAssumption
<1> QED
  BY <1>1, <1>2, <1>3, <1>4, CounterAssumption DEF Interval

\* The initial state satisfies the inductive invariant.
LEMMA InitIInv == Init => IInv
<1> SUFFICES ASSUME Init PROVE IInv
  OBVIOUS
<1>1. options.quota \in Nat
  BY QuotasAssumption DEF Init, Options
<1>2. TypeOK
  <2>1. images \in Seq(SUBSET Numbers) /\ imageFiles \subseteq 1 .. Len(images)
    BY EmptySeq DEF Init
  <2>2. passes \in 0 .. MaxPasses
    BY BoundsAssumption DEF Init
  <2>3. /\ frm_sequence \in Numbers /\ content \subseteq Numbers /\ grayscale \in BOOLEAN
        /\ depth_buffer \subseteq Numbers /\ decoded \subseteq Numbers
        /\ overtaken \subseteq Numbers /\ rawFiles \subseteq Numbers
    BY DEF Init, Numbers
  <2>4. /\ decodeRet \in {0, -1, -EINVAL} /\ m_input_frame_cnt \in Nat /\ sinceDump \in Nat
        /\ dumped_frame_cnt \in 0 .. options.quota
    BY <1>1 DEF Init
  <2>5. /\ options \in Options /\ pc = "idle"
        /\ outputed_frame_cnt \in 0 .. CounterModulus - 1
    BY DEF Init
  <2> QED BY <2>1, <2>2, <2>3, <2>4, <2>5 DEF TypeOK
<1>3. Progress /\ ContentNotOlder
  BY <1>1 DEF Init, Progress, ContentNotOlder
<1>4. Len(images) = 0
  BY EmptySeq DEF Init
<1>5. WhereDecoded /\ BufferYoungest /\ ImagesInOrder
  BY <1>4 DEF Init, WhereDecoded, BufferYoungest, ImagesInOrder, JustOutput
<1>6. SavedFirst /\ RawOfEachImage
  BY DEF Init, SavedFirst, RawOfEachImage
<1>7. DumpCount
  <2> SUFFICES ASSUME options.interval > 0
               PROVE  sinceDump <= outputed_frame_cnt % Interval
    BY DEF DumpCount
  <2>1. Interval \in 1 .. CounterModulus - 1
    BY <1>2, OptionTypes
  <2>2. outputed_frame_cnt \in Nat /\ sinceDump = 0
    BY DEF Init
  <2> QED BY <2>1, <2>2, CounterAssumption
<1> QED
  BY <1>2, <1>3, <1>5, <1>6, <1>7 DEF IInv

\* Every step preserves the types and the progress.
LEMMA NextTypeOK ==
  ASSUME TypeOK, Progress, [Next]_vars
  PROVE  TypeOK' /\ Progress'
<1> USE DEF bufferVars, outputVars, frameVars
<1>1. CASE NextFrame \/ SameFrame \/ GarbageFrame
  <2>1. Call
    BY <1>1 DEF NextFrame, SameFrame, GarbageFrame
  <2>2. passes' \in 0 .. MaxPasses
    BY <2>1, BoundsAssumption DEF Call, TypeOK
  <2>3. frm_sequence' \in Numbers /\ grayscale' \in BOOLEAN /\ content' \subseteq Numbers
    BY <1>1 DEF NextFrame, SameFrame, GarbageFrame, TypeOK, Options, Numbers
  <2> QED BY <2>1, <2>2, <2>3 DEF Call, TypeOK, Progress
<1>2. CASE UnsupportedFrame
  <2>1. passes' \in 0 .. MaxPasses
    BY <1>2, BoundsAssumption DEF UnsupportedFrame, TypeOK
  <2> QED BY <1>2, <2>1 DEF UnsupportedFrame, TypeOK, Progress
<1>11. CASE OverwriteBegins \/ OverwriteEnds
  <2>1. content' \subseteq Numbers
    BY <1>11 DEF OverwriteBegins, OverwriteEnds, TypeOK, Numbers
  <2> QED BY <1>11, <2>1 DEF OverwriteBegins, OverwriteEnds, TypeOK, Progress
<1>3. CASE SaveRaw
  BY <1>3 DEF SaveRaw, TypeOK, Progress
<1>4. CASE NotInitialised
  BY <1>4 DEF NotInitialised, Report, TypeOK, Progress
<1>5. CASE LibraryDecodes
  <2>1. /\ m_input_frame_cnt' \in Nat /\ depth_buffer' \subseteq Numbers
        /\ decoded' \subseteq Numbers /\ overtaken' \subseteq Numbers
    BY <1>5 DEF LibraryDecodes, TypeOK
  <2>2. /\ decodeRet' \in {0, -1} /\ pc' \in {"output", "finish"}
        /\ pc' = "output" => decodeRet' = 0
    BY <1>5 DEF LibraryDecodes, Report
  <2> QED BY <1>5, <2>1, <2>2 DEF LibraryDecodes, Report, TypeOK, Progress
<1>6. CASE DecodeSkipped
  <2>1. m_input_frame_cnt' \in Nat
    BY <1>6 DEF DecodeSkipped, TypeOK
  <2>2. /\ decodeRet' \in {0, -1} /\ pc' \in {"output", "finish"}
        /\ pc' = "output" => decodeRet' = 0
    BY <1>6 DEF DecodeSkipped, Report
  <2> QED BY <1>6, <2>1, <2>2 DEF DecodeSkipped, Report, TypeOK, Progress
<1>7. CASE OutputImage
  <2>1. /\ images' \in Seq(SUBSET Numbers) /\ Len(images') = Len(images) + 1 /\ Len(images) \in Nat
    BY <1>7, AppendProperties, LenProperties DEF OutputImage, TypeOK
  <2>2. imageFiles' \subseteq 1 .. Len(images')
    <3>1. imageFiles' \subseteq imageFiles \cup {Len(images) + 1}
      BY <1>7 DEF OutputImage
    <3>2. imageFiles \subseteq 1 .. Len(images)
      BY DEF TypeOK
    <3> QED BY <2>1, <3>1, <3>2
  <2>3. outputed_frame_cnt' \in 0 .. CounterModulus - 1
    BY <1>7, CounterAssumption DEF OutputImage, TypeOK
  <2>4. sinceDump' \in Nat
    BY <1>7 DEF OutputImage, TypeOK
  <2> QED BY <1>7, <2>1, <2>2, <2>3, <2>4 DEF OutputImage, TypeOK, Progress
<1>8. CASE Finish
  <2>1. options.quota \in Nat
    BY OptionTypes
  <2>2. /\ dumped_frame_cnt' \in 0 .. options.quota /\ pc' \in {"idle", "ended"}
        /\ pc' # "ended" => (options.quota = 0 \/ dumped_frame_cnt' < options.quota)
    BY <1>8, <2>1 DEF Finish, CountCall, TypeOK, Progress
  <2>3. depth_buffer' \subseteq Numbers
    BY <1>8 DEF Finish, TypeOK
  <2> QED BY <1>8, <2>2, <2>3 DEF Finish, TypeOK, Progress
<1>9. CASE Cancelled
  BY <1>9 DEF Cancelled, TypeOK, Progress
<1>10. CASE UNCHANGED vars
  BY <1>10 DEF vars, TypeOK, Progress
<1> QED
  BY <1>1, <1>2, <1>3, <1>4, <1>5, <1>6, <1>7, <1>8, <1>9, <1>10, <1>11 DEF Next

\* Every reachable state is well typed.
THEOREM TypeCorrect == Spec => []TypeOK
<1>1. Init => TypeOK /\ Progress
  BY InitIInv DEF IInv
<1>2. TypeOK /\ Progress /\ [Next]_vars => TypeOK' /\ Progress'
  BY NextTypeOK
<1> QED
  BY <1>1, <1>2, PTL DEF Spec

-----------------------------------------------------------------------------
(* The four properties. *)

\* The steps that touch neither the buffer nor the images.
Entry == NextFrame \/ SameFrame \/ GarbageFrame
Overwrite == OverwriteBegins \/ OverwriteEnds
Quiet == Entry \/ UnsupportedFrame \/ Overwrite \/ SaveRaw \/ NotInitialised \/ DecodeSkipped
           \/ Cancelled \/ UNCHANGED vars

\* What they leave alone.
LEMMA QuietSteps ==
  ASSUME IInv, Quiet
  PROVE  /\ UNCHANGED <<options, depth_buffer, decoded, overtaken, images, imageFiles,
                        outputed_frame_cnt, sinceDump, dumped_frame_cnt>>
         /\ (~JustOutput /\ ~JustOutput') \/ UNCHANGED <<pc, decodeRet>>
         /\ frm_sequence \in Int /\ frm_sequence' \in Int /\ frm_sequence <= frm_sequence'
<1> USE DEF bufferVars, outputVars, frameVars, Quiet, Entry, Overwrite
<1>1. UNCHANGED <<options, depth_buffer, decoded, overtaken, images, imageFiles,
                  outputed_frame_cnt, sinceDump, dumped_frame_cnt>>
  BY DEF NextFrame, SameFrame, GarbageFrame, Call, UnsupportedFrame, OverwriteBegins,
    OverwriteEnds, SaveRaw, NotInitialised, DecodeSkipped, Cancelled, Report, vars
<1>2. (~JustOutput /\ ~JustOutput') \/ UNCHANGED <<pc, decodeRet>>
  BY DEF NextFrame, SameFrame, GarbageFrame, Call, UnsupportedFrame, OverwriteBegins,
    OverwriteEnds, SaveRaw, NotInitialised, DecodeSkipped, Cancelled, Report, vars, JustOutput,
    EINVAL
<1>3. frm_sequence \in Int
  BY DEF IInv, TypeOK, Frames, Numbers
<1>4. frm_sequence' \in Int /\ frm_sequence <= frm_sequence'
  <2>1. CASE NextFrame
    BY <1>3, <2>1 DEF NextFrame, Frames
  <2>2. CASE ~NextFrame
    <3>1. frm_sequence' = frm_sequence
      BY <2>2 DEF SameFrame, GarbageFrame, UnsupportedFrame, OverwriteBegins, OverwriteEnds,
        SaveRaw, NotInitialised, DecodeSkipped, Cancelled, Report, vars
    <3> QED BY <1>3, <3>1
  <2> QED BY <2>1, <2>2
<1> QED
  BY <1>1, <1>2, <1>3, <1>4

\* What the library adds to the buffer is what the capture buffer holds: the
\* frame in param, or what DMA put in its place.
LEMMA LibraryStep ==
  ASSUME IInv, LibraryDecodes
  PROVE  /\ \/ UNCHANGED <<depth_buffer, decoded, overtaken>>
            \/ /\ depth_buffer' = depth_buffer \cup content
               /\ decoded' = decoded \cup content
               /\ overtaken' = overtaken \cup (content \ {frm_sequence})
         /\ UNCHANGED <<images, frm_sequence>> /\ frm_sequence \in Int
         /\ ~JustOutput /\ ~JustOutput'
BY DEF LibraryDecodes, Report, JustOutput, outputVars, frameVars, IInv, TypeOK, Frames, Numbers

\* An image is what the buffer holds.
LEMMA OutputStep ==
  ASSUME IInv, OutputImage
  PROVE  /\ Len(images) \in Nat /\ Len(images') = Len(images) + 1
         /\ \A i \in 1 .. Len(images) : images'[i] = images[i]
         /\ images'[Len(images')] = depth_buffer
         /\ UNCHANGED <<depth_buffer, decoded, overtaken, frm_sequence>>
         /\ ~JustOutput /\ JustOutput'
<1>1. images \in Seq(SUBSET Numbers) /\ depth_buffer \in SUBSET Numbers
  BY DEF IInv, TypeOK
<1>2. images' = Append(images, depth_buffer)
  BY DEF OutputImage
<1>3. /\ Len(images) \in Nat /\ Len(images') = Len(images) + 1
      /\ \A i \in 1 .. Len(images) : images'[i] = images[i]
      /\ images'[Len(images')] = depth_buffer
  BY <1>1, <1>2, AppendProperties, LenProperties
<1> QED
  BY <1>3 DEF OutputImage, IInv, Progress, JustOutput, bufferVars, frameVars

\* After an image the buffer is empty.
LEMMA FinishStep ==
  ASSUME IInv, Finish
  PROVE  /\ depth_buffer' = IF JustOutput THEN {} ELSE depth_buffer
         /\ UNCHANGED <<options, decoded, overtaken, images, imageFiles, frm_sequence, rawFiles,
                        outputed_frame_cnt, sinceDump>>
         /\ ~JustOutput' /\ pc' # "decode"
BY DEF Finish, CountCall, JustOutput, outputVars, frameVars

\* A capture buffer is overwritten from front to back, with younger frames.
LEMMA NextContent ==
  ASSUME IInv, Next \/ UNCHANGED vars
  PROVE  ContentNotOlder'
<1>1. /\ ContentNotOlder /\ content \subseteq Numbers /\ frm_sequence \in Numbers
      /\ BufferCount \in Nat \ {0}
  BY BufferCountAssumption DEF IInv, TypeOK
<1>2. CASE NextFrame
  BY <1>2 DEF NextFrame, ContentNotOlder, Frames
<1>3. CASE OverwriteBegins
  <2>1. frm_sequence' = frm_sequence
    BY <1>3 DEF OverwriteBegins
  <2>2. PICK old \in content, new \in Frames :
          new >= old + BufferCount /\ content' = {old, new}
    BY <1>3 DEF OverwriteBegins
  <2>3. old >= frm_sequence /\ new >= frm_sequence
    BY <1>1, <2>2 DEF ContentNotOlder, Numbers, Frames
  <2> QED BY <2>1, <2>2, <2>3 DEF ContentNotOlder
<1>4. CASE OverwriteEnds
  <2>1. frm_sequence' = frm_sequence /\ content' \subseteq content
    BY <1>4 DEF OverwriteEnds
  <2> QED BY <1>1, <2>1 DEF ContentNotOlder
<1>5. CASE ~(NextFrame \/ OverwriteBegins \/ OverwriteEnds)
  <2>1. UNCHANGED <<frm_sequence, content>>
    BY <1>5 DEF Next, SameFrame, GarbageFrame, UnsupportedFrame, SaveRaw, NotInitialised,
      LibraryDecodes, DecodeSkipped, OutputImage, Finish, Cancelled, Report, vars, frameVars
  <2> QED BY <1>1, <2>1 DEF ContentNotOlder
<1> QED
  BY <1>2, <1>3, <1>4, <1>5

\* Every step preserves what is known of the frames that were decoded.
LEMMA NextWhere ==
  ASSUME IInv, Next \/ UNCHANGED vars
  PROVE  WhereDecoded'
<1>1. WhereDecoded /\ decoded \subseteq Int
  BY DEF IInv, TypeOK, Frames, Numbers
<1>2. CASE Quiet
  <2>1. UNCHANGED <<depth_buffer, decoded, overtaken, images>> /\ (JustOutput' => JustOutput)
    BY <1>2, QuietSteps DEF JustOutput
  <2>2. \A f \in decoded' \ overtaken' : f <= frm_sequence'
    <3>1. frm_sequence \in Int /\ frm_sequence' \in Int /\ frm_sequence <= frm_sequence'
      BY <1>2, QuietSteps
    <3>2. \A f \in decoded \ overtaken : f \in Int /\ f <= frm_sequence
      BY <1>1 DEF WhereDecoded
    <3> QED BY <2>1, <3>1, <3>2
  <2> QED BY <1>1, <2>1, <2>2 DEF WhereDecoded
<1>3. CASE LibraryDecodes
  <2>1. CASE UNCHANGED <<depth_buffer, decoded, overtaken>>
    BY <1>1, <1>3, <2>1, LibraryStep DEF WhereDecoded
  <2>2. CASE /\ depth_buffer' = depth_buffer \cup content
             /\ decoded' = decoded \cup content
             /\ overtaken' = overtaken \cup (content \ {frm_sequence})
    <3>1. \A f \in decoded' \ overtaken' : f <= frm_sequence'
      <4>1. frm_sequence' = frm_sequence /\ frm_sequence \in Int
        BY <1>3, LibraryStep
      <4> QED BY <1>1, <2>2, <4>1 DEF WhereDecoded
    <3>2. images' = images /\ ~JustOutput'
      BY <1>3, LibraryStep
    <3> QED BY <1>1, <2>2, <3>1, <3>2 DEF WhereDecoded
  <2> QED BY <1>3, <2>1, <2>2, LibraryStep
<1>4. CASE OutputImage
  <2>1. \A i \in 1 .. Len(images') : i \in 1 .. Len(images) \/ i = Len(images')
    BY <1>4, OutputStep
  <2>2. \A i \in 1 .. Len(images) : i \in 1 .. Len(images')
    BY <1>4, OutputStep
  <2>3. Len(images') > 0
    BY <1>4, OutputStep
  <2> QED BY <1>1, <1>4, <2>1, <2>2, <2>3, OutputStep DEF WhereDecoded
<1>5. CASE Finish
  <2>1. JustOutput => /\ Len(images) \in 1 .. Len(images)
                      /\ images[Len(images)] = depth_buffer
    <3>1. Len(images) \in Nat
      BY LenProperties DEF IInv, TypeOK
    <3> QED BY <1>1, <3>1 DEF WhereDecoded
  <2> QED BY <1>1, <1>5, <2>1, FinishStep DEF WhereDecoded
<1> QED
  BY <1>2, <1>3, <1>4, <1>5 DEF Next, Quiet, Entry, Overwrite

\* Every step keeps the images in order.
LEMMA NextOrder ==
  ASSUME IInv, Next \/ UNCHANGED vars
  PROVE  BufferYoungest' /\ ImagesInOrder'
<1>1. WhereDecoded /\ BufferYoungest /\ ImagesInOrder
  BY DEF IInv
<1>2. CASE Quiet
  BY <1>1, <1>2, QuietSteps DEF BufferYoungest, ImagesInOrder, JustOutput
<1>3. CASE LibraryDecodes
  <2>1. /\ overtaken \subseteq overtaken' /\ images' = images
        /\ depth_buffer' \subseteq depth_buffer \cup content
    BY <1>3, LibraryStep
  <2>2. \A i \in 1 .. Len(images) : \A f \in images[i] \ overtaken, g \in content : f <= g
    <3>1. \A f \in decoded \ overtaken : f \in Int /\ f <= frm_sequence
      BY <1>1 DEF WhereDecoded, IInv, TypeOK, Numbers, Frames
    <3>2. \A g \in content : g \in Int /\ frm_sequence <= g
      BY DEF IInv, ContentNotOlder, TypeOK, Numbers, Frames
    <3>3. \A i \in 1 .. Len(images) : images[i] \subseteq decoded
      BY <1>1 DEF WhereDecoded
    <3>4. frm_sequence \in Int
      BY <1>3, LibraryStep
    <3>5. \A f \in decoded \ overtaken, g \in content : f <= g
      BY <3>1, <3>2, <3>4
    <3> QED BY <3>3, <3>5
  <2>3. ImagesInOrder'
    BY <1>1, <2>1 DEF ImagesInOrder
  <2>4. BufferYoungest'
    BY <1>1, <1>3, <2>1, <2>2, LibraryStep DEF BufferYoungest
  <2> QED BY <2>3, <2>4
<1>4. CASE OutputImage
  <2>1. \A i, j \in 1 .. Len(images') :
           i < j => /\ i \in 1 .. Len(images)
                    /\ j \in 1 .. Len(images) \/ j = Len(images')
    BY <1>4, OutputStep
  <2>2. \A i \in 1 .. Len(images) : \A f \in images[i] \ overtaken, g \in depth_buffer : f <= g
    BY <1>1, <1>4, OutputStep DEF BufferYoungest
  <2>3. ImagesInOrder'
    BY <1>1, <1>4, <2>1, <2>2, OutputStep DEF ImagesInOrder
  <2> QED BY <1>4, <2>3, OutputStep DEF BufferYoungest
<1>5. CASE Finish
  BY <1>1, <1>5, FinishStep DEF BufferYoungest, ImagesInOrder
<1> QED
  BY <1>2, <1>3, <1>4, <1>5 DEF Next, Quiet, Entry, Overwrite

\* The quota does not come back.
LEMMA QuotaMonotonic ==
  ASSUME IInv, Next \/ UNCHANGED vars
  PROVE  (WithinQuota' => WithinQuota) /\ options' = options
<1>1. dumped_frame_cnt \in Nat /\ options.quota \in Nat
  BY OptionTypes DEF IInv, TypeOK
<1>2. options' = options
  BY DEF Next, NextFrame, SameFrame, GarbageFrame, Call, UnsupportedFrame, OverwriteBegins,
    OverwriteEnds, SaveRaw, NotInitialised, LibraryDecodes, DecodeSkipped, OutputImage, Finish,
    Cancelled, Report, vars
<1>3. dumped_frame_cnt' \in {dumped_frame_cnt, dumped_frame_cnt + 1}
  BY DEF Next, NextFrame, SameFrame, GarbageFrame, Call, UnsupportedFrame, OverwriteBegins,
    OverwriteEnds, SaveRaw, NotInitialised, LibraryDecodes, DecodeSkipped, OutputImage, Finish,
    CountCall, Cancelled, Report, vars
<1> QED
  BY <1>1, <1>2, <1>3 DEF WithinQuota

\* Every step keeps the raw frames ahead of the images.
LEMMA NextSaved ==
  ASSUME IInv, Next \/ UNCHANGED vars
  PROVE  SavedFirst' /\ RawOfEachImage'
<1>1. SavedFirst /\ RawOfEachImage /\ WhereDecoded
  BY DEF IInv
<1>2. (WithinQuota' => WithinQuota) /\ options' = options
  BY QuotaMonotonic
<1>3. CASE Quiet
  <2>1. rawFiles \subseteq rawFiles'
    BY <1>3 DEF Quiet, Entry, Overwrite, NextFrame, SameFrame, GarbageFrame, Call,
      UnsupportedFrame, OverwriteBegins, OverwriteEnds, SaveRaw, NotInitialised, DecodeSkipped,
      Cancelled, Report, vars
  <2>2. RawOfEachImage'
    BY <1>1, <1>2, <1>3, <2>1, QuietSteps DEF RawOfEachImage
  <2>3. SavedFirst'
    <3> SUFFICES ASSUME options.saveRaw, WithinQuota, WithinQuota'
                 PROVE  /\ decoded' \ overtaken' \subseteq rawFiles'
                        /\ pc' = "decode" => content' \cap {frm_sequence'} \subseteq rawFiles'
      BY <1>2 DEF SavedFirst
    <3>1. decoded' \ overtaken' \subseteq rawFiles'
      BY <1>1, <1>3, <2>1, QuietSteps DEF SavedFirst
    <3>2. CASE SaveRaw
      BY <3>1, <3>2 DEF SaveRaw, frameVars
    <3>3. CASE Overwrite
      <4>1. /\ pc' = pc /\ UNCHANGED <<frm_sequence, rawFiles>>
            /\ content' \cap {frm_sequence} \subseteq content
        <5>1. CASE OverwriteBegins
          <6>1. PICK old \in content, new \in Frames :
                  new >= old + BufferCount /\ content' = {old, new}
            BY <5>1 DEF OverwriteBegins
          <6>2. new # frm_sequence
            <7>1. old \in Int /\ frm_sequence \in Int /\ old >= frm_sequence /\ new \in Int
              BY <6>1 DEF IInv, TypeOK, ContentNotOlder, Numbers, Frames
            <7> QED BY <6>1, <7>1, BufferCountAssumption
          <6> QED BY <5>1, <6>1, <6>2 DEF OverwriteBegins
        <5>2. CASE OverwriteEnds
          BY <5>2 DEF OverwriteEnds
        <5> QED BY <3>3, <5>1, <5>2 DEF Overwrite
      <4> QED BY <1>1, <3>1, <4>1 DEF SavedFirst
    <3>4. CASE ~(SaveRaw \/ Overwrite)
      <4>1. pc' = "decode" => pc = "decode" /\ UNCHANGED <<frm_sequence, content, rawFiles>>
        BY <1>3, <3>4 DEF Quiet, Entry, NextFrame, SameFrame, GarbageFrame, Call,
          UnsupportedFrame, NotInitialised, DecodeSkipped, Cancelled, Report, vars, frameVars
      <4> QED BY <1>1, <3>1, <4>1 DEF SavedFirst
    <3> QED BY <3>2, <3>3, <3>4
  <2> QED BY <2>2, <2>3
<1>4. CASE LibraryDecodes
  <2>1. /\ UNCHANGED <<rawFiles, imageFiles, images>> /\ pc = "decode" /\ pc' # "decode"
        /\ decoded' \ overtaken' \subseteq (decoded \ overtaken) \cup (content \cap {frm_sequence})
        /\ overtaken \subseteq overtaken'
    BY <1>4 DEF LibraryDecodes, Report, outputVars
  <2> QED BY <1>1, <1>2, <2>1 DEF SavedFirst, RawOfEachImage
<1>5. CASE OutputImage
  <2>1. UNCHANGED <<rawFiles, overtaken, decoded>> /\ pc' # "decode"
    BY <1>5 DEF OutputImage, bufferVars
  <2>2. imageFiles' = imageFiles \/ (WithinQuota /\ imageFiles' = imageFiles \cup {Len(images')})
    <3>1. Len(images') = Len(images) + 1
      BY <1>5, OutputStep
    <3> QED BY <1>5, <3>1 DEF OutputImage
  <2>3. \A i \in imageFiles : images'[i] = images[i]
    BY <1>5, OutputStep DEF IInv, TypeOK
  <2>4. depth_buffer \subseteq decoded
    BY <1>1 DEF WhereDecoded
  <2>5. SavedFirst'
    BY <1>1, <1>2, <2>1 DEF SavedFirst
  <2>6. RawOfEachImage'
    BY <1>1, <1>2, <1>5, <2>1, <2>2, <2>3, <2>4, OutputStep DEF SavedFirst, RawOfEachImage
  <2> QED BY <2>5, <2>6
<1>6. CASE Finish
  BY <1>1, <1>2, <1>6, FinishStep DEF SavedFirst, RawOfEachImage
<1> QED
  BY <1>3, <1>4, <1>5, <1>6 DEF Next, Quiet, Entry, Overwrite

\* A remainder grows by one until it is zero again.
LEMMA NextRemainder ==
  ASSUME NEW c \in Nat, NEW n \in Nat \ {0}, (c + 1) % n # 0
  PROVE  (c + 1) % n = (c % n) + 1
<1> DEFINE q == c \div n
           r == c % n
<1>1. q \in Int /\ r \in 0 .. n - 1 /\ c = q * n + r
  OBVIOUS
<1> HIDE DEF q, r
<1>2. CASE r = n - 1
  <2>1. c + 1 = n * (q + 1) + 0
    BY <1>1, <1>2
  <2>2. (c + 1) % n = 0
    BY <1>1, <2>1
  <2> QED BY <2>2
<1>3. CASE r # n - 1
  <2>1. c + 1 = n * q + (r + 1) /\ r + 1 \in 0 .. n - 1
    BY <1>1, <1>3
  <2>2. (c + 1) % n = r + 1
    BY <1>1, <2>1
  <2> QED BY <2>2 DEF r
<1> QED
  BY <1>2, <1>3

\* The counter's range ends with a dump, so a wrap does no harm.
LEMMA NextDump ==
  ASSUME IInv, Next \/ UNCHANGED vars
  PROVE  DumpCount'
<1>1. options' = options
  BY QuotaMonotonic
<1>2. TypeOK /\ DumpCount
  BY DEF IInv
<1>3. CASE ~OutputImage
  <2>1. UNCHANGED <<sinceDump, outputed_frame_cnt>>
    BY <1>3 DEF Next, NextFrame, SameFrame, GarbageFrame, Call, UnsupportedFrame,
      OverwriteBegins, OverwriteEnds, SaveRaw, NotInitialised, LibraryDecodes, DecodeSkipped,
      Finish, Cancelled, Report, vars, outputVars
  <2> QED BY <1>1, <1>2, <2>1 DEF DumpCount, Interval
<1>4. CASE OutputImage /\ grayscale
  BY <1>1, <1>2, <1>4 DEF OutputImage, DumpCount, Interval
<1>5. CASE OutputImage /\ ~grayscale
  <2> SUFFICES ASSUME options.interval > 0, options.buffer
               PROVE  sinceDump' <= outputed_frame_cnt' % Interval
    BY <1>1 DEF DumpCount, Interval
  <2> DEFINE c == outputed_frame_cnt
             n == Interval
             count == (c + 1) % CounterModulus
             since == sinceDump
  <2>1. options.interval \in Int /\ n \in Nat \ {0}
    BY <1>2, OptionTypes
  <2>2. /\ c \in 0 .. CounterModulus - 1 /\ CounterModulus \in Nat \ {0}
        /\ since \in Nat /\ since <= c % n
    BY <1>2, CounterAssumption DEF TypeOK, DumpCount
  <2>3. /\ c' = count
        /\ since' = IF count % n = 0 THEN 0 ELSE since + 1
    BY <1>5, <2>1 DEF OutputImage, DumpDue, Interval
  <2>4. count = 0 \/ count = c + 1
    BY <2>2
  <2> HIDE DEF c, n, count, since
  <2>5. count % n \in Nat
    BY <2>1, <2>2, <2>4
  <2>6. since' <= count % n
    <3>1. CASE count % n = 0
      BY <2>3, <3>1
    <3>2. CASE count % n # 0
      <4>1. count # 0
        BY <2>1, <3>2
      <4>2. count = c + 1
        BY <2>4, <4>1
      <4>3. c \in Nat
        BY <2>2
      <4>4. count % n = (c % n) + 1
        BY <2>1, <3>2, <4>2, <4>3, NextRemainder
      <4>5. c % n \in Nat
        BY <2>1, <4>3
      <4> QED BY <2>2, <2>3, <3>2, <4>4, <4>5
    <3> QED BY <3>1, <3>2
  <2> QED BY <2>3, <2>6 DEF c, n, since
<1> QED
  BY <1>3, <1>4, <1>5

\* The inductive invariant holds in every reachable state.
THEOREM Invariance == Spec => []IInv
<1>1. IInv /\ [Next]_vars => IInv'
  BY NextTypeOK, NextContent, NextWhere, NextOrder, NextSaved, NextDump DEF IInv
<1> QED
  BY <1>1, InitIInv, PTL DEF Spec

\* Every frame that was decoded is in an image or still in the buffer.
THEOREM FramesKept == Spec => []NothingDiscarded
<1>1. IInv => NothingDiscarded
  <2> SUFFICES ASSUME IInv
               PROVE  decoded = depth_buffer \cup UNION {images[i] : i \in 1 .. Len(images)}
    BY DEF NothingDiscarded
  <2>1. decoded \subseteq depth_buffer \cup UNION {images[i] : i \in 1 .. Len(images)}
    BY DEF IInv, WhereDecoded
  <2>2. depth_buffer \cup UNION {images[i] : i \in 1 .. Len(images)} \subseteq decoded
    BY DEF IInv, WhereDecoded
  <2> QED BY <2>1, <2>2
<1> QED
  BY <1>1, Invariance, PTL

\* The images follow one another in the order of the frames, but for frames that
\* DMA put in the place of the one that was being decoded.
THEOREM ImagesFollow == Spec => []ImagesInOrder
<1>1. IInv => ImagesInOrder
  BY DEF IInv
<1> QED
  BY <1>1, Invariance, PTL

\* Every frame of a saved image was saved raw, but for frames that DMA put in
\* the place of one that was saved before.
THEOREM RawSaved == Spec => []RawOfEachImage
<1>1. IInv => RawOfEachImage
  BY DEF IInv
<1> QED
  BY <1>1, Invariance, PTL

\* At least every n-th depth image is logged, whatever the counter's range and
\* its first value.
THEOREM DumpsSpaced == Spec => []DumpSpacing
<1>1. IInv => DumpSpacing
  <2> SUFFICES ASSUME IInv, options.interval > 0, options.buffer
               PROVE  sinceDump < options.interval
    BY DEF DumpSpacing
  <2>1. /\ options.interval \in Int /\ Interval \in 1 .. CounterModulus - 1
        /\ options.interval # 0
    BY OptionTypes DEF IInv
  <2>2. Interval <= options.interval
    <3> DEFINE n == options.interval
    <3>1. n \in Nat /\ CounterModulus \in Nat \ {0}
      BY <2>1, CounterAssumption
    <3> HIDE DEF n
    <3>2. n % CounterModulus <= n
      BY <3>1
    <3> QED BY <3>2 DEF n, Interval
  <2>3. sinceDump \in Nat /\ outputed_frame_cnt \in Nat
    BY DEF IInv, TypeOK
  <2>4. sinceDump <= outputed_frame_cnt % Interval
    BY DEF IInv, DumpCount
  <2>5. outputed_frame_cnt % Interval \in 0 .. Interval - 1
    BY <2>1, <2>3, CounterAssumption
  <2> QED BY <2>1, <2>2, <2>3, <2>4, <2>5, CounterAssumption
<1> QED
  BY <1>1, Invariance, PTL

-----------------------------------------------------------------------------
(* ImagesInOrder lets two images share a frame that was decoded again.  It   *)
(* takes that, or DMA ahead of the decoder: without them no frame is in two  *)
(* images.                                                                   *)

\* No frame is given to frame_decode again (FrameWorker: no ERROR buffer).
FreshFrame == (pc = "idle" /\ pc' = "saveRaw") => frm_sequence' > frm_sequence

ImagesDisjoint ==
  \A i, j \in 1 .. Len(images) : i < j => images[i] \cap images[j] \subseteq overtaken

\* The frame to be decoded is new, and the buffer has nothing of an image before.
DisjointInv ==
  /\ ImagesDisjoint
  /\ pc \in {"saveRaw", "decode"} => frm_sequence \notin decoded \ overtaken
  /\ ~JustOutput => \A i \in 1 .. Len(images) : images[i] \cap depth_buffer \subseteq overtaken

\* Every step of a worker that meets no ERROR buffer preserves them.
LEMMA NextDisjointInv ==
  ASSUME IInv, DisjointInv, Next \/ UNCHANGED vars, FreshFrame \/ UNCHANGED vars
  PROVE  DisjointInv'
<1>1. \A i \in 1 .. Len(images) : images[i] \subseteq decoded
  BY DEF IInv, WhereDecoded
<1>2. CASE Quiet
  <2>1. pc' \in {"saveRaw", "decode"} => frm_sequence' \notin decoded' \ overtaken'
    <3>1. CASE Entry
      <4>1. frm_sequence' > frm_sequence /\ frm_sequence \in Int /\ frm_sequence' \in Int
        BY <1>2, <3>1, QuietSteps DEF FreshFrame, Entry, NextFrame, SameFrame, GarbageFrame,
          Call, vars
      <4>2. \A f \in decoded \ overtaken : f \in Int /\ f <= frm_sequence
        BY DEF IInv, TypeOK, Frames, Numbers, WhereDecoded
      <4>3. decoded' = decoded /\ overtaken' = overtaken
        BY <1>2, QuietSteps
      <4> QED BY <4>1, <4>2, <4>3
    <3>2. CASE ~Entry
      <4>1. pc' \in {"saveRaw", "decode"} => pc \in {"saveRaw", "decode"}
        BY <1>2, <3>2 DEF Quiet, Overwrite, UnsupportedFrame, OverwriteBegins, OverwriteEnds,
          SaveRaw, NotInitialised, DecodeSkipped, Cancelled, Report, vars
      <4>2. frm_sequence' = frm_sequence
        BY <1>2, <3>2 DEF Quiet, Overwrite, UnsupportedFrame, OverwriteBegins, OverwriteEnds,
          SaveRaw, NotInitialised, DecodeSkipped, Cancelled, Report, vars, frameVars
      <4>3. decoded' = decoded /\ overtaken' = overtaken
        BY <1>2, QuietSteps
      <4> QED BY <4>1, <4>2, <4>3 DEF DisjointInv
    <3> QED BY <3>1, <3>2
  <2>2. UNCHANGED <<images, depth_buffer, overtaken>> /\ (JustOutput => JustOutput')
    BY <1>2, QuietSteps DEF JustOutput
  <2> QED BY <2>1, <2>2 DEF DisjointInv, ImagesDisjoint
<1>3. CASE LibraryDecodes
  <2>1. /\ images' = images /\ ~JustOutput
        /\ depth_buffer' = depth_buffer \/ depth_buffer' = depth_buffer \cup content
        /\ overtaken \subseteq overtaken'
        /\ content \ {frm_sequence} \subseteq overtaken' \/ depth_buffer' = depth_buffer
    BY <1>3, LibraryStep
  <2>2. pc = "decode" /\ pc' \notin {"saveRaw", "decode"}
    BY <1>3 DEF LibraryDecodes, Report
  <2>3. \A i \in 1 .. Len(images) : images[i] \cap depth_buffer' \subseteq overtaken'
    <3> SUFFICES ASSUME NEW i \in 1 .. Len(images), NEW f \in images[i] \cap depth_buffer'
                 PROVE  f \in overtaken'
      OBVIOUS
    <3>1. CASE f \in depth_buffer
      BY <2>1, <3>1 DEF DisjointInv
    <3>2. CASE f \notin depth_buffer
      <4>1. f \in content /\ content \ {frm_sequence} \subseteq overtaken'
        BY <2>1, <3>2
      <4>2. CASE f = frm_sequence
        BY <1>1, <2>1, <2>2, <4>2 DEF DisjointInv
      <4> QED BY <4>1, <4>2
    <3> QED BY <3>1, <3>2
  <2>4. ImagesDisjoint'
    BY <2>1 DEF DisjointInv, ImagesDisjoint
  <2> QED BY <2>1, <2>2, <2>3, <2>4 DEF DisjointInv
<1>4. CASE OutputImage
  <2>1. \A i, j \in 1 .. Len(images') :
           i < j => /\ i \in 1 .. Len(images)
                    /\ j \in 1 .. Len(images) \/ j = Len(images')
    BY <1>4, OutputStep
  <2>2. \A i \in 1 .. Len(images) : images[i] \cap depth_buffer \subseteq overtaken
    BY <1>4, OutputStep DEF DisjointInv
  <2>3. ImagesDisjoint'
    BY <1>4, <2>1, <2>2, OutputStep DEF DisjointInv, ImagesDisjoint
  <2>4. pc' \notin {"saveRaw", "decode"}
    BY <1>4 DEF OutputImage
  <2> QED BY <1>4, <2>3, <2>4, OutputStep DEF DisjointInv
<1>5. CASE Finish
  <2>1. pc' \notin {"saveRaw", "decode"}
    BY <1>5 DEF Finish, CountCall
  <2> QED BY <1>5, <2>1, FinishStep DEF DisjointInv, ImagesDisjoint
<1> QED
  BY <1>2, <1>3, <1>4, <1>5 DEF Next, Quiet, Entry, Overwrite

\* A frame that is decoded once, in its place, contributes to one image at most.
THEOREM ImagesDisjointWhenFresh == Spec /\ [][FreshFrame]_vars => []ImagesDisjoint
<1>1. Init => DisjointInv
  <2>1. Init => Len(images) = 0
    BY EmptySeq DEF Init
  <2> QED BY <2>1 DEF Init, DisjointInv, ImagesDisjoint
<1>2. IInv /\ DisjointInv /\ [Next]_vars /\ [FreshFrame]_vars => DisjointInv'
  BY NextDisjointInv
<1>3. DisjointInv => ImagesDisjoint
  BY DEF DisjointInv
<1> QED
  BY <1>1, <1>2, <1>3, Invariance, PTL DEF Spec

=============================================================================
