----------------------------- MODULE FrameFeed ------------------------------
(***************************************************************************)
(* What the capture path promises to the decoder, with buffers, queues and *)
(* threads hidden: frames may be lost, but a frame is decoded only after   *)
(* the sensor emitted it, and frames are decoded in the order of their     *)
(* numbers.  Decoding the last frame once more is a stuttering step here.  *)
(***************************************************************************)
EXTENDS Integers

VARIABLES
  sent,   \* number of frames emitted; they are numbered 0 .. sent - 1
  last    \* the number of the last frame decoded, -1 before the first

Init ==
  /\ sent = 0
  /\ last = -1

Emit ==
  /\ sent' = sent + 1
  /\ UNCHANGED last

Deliver ==
  /\ \E s \in last + 1 .. sent - 1 : last' = s
  /\ UNCHANGED sent

Next == Emit \/ Deliver

Spec == Init /\ [][Next]_<<sent, last>>
=============================================================================
