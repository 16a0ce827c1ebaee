-------------------------- MODULE FrameLossChecker --------------------------
(***************************************************************************)
(* ADAPS_DTOF::init_frame_checker and check_frame_loss: the count of lost  *)
(* frames the decoder keeps from the frame id in byte 2 of every raw       *)
(* frame.  The id counts frames modulo IdModulus (256 in the code).        *)
(***************************************************************************)
EXTENDS Integers

CONSTANT IdModulus

ASSUME IdModulusAssumption == IdModulus \in Nat \ {0}

FrameIds == 0 .. IdModulus - 1

LossCheckers ==
  [last_id : FrameIds, first_frame : BOOLEAN, total_frames : Nat, dropped_frames : Nat]

InitFrameChecker ==
  [last_id |-> 0, first_frame |-> TRUE, total_frames |-> 0, dropped_frames |-> 0]

\* Fault: the wrap-around of the id is taken one too short.
LostCount_WrapShort(checker, current_id) ==
  LET expected_id == (checker.last_id + 1) % IdModulus
  IN  IF checker.first_frame \/ current_id = expected_id THEN 0
      ELSE IF current_id > expected_id THEN current_id - expected_id
      ELSE (IdModulus - 1) - (expected_id - current_id)

\* The frames lost before the frame with id current_id: the value returned.
LostCount(checker, current_id) ==
  LET expected_id == (checker.last_id + 1) % IdModulus
  IN  IF checker.first_frame \/ current_id = expected_id THEN 0
      ELSE IF current_id > expected_id THEN current_id - expected_id
      ELSE IdModulus - (expected_id - current_id)

CheckFrameLoss(checker, current_id) ==
  [last_id        |-> current_id,
   first_frame    |-> FALSE,
   total_frames   |-> checker.total_frames + 1,
   dropped_frames |-> checker.dropped_frames + LostCount(checker, current_id)]
=============================================================================
