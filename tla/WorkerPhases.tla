---------------------------- MODULE WorkerPhases ----------------------------
(***************************************************************************)
(* What the frame processing thread looks like to the rest of the program: *)
(* it tests frame_process_thread_id, waits in poll, uses the devices and   *)
(* the objects of DToF_Main, sleeps, and starts over, until the id is      *)
(* cleared, a call fails, the quota is reached, or it is cancelled.        *)
(*                                                                         *)
(* FrameWorker implements this specification; AppLifecycle is built on it. *)
(***************************************************************************)
VARIABLES
  phase,         \* where the thread is
  threadValid,   \* frame_process_thread_id # PTHREAD_INVALID
  cancelled      \* pthread_cancel was called for the thread

workerVars == <<phase, threadValid, cancelled>>

\* "use": in Capture_frame or frame_decode.  "faulted": a signal handler that
\* runs on this thread is exiting the process.
RunningPhases == {"test", "poll", "use", "sleep"}
Phases == RunningPhases \cup {"none", "ended", "faulted"}

PhasesTypeOK ==
  /\ phase \in Phases
  /\ threadValid \in BOOLEAN
  /\ cancelled \in BOOLEAN

Init ==
  /\ phase = "test"
  /\ threadValid = TRUE
  /\ cancelled = FALSE

\* while (PTHREAD_INVALID != frame_process_thread_id)
Test ==
  /\ phase = "test"
  /\ phase' = IF threadValid THEN "poll" ELSE "ended"
  /\ UNCHANGED <<threadValid, cancelled>>

\* poll returns with POLLIN, or without it (timeout, POLLERR).
PollReturns ==
  /\ phase = "poll"
  /\ phase' \in {"use", "sleep"}
  /\ UNCHANGED <<threadValid, cancelled>>

\* poll fails: the loop is left.
PollFails ==
  /\ phase = "poll"
  /\ phase' = "ended"
  /\ UNCHANGED <<threadValid, cancelled>>

\* The iteration's work is done, or it was the last: the quota is reached or
\* Capture_frame failed.
UseReturns ==
  /\ phase = "use"
  /\ phase' \in {"sleep", "ended"}
  /\ UNCHANGED <<threadValid, cancelled>>

\* A fault in the iteration's work: the handler of SIGSEGV calls exit.
UseFaults ==
  /\ phase = "use"
  /\ phase' = "faulted"
  /\ UNCHANGED <<threadValid, cancelled>>

WakeUp ==
  /\ phase = "sleep"
  /\ phase' = "test"
  /\ UNCHANGED <<threadValid, cancelled>>

\* A pending cancellation is acted upon.
ActOnCancel ==
  /\ cancelled
  /\ phase \in {"poll", "use", "sleep"}
  /\ phase' = "ended"
  /\ UNCHANGED <<threadValid, cancelled>>

ThreadLoop == Test \/ PollReturns \/ UseReturns \/ WakeUp

ThreadStep == ThreadLoop \/ PollFails \/ UseFaults \/ ActOnCancel

\* The two writes of DToF_Main::stopFrameProcessThread.
ClearThreadId ==
  /\ threadValid
  /\ threadValid' = FALSE
  /\ UNCHANGED <<phase, cancelled>>

RequestCancel ==
  /\ ~cancelled
  /\ cancelled' = TRUE
  /\ UNCHANGED <<phase, threadValid>>

Next == ThreadStep \/ ClearThreadId \/ RequestCancel

Spec == Init /\ [][Next]_workerVars
=============================================================================
