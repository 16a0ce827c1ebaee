---------------------------- MODULE AppLifecycle ----------------------------
(***************************************************************************)
(* The life of the process from the registration of the signal handlers in *)
(* main to its end: the constructor and the destructor of DToF_Main on the *)
(* main thread, the frame processing thread, and the signal handlers,      *)
(* which interrupt either thread between any two steps.                    *)
(***************************************************************************)
EXTENDS Integers

CONSTANT MaxSigints   \* bound on the SIGINTs the user sends

ASSUME MaxSigintsAssumption == MaxSigints \in Nat

VARIABLES
  phase,         \* where the frame processing thread is
  threadValid,   \* frame_process_thread_id # PTHREAD_INVALID
  cancelled,     \* pthread_cancel was called
  mainPc,        \* where main, DToF_Main::DToF_Main or ~DToF_Main is
  mainHandler,   \* where the SIGINT handler on the main thread is
  workerHandler, \* where the SIGINT handler on the worker is
  process,       \* whether and how the process is exiting
  s_dToF_main,   \* the global pointer is set
  dangling,      \* pthread_create failed after it had stored the thread id
  joined,        \* pthread_join has returned
  misc,          \* the Misc_Device singleton
  objects,       \* the v4l2, adaps_dtof and utils objects are allocated
  fd_4_dtof,     \* the sensor sub-device
  fd,            \* the video device
  buffers,       \* the mapping of the capture buffers
  stream,        \* STREAMON is in effect in the kernel
  rxFrame,       \* rxFrameCnt > 0
  sigints,       \* SIGINTs sent so far
  stopAsked,     \* history: a handler found s_dToF_main set and called stop
  closeFailed,   \* history: a close of V4l2_close failed,
  unmapFailed    \*   or an munmap of free_buffers

Thread == INSTANCE WorkerPhases

workerVars == <<phase, threadValid, cancelled>>
handlerVars == <<mainHandler, workerHandler, sigints, stopAsked>>
deviceVars == <<fd_4_dtof, fd, buffers, stream>>
objectVars == <<s_dToF_main, misc, objects>>
joinVars == <<dangling, joined>>
failureVars == <<closeFailed, unmapFailed>>
vars == <<workerVars, mainPc, handlerVars, process, objectVars, joinVars,
          deviceVars, rxFrame, failureVars>>

MainLocations ==
  {"construct", "openSubdev", "openVideo", "configure", "allocBuffers",
   "streamOn", "readExposure", "initAlgo", "createThread", "publish",
   "join", "joining", "joinFault",
   "stopStreaming", "closeSubdev", "closeVideo", "deleteObjects", "return"}

TeardownLocations == {"stopStreaming", "closeSubdev", "closeVideo", "deleteObjects", "return"}

HandlerLocations == {"none", "load", "clear", "cancel"}

LocationsOK ==
  /\ mainPc \in MainLocations
  /\ mainHandler \in HandlerLocations /\ workerHandler \in HandlerLocations
  /\ process \in {"running", "returning", "exiting", "ended"}

ResourcesOK ==
  /\ misc \in {"none", "alive", "deleted"}
  /\ fd_4_dtof \in {"closed", "open", "invalid"} /\ fd \in {"closed", "open"}
  /\ buffers \in {"none", "partial", "mapped"}
  /\ stream \in {"off", "on"}

FlagsOK ==
  /\ s_dToF_main \in BOOLEAN /\ objects \in BOOLEAN
  /\ dangling \in BOOLEAN /\ joined \in BOOLEAN
  /\ rxFrame \in BOOLEAN /\ stopAsked \in BOOLEAN
  /\ closeFailed \in BOOLEAN /\ unmapFailed \in BOOLEAN

TypeOK ==
  /\ Thread!PhasesTypeOK
  /\ LocationsOK
  /\ ResourcesOK
  /\ FlagsOK
  /\ sigints \in 0 .. MaxSigints

AppInit ==
  /\ phase = "none" /\ threadValid = FALSE /\ cancelled = FALSE
  /\ mainPc = "construct"
  /\ mainHandler = "none" /\ workerHandler = "none"
  /\ process = "running"
  /\ s_dToF_main = FALSE
  /\ dangling = FALSE /\ joined = FALSE
  /\ misc = "none" /\ objects = FALSE
  /\ fd_4_dtof = "closed" /\ fd = "closed" /\ buffers = "none" /\ stream = "off"
  /\ rxFrame = FALSE
  /\ sigints = 0
  /\ stopAsked = FALSE /\ closeFailed = FALSE /\ unmapFailed = FALSE

-----------------------------------------------------------------------------
(* The main thread.  It moves only while no handler runs on it and the     *)
(* process is not exiting.                                                 *)

MainAt(location) ==
  /\ process = "running"
  /\ mainHandler = "none"
  /\ mainPc = location

\* A step of the constructor, which goes on at next or returns early.
ConstructorStep(location, next) ==
  /\ MainAt(location)
  /\ mainPc' \in {next, "publish"}
  /\ UNCHANGED <<workerVars, handlerVars, process, s_dToF_main, joinVars, rxFrame, failureVars>>

\* The members are initialised and the objects are created.
Construct ==
  /\ MainAt("construct")
  /\ misc' = "alive"
  /\ objects' = TRUE
  /\ mainPc' = "openSubdev"
  /\ UNCHANGED <<workerVars, handlerVars, process, s_dToF_main, joinVars, deviceVars,
                 rxFrame, failureVars>>

\* V4l2_initilize: the sub-device is searched and opened.
OpenSubdev ==
  /\ ConstructorStep("openSubdev", "openVideo")
  /\ fd_4_dtof' \in IF mainPc' = "openVideo" THEN {"open"} ELSE {"closed", "invalid"}
  /\ UNCHANGED <<misc, objects, fd, buffers, stream>>

\* Fault: the -1 of a failed open stays in fd.
OpenVideo_KeepsMinusOne ==
  /\ ConstructorStep("openVideo", "configure")
  /\ fd' = IF mainPc' = "configure" THEN "open" ELSE "invalid"
  /\ UNCHANGED <<misc, objects, fd_4_dtof, buffers, stream>>

OpenVideo ==
  /\ ConstructorStep("openVideo", "configure")
  /\ fd' = IF mainPc' = "configure" THEN "open" ELSE "closed"
  /\ UNCHANGED <<misc, objects, fd_4_dtof, buffers, stream>>

\* Capabilities, initial parameters, formats.
Configure ==
  /\ ConstructorStep("configure", "allocBuffers")
  /\ UNCHANGED <<misc, objects, deviceVars>>

AllocBuffers ==
  /\ ConstructorStep("allocBuffers", "streamOn")
  /\ buffers' \in IF mainPc' = "streamOn" THEN {"mapped"} ELSE {"none", "partial"}
  /\ UNCHANGED <<misc, objects, fd_4_dtof, fd, stream>>

\* Fault: the failure of Start_streaming is not noticed.
StreamOn_Unchecked ==
  /\ MainAt("streamOn")
  /\ mainPc' = "readExposure"
  /\ stream' \in {"on", "off"}
  /\ UNCHANGED <<workerVars, handlerVars, process, s_dToF_main, joinVars, rxFrame,
                 failureVars, misc, objects, fd_4_dtof, fd, buffers>>

\* Start_streaming: VIDIOC_STREAMON, then the exposure parameters are read.
StreamOn ==
  /\ ConstructorStep("streamOn", "readExposure")
  /\ stream' = IF mainPc' = "readExposure" THEN "on" ELSE "off"
  /\ UNCHANGED <<misc, objects, fd_4_dtof, fd, buffers>>

ReadExposure ==
  /\ ConstructorStep("readExposure", "initAlgo")
  /\ UNCHANGED <<misc, objects, deviceVars>>

InitAlgo ==
  /\ ConstructorStep("initAlgo", "createThread")
  /\ UNCHANGED <<misc, objects, deviceVars>>

\* pthread_create, whose result is ignored.  A failure leaves the id as it
\* was, or pointing to a descriptor that was freed.
CreateThread ==
  /\ MainAt("createThread")
  /\ mainPc' = "publish"
  /\ \/ /\ phase' = "test"
        /\ threadValid' = TRUE
        /\ UNCHANGED dangling
     \/ UNCHANGED <<phase, threadValid, dangling>>
     \/ /\ threadValid' = TRUE
        /\ dangling' = TRUE
        /\ UNCHANGED phase
  /\ UNCHANGED <<cancelled, handlerVars, process, objectVars, joined, deviceVars,
                 rxFrame, failureVars>>

\* s_dToF_main = &dToF_main, then main returns and the destructor starts.
Publish ==
  /\ MainAt("publish")
  /\ s_dToF_main' = TRUE
  /\ mainPc' = "join"
  /\ UNCHANGED <<workerVars, handlerVars, process, misc, objects, joinVars, deviceVars,
                 rxFrame, failureVars>>

\* The argument of pthread_join is loaded.  PTHREAD_INVALID is a null
\* descriptor: the call faults and the handler of SIGSEGV exits the process.
\* So may the call on a freed descriptor.
LoadJoinArgument ==
  /\ MainAt("join")
  /\ \/ /\ threadValid
        /\ mainPc' = "joining"
        /\ UNCHANGED process
     \/ /\ ~threadValid \/ dangling
        /\ mainPc' = "joinFault"
        /\ process' = "exiting"
  /\ UNCHANGED <<workerVars, handlerVars, objectVars, joinVars, deviceVars, rxFrame, failureVars>>

\* Fault: the destructor does not wait for the thread.
JoinReturns_Detached ==
  /\ MainAt("joining")
  /\ joined' = TRUE
  /\ mainPc' = "stopStreaming"
  /\ UNCHANGED <<workerVars, handlerVars, process, objectVars, dangling, deviceVars,
                 rxFrame, failureVars>>

\* pthread_join returns when the thread has ended.
JoinReturns ==
  /\ MainAt("joining")
  /\ phase = "ended" \/ dangling
  /\ joined' = TRUE
  /\ mainPc' = "stopStreaming"
  /\ UNCHANGED <<workerVars, handlerVars, process, objectVars, dangling, deviceVars,
                 rxFrame, failureVars>>

TeardownStep(location, next) ==
  /\ MainAt(location)
  /\ mainPc' = next
  /\ UNCHANGED <<workerVars, handlerVars, process, s_dToF_main, misc, joinVars, rxFrame>>

\* Stop_streaming returns early when no frame was received; a failure of
\* VIDIOC_STREAMOFF is only logged.
StopStreaming ==
  /\ TeardownStep("stopStreaming", "closeSubdev")
  /\ IF rxFrame THEN stream' \in {"off", stream} ELSE UNCHANGED stream
  /\ UNCHANGED <<fd_4_dtof, fd, buffers, objects, failureVars>>

\* Fault: free_buffers is forgotten.
CloseSubdev_KeepsBuffers ==
  /\ TeardownStep("closeSubdev", "closeVideo")
  /\ fd_4_dtof' = "closed"
  /\ UNCHANGED <<fd, stream, objects, buffers, failureVars>>

\* V4l2_close: a failing close leaves everything after it undone.  A failing
\* munmap only ends free_buffers, with the array and some of the mapping left;
\* the entries that alloc_buffers did not get to are not initialised.
CloseSubdev ==
  /\ \/ /\ TeardownStep("closeSubdev", "closeVideo")
        /\ fd_4_dtof' = "closed"
        /\ \/ /\ buffers' = "none"
              /\ UNCHANGED unmapFailed
           \/ /\ buffers # "none"
              /\ buffers' = "partial"
              /\ unmapFailed' = TRUE
        /\ UNCHANGED closeFailed
     \/ /\ TeardownStep("closeSubdev", "deleteObjects")
        /\ closeFailed' = TRUE
        /\ UNCHANGED <<fd_4_dtof, buffers, unmapFailed>>
  /\ UNCHANGED <<fd, stream, objects>>

\* Closing the device ends streaming in the kernel, too.
CloseVideo ==
  /\ TeardownStep("closeVideo", "deleteObjects")
  /\ \/ /\ fd' = "closed"
        /\ stream' = "off"
        /\ UNCHANGED closeFailed
     \/ /\ closeFailed' = TRUE
        /\ UNCHANGED <<fd, stream>>
  /\ UNCHANGED <<fd_4_dtof, buffers, objects, unmapFailed>>

\* The objects are deleted, the depth buffer is freed.
DeleteObjects ==
  /\ TeardownStep("deleteObjects", "return")
  /\ objects' = FALSE
  /\ UNCHANGED <<deviceVars, failureVars>>

\* main returns.
Return ==
  /\ MainAt("return")
  /\ process' = "returning"
  /\ UNCHANGED <<workerVars, mainPc, handlerVars, objectVars, joinVars, deviceVars,
                 rxFrame, failureVars>>

Main ==
  \/ Construct \/ OpenSubdev \/ OpenVideo \/ Configure \/ AllocBuffers \/ StreamOn
  \/ ReadExposure \/ InitAlgo \/ CreateThread \/ Publish \/ LoadJoinArgument
  \/ JoinReturns \/ StopStreaming \/ CloseSubdev \/ CloseVideo \/ DeleteObjects \/ Return

-----------------------------------------------------------------------------
(* The worker. *)

notWorker == <<mainPc, handlerVars, objectVars, joinVars, deviceVars, failureVars>>

\* A step of the thread.  Frames arrive only in the "use" phase, and a fault
\* there ends in exit, called from the signal handler on the worker.
WorkerRuns ==
  /\ process # "ended"
  /\ workerHandler = "none"
  /\ Thread!ThreadStep
  /\ IF phase = "use" THEN rxFrame' \in {rxFrame, TRUE} ELSE UNCHANGED rxFrame
  /\ process' = IF phase' = "faulted" /\ process = "running" THEN "exiting" ELSE process
  /\ UNCHANGED notWorker

-----------------------------------------------------------------------------
(* Signals. *)

\* SIGINT on the main thread, which every handler-free moment allows.  Before
\* s_dToF_main is set the handler does nothing.
SigintOnMain ==
  /\ process = "running"
  /\ mainHandler = "none"
  /\ sigints < MaxSigints
  /\ sigints' = sigints + 1
  /\ IF s_dToF_main THEN mainHandler' = "load" /\ stopAsked' = TRUE
                    ELSE UNCHANGED <<mainHandler, stopAsked>>
  /\ UNCHANGED <<workerVars, mainPc, workerHandler, process, objectVars,
                 joinVars, deviceVars, rxFrame, failureVars>>

\* SIGINT is blocked on the main thread while its handler runs there, so the
\* kernel delivers it to the worker.
SigintOnWorker ==
  /\ process = "running"
  /\ mainHandler # "none"
  /\ workerHandler = "none"
  /\ phase \in Thread!RunningPhases
  /\ sigints < MaxSigints
  /\ sigints' = sigints + 1
  /\ workerHandler' = "load"
  /\ UNCHANGED <<workerVars, mainPc, mainHandler, stopAsked, process,
                 objectVars, joinVars, deviceVars, rxFrame, failureVars>>

\* Fault: the test of frame_process_thread_id is inverted.
LoadThreadId_Inverted == IF threadValid THEN "none" ELSE "clear"

\* stopFrameProcessThread loads the thread id: there is a thread to stop or not.
LoadThreadId == IF threadValid THEN "clear" ELSE "none"

\* Fault: the id is not cleared before the thread is cancelled.
ClearThreadId_Kept == UNCHANGED threadValid

\* frame_process_thread_id = PTHREAD_INVALID
ClearThreadId == threadValid' = FALSE

\* One step of a handler: stopFrameProcessThread loads the id, clears it and
\* calls pthread_cancel; nothing holds off another handler between the three.
HandlerStep(at, next) ==
  \/ /\ at = "load"
     /\ next = LoadThreadId
     /\ UNCHANGED <<threadValid, cancelled>>
  \/ /\ at = "clear"
     /\ next = "cancel"
     /\ ClearThreadId
     /\ UNCHANGED cancelled
  \/ /\ at = "cancel"
     /\ next = "none"
     /\ cancelled' = TRUE
     /\ UNCHANGED threadValid

\* pthread_cancel may fault on a descriptor that was freed, by a failed
\* pthread_create or by the join.
HandlerOnMain ==
  /\ process = "running"
  /\ \E next \in HandlerLocations :
       HandlerStep(mainHandler, next) /\ mainHandler' = next
  /\ process' \in IF mainHandler = "cancel" /\ (dangling \/ joined)
                    THEN {"running", "exiting"} ELSE {"running"}
  /\ UNCHANGED <<phase, mainPc, workerHandler, sigints, stopAsked, objectVars,
                 joinVars, deviceVars, rxFrame, failureVars>>

HandlerOnWorker ==
  /\ process # "ended"
  /\ \E next \in HandlerLocations :
       HandlerStep(workerHandler, next) /\ workerHandler' = next
  /\ UNCHANGED <<phase, mainPc, mainHandler, sigints, stopAsked, process, objectVars,
                 joinVars, deviceVars, rxFrame, failureVars>>

\* Any other handled signal on the main thread: exit(0) from the handler.
Terminate ==
  /\ process = "running"
  /\ process' = "exiting"
  /\ UNCHANGED <<workerVars, mainPc, handlerVars, objectVars, joinVars, deviceVars,
                 rxFrame, failureVars>>

\* exit runs Misc_Device::destroyInstance; other threads still run.
DestroyMisc ==
  /\ process \in {"returning", "exiting"}
  /\ misc = "alive"
  /\ misc' = "deleted"
  /\ UNCHANGED <<workerVars, mainPc, handlerVars, process, s_dToF_main, objects,
                 joinVars, deviceVars, rxFrame, failureVars>>

\* The process ends and the kernel closes its files.
ProcessEnds ==
  /\ process \in {"returning", "exiting"}
  /\ misc # "alive"
  /\ process' = "ended"
  /\ UNCHANGED <<workerVars, mainPc, handlerVars, objectVars, joinVars, deviceVars,
                 rxFrame, failureVars>>

Exit == DestroyMisc \/ ProcessEnds

Next ==
  \/ Main \/ WorkerRuns
  \/ SigintOnMain \/ SigintOnWorker \/ HandlerOnMain \/ HandlerOnWorker
  \/ Terminate \/ Exit

Spec == AppInit /\ [][Next]_vars

\* Both threads and the handlers on them keep being scheduled.
FairSpec ==
  /\ Spec
  /\ WF_vars(Main)
  /\ WF_vars(WorkerRuns /\ Thread!ThreadLoop)
  /\ WF_vars(HandlerOnMain)
  /\ WF_vars(HandlerOnWorker)
  /\ WF_vars(Exit)

-----------------------------------------------------------------------------
(* Properties. *)

\* "Do not Stop_streaming() and v4l2_close() until frame_process_thread is end"
\* (changLog.txt:5): the destructor gets past pthread_join only after a thread
\* that was created has ended.
TeardownAfterWorker == mainPc \in TeardownLocations => (phase = "ended" \/ dangling)

\* While the worker may run, and unless a signal handler is exiting the process,
\* everything it uses is there: the stream, the mapped buffers, the devices, the
\* objects and the Misc_Device singleton.
WorkerHasResources ==
  (phase \in Thread!RunningPhases /\ process \notin {"exiting", "ended"}) =>
    /\ objects
    /\ misc = "alive"
    /\ fd_4_dtof = "open" /\ fd = "open"
    /\ buffers = "mapped"
    /\ stream = "on"

\* When main returns, the objects are deleted; unless a close failed, the
\* sub-device and the video device are closed and the stream is off, and if
\* munmap did not fail either, the array and the mapping of the capture buffers
\* are gone.  (The descriptor of the media device and the handle of the library
\* are not among them: the code never releases these.)
ReturnReleasesAll ==
  mainPc = "return" =>
    /\ ~objects
    /\ ~closeFailed => fd_4_dtof = "closed" /\ fd = "closed" /\ stream = "off"
    /\ ~closeFailed /\ ~unmapFailed => buffers = "none"

\* The handler cancels the worker after the join only if no handler had done so
\* before: clearing the id protects the joined thread from a later CTRL-C.
CancelCalled ==
  \/ mainHandler = "cancel" /\ mainHandler' = "none"
  \/ workerHandler = "cancel" /\ workerHandler' = "none"
NoCancelAfterStopAndJoin == [][(CancelCalled /\ joined) => ~cancelled]_vars

\* CTRL-C, handled once s_dToF_main is set, ends the process.
StopEndsProcess == stopAsked ~> process = "ended"

\* The destructor waits for the end of the thread (the comment of
\* dtof_main.cpp:102): the process does not leave pthread_join with the thread running.
JoinWaits == mainPc = "joinFault" => phase \notin Thread!RunningPhases
=============================================================================
