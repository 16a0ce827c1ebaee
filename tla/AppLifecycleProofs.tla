------------------------- MODULE AppLifecycleProofs -------------------------
(***************************************************************************)
(* The safety properties of AppLifecycle hold for any number of SIGINTs.   *)
(*                                                                         *)
(* The inductive invariant AppInv says, of each place of the main thread,  *)
(* what has been set up or torn down there (Progress, Released), that the  *)
(* worker runs only in between (WorkerInterval), and what the signal       *)
(* handlers can know of the thread (HandlerRules).                         *)
(*                                                                         *)
(* Two smaller invariants on top of it say when pthread_join can fault     *)
(* (JoinInv) and what main waits for (WaitInv); a variant, StepsLeft,      *)
(* bounds what is left to do once the thread was told to stop.             *)
(***************************************************************************)
EXTENDS AppLifecycle, TLAPS

ConstructorLocations ==
  {"construct", "openSubdev", "openVideo", "configure", "allocBuffers",
   "streamOn", "readExposure", "initAlgo", "createThread"}

\* From the first to the last place at which each resource is certain.
Progress ==
  /\ mainPc \in ConstructorLocations \ {"construct"} =>
       objects /\ (process = "running" => misc = "alive")
  /\ mainPc \in ConstructorLocations \ {"construct", "openSubdev"} => fd_4_dtof = "open"
  /\ mainPc \in ConstructorLocations \ {"construct", "openSubdev", "openVideo"} => fd = "open"
  /\ mainPc \in {"streamOn", "readExposure", "initAlgo", "createThread"} => buffers = "mapped"
  /\ mainPc \in {"readExposure", "initAlgo", "createThread"} => stream = "on"

\* There is no thread before pthread_create, and none at all when it left an
\* id that dangles; main returns from its last place only.
WorkerInterval ==
  /\ mainPc \in ConstructorLocations => phase = "none" /\ ~dangling
  /\ dangling => phase = "none"
  /\ joined => mainPc \in TeardownLocations
  /\ process = "returning" => mainPc = "return"

\* What the teardown has released so far, unless something failed.
Released ==
  /\ mainPc = "closeVideo" => fd_4_dtof = "closed"
  /\ mainPc = "closeVideo" /\ ~unmapFailed => buffers = "none"
  /\ mainPc \in {"deleteObjects", "return"} /\ ~closeFailed =>
       /\ fd_4_dtof = "closed" /\ fd = "closed"
       /\ stream = "off"
       /\ ~unmapFailed => buffers = "none"
  /\ mainPc = "return" => ~objects

\* A handler runs only after the publication, on a worker only while that
\* runs; the thread is cancelled only after its id was cleared.
HandlerRules ==
  /\ mainPc \in ConstructorLocations \cup {"publish"} => ~s_dToF_main
  /\ mainHandler # "none" => s_dToF_main
  /\ workerHandler # "none" => s_dToF_main /\ phase \in Thread!RunningPhases
  /\ cancelled => s_dToF_main /\ ~threadValid
  /\ "cancel" \in {mainHandler, workerHandler} => ~threadValid
  /\ joined /\ mainHandler \in {"clear", "cancel"} => ~cancelled

AppInv ==
  /\ TypeOK
  /\ Progress
  /\ WorkerInterval
  /\ TeardownAfterWorker
  /\ WorkerHasResources
  /\ Released
  /\ HandlerRules

-----------------------------------------------------------------------------
(* The initial state. *)

\* The initial state satisfies the invariant.
LEMMA InitAppInv == AppInit => AppInv
<1> SUFFICES ASSUME AppInit PROVE AppInv
  OBVIOUS
<1> USE DEF AppInit
<1>1. TypeOK
  <2>1. Thread!PhasesTypeOK /\ LocationsOK /\ ResourcesOK
    BY DEF LocationsOK, ResourcesOK, MainLocations, HandlerLocations,
           Thread!PhasesTypeOK, Thread!Phases
  <2>2. FlagsOK
    BY DEF FlagsOK
  <2> QED
    BY <2>1, <2>2, MaxSigintsAssumption DEF TypeOK
<1>2. Progress /\ WorkerInterval
  BY DEF Progress, WorkerInterval, ConstructorLocations
<1>3. TeardownAfterWorker /\ WorkerHasResources
  BY DEF TeardownAfterWorker, WorkerHasResources, TeardownLocations, Thread!RunningPhases
<1>4. Released /\ HandlerRules
  BY DEF Released, HandlerRules, ConstructorLocations
<1> QED
  BY <1>1, <1>2, <1>3, <1>4 DEF AppInv

-----------------------------------------------------------------------------
(* Every step preserves the types. *)

\* Every step keeps the types.
LEMMA NextTypeOK == TypeOK /\ [Next]_vars => TypeOK'
<1> SUFFICES ASSUME TypeOK, [Next]_vars
             PROVE  TypeOK'
  OBVIOUS
<1> USE DEF TypeOK, Next, Main, Construct, OpenSubdev, OpenVideo, Configure, AllocBuffers,
            StreamOn, ReadExposure, InitAlgo, CreateThread, Publish, LoadJoinArgument,
            JoinReturns, StopStreaming, CloseSubdev, CloseVideo, DeleteObjects, Return,
            MainAt, ConstructorStep, TeardownStep, WorkerRuns, notWorker, SigintOnMain,
            SigintOnWorker, HandlerOnMain, HandlerOnWorker, HandlerStep, LoadThreadId,
            ClearThreadId, Terminate, Exit, DestroyMisc, ProcessEnds, vars, workerVars,
            handlerVars, deviceVars, objectVars, joinVars, failureVars
<1>1. (phase \in Thread!Phases)'
  BY DEF Thread!PhasesTypeOK, Thread!Phases, Thread!RunningPhases, Thread!ThreadStep,
         Thread!ThreadLoop, Thread!Test, Thread!PollReturns, Thread!PollFails,
         Thread!UseReturns, Thread!UseFaults, Thread!WakeUp, Thread!ActOnCancel
<1>2. (threadValid \in BOOLEAN)'
  BY DEF Thread!PhasesTypeOK, Thread!ThreadStep,
         Thread!ThreadLoop, Thread!Test, Thread!PollReturns, Thread!PollFails,
         Thread!UseReturns, Thread!UseFaults, Thread!WakeUp, Thread!ActOnCancel
<1>3. (cancelled \in BOOLEAN)'
  BY DEF Thread!PhasesTypeOK, Thread!ThreadStep,
         Thread!ThreadLoop, Thread!Test, Thread!PollReturns, Thread!PollFails,
         Thread!UseReturns, Thread!UseFaults, Thread!WakeUp, Thread!ActOnCancel
<1>4. LocationsOK'
  BY DEF LocationsOK, MainLocations, HandlerLocations
<1>5. ResourcesOK'
  BY DEF ResourcesOK
<1>6. FlagsOK'
  <2> USE DEF FlagsOK
  <2>1. (s_dToF_main \in BOOLEAN)'
    OBVIOUS
  <2>2. (objects \in BOOLEAN)'
    OBVIOUS
  <2>3. (dangling \in BOOLEAN)'
    OBVIOUS
  <2>4. (joined \in BOOLEAN)'
    OBVIOUS
  <2>5. (rxFrame \in BOOLEAN)'
    OBVIOUS
  <2>6. (stopAsked \in BOOLEAN)'
    OBVIOUS
  <2>7. (closeFailed \in BOOLEAN)'
    OBVIOUS
  <2>8. (unmapFailed \in BOOLEAN)'
    OBVIOUS
  <2> QED
    BY <2>1, <2>2, <2>3, <2>4, <2>5, <2>6, <2>7, <2>8
<1>7. sigints' \in 0 .. MaxSigints
  <2>1. sigints' = sigints \/ (sigints < MaxSigints /\ sigints' = sigints + 1)
    OBVIOUS
  <2> QED
    BY <2>1, MaxSigintsAssumption
<1> QED
  BY <1>1, <1>2, <1>3, <1>4, <1>5, <1>6, <1>7 DEF Thread!PhasesTypeOK

-----------------------------------------------------------------------------
(* Every step preserves the rest of the invariant. *)

\* Every step keeps the invariant.
LEMMA NextAppInv == AppInv /\ [Next]_vars => AppInv'
<1> SUFFICES ASSUME AppInv, [Next]_vars
             PROVE  AppInv'
  OBVIOUS
<1>1. TypeOK /\ TypeOK'
  BY NextTypeOK DEF AppInv
<1> USE DEF AppInv, Progress, WorkerInterval, TeardownAfterWorker,
            WorkerHasResources, Released, HandlerRules, TeardownLocations,
            ConstructorLocations, Thread!RunningPhases,
            workerVars, handlerVars, deviceVars, objectVars, joinVars, failureVars
<1>2. CASE Construct
  BY <1>1, <1>2 DEF Construct, MainAt
<1>3. CASE OpenSubdev
  BY <1>1, <1>3 DEF OpenSubdev, MainAt, ConstructorStep
<1>4. CASE OpenVideo
  BY <1>1, <1>4 DEF OpenVideo, MainAt, ConstructorStep
<1>5. CASE Configure
  BY <1>1, <1>5 DEF Configure, MainAt, ConstructorStep
<1>6. CASE AllocBuffers
  BY <1>1, <1>6 DEF AllocBuffers, MainAt, ConstructorStep
<1>7. CASE StreamOn
  BY <1>1, <1>7 DEF StreamOn, MainAt, ConstructorStep
<1>8. CASE ReadExposure
  BY <1>1, <1>8 DEF ReadExposure, MainAt, ConstructorStep
<1>9. CASE InitAlgo
  BY <1>1, <1>9 DEF InitAlgo, MainAt, ConstructorStep
<1>10. CASE CreateThread
  BY <1>1, <1>10 DEF CreateThread, MainAt
<1>11. CASE Publish
  BY <1>1, <1>11 DEF Publish, MainAt
<1>12. CASE LoadJoinArgument
  BY <1>1, <1>12 DEF LoadJoinArgument, MainAt
<1>13. CASE JoinReturns
  BY <1>1, <1>13 DEF JoinReturns, MainAt
<1>14. CASE StopStreaming
  BY <1>1, <1>14 DEF StopStreaming, MainAt, TeardownStep
<1>15. CASE CloseSubdev
  BY <1>1, <1>15 DEF CloseSubdev, MainAt, TeardownStep
<1>16. CASE CloseVideo
  BY <1>1, <1>16 DEF CloseVideo, MainAt, TeardownStep
<1>17. CASE DeleteObjects
  BY <1>1, <1>17 DEF DeleteObjects, MainAt, TeardownStep
<1>18. CASE Return
  BY <1>1, <1>18 DEF Return, MainAt
<1>19. CASE WorkerRuns
  BY <1>1, <1>19 DEF WorkerRuns, notWorker,
           Thread!ThreadStep, Thread!ThreadLoop, Thread!Test, Thread!PollReturns, Thread!PollFails,
           Thread!UseReturns, Thread!UseFaults, Thread!WakeUp, Thread!ActOnCancel
<1>20. CASE SigintOnMain
  BY <1>1, <1>20 DEF SigintOnMain
<1>21. CASE SigintOnWorker
  BY <1>1, <1>21 DEF SigintOnWorker
<1>22. CASE HandlerOnMain
  BY <1>1, <1>22 DEF HandlerOnMain, HandlerStep, LoadThreadId, ClearThreadId
<1>23. CASE HandlerOnWorker
  BY <1>1, <1>23 DEF HandlerOnWorker, HandlerStep, LoadThreadId, ClearThreadId
<1>24. CASE Terminate
  BY <1>1, <1>24 DEF Terminate
<1>25. CASE DestroyMisc
  BY <1>1, <1>25 DEF DestroyMisc
<1>26. CASE ProcessEnds
  BY <1>1, <1>26 DEF ProcessEnds
<1>27. CASE UNCHANGED vars
  BY <1>1, <1>27 DEF vars
<1> QED BY <1>2, <1>3, <1>4, <1>5, <1>6, <1>7, <1>8, <1>9, <1>10, <1>11, <1>12, <1>13,
         <1>14, <1>15, <1>16, <1>17, <1>18, <1>19, <1>20, <1>21, <1>22, <1>23, <1>24,
         <1>25, <1>26, <1>27 DEF Next, Main, Exit

-----------------------------------------------------------------------------
(* The theorems. *)

\* The inductive invariant holds in every reachable state.
THEOREM AppInvariance == Spec => []AppInv
BY InitAppInv, NextAppInv, PTL DEF Spec

\* Main, handlers and worker keep their types: the -1 of a failed open never
\* reaches fd, and only MaxSigints SIGINTs are sent.
THEOREM AppTypeCorrect == Spec => []TypeOK
<1>1. AppInv => TypeOK
  BY DEF AppInv
<1> QED
  BY <1>1, AppInvariance, PTL

\* The destructor tears nothing down before the thread it created has ended.
THEOREM TeardownWaits == Spec => []TeardownAfterWorker
<1>1. AppInv => TeardownAfterWorker
  BY DEF AppInv
<1> QED
  BY <1>1, AppInvariance, PTL

\* The worker finds its devices, buffers, stream and objects, whatever failed
\* in the constructor and whenever the signals arrive.
THEOREM ResourcesThere == Spec => []WorkerHasResources
<1>1. AppInv => WorkerHasResources
  BY DEF AppInv
<1> QED
  BY <1>1, AppInvariance, PTL

\* main returns with the objects deleted and, unless a close or an munmap failed,
\* both devices closed, the stream off and the capture buffers unmapped.
THEOREM NothingLeft == Spec => []ReturnReleasesAll
<1>1. AppInv => ReturnReleasesAll
  BY DEF AppInv, Released, ReturnReleasesAll
<1> QED
  BY <1>1, AppInvariance, PTL

\* However handlers interleave, on whichever thread, a thread that was stopped
\* and joined is not cancelled again.
THEOREM NoLateCancel == Spec => NoCancelAfterStopAndJoin
<1>1. AppInv /\ [Next]_vars => [(CancelCalled /\ joined) => ~cancelled]_vars
  <2> SUFFICES ASSUME AppInv, CancelCalled, joined
               PROVE  ~cancelled
    OBVIOUS
  <2>1. workerHandler = "none"
    BY DEF AppInv, HandlerRules, WorkerInterval, TeardownAfterWorker, Thread!RunningPhases
  <2>2. mainHandler = "cancel"
    BY <2>1 DEF CancelCalled
  <2> QED
    BY <2>2 DEF AppInv, HandlerRules
<1> QED
  BY <1>1, AppInvariance, PTL DEF Spec, NoCancelAfterStopAndJoin

-----------------------------------------------------------------------------
(* What makes pthread_join fault.  JoinWaits does not hold; the theorem      *)
(* below says that CTRL-C is the only way to the fault with a thread there.  *)

\* The fault finds a thread only when a handler was asked to stop that thread
\* and has cleared its id.
JoinFaultCause == mainPc = "joinFault" /\ phase # "none" => stopAsked /\ ~threadValid

\* Until a handler is asked to stop it, a thread that was created keeps its id.
UnaskedInv ==
  /\ ~stopAsked => mainHandler = "none" /\ workerHandler = "none"
  /\ ~stopAsked /\ phase # "none" => threadValid = TRUE
  /\ mainPc \in ConstructorLocations => threadValid = FALSE
  /\ mainHandler # "none" => stopAsked = TRUE
  /\ workerHandler # "none" => stopAsked = TRUE

JoinInv == UnaskedInv /\ JoinFaultCause

\* Every step keeps what is known of the join.
LEMMA NextJoinInv == AppInv /\ JoinInv /\ [Next]_vars => JoinInv'
<1> SUFFICES ASSUME AppInv, JoinInv, [Next]_vars
             PROVE  JoinInv'
  OBVIOUS
<1>1. TypeOK /\ TypeOK'
  BY NextTypeOK DEF AppInv
<1> USE DEF AppInv, WorkerInterval, HandlerRules, JoinInv, UnaskedInv, JoinFaultCause,
            ConstructorLocations, Thread!RunningPhases,
            workerVars, handlerVars, deviceVars, objectVars, joinVars, failureVars
<1>2. CASE Construct \/ OpenSubdev \/ OpenVideo \/ Configure \/ AllocBuffers
  BY <1>1, <1>2 DEF Construct, OpenSubdev, OpenVideo, Configure, AllocBuffers, MainAt,
                    ConstructorStep
<1>3. CASE StreamOn \/ ReadExposure \/ InitAlgo \/ Publish
  BY <1>1, <1>3 DEF StreamOn, ReadExposure, InitAlgo, Publish, MainAt, ConstructorStep
<1>4. CASE CreateThread
  BY <1>1, <1>4 DEF CreateThread, MainAt
<1>5. CASE LoadJoinArgument
  BY <1>1, <1>5 DEF LoadJoinArgument, MainAt
<1>6. CASE JoinReturns \/ Return
  BY <1>1, <1>6 DEF JoinReturns, Return, MainAt
<1>7. CASE StopStreaming \/ CloseSubdev \/ CloseVideo \/ DeleteObjects
  BY <1>1, <1>7 DEF StopStreaming, CloseSubdev, CloseVideo, DeleteObjects, MainAt, TeardownStep
<1>8. CASE WorkerRuns
  BY <1>1, <1>8 DEF WorkerRuns, notWorker,
           Thread!ThreadStep, Thread!ThreadLoop, Thread!Test, Thread!PollReturns, Thread!PollFails,
           Thread!UseReturns, Thread!UseFaults, Thread!WakeUp, Thread!ActOnCancel
<1>9. CASE SigintOnMain
  BY <1>1, <1>9 DEF SigintOnMain
<1>10. CASE SigintOnWorker
  BY <1>1, <1>10 DEF SigintOnWorker
<1>11. CASE HandlerOnMain
  BY <1>1, <1>11 DEF HandlerOnMain, HandlerStep, LoadThreadId, ClearThreadId
<1>12. CASE HandlerOnWorker
  BY <1>1, <1>12 DEF HandlerOnWorker, HandlerStep, LoadThreadId, ClearThreadId
<1>13. CASE Terminate \/ DestroyMisc \/ ProcessEnds
  BY <1>1, <1>13 DEF Terminate, DestroyMisc, ProcessEnds
<1>14. CASE UNCHANGED vars
  BY <1>1, <1>14 DEF vars
<1> QED
  BY <1>2, <1>3, <1>4, <1>5, <1>6, <1>7, <1>8, <1>9, <1>10, <1>11, <1>12, <1>13, <1>14
  DEF Next, Main, Exit

\* JoinInv holds in every reachable state.
LEMMA JoinInvariance == Spec => []JoinInv
<1>1. AppInit => JoinInv
  BY DEF AppInit, JoinInv, UnaskedInv, JoinFaultCause
<1> QED
  BY <1>1, NextJoinInv, AppInvariance, PTL DEF Spec

\* pthread_join is given the null id of a thread that exists only after CTRL-C.
THEOREM JoinFaultsOnlyAfterStop == Spec => []JoinFaultCause
<1>1. JoinInv => JoinFaultCause
  BY DEF JoinInv
<1> QED
  BY <1>1, JoinInvariance, PTL

\* Without CTRL-C after the publication, the destructor does wait for the thread.
THEOREM JoinWaitsUnasked == Spec /\ []~stopAsked => []JoinWaits
<1>1. JoinFaultCause /\ ~stopAsked => JoinWaits
  BY DEF JoinFaultCause, JoinWaits, Thread!RunningPhases
<1> QED
  BY <1>1, JoinFaultsOnlyAfterStop, PTL

-----------------------------------------------------------------------------
(* The safety part of StopEndsProcess.  The process cannot be left waiting:  *)
(* a stop that was asked for is carried out, main waits only for a thread    *)
(* that will end, and once the id is cleared every step is one of the last.  *)

\* A handler that found s_dToF_main set has cleared the id, or is about to.
StopNotLost == stopAsked => ~threadValid \/ mainHandler \in {"load", "clear"}

\* While the process runs, main is not stuck in pthread_join: the id was that of
\* a descriptor that was freed, or there is a thread, running or ended.
MainNeverStalls ==
  process = "running" =>
    /\ mainPc # "joinFault"
    /\ mainPc = "joining" => dangling \/ phase \in Thread!RunningPhases \cup {"ended"}

WaitInv ==
  /\ StopNotLost
  /\ MainNeverStalls
  /\ threadValid /\ phase = "none" => dangling
  /\ mainPc = "joining" /\ phase = "none" => dangling
  /\ phase = "faulted" => process # "running"
  /\ stopAsked => s_dToF_main

\* Every step keeps what is known of a main thread that waits.
LEMMA NextWaitInv == AppInv /\ WaitInv /\ [Next]_vars => WaitInv'
<1> SUFFICES ASSUME AppInv, WaitInv, [Next]_vars
             PROVE  WaitInv'
  OBVIOUS
<1>1. TypeOK /\ TypeOK'
  BY NextTypeOK DEF AppInv
<1>2. phase \in Thread!Phases /\ phase' \in Thread!Phases
  BY <1>1 DEF TypeOK, Thread!PhasesTypeOK
<1> USE DEF AppInv, WorkerInterval, HandlerRules, WaitInv, StopNotLost, MainNeverStalls,
            ConstructorLocations, Thread!RunningPhases, Thread!Phases,
            workerVars, handlerVars, deviceVars, objectVars, joinVars, failureVars
<1>3. CASE Construct \/ OpenSubdev \/ OpenVideo \/ Configure \/ AllocBuffers
  BY <1>1, <1>2, <1>3 DEF Construct, OpenSubdev, OpenVideo, Configure, AllocBuffers, MainAt,
                          ConstructorStep
<1>4. CASE StreamOn \/ ReadExposure \/ InitAlgo \/ Publish
  BY <1>1, <1>2, <1>4 DEF StreamOn, ReadExposure, InitAlgo, Publish, MainAt, ConstructorStep
<1>5. CASE CreateThread
  BY <1>1, <1>2, <1>5 DEF CreateThread, MainAt
<1>6. CASE LoadJoinArgument
  BY <1>1, <1>2, <1>6 DEF LoadJoinArgument, MainAt
<1>7. CASE JoinReturns \/ Return
  BY <1>1, <1>2, <1>7 DEF JoinReturns, Return, MainAt
<1>8. CASE StopStreaming \/ CloseSubdev \/ CloseVideo \/ DeleteObjects
  BY <1>1, <1>2, <1>8 DEF StopStreaming, CloseSubdev, CloseVideo, DeleteObjects, MainAt, TeardownStep
<1>9. CASE WorkerRuns
  BY <1>1, <1>2, <1>9 DEF WorkerRuns, notWorker,
           Thread!ThreadStep, Thread!ThreadLoop, Thread!Test, Thread!PollReturns, Thread!PollFails,
           Thread!UseReturns, Thread!UseFaults, Thread!WakeUp, Thread!ActOnCancel
<1>10. CASE SigintOnMain
  BY <1>1, <1>2, <1>10 DEF SigintOnMain
<1>11. CASE SigintOnWorker
  BY <1>1, <1>2, <1>11 DEF SigintOnWorker
<1>12. CASE HandlerOnMain
  BY <1>1, <1>2, <1>12 DEF HandlerOnMain, HandlerStep, LoadThreadId, ClearThreadId
<1>13. CASE HandlerOnWorker
  BY <1>1, <1>2, <1>13 DEF HandlerOnWorker, HandlerStep, LoadThreadId, ClearThreadId
<1>14. CASE Terminate \/ DestroyMisc \/ ProcessEnds
  BY <1>1, <1>2, <1>14 DEF Terminate, DestroyMisc, ProcessEnds
<1>15. CASE UNCHANGED vars
  BY <1>1, <1>2, <1>15 DEF vars
<1> QED
  BY <1>3, <1>4, <1>5, <1>6, <1>7, <1>8, <1>9, <1>10, <1>11, <1>12, <1>13, <1>14, <1>15
  DEF Next, Main, Exit

\* WaitInv holds in every reachable state.
LEMMA WaitInvariance == Spec => []WaitInv
<1>1. AppInit => WaitInv
  BY DEF AppInit, WaitInv, StopNotLost, MainNeverStalls
<1> QED
  BY <1>1, NextWaitInv, AppInvariance, PTL DEF Spec

\* CTRL-C is not lost between the handlers of the two threads, and main is never
\* left in pthread_join without a thread whose end it can wait for.
THEOREM StopIsCarriedOut == Spec => [](StopNotLost /\ MainNeverStalls)
<1>1. WaitInv => StopNotLost /\ MainNeverStalls
  BY DEF WaitInv
<1> QED
  BY <1>1, WaitInvariance, PTL

\* The object is published and its thread, if there is one, has been told to stop.
Cleared == s_dToF_main /\ ~threadValid

\* Bounds on the steps that are left to each part.
MainSteps(at) ==
  CASE at = "join" -> 7
    [] at = "joining" -> 6
    [] at = "stopStreaming" -> 5
    [] at = "closeSubdev" -> 4
    [] at = "closeVideo" -> 3
    [] at = "deleteObjects" -> 2
    [] at = "return" -> 1
    [] OTHER -> 0

HandlerSteps(at) ==
  CASE at = "load" -> 3
    [] at = "clear" -> 2
    [] at = "cancel" -> 1
    [] OTHER -> 0

ThreadSteps(at) ==
  CASE at = "poll" -> 4
    [] at = "use" -> 3
    [] at = "sleep" -> 2
    [] at = "test" -> 1
    [] OTHER -> 0

ExitSteps(at, singleton) ==
  (CASE at = "running" -> 2 [] at = "ended" -> 0 [] OTHER -> 1)
    + (IF singleton = "alive" THEN 1 ELSE 0)

StepsLeft ==
  MainSteps(mainPc) + HandlerSteps(mainHandler) + HandlerSteps(workerHandler)
    + ThreadSteps(phase) + ExitSteps(process, misc) + 4 * (MaxSigints - sigints)

\* Once the id is cleared it stays so, and every step of anybody is one of the last.
ClearedEnds == [][Cleared => Cleared' /\ StepsLeft' \in Nat /\ StepsLeft' < StepsLeft]_vars

\* The steps left of each actor are bounded.
LEMMA StepsType ==
  ASSUME TypeOK
  PROVE  /\ MainSteps(mainPc) \in 0 .. 7
         /\ HandlerSteps(mainHandler) \in 0 .. 3
         /\ HandlerSteps(workerHandler) \in 0 .. 3
         /\ ThreadSteps(phase) \in 0 .. 4
         /\ ExitSteps(process, misc) \in 0 .. 3
         /\ MaxSigints - sigints \in Nat
<1>1. MainSteps(mainPc) \in 0 .. 7
  BY DEF MainSteps
<1>2. HandlerSteps(mainHandler) \in 0 .. 3 /\ HandlerSteps(workerHandler) \in 0 .. 3
  BY DEF HandlerSteps
<1>3. ThreadSteps(phase) \in 0 .. 4
  BY DEF ThreadSteps
<1>4. ExitSteps(process, misc) \in 0 .. 3
  BY DEF ExitSteps
<1>5. MaxSigints - sigints \in Nat
  BY MaxSigintsAssumption DEF TypeOK
<1> QED
  BY <1>1, <1>2, <1>3, <1>4, <1>5

\* Once the id is cleared, every step leaves fewer to take.
LEMMA NextClearedEnds ==
  ASSUME AppInv, WaitInv, Next, Cleared
  PROVE  Cleared' /\ StepsLeft' \in Nat /\ StepsLeft' < StepsLeft
<1>1. TypeOK /\ TypeOK'
  BY NextTypeOK DEF AppInv
<1>2. MaxSigints' = MaxSigints
  OBVIOUS
<1> DEFINE main == MainSteps(mainPc)
           onMain == HandlerSteps(mainHandler)
           onWorker == HandlerSteps(workerHandler)
           thread == ThreadSteps(phase)
           exit == ExitSteps(process, misc)
           more == MaxSigints - sigints
<1>3. /\ main \in 0 .. 7 /\ onMain \in 0 .. 3 /\ onWorker \in 0 .. 3
      /\ thread \in 0 .. 4 /\ exit \in 0 .. 3 /\ more \in Nat
  BY <1>1, StepsType
<1>4. /\ MainSteps(mainPc') \in 0 .. 7
      /\ HandlerSteps(mainHandler') \in 0 .. 3 /\ HandlerSteps(workerHandler') \in 0 .. 3
      /\ ThreadSteps(phase') \in 0 .. 4 /\ ExitSteps(process', misc') \in 0 .. 3
  <2>1. MainSteps(mainPc') \in 0 .. 7
    BY DEF MainSteps
  <2>2. HandlerSteps(mainHandler') \in 0 .. 3 /\ HandlerSteps(workerHandler') \in 0 .. 3
    BY DEF HandlerSteps
  <2>3. ThreadSteps(phase') \in 0 .. 4
    BY DEF ThreadSteps
  <2>4. ExitSteps(process', misc') \in 0 .. 3
    BY DEF ExitSteps
  <2> QED
    BY <2>1, <2>2, <2>3, <2>4
<1>5. MaxSigints - sigints' \in Nat
  <2>1. sigints' \in 0 .. MaxSigints
    BY <1>1 DEF TypeOK
  <2>2. \A m \in Nat : \A s \in 0 .. m : m - s \in Nat
    OBVIOUS
  <2> QED
    BY <2>1, <2>2, MaxSigintsAssumption, Zenon
<1>6. s_dToF_main /\ ~threadValid
  BY DEF Cleared
<1>7. mainPc \notin ConstructorLocations \cup {"publish"}
  BY <1>6 DEF AppInv, HandlerRules
<1>8. SUFFICES /\ s_dToF_main' /\ ~threadValid'
               /\ MainSteps(mainPc') + HandlerSteps(mainHandler') + HandlerSteps(workerHandler')
                    + ThreadSteps(phase') + ExitSteps(process', misc') + 4 * (MaxSigints - sigints')
                  < main + onMain + onWorker + thread + exit + 4 * more
  BY <1>2, <1>3, <1>4, <1>5 DEF StepsLeft, Cleared
<1> USE DEF workerVars, handlerVars, deviceVars, objectVars, joinVars, failureVars
\* Main gets on by a step of its own.
<1>9. ASSUME s_dToF_main', ~threadValid', UNCHANGED <<mainHandler, workerHandler, phase, sigints>>,
             MainSteps(mainPc') + ExitSteps(process', misc') < main + exit
      PROVE  MainSteps(mainPc') + HandlerSteps(mainHandler') + HandlerSteps(workerHandler')
                    + ThreadSteps(phase') + ExitSteps(process', misc') + 4 * (MaxSigints - sigints')
                  < main + onMain + onWorker + thread + exit + 4 * more
  <2>1. /\ HandlerSteps(mainHandler') = onMain /\ HandlerSteps(workerHandler') = onWorker
        /\ ThreadSteps(phase') = thread /\ MaxSigints - sigints' = more
    BY <1>9
  <2> HIDE DEF main, onMain, onWorker, thread, exit, more
  <2> QED
    BY <1>3, <1>4, <1>9, <2>1
<1>10. CASE LoadJoinArgument
  <2>1. process = "running" /\ process' = "exiting" /\ mainPc = "join" /\ mainPc' = "joinFault" /\ misc' = misc
    BY <1>6, <1>10 DEF LoadJoinArgument, MainAt
  <2>2. MainSteps(mainPc') + ExitSteps(process', misc') < main + exit
    BY <2>1 DEF MainSteps, ExitSteps
  <2> QED
    BY <1>6, <1>9, <1>10, <2>2 DEF LoadJoinArgument
<1>11. CASE JoinReturns \/ StopStreaming \/ CloseSubdev \/ CloseVideo \/ DeleteObjects
  <2>1. /\ MainSteps(mainPc') < main
        /\ UNCHANGED <<process, misc, mainHandler, workerHandler, phase, sigints, s_dToF_main, threadValid>>
    BY <1>11 DEF JoinReturns, StopStreaming, CloseSubdev, CloseVideo, DeleteObjects, MainAt,
                 TeardownStep, MainSteps
  <2>2. MainSteps(mainPc') + ExitSteps(process', misc') < main + exit
    BY <2>1, <1>3, <1>4
  <2> QED
    BY <1>6, <1>9, <2>1, <2>2
<1>12. CASE Return
  <2>1. process = "running" /\ process' = "returning" /\ mainPc' = mainPc /\ misc' = misc
    BY <1>12 DEF Return, MainAt
  <2>2. ExitSteps(process', misc') < exit
    BY <2>1 DEF ExitSteps
  <2>3. MainSteps(mainPc') + ExitSteps(process', misc') < main + exit
    BY <1>3, <1>4, <2>1, <2>2
  <2> QED
    BY <1>6, <1>9, <1>12, <2>3 DEF Return
<1>13. CASE Terminate \/ DestroyMisc \/ ProcessEnds
  <2>1. ExitSteps(process', misc') < exit
    BY <1>13 DEF Terminate, DestroyMisc, ProcessEnds, ExitSteps
  <2>2. UNCHANGED <<mainPc, mainHandler, workerHandler, phase, sigints, s_dToF_main, threadValid>>
    BY <1>13 DEF Terminate, DestroyMisc, ProcessEnds
  <2>3. MainSteps(mainPc') + ExitSteps(process', misc') < main + exit
    BY <1>3, <1>4, <2>1, <2>2
  <2> QED
    BY <1>6, <1>9, <2>2, <2>3
<1>14. CASE WorkerRuns
  <2>1. ThreadSteps(phase') < thread
    BY <1>6, <1>14 DEF WorkerRuns, Thread!ThreadStep, Thread!ThreadLoop, Thread!Test,
         Thread!PollReturns, Thread!PollFails, Thread!UseReturns, Thread!UseFaults,
         Thread!WakeUp, Thread!ActOnCancel, ThreadSteps
  <2>2. UNCHANGED <<mainPc, mainHandler, workerHandler, sigints, s_dToF_main, threadValid, misc>>
    BY <1>14 DEF WorkerRuns, notWorker, Thread!ThreadStep, Thread!ThreadLoop, Thread!Test,
         Thread!PollReturns, Thread!PollFails, Thread!UseReturns, Thread!UseFaults,
         Thread!WakeUp, Thread!ActOnCancel
  <2>3. ExitSteps(process', misc') <= exit
    BY <1>14, <2>2 DEF WorkerRuns, ExitSteps
  <2>4. /\ MainSteps(mainPc') = main /\ HandlerSteps(mainHandler') = onMain
        /\ HandlerSteps(workerHandler') = onWorker /\ MaxSigints - sigints' = more
    BY <2>2
  <2> HIDE DEF main, onMain, onWorker, thread, exit, more
  <2> QED
    BY <1>3, <1>4, <1>6, <2>1, <2>2, <2>3, <2>4
<1>15. CASE SigintOnMain \/ SigintOnWorker
  <2>1. /\ sigints' = sigints + 1
        /\ UNCHANGED <<mainPc, phase, process, misc, s_dToF_main, threadValid>>
        /\ \/ HandlerSteps(workerHandler') = onWorker
           \/ HandlerSteps(mainHandler') = onMain
    BY <1>15 DEF SigintOnMain, SigintOnWorker
  <2>2. MaxSigints - sigints' = more - 1
    BY <1>1, <2>1, MaxSigintsAssumption DEF TypeOK
  <2>3. /\ MainSteps(mainPc') = main /\ ThreadSteps(phase') = thread
        /\ ExitSteps(process', misc') = exit
    BY <2>1
  <2> HIDE DEF main, onMain, onWorker, thread, exit, more
  <2>4. 4 * (MaxSigints - sigints') = 4 * more - 4
    BY <1>3, <1>5, <2>2
  <2>5. HandlerSteps(mainHandler') + HandlerSteps(workerHandler') < onMain + onWorker + 4
    BY <1>3, <1>4, <2>1
  <2> QED
    BY <1>3, <1>4, <1>5, <1>6, <2>1, <2>3, <2>4, <2>5
<1>16. CASE HandlerOnMain \/ HandlerOnWorker
  <2>1. UNCHANGED <<mainPc, phase, misc, sigints, s_dToF_main>>
    BY <1>16 DEF HandlerOnMain, HandlerOnWorker
  <2>6. ~threadValid'
    <3>1. threadValid' = threadValid \/ threadValid' = FALSE
      BY <1>16 DEF HandlerOnMain, HandlerOnWorker, HandlerStep, ClearThreadId
    <3> QED
      BY <1>6, <3>1, Zenon
  <2>2. \/ HandlerSteps(mainHandler') < onMain /\ workerHandler' = workerHandler
        \/ HandlerSteps(workerHandler') < onWorker /\ mainHandler' = mainHandler
    <3>1. LoadThreadId = "none"
      BY <1>6 DEF LoadThreadId
    <3>2. \A at \in HandlerLocations : \A next :
            HandlerStep(at, next) => HandlerSteps(next) < HandlerSteps(at)
      BY <3>1 DEF HandlerStep, HandlerSteps
    <3>3. mainHandler \in HandlerLocations /\ workerHandler \in HandlerLocations
      BY <1>1 DEF TypeOK, LocationsOK
    <3>4. \/ HandlerStep(mainHandler, mainHandler') /\ workerHandler' = workerHandler
          \/ HandlerStep(workerHandler, workerHandler') /\ mainHandler' = mainHandler
      BY <1>16, Zenon DEF HandlerOnMain, HandlerOnWorker
    <3> QED
      BY <3>2, <3>3, <3>4, Zenon
  <2>3. ExitSteps(process', misc') <= exit
    BY <1>16, <2>1 DEF HandlerOnMain, HandlerOnWorker, ExitSteps
  <2>4. HandlerSteps(mainHandler') + HandlerSteps(workerHandler') < onMain + onWorker
    BY <1>3, <1>4, <2>2
  <2>5. /\ MainSteps(mainPc') = main /\ ThreadSteps(phase') = thread
        /\ MaxSigints - sigints' = more
    BY <2>1
  <2> HIDE DEF main, onMain, onWorker, thread, exit, more
  <2> QED
    BY <1>3, <1>4, <1>6, <2>1, <2>3, <2>4, <2>5, <2>6
<1>17. ~(Construct \/ OpenSubdev \/ OpenVideo \/ Configure \/ AllocBuffers \/ StreamOn
         \/ ReadExposure \/ InitAlgo \/ CreateThread \/ Publish)
  BY <1>7 DEF Construct, OpenSubdev, OpenVideo, Configure, AllocBuffers, StreamOn, ReadExposure,
              InitAlgo, CreateThread, Publish, MainAt, ConstructorStep, ConstructorLocations
<1> QED
  BY <1>10, <1>11, <1>12, <1>13, <1>14, <1>15, <1>16, <1>17 DEF Next, Main, Exit

\* After the id of the thread was cleared, the process makes at most StepsLeft more
\* steps, whatever its threads, handlers and the remaining SIGINTs do.
THEOREM EndsWithinBoundedSteps == Spec => ClearedEnds
<1>1. AppInv /\ WaitInv /\ [Next]_vars
        => [Cleared => Cleared' /\ StepsLeft' \in Nat /\ StepsLeft' < StepsLeft]_vars
  BY NextClearedEnds
<1> QED
  BY <1>1, AppInvariance, WaitInvariance, PTL DEF Spec, ClearedEnds

=============================================================================
