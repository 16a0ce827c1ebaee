# TinySwiftApp: specifications, model checking and proofs

TinySwiftApp captures raw frames of a direct time-of-flight sensor (ads6401)
from a V4L2 device, hands each to a binary algorithm library, and logs or dumps
the resulting depth images. This directory holds TLA+ modules for its core
logic, TLC configurations that check them on small instances, and proofs
checked by TLAPS.

`PROJECT.json` ties it together: the components, the runs, for each property a
faulty variant of the code that the property notices, the source lines of every
definition, the findings, the hazards and the theorems.

## 1. Inventory

| component (source) | state | operations | what makes it correct |
|---|---|---|---|
| Frame processing thread (`dtof_main.cpp` 144-344) | `frame_process_thread_id`, the local `param`, `dumped_frame_cnt`, `depth_buffer`, `outputed_frame_cnt` | poll, `Capture_frame`, `frame_decode`, quota, sleep | never blocks in DQBUF; decodes each good frame once and in order; ends on stop, quota or failure; consecutive frames make up consecutive images |
| Capture path (`v4l2.cpp` 228-309, 549-677) | the kernel's queue of 6 mapped buffers, `rxFrameCnt` | `alloc_buffers`, `Start_streaming`, `Capture_frame`, `Stop_streaming`, `free_buffers` | no buffer lost or used twice; the decoder's buffer is not overwritten within one rotation |
| Frame loss checker (`adaps_dtof.cpp` 57-97) | `last_id`, totals | `init_frame_checker`, `check_frame_loss` | counts are right modulo 256 |
| Application life cycle (`dtof_main.cpp` 5-142, 346-360, `main.cpp` 36-53, 209-226) | the devices, the objects, `s_dToF_main`, the thread id | constructor, publication, join, teardown, `stop`, signal handlers, exit | nothing is torn down under the worker; devices, stream, buffers and objects are released; CTRL-C ends the process |
| Command line (`main.cpp` 55-225) | `sns_param` | `parse_args`, checks, `requirement_check` | what becomes of a command line depends on all of it, and the program starts with what it asks for |
| Device node search (`v4l2.cpp` 124-204) | `cur_devnode`, `sd_devnode_4_dtof` | enumeration, sysfs lookup, comparison | the sensor's own node is opened |
| Misc device (`misc_device.cpp`) | `module_static_data`, EEPROM pointers, exposure, last runtime status | reads and writes of the driver | values are this module's and not stale |
| Decoder (`adaps_dtof.cpp`) | `set_param`, handle, frame counters | `initParams`, `adaps_dtof_initilize`, `dtof_frame_decode`, ROI SRAM checks and shift, spot statistics | the library is called only after a successful creation, with this module's calibration; the EEPROM stays as it is; the ROI SRAM check reports what the data says |
| Algorithm library (`depthmapwrapper.h`) | external | `DepthMapWrapperCreate`, `DepthMapWrapperProcessFrame` | - |
| Utilities (`utils.cpp`) | - | file checks, file output, hex dumps, environment variables | the checks tell usable files apart; the rest is pure I/O |
| Driver interface (`adaps_dtof_uapi.h`, `adaps_types.h`, `common.h`) | data layouts | - | appears as reads and writes that may fail |
| Build and release files | - | - | no behaviour of the program |

Interactions. `main` parses the command line, builds a `DToF_Main` on its stack
and publishes its address in `s_dToF_main`. The constructor creates `ADAPS_DTOF`,
`V4L2` and `Utils` and the singleton `Misc_Device`, opens and configures the
devices, starts streaming, creates the library and finally the worker. When
`main` returns the destructor joins the worker, and then stops and closes
everything. The worker shares with the main thread the thread id (no lock), and
with the kernel driver the memory of the capture buffers. SIGINT runs
`DToF_Main::stop` on whichever thread takes it; every other handled signal calls
`exit(0)` from the handler.

What is hard: buffers are given back *before* the frame in them is decoded;
erroneous buffers leave `param` stale; the driver's DMA, the worker, the main
thread and the handlers on either thread interleave freely; the thread id is
cleared, loaded and used without a lock; any step of the initialisation may
fail and the destructor runs all the same; several members and locals are read
before they are assigned; ids and counters wrap. Section "hazards" of
`PROJECT.json` lists each of these at its line with the properties that watch it, or says why none does.

## 2. Modules

```
Vb2Queue      FrameLossChecker           WorkerPhases        FrameFeed
     \         /                          (abstract)         (abstract)
      FrameWorker  --- implements --->  WorkerPhases, FrameFeed
          |                                  |
      frame_decode in detail:          AppLifecycle  (built on WorkerPhases)
      FrameDecode

CommandLine     DevNodeSearch     DecoderSetup     RoiSram    (start-up, sequential)
```

**Vb2Queue** (external: the kernel's videobuf2 queue as `poll`, DQBUF and QBUF
show it). Buffers move from `queued` to `filling` to `done` to `held`. `mem[b]`
is the number of the frame DMA last *began* to write into `b`: DMA overwrites
from the start of the frame on. `Rotation` lists all buffers in the order of
their last use.

**FrameLossChecker**: `check_frame_loss` as a function of the record
`FrameLossChecker` and the id.

**FrameWorker** composes both with the thread's loop, one action per stretch of
code between two points at which something else can intervene: the loop test,
`poll`, `Capture_frame` up to `error_exit`, the QBUF there, `frame_decode` up to
the library call, the rest of it, `usleep`. `DToF_Main::stop` is two actions,
because the loop test may come between the write of the id and `pthread_cancel`.
Cancellation is acted upon only where the code reaches a cancellation point.
With `param` never assigned (only erroneous buffers so far) `frame_decode`
switches on garbage: nothing happens (`DecodeUnset`), whatever the pointer leads to is
decoded and an arbitrary id checked for losses (`DecodeGarbage`), or the process
faults (`DecodeFaults`). A garbage id is recorded as a negative number.

**WorkerPhases** is the thread as the rest of the program sees it, and
**FrameFeed** what the capture path promises to the decoder. FrameWorker is
checked to implement both (`ThreadSpec`, `FeedSpec`), and **AppLifecycle** uses
WorkerPhases for its worker, so what is shown there holds for the thread that
FrameWorker describes.

**AppLifecycle**: the main thread from the construction to the return of
`main`, the worker, the SIGINT handler on either thread in its three steps (load
the id, clear it, cancel), the other signals and `exit`. Each initialisation step
succeeds or makes the constructor return early. `pthread_create`, whose result
is ignored, succeeds, fails leaving the id, or fails leaving an id that dangles.
`pthread_join(0)` reads a null descriptor with glibc: it faults, and the handler
of SIGSEGV calls `exit(0)`, which is what `joinFault` stands for. The sub-device,
the mapping and the video device are closed in `V4l2_close`, which stops at the
first failing `close`; a failing `munmap` only ends `free_buffers`, with the array and
part of the mapping left (`CloseSubdev`). `pthread_cancel` may fault on a descriptor that
was freed, by the join or by a failed `pthread_create`.

**CommandLine**: `parse_args` option by option, then the checks of `main`.
`uint32_t` and `UINT8` keep their width (`% CounterModulus`, `% 256`). `-h` is declared
with an argument (`main.cpp:85`), so it takes the option behind it (`PrintHelp`); the long
`--help` does not.

**DevNodeSearch**: the loop of `get_subdev_node_4_sensor` with the one buffer it
reuses for every entity; the enumeration may fail after any of them (`EnumFails`).

**DecoderSetup**: `Misc_Device`'s reads, the initial and the exposure parameters,
`initParams`, the creation of the library and `dtof_frame_decode`. Members no
constructor assigns start with any value, the library's handle among them: a creation
that succeeds without writing it passes the test for null (`CreateLibrary`, with the
history `unwritten`). Division by zero is taken as what the
aarch64 target does: the quotient is 0.

**RoiSram**: `FillSetWrapperParamFromEepromInfo` as far as the ROI SRAM goes. Memory
is three regions of pairs (the mapped EEPROM, `copied_roisram_4_anchorX`, whatever the
unassigned `loaded_roi_sram_data` designates), and `spot_cali_data` points into one;
`malloc`ed bytes are `Garbage` until the `memcpy`. The anchor shift and the check go
pair by pair, as the code's loops do. A cell of `frameCoordinatesMap` and the length
of a loaded ROI SRAM wrap (`% CountModulus`, `% LengthModulus`). Logged results
(duplicates, illegal ones, number of spots) are variables, because reporting them is
all the check is for.

**FrameDecode**: one call of `frame_decode` after the other, in five steps with
cancellation points between them. Where FrameWorker treats a call as a step, this
module has what it does to the depth buffer, the images, the files and the counters.
The sequence of frame numbers it is given is any that `FrameFeed` allows: growing, with
repetitions, and with an unassigned `param` before the first (`GarbageFrame`). The capture
buffer went back to the driver before the call, so what is saved and decoded is `content`,
which DMA may replace at any moment by a frame at least `BufferCount` younger
(`OverwriteBegins`, `OverwriteEnds`; the margin is `OverwriteMargin` of FrameWorker). The
depth buffer holds the set of frames whose spots were added; the history `overtaken` is
those that were read in the place of the frame in `param`.

In every module a definition with an underscore and a suffix (`Poll_Forever`) is
a faulty variant that no specification uses; it documents which mistake a
property would notice. MC modules (`MC*.tla`) give the constants their values.

## 3. Runs

All runs are exhaustive for their constants. `CHECK_DEADLOCK FALSE` is set
because every behaviour here really may stop: the worker ends, the process ends,
the search and the parser finish, the bounded sensor falls silent.

| run | states | what it shows |
|---|---|---|
| `worker` | 2722044 | 3 buffers, 7 frames, id modulo 4, errors, lost frames, device failure, EINTR, stop at any moment: buffers accounted for (`EachBufferOnce`), reused strictly in turn (`OldestFirst`), DQBUF never blocks, a frame under the decoder is overwritten at the earliest by the frame `BufferCount` later (`OverwriteMargin`), only an ERROR buffer makes a frame decode again (`FreshUnlessFlagged`, about the numbers in `param`), loss counts right modulo the id (`LossCountCongruent`), and both abstract specifications are implemented |
| `worker_fair` | 18664 | a scheduled worker with a quota of 2, erroneous buffers and a failing device: `stop` ends it though no frame arrives, a sensor that keeps streaming ends it by the quota, and every call that counts towards the quota used up one dequeued buffer, good or erroneous, so that what it counts beyond the captured frames is exactly the erroneous buffers (`QuotaCountsBuffers`) |
| `worker_quota_error` | violation | an ERROR buffer counts towards the quota |
| `worker_loss_error` | violation | with 6 buffers and 8-bit ids, decoding the previous frame again counts 255 lost frames |
| `lifecycle` | 9276 | up to 3 SIGINTs (two handlers at once, and one after the join): teardown only after the worker, the worker always has its resources, a return of `main` has deleted the objects, closed devices and stream unless a close failed, and released the buffers unless a close or `munmap` failed (`ReturnReleasesAll`), no cancel of a joined thread that was stopped, and a CTRL-C handled once `s_dToF_main` is set ends the process |
| `lifecycle_join` | violation | a CTRL-C between the publication and the join makes `pthread_join` fault while the worker runs |
| `command_line` | 1100520 | all command lines of up to 3 options in any order, on hosts with every combination of missing and unusable files: it starts only if nothing is wrong, rejects only what is (`Rejectable`) and faults only over `--roi_sram_rolling` (`OutcomeOfWholeLine`), and it starts with the last value given for each option (`StartedAsAsked`) |
| `devnode_search` | 14703 | all media devices of up to 4 entities, with an enumeration that may fail anywhere: the first sensor entity is found, and a failed search has seen none; the node opened is that of the last successful lookup |
| `devnode_stale` | violation | that node need not be the sensor's |
| `decoder_setup` | 364160 | every failure of the driver's reads, an EEPROM ready late, with and without `skip_frame_decode`, PCM mode and rolling, 17 frames: the calibration, exposure and temperature the library gets; it is called only after a successful creation and never with null, and with an uninitialised handle only if that creation did not write it (`OnlyCreatedLibraryCalled`); without it one image per frame in PCM mode and per complete round otherwise (`ImagesPerRound`) |
| `roi_sram` | 60809 | every source of the data, any coordinates in the first group: the EEPROM is never written (`EepromUntouched`), nothing unwritten is read (`OnlyCopiedDataRead`), the shift merges spots at the edge only (`OnlyEdgeSpotsCollide`), and the check reports exactly the duplicates, illegal coordinates and spots of a group although its counters wrap (`DuplicatesSeen`, `SpotsCounted`) |
| `frame_decode` | 3020904 | four calls with later, repeated or unassigned frames, DMA refilling the buffer while it is saved and decoded, all switches, a cancellation anywhere: nothing decoded is discarded (`NothingDiscarded`), images follow one another and share at most a repeated frame (`ImagesInOrder`) and a saved image has all its raw frames saved (`RawOfEachImage`), both but for what DMA put into a buffer that was still being read; depth maps are logged in time whatever the uninitialised counter holds (`DumpSpacing`) |

The violations are recorded as findings, each with the comment it contradicts;
section 4 says how far each reaches. Seen while modelling, and not worth a run of their
own because a single action shows them:

* `Stop_streaming` (`v4l2.cpp:660`) returns early, with the stream on, when no good
  frame was received; `close` then ends the stream (`StopStreaming`, `CloseVideo`).
* `--roi_sram_rolling` is declared without an argument, and `atoi(optarg)` reads a null
  pointer (`RollingWithoutArgument`), unless a `-h` before it swallows it.
* `V4l2_initilize` sends the driver fields of `param` that were never assigned
  (`v4l2.cpp:334`, `SendInitialParam`).
* `loaded_roi_sram_size` and `_data` (`adaps_dtof.cpp:312`) are read and never assigned
  (`SpotSources`, with `loaded` arbitrary in `Init`; `UseLoaded` and `LoadedFaults` in RoiSram).
* The usage text calls `-k` optional (`main.cpp:60`), and without it the default 0xFF is
  rejected (`main.cpp:179`; `Init` and `CheckKernelType`). `Rejectable` follows the code here
  and names the disagreement.
* `-h` takes the next option for its argument (`main.cpp:85`, `PrintHelp`).
* `m_handlerDepthLib` is not initialised (`adaps_dtof.h:104`): a `DepthMapWrapperCreate` that
  succeeds without writing it leaves a handle that is not null and is used (`CreateLibrary`).
* `free_buffers` returns at the first failing `munmap` (`v4l2.cpp:318`) and leaves the other
  buffers mapped (`CloseSubdev`).
* The media device's descriptor (`v4l2.cpp:168`) is never closed and the library never
  destroyed; they are not part of `ReturnReleasesAll`.
* With a module of more than two groups the check looks at the first two (`NextGroup`).

### Bounds

* `BufferCount`, `MaxFrames` (worker): 3 buffers are the least with one filling,
  one done and one held or queued at once; 7 frames are two rotations and one
  more, so an overwritten buffer and a wrapped id (modulo 4) both occur, and
  frames are dropped when all buffers wait to be dequeued. The theorems below
  remove both bounds, as they do for the runs `command_line`, `decoder_setup`, `roi_sram`,
  `frame_decode` and `devnode_search`.
* `ToDump`: 2 of 4 frames in `worker_fair`, so the quota can be used up by good, repeated
  and erroneous frames, before and after the stop.
* `MaxSigints` = 3: one handled on main, one on the worker meanwhile, one later.
  The theorems remove this bound.
* `MaxArgs` = 3: options interact in pairs (`-w` with `-k`); the third repeats or
  overrides one. `CounterModulus` = 16 stands for 2^32; `-1` shows the wrap.
* `MaxEntities` = 4: a stale node, a failing lookup, the sensor and one entity after it.
* `ZoneCounts`: less than one ROI SRAM group, one, and more than two.
  `Temperatures`: below, within and above the chip's range.
* `roi_sram`: groups of 2 zones of 3 pairs, 2 of them used, on a 3 x 2 grid. The
  coordinates include one at the edge, the one that is moved onto it, and an illegal
  one that becomes legal. 4 spots per group let a count modulo 3 wrap to zero and to one.
* `frame_decode`: 3 frames in 4 calls (a repetition), 2 buffers, so that frame 2 may overwrite
  frame 0 and be captured itself later; images of 2 sub-frames, a quota of 3, an interval of 3
  that does not divide the counter's range of 5, and -1, the largest unsigned number.
* 17 frames in `decoder_setup`: two rounds of the largest ROI SRAM and one frame.

### Fairness

`WorkerSpec` assumes weak fairness of the worker's own steps: the thread is
scheduled, `poll` has a 100 ms timeout, and the library returns. Nothing is
assumed of the sensor, the device, CTRL-C, EINTR or the delivery of the
cancellation. `QuotaEndsWorker` has the sensor's fairness as a premise
(`WF_vars(SensorStep) => ...`): a quota cannot be reached by a sensor that falls silent.
`FairSpec` of AppLifecycle
assumes that the main thread, the worker, a started handler and `exit` make
progress, not that anyone sends a signal.

## 4. Proofs

TLAPS proves, for every value of the constants:

| module | theorem: property |
|---|---|
| FrameWorkerProofs | `Invariance`: the inductive invariant; `TypeCorrect`: `TypeOK`; `BuffersAccounted`: `EachBufferOnce`; `MarginHolds`: `OverwriteMargin` |
| FrameWorkerRefinement | `OrderInvariance`: its strengthening; `NeverBlocks`: `DqbufNeverBlocks`; `OldestReusedFirst`: `OldestFirst`; `NoStaleDecode`: `FreshUnlessFlagged`; `LossAccounted`: `LossCountCongruent`; `QuotaCountsEachBufferOnce`: `QuotaCountsBuffers`; `ImplementsFeed`: `Spec => FeedSpec`; `ImplementsThread`: `Spec => ThreadSpec`; after a stop: `NeverWaits`, `EndsWithinAnIteration`; the counters: `StopsAtQuota`, `QuotaRightWithoutErrors`, `FaultNeedsErrorFirst`, `IntactWhilePrompt`, `LossNeverOvercounts`, `LossRightWhenPrompt`, `LossExactWhenPrompt` |
| FrameDecodeProofs | `Invariance`; `TypeCorrect`: `TypeOK`; `FramesKept`: `NothingDiscarded`; `ImagesFollow`: `ImagesInOrder`; `ImagesDisjointWhenFresh`; `RawSaved`: `RawOfEachImage`; `DumpsSpaced`: `DumpSpacing` |
| RoiSramProofs | `Invariance`; `TypeCorrect`: `TypeOK`; `EepromKept`: `EepromUntouched`; `OnlyReadDataUsed`: `OnlyCopiedDataRead`; `OnlyEdgeCollides`: `OnlyEdgeSpotsCollide`; `DuplicatesFound`: `DuplicatesSeen`; `SpotCountRight`: `SpotsCounted` |
| DecoderSetupProofs | `Invariance`; `TypeCorrect`: `TypeOK`; `CalibrationRight`: `CalibrationOfThisModule`; `CallsOnlyCreated`: `OnlyCreatedLibraryCalled`; `TemperatureRight`: `LaserTemperature`; `RoundsCounted`: `ImagesPerRound` |
| CommandLineProofs | `Invariance`; `TypeCorrect`: `TypeOK`; `OutcomeIsOfWholeLine`: `OutcomeOfWholeLine`; `StartsAsAsked`: `StartedAsAsked` |
| AppLifecycleProofs | `AppInvariance`; `AppTypeCorrect`: `TypeOK`; `TeardownWaits`: `TeardownAfterWorker`; `ResourcesThere`: `WorkerHasResources`; `NothingLeft`: `ReturnReleasesAll`; `NoLateCancel`: `NoCancelAfterStopAndJoin`; `JoinFaultsOnlyAfterStop`; `JoinWaitsUnasked`; `StopIsCarriedOut`; `EndsWithinBoundedSteps` |
| DevNodeSearchProofs | `Invariance`; `TypeCorrect`: `TypeOK`; `FindsFirstSensor`: `FirstSensorFound`; `OpensLastMatch`: `NodeOfLastMatch`; `RightNodeIffLookupMatches`; `SearchTerminates` |

Assumptions: only the ones named in the modules (`BufferCountAssumption`: at least
one buffer; `NoBufferAssumption`; `IdModulusAssumption`; `GeometryAssumption`:
positive sizes; `ContentsAssumption`: padding is zero; the switches are Booleans ...).

**FrameWorkerProofs.** `OverwriteMargin` is not inductive: that DMA writes a frame
at least `BufferCount` younger than the one decoded follows from the *order* in
which the buffers are reused. The inductive invariant `IInv` therefore adds
`OldestFirst` (the i-th buffer of `Rotation` was last written at least
`BufferCount - i + 1` frames ago), `EachBufferOnce` (the rotation is a
permutation of the buffers, so a write to its head changes no other buffer's
age) and `HeldOnlyInCapture` (a new buffer is dequeued only when none is held).
Every step leaves `Rotation` as it is, except `FrameStart`, which moves its head
to the end, gives it age 1 and makes all others one older. Lemmas state these
facts for each operation of the queue; the proof combines them, one
step per action.

**AppLifecycleProofs.** `WorkerHasResources` depends on where the main thread is:
`Progress` says what is certain at each place of the constructor, so it is all
there when `CreateThread` starts the worker; `WorkerInterval` says there is no
thread before that; `TeardownAfterWorker` that it has ended when the first resource
goes; that `exit` runs the destructor of `Misc_Device` only from a handler or
after the end of `main`. `Released` follows the closes. For `NoLateCancel`,
`HandlerRules` says that the thread is cancelled only after its id was cleared,
that a handler on the worker implies a running worker, and therefore that after
the join only one handler, which loads a cleared id, can be under way.

**FrameWorkerRefinement.** That frames are decoded in order needs more: the completed
buffers hold increasing frame numbers, the one being filled a greater one, and `param` a
smaller one (`CaptureOrder`); `DecodeOrder` relates `param` to the last frame decoded.
A frame start overwrites the head of the rotation, which is none of the completed
buffers (`HeadNotDone`, from `PlacesInLine`). With these, every step of
FrameWorker is a step of FrameFeed and of WorkerPhases, or a stutter, and `LossInv` and
`QuotaInv` relate the counters to the last frame decoded.

**FrameDecodeProofs.** `ImagesInOrder` needs to know that no frame in the buffer is older
than one that was output (`BufferYoungest`), except just after an output, when the
buffer still is the image (`JustOutput`); `RawOfEachImage` that, while the quota lasts,
whatever is in the buffer was saved (`SavedFirst`), in both cases but for what was
overtaken; `DumpSpacing` that the images since
the last dump are no more than the counter's remainder by the interval (`DumpCount`),
which survives the wrap because at 0 a depth map is logged.

**RoiSramProofs.** `CopyInv` says how far the shift has come; a used slot lies in its
group (`SlotInGroup`), so what the check reads was copied. `CountInv` says that each cell
is the number of its occurrences so far modulo the counter's range, and `duplicates` the
coordinates seen twice: a count that is incremented from 1 passes 2 whatever the range
(at least 3), and the wrapped sum is congruent (`CountWraps`). At the end
the pairs seen are all pairs of the group (`AllSeen`).

**DecoderSetupProofs.** `EepromKnown` is the core: a pointer to EEPROM data exists only
after an answer of a ready driver, and then type and anchor are the module's, so the
garbage `module_static_data` starts with can make `HasEeprom` false but never wrong.
`LibraryRules` relates the handle to the creation that reported success, and one step of
`RoundCount` the number of images to the frames.

**CommandLineProofs.** `ParsedSoFar` and `UsageNoticed` state what the options before
`optind` ask for, with a `LastBefore` that one more option either sets or leaves
(`OneMoreRead`); when all are read this is what the whole line asks for (`WholeRead`). Once a
`-h` was read, which may have swallowed an option, only the rejection matters;
`RollingRead` says that `--roi_sram_rolling` is passed only so.

**DevNodeSearchProofs.** `SearchInv` says which entities were passed and that none was
the sensor, and that once a lookup was made `cur_devnode` is the last match so far
(`LookedUp`). `Min` and `Max` of the properties are then the places the search is at.

### Where the findings end

The runs with a violation show that a claim of a comment or a test fails; theorems
say how far it holds.

* `worker_quota_error`: in a behaviour in which `VIDIOC_DQBUF` returns no ERROR buffer
  (`[]~errorFlag`), the quota counts captured frames only (`QuotaRightWithoutErrors`). With or
  without errors it is met exactly (`StopsAtQuota`). The argument is `QuotaCountsBuffers`: what it counts
  are the captured frames and the erroneous buffers, of which there are none.
* `worker_loss_error`: the losses counted exceed the frames sent only if the checker
  reads a frame that is not younger than the one before (`LossNeverOvercounts`). There
  are two ways to that: an ERROR buffer, after which the frame before is decoded again,
  and a decoder so late that DMA has overwritten the buffer it reads, after which the
  next frame is older than what was read. Without either (`Prompt`: fewer than
  `BufferCount` frames were sent since, so the buffer is intact by `IntactWhilePrompt`) no
  more losses are counted than frames were sent (`LossRightWhenPrompt`), and the counts are
  exact, not only modulo the id, as long as fewer frames than the id's range are lost in a row
  (`LossExactWhenPrompt`).
* `DecodeUnset`, `DecodeGarbage` and `DecodeFaults` of FrameWorker, the uses of a `param` nobody
  assigned, need an ERROR flag on every buffer so far (`FaultNeedsErrorFirst`).
* `lifecycle_join`: `pthread_join` faults on a thread that exists only after a SIGINT was
  handled and the id cleared (`JoinFaultsOnlyAfterStop`); without one the destructor
  waits (`JoinWaitsUnasked`).
* `devnode_stale`: the node opened is the sensor's exactly when the lookup of the sensor's
  own entity ended in a match (`RightNodeIffLookupMatches`).
* Two images share a frame only when a frame is decoded again or DMA put it into a buffer that
  was still being read; if each call of `frame_decode` is given a later frame (`FreshFrame`),
  they are disjoint but for the overtaken frames (`ImagesDisjointWhenFresh`). A decoder that is
  done before `BufferCount` more frames were sent has none (`IntactWhilePrompt`).

### What is proved of the liveness

Liveness under fairness is out of the prover's reach, so `StopEndsWorker`,
`QuotaEndsWorker` and `StopEndsProcess` are model-checked. What they rest on is proved,
for every value of the constants: nothing waits, and a number that every step lowers.

* `StopEndsWorker`: no step of the loop waits (`NeverWaits`: DQBUF finds a buffer or
  fails), and once the id is cleared it stays so and the worker takes at most seven
  more steps (`EndsWithinAnIteration`, with `StepsToEnd`).
* `StopEndsProcess`: a SIGINT whose handler found `s_dToF_main` set is not lost, whichever
  handlers overtake it, and main is never left in `pthread_join` without a thread, running
  or ended (`StopIsCarriedOut`). Once the id is cleared every step of the main thread, the
  worker, the handlers and `exit` lowers `StepsLeft` (`EndsWithinBoundedSteps`): a SIGINT may
  add a handler's three steps, but then one less of the `MaxSigints` is left, which counts
  four. That the steps are taken is the fairness.
* The search for the device node ends by itself (`SearchTerminates`).

Not provable here: that an action is enabled, and facts that need induction over data
(what a recursive function computes for every input).

## 5. Not modelled

* In `utils.cpp` the contents and names of the files, and the hex dumps: pure output. The values of the environment variables are constants or
  choices of the models.
* `dump_eeprom_data`, `dumpSpotCount`, `dump_frame_headinfo` and the wording of logs:
  they change no state that anything reads.
* What the algorithm library and the kernel driver compute; their results are choices.
* `get_frame_loss_rate`, `adaps_dtof_release` and other functions nothing calls.
  (That `adaps_dtof_release` is never called, and the descriptor of the media
  device never closed, is visible here only as the absence of such actions.)
* Signals while `main`'s return runs the exit handlers; a SIGTERM or SIGSEGV taken by
  the worker while the main thread is interrupted is covered by `Terminate` and `UseFaults`.
* The point cloud buffer, which is handed to the library like the depth buffer but,
  where it is compiled in, never cleared; the library's use of it is not in the source.
* The values of pixels, spots and depth; the ioctl structures beyond the fields the
  program reads (`adaps_dtof_uapi.h` is mostly such layouts).

## 6. Plan

Done: Vb2Queue, FrameLossChecker, FrameWorker, its two abstractions and the proof
that it implements them; AppLifecycle, FrameDecode, RoiSram, DecoderSetup, CommandLine
and DevNodeSearch. Every safety property of the passing runs is proved, the four findings
are delimited by theorems, and the safety parts of the liveness properties are proved.

Left: the exact content of an image (how many frames the library takes is not in the
source) and variants for the parser and the ROI SRAM check, whose loops end by their
bounds. AppLifecycle with FrameWorker in the place of WorkerPhases would repeat what
`ImplementsThread` shows.
