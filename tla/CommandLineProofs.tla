------------------------- MODULE CommandLineProofs --------------------------
(***************************************************************************)
(* Proofs about CommandLine, for command lines of any length with any      *)
(* arguments.                                                              *)
(***************************************************************************)
EXTENDS CommandLine, SequenceTheorems, TLAPS

\* What the options before the k-th ask for.
GivenBefore(opt, k) == {i \in 1 .. k - 1 : args[i].opt = opt}
LastBefore(opt, default, k) ==
  IF GivenBefore(opt, k) = {} THEN default ELSE args[Max(GivenBefore(opt, k))].arg

AskedBefore(k) ==
  [work_mode          |-> LastBefore("w", 0, k),
   to_dump_frame_cnt  |-> LastBefore("d", 0, k) % CounterModulus,
   roi_sram_rolling   |-> LastBefore("r", 0, k) # 0,
   module_kernel_type |-> LastBefore("k", 255, k) % 256]

\* While no usage was printed, the parameters are what the options so far ask for.
ParsedSoFar ==
  ret = 0 => \A field \in DOMAIN AskedBefore(next) : sns_param[field] = AskedBefore(next)[field]

UsageBefore(k) == GivenBefore("usage", k) \cup GivenBefore("h", k)
UsageNoticed == ret = -1 <=> UsageBefore(next) # {}

\* main goes on with its checks when every option was read, or taken by a -h.
AllRead == pc \notin {"parse", "faulted"} => next = Len(args) + 1

\* The long option without its argument was not read, or it faulted.
NotRead(i) == i > 1 /\ args[i - 1].opt = "h"
RollingTaken ==
  /\ pc # "faulted" => \A i \in GivenBefore("roi_sram_rolling", next) : NotRead(i)
  /\ pc = "faulted" => Given("roi_sram_rolling") # {}

KernelTypeAccepted == sns_param.module_kernel_type < CNT_MODULE
WorkModeAccepted == sns_param.work_mode \in {WK_DTOF_PCM, WK_DTOF_FHR}

\* What each check has established.
ChecksPassed ==
  /\ pc \in {"checkKernelType", "checkWorkMode", "checkRequirements", "started"} => ret = 0
  /\ pc \in {"checkWorkMode", "checkRequirements", "started"} => KernelTypeAccepted
  /\ pc \in {"checkRequirements", "started"} =>
       WorkModeAccepted /\ sns_param.preset = PresetOf(sns_param.work_mode)
  /\ pc = "started" => RequirementsMet

RejectedForCause ==
  pc = "rejected" =>
    ret = -1 \/ (ret = 0 /\ (~KernelTypeAccepted \/ ~WorkModeAccepted \/ ~RequirementsMet))

IInv ==
  /\ TypeOK
  /\ ParsedSoFar
  /\ UsageNoticed
  /\ AllRead
  /\ RollingTaken
  /\ ChecksPassed
  /\ RejectedForCause

-----------------------------------------------------------------------------
(* Lemmas. *)

\* The greatest member of a set of numbers is the one no other exceeds.
LEMMA GreatestIs ==
  ASSUME NEW S, NEW m \in S, S \subseteq Nat, \A i \in S : i <= m
  PROVE  Max(S) = m
<1>1. \A x \in S : (\A y \in S : x >= y) => x = m
  OBVIOUS
<1>2. \E x \in S : \A y \in S : x >= y
  OBVIOUS
<1> QED
  BY <1>1, <1>2 DEF Max

\* An option that is read becomes the last one given of its kind, and changes
\* nothing for the others.
LEMMA OneMoreRead ==
  ASSUME NEW k \in Nat \ {0}, NEW opt, NEW default
  PROVE  /\ GivenBefore(opt, k + 1) =
              GivenBefore(opt, k) \cup (IF args[k].opt = opt THEN {k} ELSE {})
         /\ LastBefore(opt, default, k + 1) =
              IF args[k].opt = opt THEN args[k].arg ELSE LastBefore(opt, default, k)
<1>1. GivenBefore(opt, k + 1) =
        GivenBefore(opt, k) \cup (IF args[k].opt = opt THEN {k} ELSE {})
  BY DEF GivenBefore
<1>2. CASE args[k].opt = opt
  <2>1. k \in GivenBefore(opt, k + 1)
    BY <1>2 DEF GivenBefore
  <2>2. GivenBefore(opt, k + 1) \subseteq Nat /\ \A i \in GivenBefore(opt, k + 1) : i <= k
    BY DEF GivenBefore
  <2>3. Max(GivenBefore(opt, k + 1)) = k
    BY <2>1, <2>2, GreatestIs
  <2> QED BY <1>1, <1>2, <2>1, <2>3 DEF LastBefore
<1>3. CASE args[k].opt # opt
  <2>1. GivenBefore(opt, k + 1) = GivenBefore(opt, k)
    BY <1>1, <1>3
  <2> QED BY <1>1, <1>3, <2>1 DEF LastBefore
<1> QED
  BY <1>2, <1>3

\* Once every option was read, that is what the command line as a whole asks for.
LEMMA WholeRead ==
  ASSUME TypeOK, next = Len(args) + 1
  PROVE  /\ \A opt : GivenBefore(opt, next) = Given(opt)
         /\ AskedBefore(next) = Asked
<1>1. DOMAIN args = 1 .. next - 1
  BY DEF TypeOK
<1>2. \A opt : GivenBefore(opt, next) = Given(opt)
  BY <1>1 DEF GivenBefore, Given
<1>3. \A opt, default : LastBefore(opt, default, next) = Last(opt, default)
  BY <1>2 DEF LastBefore, Last
<1> QED
  BY <1>2, <1>3 DEF AskedBefore, Asked

\* An option and its argument.
LEMMA OptionTypes ==
  ASSUME NEW o \in Options
  PROVE  o.arg \in Int
<1>1. WorkModes \cup DumpCounts \cup KernelTypes \cup RollingValues \subseteq Int
  BY ArgumentsAssumption
<1>2. \/ o \in [opt : {"w"}, arg : WorkModes]
      \/ o \in [opt : {"d"}, arg : DumpCounts]
      \/ o \in [opt : {"k"}, arg : KernelTypes]
      \/ o \in [opt : {"r"}, arg : RollingValues]
      \/ o \in [opt : {"roi_sram_rolling", "usage", "h"}, arg : {0}]
  BY DEF Options
<1>3. \A optSet, argSet : o \in [opt : optSet, arg : argSet] => o.arg \in argSet
  OBVIOUS
<1>4. \/ o.arg \in WorkModes \/ o.arg \in DumpCounts \/ o.arg \in KernelTypes
      \/ o.arg \in RollingValues \/ o.arg \in {0}
  BY <1>2, <1>3
<1> QED
  BY <1>1, <1>4

\* requirement_check finds out whether the requirements are met.
LEMMA RequirementsChecked ==
  ASSUME host \in Hosts
  PROVE  requirement_check < 0 <=> ~RequirementsMet
<1>1. /\ host.library \in {"absent", "regular", "other"}
      /\ host.config \in {"absent", "regular", "other"}
      /\ host.dumpDir \in {"absent", "not a directory", "read-only", "writable"}
      /\ host.dumpData \in BOOLEAN
  BY DEF Hosts
<1>2. \A path \in {"absent", "regular", "other"} :
        check_regular_file_exist(path) = IF path = "regular" THEN 0
                                         ELSE IF path = "absent" THEN -1 ELSE -2
  BY DEF check_regular_file_exist
<1>3. \A path \in {"absent", "not a directory", "read-only", "writable"} :
        check_dir_exist_and_writable(path) =
          IF path = "writable" THEN 0
          ELSE IF path = "absent" THEN -1 ELSE IF path = "read-only" THEN -2 ELSE -3
  BY DEF check_dir_exist_and_writable
<1>4. CASE host.library # "regular"
  <2>1. check_regular_file_exist(host.library) \in {-1, -2}
    BY <1>1, <1>2, <1>4
  <2>2. requirement_check \in {-1, -2}
    BY <2>1 DEF requirement_check
  <2> QED BY <1>4, <2>2 DEF RequirementsMet
<1>5. CASE host.library = "regular" /\ host.config # "regular"
  <2>1. /\ check_regular_file_exist(host.library) = 0
        /\ check_regular_file_exist(host.config) \in {-1, -2}
    BY <1>1, <1>2, <1>5
  <2>2. requirement_check \in {-1, -2}
    BY <2>1 DEF requirement_check
  <2> QED BY <1>5, <2>2 DEF RequirementsMet
<1>6. CASE host.library = "regular" /\ host.config = "regular"
  <2>1. /\ check_regular_file_exist(host.library) = 0
        /\ check_regular_file_exist(host.config) = 0
    BY <1>1, <1>2, <1>6
  <2>2. CASE host.dumpData
    <3>1. requirement_check = check_dir_exist_and_writable(host.dumpDir)
      BY <2>1, <2>2 DEF requirement_check
    <3>2. CASE host.dumpDir = "writable"
      <4>1. requirement_check = 0
        BY <1>1, <1>3, <3>1, <3>2
      <4>2. RequirementsMet
        BY <1>6, <3>2 DEF RequirementsMet
      <4> QED BY <4>1, <4>2
    <3>3. CASE host.dumpDir # "writable"
      <4>1. requirement_check \in {-1, -2, -3}
        BY <1>1, <1>3, <3>1, <3>3
      <4>2. ~RequirementsMet
        BY <2>2, <3>3 DEF RequirementsMet
      <4> QED BY <4>1, <4>2
    <3> QED BY <3>2, <3>3
  <2>3. CASE ~host.dumpData
    <3>1. requirement_check = 0
      BY <2>1, <2>3 DEF requirement_check
    <3>2. RequirementsMet
      BY <1>6, <2>3 DEF RequirementsMet
    <3> QED BY <3>1, <3>2
  <2> QED BY <2>2, <2>3
<1> QED
  BY <1>4, <1>5, <1>6

\* The parameters read so far, one by one.
LEMMA ParsedFields ==
  ParsedSoFar <=>
    (ret = 0 =>
       /\ sns_param.work_mode = LastBefore("w", 0, next)
       /\ sns_param.to_dump_frame_cnt = LastBefore("d", 0, next) % CounterModulus
       /\ sns_param.roi_sram_rolling = (LastBefore("r", 0, next) # 0)
       /\ sns_param.module_kernel_type = LastBefore("k", 255, next) % 256)
BY DEF ParsedSoFar, AskedBefore

\* What reading an option does, whichever it is.
LEMMA OptionRead ==
  ASSUME IInv, NEW opt, OptionIs(opt)
  PROVE  /\ pc = "parse" /\ next' = next + 1 /\ next \in Nat \ {0}
         /\ next' \in 1 .. Len(args) + 1
         /\ UNCHANGED <<args, host>>
         /\ args[next].arg \in Int /\ args[next].opt = opt
         /\ \A o : (GivenBefore(o, next))' = GivenBefore(o, next + 1)
         /\ \A o, default : (LastBefore(o, default, next))' =
              IF o = opt THEN args[next].arg ELSE LastBefore(o, default, next)
<1>1. /\ pc = "parse" /\ next' = next + 1 /\ next <= Len(args)
      /\ UNCHANGED <<args, host>> /\ args[next].opt = opt
  BY DEF OptionIs, Returned
<1>2. args \in Seq(Options) /\ Len(args) \in Nat /\ next \in 1 .. Len(args)
  BY <1>1 DEF IInv, TypeOK
<1>3. args[next] \in Options
  BY <1>2
<1>4. args[next].arg \in Int
  BY <1>3, OptionTypes
<1>5. \A o : (GivenBefore(o, next))' = GivenBefore(o, next + 1)
  BY <1>1 DEF GivenBefore
<1>6. \A o, default : (LastBefore(o, default, next))' = LastBefore(o, default, next + 1)
  BY <1>1, <1>5 DEF LastBefore
<1>7. \A o, default : LastBefore(o, default, next + 1) =
         IF o = opt THEN args[next].arg ELSE LastBefore(o, default, next)
  <2> TAKE o, default
  <2>1. next \in Nat \ {0}
    BY <1>2
  <2>2. LastBefore(o, default, next + 1) =
          IF args[next].opt = o THEN args[next].arg ELSE LastBefore(o, default, next)
    BY <2>1, OneMoreRead
  <2> QED BY <1>1, <2>2
<1> QED
  BY <1>1, <1>2, <1>4, <1>5, <1>6, <1>7

\* The usage was asked for before if it was, or is now.
LEMMA UsageRead ==
  ASSUME IInv, NEW opt, OptionIs(opt), opt \notin {"usage", "h"}, UNCHANGED ret
  PROVE  UsageNoticed'
<1>1. \A o \in {"usage", "h"} : GivenBefore(o, next + 1) = GivenBefore(o, next)
  <2>1. next \in Nat \ {0} /\ args[next].opt \notin {"usage", "h"}
    BY OptionRead
  <2> QED BY <2>1 DEF GivenBefore
<1>2. \A o \in {"usage", "h"} : (GivenBefore(o, next))' = GivenBefore(o, next)
  BY <1>1, OptionRead
<1>3. (GivenBefore("usage", next))' = GivenBefore("usage", next)
  BY <1>2
<1>4. (GivenBefore("h", next))' = GivenBefore("h", next)
  BY <1>2
<1>5. (UsageBefore(next))' = UsageBefore(next)
  BY <1>3, <1>4 DEF UsageBefore
<1> QED
  BY <1>5 DEF IInv, UsageNoticed

\* An option that is not the long one takes nothing from -h.
LEMMA RollingRead ==
  ASSUME IInv, NEW opt, OptionIs(opt), opt # "roi_sram_rolling", pc' = "parse"
  PROVE  RollingTaken'
<1>1. next \in Nat \ {0} /\ args[next].opt # "roi_sram_rolling" /\ args' = args /\ pc = "parse"
  BY OptionRead
<1>2. (GivenBefore("roi_sram_rolling", next))' = GivenBefore("roi_sram_rolling", next)
  <2>1. GivenBefore("roi_sram_rolling", next + 1) = GivenBefore("roi_sram_rolling", next)
    BY <1>1, OneMoreRead
  <2> QED BY <2>1, OptionRead
<1> QED
  BY <1>1, <1>2 DEF IInv, RollingTaken, NotRead

\* The initial states satisfy the invariant.
LEMMA InitInv == Init => IInv
<1> SUFFICES ASSUME Init PROVE IInv
  OBVIOUS
<1>1. args \in Seq(Options) /\ Len(args) \in Nat
  <2>1. PICK n \in 0 .. MaxArgs : args \in [1 .. n -> Options]
    BY DEF Init, CommandLines
  <2>2. n \in Nat
    BY ArgumentsAssumption
  <2> QED BY <2>1, <2>2, SeqDef
<1>2. sns_param = [work_mode |-> 0, to_dump_frame_cnt |-> 0, roi_sram_rolling |-> FALSE,
                   module_kernel_type |-> 255, preset |-> "none"]
  BY DEF Init
<1>3. sns_param \in Params
  BY <1>2 DEF Params, Presets
<1>4. TypeOK
  BY <1>1, <1>3 DEF Init, TypeOK, Locations
<1>5. \A opt : GivenBefore(opt, next) = {}
  BY DEF Init, GivenBefore
<1>6. \A opt, default : LastBefore(opt, default, next) = default
  BY <1>5 DEF LastBefore
<1>7. 0 % CounterModulus = 0 /\ 255 % 256 = 255
  BY ArgumentsAssumption
<1>8. ParsedSoFar
  <2>1. /\ sns_param.work_mode = 0 /\ sns_param.to_dump_frame_cnt = 0
        /\ sns_param.module_kernel_type = 255
    BY <1>2
  <2>2. sns_param.roi_sram_rolling = (0 # 0)
    BY <1>2
  <2> QED BY <1>6, <1>7, <2>1, <2>2, ParsedFields
<1> QED
  BY <1>4, <1>5, <1>8 DEF Init, IInv, UsageNoticed, UsageBefore, AllRead, RollingTaken,
    ChecksPassed, RejectedForCause

-----------------------------------------------------------------------------
(* Every step keeps the invariant. *)

OptionReadAs(opt) ==
  /\ pc = "parse" /\ next' = next + 1 /\ next \in Nat \ {0}
  /\ next' \in 1 .. Len(args) + 1
  /\ UNCHANGED <<args, host>>
  /\ args[next].arg \in Int /\ args[next].opt = opt
  /\ \A o : (GivenBefore(o, next))' = GivenBefore(o, next + 1)
  /\ \A o, default : (LastBefore(o, default, next))' =
       IF o = opt THEN args[next].arg ELSE LastBefore(o, default, next)

\* ParsedSoFar of the next state, field by field.
LEMMA ParsedFieldsNext ==
  ParsedSoFar' <=>
    (ret' = 0 =>
       /\ sns_param'.work_mode = (LastBefore("w", 0, next))'
       /\ sns_param'.to_dump_frame_cnt = (LastBefore("d", 0, next))' % CounterModulus
       /\ sns_param'.roi_sram_rolling = ((LastBefore("r", 0, next))' # 0)
       /\ sns_param'.module_kernel_type = (LastBefore("k", 255, next))' % 256)
BY DEF ParsedSoFar, AskedBefore

\* While the options are read the checks have not begun.
LEMMA OptionKept ==
  ASSUME IInv, NEW opt, OptionReadAs(opt), pc' = "parse", ret' \in {0, -1},
         sns_param' \in Params, ParsedSoFar', UsageNoticed', RollingTaken'
  PROVE  IInv'
<1>1. TypeOK'
  BY DEF OptionReadAs, IInv, TypeOK, Locations
<1> QED
  BY <1>1 DEF IInv, AllRead, ChecksPassed, RejectedForCause

\* -w keeps the invariant.
LEMMA SetWorkModeInv == IInv /\ SetWorkMode => IInv'
<1> SUFFICES ASSUME IInv, SetWorkMode PROVE IInv'
  OBVIOUS
<1> DEFINE value == args[next].arg
<1>1. /\ OptionIs("w") /\ UNCHANGED <<pc, ret>>
      /\ sns_param' = [sns_param EXCEPT !.work_mode = value]
  BY DEF SetWorkMode
<1>2. OptionReadAs("w")
  BY <1>1, OptionRead DEF OptionReadAs
<1>3. value \in Int /\ sns_param \in Params
  BY <1>2, ArgumentsAssumption DEF OptionReadAs, IInv, TypeOK
<1>4. pc' = "parse" /\ ret' = ret /\ ret' \in {0, -1}
  BY <1>1, <1>2 DEF OptionReadAs, IInv, TypeOK
<1>5. UsageNoticed' /\ RollingTaken'
  BY <1>1, <1>4, UsageRead, RollingRead
<1> HIDE DEF value
<1>6. /\ sns_param'.work_mode = value
      /\ sns_param'.to_dump_frame_cnt = sns_param.to_dump_frame_cnt
      /\ sns_param'.roi_sram_rolling = sns_param.roi_sram_rolling
      /\ sns_param'.module_kernel_type = sns_param.module_kernel_type
      /\ sns_param' \in Params
  BY <1>1, <1>3 DEF Params
<1>7. ParsedSoFar'
  BY <1>2, <1>4, <1>6, ParsedFields, ParsedFieldsNext DEF OptionReadAs, IInv, value
<1> QED
  BY <1>2, <1>4, <1>5, <1>6, <1>7, OptionKept

\* -d keeps the invariant.
LEMMA SetDumpCountInv == IInv /\ SetDumpCount => IInv'
<1> SUFFICES ASSUME IInv, SetDumpCount PROVE IInv'
  OBVIOUS
<1> DEFINE value == args[next].arg % CounterModulus
<1>1. /\ OptionIs("d") /\ UNCHANGED <<pc, ret>>
      /\ sns_param' = [sns_param EXCEPT !.to_dump_frame_cnt = value]
  BY DEF SetDumpCount
<1>2. OptionReadAs("d")
  BY <1>1, OptionRead DEF OptionReadAs
<1>3. value \in Nat /\ sns_param \in Params
  BY <1>2, ArgumentsAssumption DEF OptionReadAs, IInv, TypeOK
<1>4. pc' = "parse" /\ ret' = ret /\ ret' \in {0, -1}
  BY <1>1, <1>2 DEF OptionReadAs, IInv, TypeOK
<1>5. UsageNoticed' /\ RollingTaken'
  BY <1>1, <1>4, UsageRead, RollingRead
<1> HIDE DEF value
<1>6. /\ sns_param'.to_dump_frame_cnt = value
      /\ sns_param'.work_mode = sns_param.work_mode
      /\ sns_param'.roi_sram_rolling = sns_param.roi_sram_rolling
      /\ sns_param'.module_kernel_type = sns_param.module_kernel_type
      /\ sns_param' \in Params
  BY <1>1, <1>3 DEF Params
<1>7. ParsedSoFar'
  BY <1>2, <1>4, <1>6, ParsedFields, ParsedFieldsNext DEF OptionReadAs, IInv, value
<1> QED
  BY <1>2, <1>4, <1>5, <1>6, <1>7, OptionKept

\* -k keeps the invariant.
LEMMA SetKernelTypeInv == IInv /\ SetKernelType => IInv'
<1> SUFFICES ASSUME IInv, SetKernelType PROVE IInv'
  OBVIOUS
<1> DEFINE value == args[next].arg % 256
<1>1. /\ OptionIs("k") /\ UNCHANGED <<pc, ret>>
      /\ sns_param' = [sns_param EXCEPT !.module_kernel_type = value]
  BY DEF SetKernelType
<1>2. OptionReadAs("k")
  BY <1>1, OptionRead DEF OptionReadAs
<1>3. value \in 0 .. 255 /\ sns_param \in Params
  <2>1. \A n \in Int : n % 256 \in 0 .. 255
    OBVIOUS
  <2>2. value \in 0 .. 255
    BY <1>2, <2>1 DEF OptionReadAs
  <2> QED BY <2>2 DEF IInv, TypeOK
<1>4. pc' = "parse" /\ ret' = ret /\ ret' \in {0, -1}
  BY <1>1, <1>2 DEF OptionReadAs, IInv, TypeOK
<1>5. UsageNoticed' /\ RollingTaken'
  BY <1>1, <1>4, UsageRead, RollingRead
<1> HIDE DEF value
<1>6. /\ sns_param'.module_kernel_type = value
      /\ sns_param'.work_mode = sns_param.work_mode
      /\ sns_param'.to_dump_frame_cnt = sns_param.to_dump_frame_cnt
      /\ sns_param'.roi_sram_rolling = sns_param.roi_sram_rolling
      /\ sns_param' \in Params
  BY <1>1, <1>3 DEF Params
<1>7. ParsedSoFar'
  BY <1>2, <1>4, <1>6, ParsedFields, ParsedFieldsNext DEF OptionReadAs, IInv, value
<1> QED
  BY <1>2, <1>4, <1>5, <1>6, <1>7, OptionKept

\* -r keeps the invariant.
LEMMA SetRollingInv == IInv /\ SetRolling => IInv'
<1> SUFFICES ASSUME IInv, SetRolling PROVE IInv'
  OBVIOUS
<1> DEFINE value == (args[next].arg # 0)
<1>1. /\ OptionIs("r") /\ UNCHANGED <<pc, ret>>
      /\ sns_param' = [sns_param EXCEPT !.roi_sram_rolling = value]
  BY DEF SetRolling
<1>2. OptionReadAs("r")
  BY <1>1, OptionRead DEF OptionReadAs
<1>3. value \in BOOLEAN /\ sns_param \in Params
  BY <1>2, ArgumentsAssumption DEF OptionReadAs, IInv, TypeOK
<1>4. pc' = "parse" /\ ret' = ret /\ ret' \in {0, -1}
  BY <1>1, <1>2 DEF OptionReadAs, IInv, TypeOK
<1>5. UsageNoticed' /\ RollingTaken'
  BY <1>1, <1>4, UsageRead, RollingRead
<1> HIDE DEF value
<1>6. /\ sns_param'.roi_sram_rolling = value
      /\ sns_param'.work_mode = sns_param.work_mode
      /\ sns_param'.to_dump_frame_cnt = sns_param.to_dump_frame_cnt
      /\ sns_param'.module_kernel_type = sns_param.module_kernel_type
      /\ sns_param' \in Params
  BY <1>1, <1>3 DEF Params
<1>7. ParsedSoFar'
  BY <1>2, <1>4, <1>6, ParsedFields, ParsedFieldsNext DEF OptionReadAs, IInv, value
<1> QED
  BY <1>2, <1>4, <1>5, <1>6, <1>7, OptionKept

\* The long option without its argument keeps the invariant: nothing follows.
LEMMA RollingWithoutArgumentInv == IInv /\ RollingWithoutArgument => IInv'
<1> SUFFICES ASSUME IInv, RollingWithoutArgument PROVE IInv'
  OBVIOUS
<1>1. OptionIs("roi_sram_rolling") /\ pc' = "faulted" /\ UNCHANGED <<sns_param, ret>>
  BY DEF RollingWithoutArgument
<1>2. OptionReadAs("roi_sram_rolling")
  BY <1>1, OptionRead DEF OptionReadAs
<1>3. ParsedSoFar'
  BY <1>1, <1>2, ParsedFields, ParsedFieldsNext DEF OptionReadAs, IInv
<1>4. UsageNoticed'
  BY <1>1, UsageRead
<1>5. TypeOK'
  BY <1>1, <1>2 DEF OptionReadAs, IInv, TypeOK, Locations
<1>6. RollingTaken'
  <2>1. next \in DOMAIN args /\ args' = args
    BY <1>1 DEF OptionIs, Returned, IInv, TypeOK
  <2>2. next \in (Given("roi_sram_rolling"))'
    BY <1>2, <2>1 DEF OptionReadAs, Given
  <2> QED BY <1>1, <2>2 DEF RollingTaken
<1> QED
  BY <1>1, <1>3, <1>4, <1>5, <1>6 DEF IInv, AllRead, ChecksPassed, RejectedForCause

\* --help and what getopt_long complains of keep the invariant: it is noticed,
\* whatever follows.
LEMMA PrintUsageInv == IInv /\ PrintUsage => IInv'
<1> SUFFICES ASSUME IInv, PrintUsage PROVE IInv'
  OBVIOUS
<1>1. OptionIs("usage") /\ ret' = -1 /\ UNCHANGED <<pc, sns_param>>
  BY DEF PrintUsage
<1>2. OptionReadAs("usage")
  BY <1>1, OptionRead DEF OptionReadAs
<1>3. ParsedSoFar'
  BY <1>1 DEF ParsedSoFar
<1>4. (GivenBefore("usage", next))' # {}
  <2>1. (GivenBefore("usage", next))' = GivenBefore("usage", next + 1)
    BY <1>2 DEF OptionReadAs
  <2>2. next \in GivenBefore("usage", next + 1)
    BY <1>2 DEF OptionReadAs, GivenBefore
  <2> QED BY <2>1, <2>2
<1>5. UsageNoticed'
  BY <1>1, <1>4 DEF UsageNoticed, UsageBefore
<1>6. pc' = "parse" /\ sns_param' \in Params
  BY <1>1, <1>2 DEF OptionReadAs, IInv, TypeOK
<1>7. RollingTaken'
  BY <1>1, <1>6, RollingRead
<1> QED
  BY <1>1, <1>2, <1>3, <1>5, <1>6, <1>7, OptionKept

\* -h keeps the invariant: it is noticed, and the option it takes is not read.
LEMMA PrintHelpInv == IInv /\ PrintHelp => IInv'
<1> SUFFICES ASSUME IInv, PrintHelp PROVE IInv'
  OBVIOUS
<1>1. /\ pc = "parse" /\ next <= Len(args) /\ args[next].opt = "h"
      /\ next' = IF next < Len(args) THEN next + 2 ELSE next + 1
      /\ ret' = -1 /\ UNCHANGED <<args, host, pc, sns_param>>
  BY DEF PrintHelp, Returned
<1>2. args \in Seq(Options) /\ Len(args) \in Nat /\ next \in 1 .. Len(args)
  BY <1>1 DEF IInv, TypeOK
<1>3. next' \in 1 .. Len(args) + 1 /\ next' \in {next + 1, next + 2}
  BY <1>1, <1>2
<1>4. TypeOK'
  BY <1>1, <1>3 DEF IInv, TypeOK
<1>5. ParsedSoFar'
  BY <1>1 DEF ParsedSoFar
<1>6. UsageNoticed'
  <2>1. next \in (GivenBefore("h", next))'
    BY <1>1, <1>2, <1>3 DEF GivenBefore
  <2> QED BY <1>1, <2>1 DEF UsageNoticed, UsageBefore
<1>7. RollingTaken'
  <2> SUFFICES ASSUME NEW i \in 1 .. next' - 1, args[i].opt = "roi_sram_rolling"
               PROVE  NotRead(i)
    BY <1>1 DEF RollingTaken, GivenBefore, NotRead
  <2>1. CASE i < next
    <3>1. i \in GivenBefore("roi_sram_rolling", next)
      BY <1>2, <1>3, <2>1 DEF GivenBefore
    <3> QED BY <1>1, <3>1 DEF IInv, RollingTaken
  <2>2. CASE i >= next
    <3>1. i = next \/ i = next + 1
      BY <1>2, <1>3, <2>2
    <3>2. i = next + 1
      BY <1>1, <3>1
    <3>3. i > 1 /\ i - 1 = next
      BY <1>2, <3>2
    <3> QED BY <1>1, <3>3 DEF NotRead
  <2> QED BY <1>2, <1>3, <2>1, <2>2
<1> QED
  BY <1>1, <1>4, <1>5, <1>6, <1>7 DEF IInv, AllRead, ChecksPassed, RejectedForCause

\* The checks of main read every field but change only the preset.
LEMMA ParsedKept ==
  ASSUME ParsedSoFar, UsageNoticed, RollingTaken, UNCHANGED <<args, next, ret>>,
         pc = "faulted" <=> pc' = "faulted",
         sns_param'.work_mode = sns_param.work_mode,
         sns_param'.to_dump_frame_cnt = sns_param.to_dump_frame_cnt,
         sns_param'.roi_sram_rolling = sns_param.roi_sram_rolling,
         sns_param'.module_kernel_type = sns_param.module_kernel_type
  PROVE  ParsedSoFar' /\ UsageNoticed' /\ RollingTaken'
<1>1. \A o : (GivenBefore(o, next))' = GivenBefore(o, next)
  BY DEF GivenBefore
<1>2. \A o, default : (LastBefore(o, default, next))' = LastBefore(o, default, next)
  BY <1>1 DEF LastBefore
<1>3. ParsedSoFar'
  BY <1>1, <1>2, ParsedFields, ParsedFieldsNext
<1>4. UsageNoticed'
  BY <1>1 DEF UsageNoticed, UsageBefore
<1>5. RollingTaken'
  BY <1>1 DEF RollingTaken, NotRead, Given
<1> QED
  BY <1>3, <1>4, <1>5

\* The end of the options keeps the invariant.
LEMMA EndOfOptionsInv == IInv /\ EndOfOptions => IInv'
<1> SUFFICES ASSUME IInv, EndOfOptions PROVE IInv'
  OBVIOUS
<1>1. /\ pc = "parse" /\ next > Len(args)
      /\ pc' = IF ret < 0 THEN "rejected" ELSE "checkKernelType"
      /\ UNCHANGED <<args, host, next, sns_param, ret>>
  BY DEF EndOfOptions
<1>2. next = Len(args) + 1 /\ ret \in {0, -1}
  BY <1>1 DEF IInv, TypeOK
<1>3. TypeOK'
  BY <1>1 DEF IInv, TypeOK, Locations
<1>4. ParsedSoFar' /\ UsageNoticed' /\ RollingTaken'
  BY <1>1, ParsedKept DEF IInv
<1> QED
  BY <1>1, <1>2, <1>3, <1>4 DEF IInv, AllRead, ChecksPassed, RejectedForCause

\* The check of the kernel type keeps the invariant.
LEMMA CheckKernelTypeInv == IInv /\ CheckKernelType => IInv'
<1> SUFFICES ASSUME IInv, CheckKernelType PROVE IInv'
  OBVIOUS
<1>1. /\ pc = "checkKernelType" /\ UNCHANGED <<args, host, next, sns_param, ret>>
      /\ pc' = IF sns_param.module_kernel_type >= CNT_MODULE THEN "rejected"
                                                             ELSE "checkWorkMode"
  BY DEF CheckKernelType
<1>2. TypeOK'
  BY <1>1 DEF IInv, TypeOK, Locations
<1>3. ParsedSoFar' /\ UsageNoticed' /\ RollingTaken'
  BY <1>1, ParsedKept DEF IInv
<1>4. sns_param.module_kernel_type \in Int
  <2>1. sns_param.module_kernel_type \in 0 .. 255
    BY DEF IInv, TypeOK, Params
  <2>2. \A n \in 0 .. 255 : n \in Int
    OBVIOUS
  <2> QED BY <2>1, <2>2
<1>5. pc' = IF KernelTypeAccepted THEN "checkWorkMode" ELSE "rejected"
  BY <1>1, <1>4 DEF KernelTypeAccepted, CNT_MODULE
<1>6. KernelTypeAccepted' <=> KernelTypeAccepted
  BY <1>1 DEF KernelTypeAccepted
<1> QED
  BY <1>1, <1>2, <1>3, <1>5, <1>6 DEF IInv, AllRead, ChecksPassed, RejectedForCause

\* The check of the work mode keeps the invariant.
LEMMA CheckWorkModeInv == IInv /\ CheckWorkMode => IInv'
<1> SUFFICES ASSUME IInv, CheckWorkMode PROVE IInv'
  OBVIOUS
<1>1. /\ pc = "checkWorkMode" /\ UNCHANGED <<args, host, next, ret>>
      /\ sns_param \in Params
  BY DEF CheckWorkMode, IInv, TypeOK
<1>2. CASE WorkModeAccepted
  <2> DEFINE preset == PresetOf(sns_param.work_mode)
  <2>1. /\ sns_param' = [sns_param EXCEPT !.preset = preset]
        /\ pc' = "checkRequirements"
    BY <1>2 DEF CheckWorkMode, WorkModeAccepted
  <2>2. preset \in Presets
    BY <1>2 DEF PresetOf, Presets, WorkModeAccepted, WK_DTOF_FHR, WK_DTOF_PCM
  <2> HIDE DEF preset
  <2>3. /\ sns_param' \in Params
        /\ sns_param'.preset = preset
        /\ sns_param'.work_mode = sns_param.work_mode
        /\ sns_param'.to_dump_frame_cnt = sns_param.to_dump_frame_cnt
        /\ sns_param'.roi_sram_rolling = sns_param.roi_sram_rolling
        /\ sns_param'.module_kernel_type = sns_param.module_kernel_type
    BY <1>1, <2>1, <2>2 DEF Params
  <2>4. ParsedSoFar' /\ UsageNoticed' /\ RollingTaken'
    BY <1>1, <2>1, <2>3, ParsedKept DEF IInv
  <2>5. TypeOK'
    BY <1>1, <2>1, <2>3 DEF IInv, TypeOK, Locations
  <2>6. /\ KernelTypeAccepted' <=> KernelTypeAccepted
        /\ WorkModeAccepted'
    BY <1>2, <2>3 DEF KernelTypeAccepted, WorkModeAccepted
  <2>7. sns_param'.preset = PresetOf(sns_param'.work_mode)
    BY <2>3 DEF preset
  <2> QED BY <1>1, <2>1, <2>4, <2>5, <2>6, <2>7
          DEF IInv, AllRead, ChecksPassed, RejectedForCause
<1>3. CASE ~WorkModeAccepted
  <2>1. pc' = "rejected" /\ UNCHANGED sns_param
    BY <1>3 DEF CheckWorkMode, WorkModeAccepted
  <2>2. TypeOK'
    BY <1>1, <2>1 DEF IInv, TypeOK, Locations
  <2>3. ParsedSoFar' /\ UsageNoticed' /\ RollingTaken'
    BY <1>1, <2>1, ParsedKept DEF IInv
  <2>4. ~WorkModeAccepted'
    BY <1>3, <2>1 DEF WorkModeAccepted
  <2> QED BY <1>1, <2>1, <2>2, <2>3, <2>4
          DEF IInv, AllRead, ChecksPassed, RejectedForCause
<1> QED
  BY <1>2, <1>3

\* The check of the requirements keeps the invariant.
LEMMA CheckRequirementsInv == IInv /\ CheckRequirements => IInv'
<1> SUFFICES ASSUME IInv, CheckRequirements PROVE IInv'
  OBVIOUS
<1>1. /\ pc = "checkRequirements" /\ UNCHANGED <<args, host, next, sns_param, ret>>
      /\ pc' = IF requirement_check < 0 THEN "rejected" ELSE "started"
  BY DEF CheckRequirements
<1>2. pc' = IF RequirementsMet THEN "started" ELSE "rejected"
  BY <1>1, RequirementsChecked DEF IInv, TypeOK
<1>3. TypeOK'
  BY <1>1 DEF IInv, TypeOK, Locations
<1>4. ParsedSoFar' /\ UsageNoticed' /\ RollingTaken'
  BY <1>1, ParsedKept DEF IInv
<1>5. /\ KernelTypeAccepted' <=> KernelTypeAccepted
      /\ WorkModeAccepted' <=> WorkModeAccepted
      /\ RequirementsMet' <=> RequirementsMet
  BY <1>1 DEF KernelTypeAccepted, WorkModeAccepted, RequirementsMet
<1> QED
  BY <1>1, <1>2, <1>3, <1>4, <1>5 DEF IInv, AllRead, ChecksPassed, RejectedForCause

\* Every step keeps the invariant.
LEMMA NextInv == IInv /\ [Next]_vars => IInv'
<1> SUFFICES ASSUME IInv, [Next]_vars PROVE IInv'
  OBVIOUS
<1>1. CASE UNCHANGED vars
  <2>1. UNCHANGED <<args, host, pc, next, sns_param, ret>>
    BY <1>1 DEF vars
  <2>2. ParsedSoFar' /\ UsageNoticed' /\ RollingTaken'
    BY <2>1, ParsedKept DEF IInv
  <2> QED BY <2>1, <2>2 DEF IInv, TypeOK, AllRead, ChecksPassed, RejectedForCause,
                            KernelTypeAccepted, WorkModeAccepted, RequirementsMet
<1>2. CASE Next
  BY <1>2, SetWorkModeInv, SetDumpCountInv, SetKernelTypeInv, SetRollingInv,
     RollingWithoutArgumentInv, PrintUsageInv, PrintHelpInv, EndOfOptionsInv, CheckKernelTypeInv,
     CheckWorkModeInv, CheckRequirementsInv DEF Next
<1> QED
  BY <1>1, <1>2

-----------------------------------------------------------------------------
(* Theorems. *)

\* The inductive invariant holds for command lines of any length.
THEOREM Invariance == Spec => []IInv
BY InitInv, NextInv, PTL DEF Spec

\* parse_args and the checks of main keep their types (main.cpp:55-225).
THEOREM TypeCorrect == Spec => []TypeOK
<1>1. IInv => TypeOK
  BY DEF IInv
<1> QED
  BY Invariance, <1>1, PTL

\* Whether the program starts, rejects the command line or faults, the line as a
\* whole has what it takes: nothing wrong, a reason to reject it, or the long
\* option whose argument is missing.
THEOREM OutcomeIsOfWholeLine == Spec => []OutcomeOfWholeLine
<1>1. IInv => OutcomeOfWholeLine
  <2> SUFFICES ASSUME IInv PROVE OutcomeOfWholeLine
    OBVIOUS
  <2>1. ASSUME pc \in {"started", "rejected"}
        PROVE  /\ \A opt : GivenBefore(opt, next) = Given(opt)
               /\ AskedBefore(next) = Asked
    <3>1. next = Len(args) + 1
      BY <2>1 DEF IInv, AllRead
    <3> QED BY <3>1, WholeRead DEF IInv
  <2>2. ASSUME pc \in {"started", "rejected"}
        PROVE  /\ ret = -1 <=> Given("usage") \cup Given("h") # {}
               /\ Given("roi_sram_rolling") # {} => Given("h") # {}
    <3>1. ret = -1 <=> Given("usage") \cup Given("h") # {}
      BY <2>1, <2>2 DEF IInv, UsageNoticed, UsageBefore
    <3>2. ASSUME NEW i \in Given("roi_sram_rolling") PROVE Given("h") # {}
      <4>1. NotRead(i)
        BY <2>1, <2>2, <3>2 DEF IInv, RollingTaken
      <4>2. i \in DOMAIN args /\ DOMAIN args = 1 .. Len(args) /\ Len(args) \in Nat
        BY <3>2 DEF Given, IInv, TypeOK
      <4>3. i - 1 \in DOMAIN args
        BY <4>1, <4>2 DEF NotRead
      <4> QED BY <4>1, <4>3 DEF NotRead, Given
    <3> QED BY <3>1, <3>2
  <2>3. ASSUME pc \in {"started", "rejected"}, ret = 0
        PROVE  /\ Asked.work_mode = sns_param.work_mode
               /\ Asked.module_kernel_type = sns_param.module_kernel_type
    <3>1. /\ AskedBefore(next).work_mode = sns_param.work_mode
          /\ AskedBefore(next).module_kernel_type = sns_param.module_kernel_type
      BY <2>3, ParsedFields DEF IInv, AskedBefore
    <3> QED BY <2>1, <2>3, <3>1
  <2>4. pc = "started" => ~Rejectable /\ Given("roi_sram_rolling") = {}
    <3> SUFFICES ASSUME pc = "started"
                 PROVE  ~Rejectable /\ Given("roi_sram_rolling") = {}
      OBVIOUS
    <3>1. ret = 0 /\ KernelTypeAccepted /\ WorkModeAccepted /\ RequirementsMet
      BY DEF IInv, ChecksPassed
    <3>2. Given("usage") \cup Given("h") = {}
      BY <2>2, <3>1
    <3>3. Asked.module_kernel_type \in 0 .. 255 /\ Asked.module_kernel_type < CNT_MODULE
      BY <2>3, <3>1 DEF KernelTypeAccepted, IInv, TypeOK, Params
    <3>4. Given("k") # {}
      <4>1. Given("k") = {} => Asked.module_kernel_type = 255 % 256
        BY DEF Asked, Last
      <4> QED BY <3>3, <4>1 DEF CNT_MODULE
    <3>5. ~(Asked.module_kernel_type >= CNT_MODULE)
      BY <3>3 DEF CNT_MODULE
    <3>6. Asked.work_mode \in {WK_DTOF_PCM, WK_DTOF_FHR}
      BY <2>3, <3>1 DEF WorkModeAccepted
    <3>7. Given("roi_sram_rolling") = {}
      BY <2>2, <3>2
    <3> QED BY <3>1, <3>2, <3>4, <3>5, <3>6, <3>7 DEF Rejectable
  <2>5. pc = "rejected" => Rejectable
    <3> SUFFICES ASSUME pc = "rejected" PROVE Rejectable
      OBVIOUS
    <3>1. CASE ret = -1
      BY <2>2, <3>1 DEF Rejectable
    <3>2. CASE ret = 0 /\ ~KernelTypeAccepted
      <4>1. Asked.module_kernel_type \in 0 .. 255 /\ ~(Asked.module_kernel_type < CNT_MODULE)
        BY <2>3, <3>2 DEF KernelTypeAccepted, IInv, TypeOK, Params
      <4>2. Asked.module_kernel_type >= CNT_MODULE
        BY <4>1 DEF CNT_MODULE
      <4> QED BY <4>2 DEF Rejectable
    <3>3. CASE ret = 0 /\ ~WorkModeAccepted
      BY <2>3, <3>3 DEF WorkModeAccepted, Rejectable
    <3>4. CASE ~RequirementsMet
      BY <3>4 DEF Rejectable
    <3> QED BY <3>1, <3>2, <3>3, <3>4 DEF IInv, RejectedForCause
  <2>6. pc = "faulted" => Given("roi_sram_rolling") # {}
    BY DEF IInv, RollingTaken
  <2> QED BY <2>2, <2>4, <2>5, <2>6 DEF OutcomeOfWholeLine
<1> QED
  BY Invariance, <1>1, PTL

\* It starts with the last value given for each option, and with the preset of
\* that work mode.
THEOREM StartsAsAsked == Spec => []StartedAsAsked
<1>1. IInv => StartedAsAsked
  <2> SUFFICES ASSUME IInv, pc = "started"
               PROVE  /\ \A field \in DOMAIN Asked : sns_param[field] = Asked[field]
                      /\ sns_param.preset = PresetOf(Asked.work_mode)
    BY DEF StartedAsAsked
  <2>1. next = Len(args) + 1
    BY DEF IInv, AllRead
  <2>2. AskedBefore(next) = Asked
    BY <2>1, WholeRead DEF IInv
  <2>3. \A field \in DOMAIN Asked : sns_param[field] = Asked[field]
    BY <2>2 DEF IInv, ParsedSoFar, ChecksPassed
  <2>4. Asked.work_mode = sns_param.work_mode
    BY <2>3 DEF Asked
  <2> QED BY <2>3, <2>4 DEF IInv, ChecksPassed
<1> QED
  BY Invariance, <1>1, PTL
=============================================================================
