---------------------------- MODULE CommandLine -----------------------------
(***************************************************************************)
(* main up to the construction of DToF_Main: parse_args reads the options  *)
(* in the order of the command line, then the module kernel type, the work *)
(* mode and the files the program needs are checked.                       *)
(*                                                                         *)
(* A command line is a sequence of options; the argument of an option is   *)
(* the number atoi makes of it.                                            *)
(***************************************************************************)
EXTENDS Integers, Sequences, FiniteSetsExt

CONSTANTS
  MaxArgs,         \* bound on the number of options given
  WorkModes,       \* arguments tried for -w,
  DumpCounts,      \* -d,
  KernelTypes,     \* -k
  RollingValues,   \* and -r
  CounterModulus   \* a uint32_t counts modulo this (2^32 in the code)

ASSUME ArgumentsAssumption ==
  /\ MaxArgs \in Nat
  /\ (WorkModes \cup DumpCounts \cup KernelTypes \cup RollingValues) \subseteq Int
  /\ CounterModulus \in Nat \ {0}

VARIABLES
  args,        \* the command line
  host,        \* the files and the environment the program finds
  pc,
  next,        \* optind: the option parse_args reads next
  sns_param,   \* the parameters as far as they are known
  ret          \* the return value of parse_args

vars == <<args, host, pc, next, sns_param, ret>>

WK_DTOF_PCM == 1
WK_DTOF_FHR == 2
CNT_MODULE == 4

\* "--roi_sram_rolling" takes no argument, "-r" does.  "usage" stands for
\* --help, an unknown option and an option whose argument is missing; "h" is the
\* short -h.
Options ==
  [opt : {"w"}, arg : WorkModes] \cup [opt : {"d"}, arg : DumpCounts]
    \cup [opt : {"k"}, arg : KernelTypes] \cup [opt : {"r"}, arg : RollingValues]
    \cup [opt : {"roi_sram_rolling", "usage", "h"}, arg : {0}]

\* The paths requirement_check looks at, as stat and access describe them, and
\* whether the library's data is to be dumped.
Hosts ==
  [library : {"absent", "regular", "other"}, config : {"absent", "regular", "other"},
   dumpData : BOOLEAN, dumpDir : {"absent", "not a directory", "read-only", "writable"}]

Presets == {"none", "outdoor, normal power", "indoor, power divided by 3"}

Params == [work_mode : Int, to_dump_frame_cnt : Nat, roi_sram_rolling : BOOLEAN,
           module_kernel_type : 0 .. 255, preset : Presets]

Locations ==
  {"parse", "checkKernelType", "checkWorkMode", "checkRequirements", "started", "rejected",
   "faulted"}

TypeOK ==
  /\ args \in Seq(Options)
  /\ host \in Hosts
  /\ pc \in Locations
  /\ next \in 1 .. Len(args) + 1
  /\ sns_param \in Params
  /\ ret \in {0, -1}

CommandLines == UNION {[1 .. n -> Options] : n \in 0 .. MaxArgs}

Init ==
  /\ args \in CommandLines
  /\ host \in Hosts
  /\ pc = "parse"
  /\ next = 1
  /\ sns_param = [work_mode |-> 0, to_dump_frame_cnt |-> 0, roi_sram_rolling |-> FALSE,
                  module_kernel_type |-> 255, preset |-> "none"]
  /\ ret = 0

-----------------------------------------------------------------------------
(* parse_args. *)

\* getopt_long returns the option opt ...
Returned(opt) ==
  /\ pc = "parse"
  /\ next <= Len(args)
  /\ args[next].opt = opt
  /\ UNCHANGED <<args, host>>

\* ... and goes on behind it.
OptionIs(opt) == Returned(opt) /\ next' = next + 1

SetWorkMode ==
  /\ OptionIs("w")
  /\ sns_param' = [sns_param EXCEPT !.work_mode = args[next].arg]
  /\ UNCHANGED <<pc, ret>>

SetDumpCount ==
  /\ OptionIs("d")
  /\ sns_param' = [sns_param EXCEPT !.to_dump_frame_cnt = args[next].arg % CounterModulus]
  /\ UNCHANGED <<pc, ret>>

\* Fault: there is no break after case 'k'.
SetKernelType_FallsThrough ==
  /\ OptionIs("k")
  /\ sns_param' = [sns_param EXCEPT !.module_kernel_type = args[next].arg % 256,
                                    !.roi_sram_rolling = args[next].arg # 0]
  /\ UNCHANGED <<pc, ret>>

\* Fault: the kernel type is kept as wide as atoi returns it.
SetKernelType_Wide ==
  /\ OptionIs("k")
  /\ sns_param' = [sns_param EXCEPT !.module_kernel_type = args[next].arg]
  /\ UNCHANGED <<pc, ret>>

\* module_kernel_type is an UINT8.
SetKernelType ==
  /\ OptionIs("k")
  /\ sns_param' = [sns_param EXCEPT !.module_kernel_type = args[next].arg % 256]
  /\ UNCHANGED <<pc, ret>>

SetRolling ==
  /\ OptionIs("r")
  /\ sns_param' = [sns_param EXCEPT !.roi_sram_rolling = args[next].arg # 0]
  /\ UNCHANGED <<pc, ret>>

\* The long option leaves optarg null: atoi faults, before any signal handler
\* is installed.
RollingWithoutArgument ==
  /\ OptionIs("roi_sram_rolling")
  /\ pc' = "faulted"
  /\ UNCHANGED <<sns_param, ret>>

\* Fault: the usage is printed and parse_args still succeeds.
PrintUsage_Ignored ==
  /\ OptionIs("usage")
  /\ UNCHANGED <<pc, sns_param, ret>>

\* The usage is printed and the remaining options are still read.
PrintUsage ==
  /\ OptionIs("usage")
  /\ ret' = -1
  /\ UNCHANGED <<pc, sns_param>>

\* So for -h, which is declared with an argument: it takes the option that
\* follows for it (of which at most a number remains, to be skipped), or its
\* argument is missing.
PrintHelp ==
  /\ Returned("h")
  /\ next' = IF next < Len(args) THEN next + 2 ELSE next + 1
  /\ ret' = -1
  /\ UNCHANGED <<pc, sns_param>>

EndOfOptions ==
  /\ pc = "parse"
  /\ next > Len(args)
  /\ pc' = IF ret < 0 THEN "rejected" ELSE "checkKernelType"
  /\ UNCHANGED <<args, host, next, sns_param, ret>>

-----------------------------------------------------------------------------
(* The checks in main. *)

CheckKernelType ==
  /\ pc = "checkKernelType"
  /\ pc' = IF sns_param.module_kernel_type >= CNT_MODULE THEN "rejected" ELSE "checkWorkMode"
  /\ UNCHANGED <<args, host, next, sns_param, ret>>

PresetOf(work_mode) ==
  CASE work_mode = WK_DTOF_FHR -> "outdoor, normal power"
    [] work_mode = WK_DTOF_PCM -> "indoor, power divided by 3"

\* The work mode selects the environment, the power mode and the frame rate;
\* PHR and everything else is rejected.
CheckWorkMode ==
  /\ pc = "checkWorkMode"
  /\ IF sns_param.work_mode \in {WK_DTOF_PCM, WK_DTOF_FHR}
       THEN /\ sns_param' = [sns_param EXCEPT !.preset = PresetOf(sns_param.work_mode)]
            /\ pc' = "checkRequirements"
       ELSE /\ pc' = "rejected"
            /\ UNCHANGED sns_param
  /\ UNCHANGED <<args, host, next, ret>>

\* The values Utils::check_regular_file_exist and check_dir_exist_and_writable
\* return for a path.
check_regular_file_exist(path) ==
  CASE path = "absent" -> -1 [] path = "other" -> -2 [] path = "regular" -> 0

check_dir_exist_and_writable(path) ==
  CASE path = "absent" -> -1 [] path = "not a directory" -> -3
    [] path = "read-only" -> -2 [] path = "writable" -> 0

\* The library, its configuration and, when its data is to be dumped, the
\* directory for it: the result of the first check that fails.
requirement_check ==
  LET library == check_regular_file_exist(host.library)
      config  == check_regular_file_exist(host.config)
  IN  IF library < 0 THEN library
      ELSE IF config < 0 THEN config
      ELSE IF host.dumpData THEN check_dir_exist_and_writable(host.dumpDir) ELSE 0

CheckRequirements ==
  /\ pc = "checkRequirements"
  /\ pc' = IF requirement_check < 0 THEN "rejected" ELSE "started"
  /\ UNCHANGED <<args, host, next, sns_param, ret>>

Next ==
  \/ SetWorkMode \/ SetDumpCount \/ SetKernelType \/ SetRolling
  \/ RollingWithoutArgument \/ PrintUsage \/ PrintHelp \/ EndOfOptions
  \/ CheckKernelType \/ CheckWorkMode \/ CheckRequirements

Spec == Init /\ [][Next]_vars

-----------------------------------------------------------------------------
(* Properties. *)

\* What the command line asks for, without regard to how it is parsed: the
\* last argument given to an option counts.
Given(opt) == {i \in DOMAIN args : args[i].opt = opt}
Last(opt, default) == IF Given(opt) = {} THEN default ELSE args[Max(Given(opt))].arg

Asked ==
  [work_mode          |-> Last("w", 0),
   to_dump_frame_cnt  |-> Last("d", 0) % CounterModulus,
   roi_sram_rolling   |-> Last("r", 0) # 0,
   module_kernel_type |-> Last("k", 255) % 256]

\* What the program needs of its host.
RequirementsMet ==
  /\ host.library = "regular"
  /\ host.config = "regular"
  /\ host.dumpData => host.dumpDir = "writable"

\* Why main rejects a command line.  The usage text (main.cpp:60) calls -k
\* optional, but the default of 255 is no kernel type: without -k there is none.
Rejectable ==
  \/ Given("usage") \cup Given("h") # {}
  \/ Asked.work_mode \notin {WK_DTOF_PCM, WK_DTOF_FHR}
  \/ Given("k") = {}
  \/ Asked.module_kernel_type >= CNT_MODULE
  \/ ~RequirementsMet

\* What becomes of a command line is decided by all of it, whatever the order
\* and repetition of its options: the program starts streaming only if nothing
\* is wrong, rejects it only for one of the reasons above, and faults only over
\* the documented --roi_sram_rolling, which only a -h can take away.
OutcomeOfWholeLine ==
  /\ pc = "started" => ~Rejectable /\ Given("roi_sram_rolling") = {}
  /\ pc = "rejected" => Rejectable /\ (Given("roi_sram_rolling") # {} => Given("h") # {})
  /\ pc = "faulted" => Given("roi_sram_rolling") # {}

\* It starts with the parameters the command line asks for and with the
\* environment and power preset of that work mode (main.cpp:186-202).
StartedAsAsked ==
  pc = "started" =>
    /\ \A field \in DOMAIN Asked : sns_param[field] = Asked[field]
    /\ sns_param.preset = PresetOf(Asked.work_mode)
=============================================================================
