--------------------------- MODULE MCCommandLine ----------------------------
(* Instances of CommandLine for TLC. *)
EXTENDS CommandLine

\* An accepted mode, PHR, and a mode out of the enumeration's range.
MCWorkModes == {0, 1, 2, 3}
\* A count that is kept and a negative one.
MCDumpCounts == {5, -1}
\* Accepted, the first one past the end, and one that wraps to accepted.
MCKernelTypes == {3, 4, 256}
MCRollingValues == {0, 1}
=============================================================================
