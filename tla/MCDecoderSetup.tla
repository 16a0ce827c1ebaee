--------------------------- MODULE MCDecoderSetup ---------------------------
(* Instances of DecoderSetup for TLC. *)
EXTENDS DecoderSetup

\* Less than a group, one group, and more than two.
MCZoneCounts == {0, 3, 4, 9}
\* Below, within, and above the chip's range.
MCTemperatures == {0, 4515, 9999}
=============================================================================
