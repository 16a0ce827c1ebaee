--------------------------- MODULE MCFrameDecode ----------------------------
(* Instances of FrameDecode for TLC. *)
EXTENDS FrameDecode

\* No dump, an interval that does not divide the counter's range, and the
\* largest unsigned number.
MCIntervals == {0, 3, -1}
\* No quota, and one that ends the worker.
MCQuotas == {0, 3}
=============================================================================
