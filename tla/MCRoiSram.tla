----------------------------- MODULE MCRoiSram ------------------------------
(* Instances of RoiSram for TLC. *)
EXTENDS RoiSram

\* The padding; a spot at the edge and the one that is moved onto it; and a
\* spot one row below, illegal before it is moved.
MCCoordinates == {<<0, 0>>, <<1, 1>>, <<1, 2>>, <<2, 2>>}

\* The first group holds any of them; the second one repeats the first or
\* holds a single coordinate throughout.
MCContents ==
  {[p \in Positions |->
      IF IsPadding(p) THEN Origin
      ELSE IF p <= GroupPairs THEN first[p]
      ELSE IF second = "same" THEN first[p - GroupPairs] ELSE <<1, 1>>] :
     first \in [1 .. GroupPairs -> MCCoordinates], second \in {"same", "one"}}

\* No zone, one group, and two.
MCRawSizes == {0, 6, 12}
\* With and without padding, and one whose length wraps.
MCLoadedSizes == {5, 8, 12}
=============================================================================
