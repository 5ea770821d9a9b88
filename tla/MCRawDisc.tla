----------------------------- MODULE MCRawDisc -----------------------------
(***************************************************************************)
(* Instances of RawDisc for TLC.  The sizes are small and keep what        *)
(* matters: data sectors are whole device sectors, CD sectors are not, and *)
(* some CD sector ends where a device sector ends.  The image lies in two  *)
(* pieces with a hole between them.                                        *)
(***************************************************************************)
EXTENDS RawDisc

AllKinds     == {"iso", "cd", "psx2352", "psx2048"}
TwoFragments == <<<<20, 6>>, <<Hole, 1>>, <<3, 7>>>>
\* Commands that overlap each other and the end of the image.
SomeRequests == {<<"iso", f * SectorSize, n * SectorSize>> : f \in {0, 5, 12}, n \in {1, 4}} \cup
                ({"2048"} \X {0, 2, 3} \X {1, 3}) \cup
                ({"2352"} \X {0, 1, 2} \X {1, 2, 3})

=============================================================================
