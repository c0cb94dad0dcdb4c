--------------------------- MODULE MCCurrentPath ---------------------------
(* The source's gains, an offset of -2.5 A so that currents of both signs  *)
(* occur, a window of four samples.                                        *)
EXTENDS CurrentPath

MCPgaOffset == -2500
MCCurrentCounts == {0, 12, 16, 130, 1500, 4095}
MCOtherCounts == {0, 159, 160, 2439, 2440, 4095}
MCSamples == {CurrentPgaDa(c) * 100 : c \in MCCurrentCounts} \cup {0}
=============================================================================
