-------------------------- MODULE MC_CaptureWriter --------------------------
(* CaptureWriter on small instances: header of 4 bytes, packets of 1 and 5   *)
(* bytes (blocks of 36 and 40), lines of 2 and 6 bytes (blocks of 24 and     *)
(* 28).                                                                      *)
EXTENDS CaptureWriter

PacketLensSmall == {1, 5}
LineLensSmall == {0, 2, 6}
OneLen == {5}
RoomsSmall == {0, 80, 160}
=============================================================================
