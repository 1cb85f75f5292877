----------------------------- MODULE MCChunking -----------------------------
(* Chunking for TLC: every normalized text up to the bound, with sizes that *)
(* leave room for several windows.                                          *)
EXTENDS Chunking

MCSizes == 3..6
MCOverlaps == {0, 1, 2, 3, 9}
=============================================================================
