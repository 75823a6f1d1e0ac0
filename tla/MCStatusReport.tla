---------------------------- MODULE MCStatusReport ----------------------------
(***************************************************************************)
(* StatusReport for TLC: blocks of 2, 4 and 8 bytes and chunks of one to   *)
(* five bytes, so that one append may have to double the block twice.  The *)
(* reports end with an empty line; one fits into six bytes, in one the     *)
(* second line is too long and the third is not, one fills the buffer with *)
(* its last line and one with the empty line.                              *)
(***************************************************************************)
EXTENDS StatusReport

CONSTANTS x, y

MCChunks == {<<x>>, <<x, y>>, <<y, x, y>>, <<x, y, y, x, x>>}
MCReports == {<<2, 2, 1>>, <<3, 4, 2, 1>>, <<2, 4, 1>>, <<3, 2, 1>>}
=============================================================================
