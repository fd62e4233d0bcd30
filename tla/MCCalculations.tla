--------------------------- MODULE MCCalculations ---------------------------
(***************************************************************************)
(* BootCrc with its own polynomial and width over two pages of four words;  *)
(* Unwritten is the 0xFFFF of a word the hex file does not mention.         *)
(* HexFile with an area of four bytes, and records that lie before, across  *)
(* and behind each of its ends.  SerialNumbers with every number, and       *)
(* Descriptors with every firmware.                                         *)
(***************************************************************************)
EXTENDS Calculations
CONSTANTS b1, b2
MCPoly == {0, 4, 5, 7, 8, 9, 13}
Unwritten == 0 .. 15
MCWords == {Unwritten, {0, 4, 13}}
MCByte == {b1, b2}
MCStarts == {0, 1, 2, 4, 5, 6, 7}
MCLengths == {1, 2}
OnlyAbove == {1}
=============================================================================
