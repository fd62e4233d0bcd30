--------------------------- MODULE ProgramMemory ---------------------------
(***************************************************************************)
(* The user-programmable flash of the PIC16F1454, 0x1000..0x1FFF, as the    *)
(* bootloader (bootloader/main.c) and the download tool                     *)
(* (download-tool/download.cpp) see it: NumRows erase rows of 32 words,     *)
(* each made of two 16-word units, the amount one command reads or          *)
(* programs.  Unit 2r is the lower half of row r and unit 2r+1 its upper    *)
(* half.  What a unit holds is a member of Content: the properties only     *)
(* tell apart "erased", "what image i has here" and "neither".              *)
(***************************************************************************)
EXTENDS Integers, FiniteSets

CONSTANTS
  NumRows,      \* erase rows in the user area (128 in the part)
  Content,      \* what a 16-word unit can hold
  Erased,       \* every word 0x3FFF
  Garbage,      \* partly erased, partly programmed, or programmed twice
  Images,       \* the firmware images a user has at hand
  Image,        \* Image[i][u]: what image i, as sealed by the tool, has in unit u
  HefUnit,      \* the unit whose last word is 0x1F7F, the first CRC location
  HefSealed     \* the images that carry a valid CRC at 0x1F7F as well

Unit    == 0 .. (2 * NumRows - 1)
EndUnit == 2 * NumRows - 1         \* its last word, 0x1FFF, is the second CRC location
RowUnits(r) == {2 * r, 2 * r + 1}

ASSUME MemoryAssumption ==
  /\ NumRows \in Nat \ {0}
  /\ Erased \in Content /\ Garbage \in Content /\ Erased # Garbage
  /\ Image \in [Images -> [Unit -> Content \ {Garbage}]]
  /\ HefUnit \in Unit
  /\ HefSealed \subseteq Images

(***************************************************************************)
(* A CRC word identifies the words it was computed over: no two images have *)
(* the same sealing unit unless they agree up to it, and an erased unit     *)
(* seals nothing.  The 14-bit CRC of the code only makes this likely.       *)
(***************************************************************************)
ASSUME IdealCrc ==
  /\ \A i \in Images : Image[i][EndUnit] # Erased
  /\ \A i, j \in Images : Image[i][EndUnit] = Image[j][EndUnit] => i = j
  /\ \A i \in HefSealed : Image[i][HefUnit] # Erased
  /\ \A i \in HefSealed, j \in Images : Image[i][HefUnit] = Image[j][HefUnit] => i = j

-----------------------------------------------------------------------------

(* The boot-time CRC over a prefix ending in unit u matches the word stored *)
(* at the end of u on behalf of image i.                                    *)
CrcMatches(f, i, u) == \A k \in 0 .. u : f[k] = Image[i][k]

(* The images on whose behalf the power-up check sets FLAG_PASSED_CRC.      *)
BootableAs(f) ==
  {i \in Images : CrcMatches(f, i, EndUnit)}
    \cup {i \in HefSealed : CrcMatches(f, i, HefUnit)}

PassedCrc(f) == BootableAs(f) # {}

(* Programming only clears bits: a blank unit takes the data, data that is  *)
(* blank or already there changes nothing, anything else is a bitwise AND.  *)
Programmed(old, new) ==
  IF old = Erased THEN new
  ELSE IF new \in {Erased, old} THEN old
  ELSE Garbage

(* The units in kept keep what they held: an erase that fails there.        *)
EraseRow(f, r, kept) ==
  [u \in Unit |-> IF u \in RowUnits(r) \ kept THEN Erased ELSE f[u]]

ProgramUnit(f, u, c) == [f EXCEPT ![u] = Programmed(@, c)]

(* What a power cut can leave of a row that is being erased, and of a unit  *)
(* that is being programmed.                                                *)
HalfErased(c) == IF c = Erased THEN {c} ELSE {c, Erased, Garbage}

TornErase(f, r) ==
  {[f EXCEPT ![2 * r] = lo, ![2 * r + 1] = hi] :
     lo \in HalfErased(f[2 * r]), hi \in HalfErased(f[2 * r + 1])}

HalfProgrammed(old, new) ==
  IF Programmed(old, new) = old THEN {old} ELSE {old, Programmed(old, new), Garbage}

TornProgram(f, u, c) == {[f EXCEPT ![u] = x] : x \in HalfProgrammed(f[u], c)}

=============================================================================
