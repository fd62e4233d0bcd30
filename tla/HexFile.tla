------------------------------ MODULE HexFile ------------------------------
(***************************************************************************)
(* hex_button_cb() of the download tool: it turns the records of an Intel   *)
(* hex file into the image that flash_button_cb() programs.                 *)
(*                                                                         *)
(* An address is a pair: what the last extended address record said, and    *)
(* the sixteen bits of the record itself.  file is what the records mean by *)
(* the format; image is what the tool makes of them.                        *)
(***************************************************************************)
EXTENDS Integers, Sequences

CONSTANTS
  Byte, Blank,            \* Blank is 0xFF
  Base, Top, Space,       \* 0x2000, 0x3FFE, 0x10000
  Starts, Lengths,        \* addresses and lengths of the records tried
  Uppers,                 \* what an extended address record may say
  MaxRecords

HexAssumption ==
  /\ Blank \notin Byte /\ Base \in Nat /\ Top \in Nat /\ Space \in Nat
  /\ Base < Top /\ Top + 1 < Space
  /\ Starts \subseteq 0 .. Space - 1 /\ Lengths \subseteq Nat
  /\ \A start \in Starts, length \in Lengths : start + length <= Space
  /\ Uppers \subseteq Nat /\ MaxRecords \in Nat

VARIABLES
  image, outOfBounds, extended,   \* the tool
  pc, active,                     \* active: the flash button may be pressed
  file, upper, count,             \* the file read so far
  agreed                          \* the user proceeds despite data out of bounds

toolVars == <<image, outOfBounds, extended, pc, active>>
vars == <<toolVars, file, upper, count, agreed>>

Crc == "crc"
User == Base .. Top - 1
NoData == [place \in ({0} \cup Uppers) \X (0 .. Space - 1) |-> Blank]

TypeOK ==
  /\ image \in [Base .. Top + 1 -> Byte \cup {Blank, Crc}]
  /\ outOfBounds \in BOOLEAN /\ extended \in BOOLEAN /\ active \in BOOLEAN /\ agreed \in BOOLEAN
  /\ pc \in {"idle", "choosing", "reading", "asking", "sealing"}
  /\ file \in [DOMAIN NoData -> Byte \cup {Blank}]
  /\ upper \in {0} \cup Uppers /\ count \in 0 .. MaxRecords

-----------------------------------------------------------------------------

(* Mutant: the last image stays.                                            *)
PressKeeping ==
  /\ pc = "idle" /\ pc' = "choosing"
  /\ active' = FALSE /\ outOfBounds' = FALSE /\ extended' = FALSE
  /\ file' = NoData /\ upper' = 0 /\ count' = 0 /\ agreed' = FALSE
  /\ UNCHANGED image

Press ==
  /\ pc = "idle" /\ pc' = "choosing"
  /\ active' = FALSE /\ outOfBounds' = FALSE /\ extended' = FALSE
  /\ image' = [a \in Base .. Top + 1 |-> Blank]
  /\ file' = NoData /\ upper' = 0 /\ count' = 0 /\ agreed' = FALSE

(* The file cannot be opened, or none was chosen.                           *)
ChooseNone ==
  /\ pc = "choosing" /\ pc' = "idle"
  /\ UNCHANGED <<image, outOfBounds, extended, active, file, upper, count, agreed>>

Choose ==
  /\ pc = "choosing" /\ pc' = "reading"
  /\ UNCHANGED <<image, outOfBounds, extended, active, file, upper, count, agreed>>

NextRecord == pc = "reading" /\ count < MaxRecords /\ count' = count + 1 /\ UNCHANGED <<pc, active, agreed>>

Covered(start, bytes) == start .. start + Len(bytes) - 1

(* Mutant: the words of the CRC may be written as well.                     *)
InBoundsWithCrc(a) == a \in Base .. Top + 1

InBounds(a) == a \in User

(* Mutant: nothing is noticed of what is left out.                          *)
LoadsSilently(start, bytes) ==
  /\ image' = [a \in DOMAIN image |->
                 IF a \in Covered(start, bytes) /\ InBounds(a) THEN bytes[a - start + 1] ELSE image[a]]
  /\ UNCHANGED outOfBounds

(* The loop over the bytes of a data record.                                *)
Loads(start, bytes) ==
  /\ image' = [a \in DOMAIN image |->
                 IF a \in Covered(start, bytes) /\ InBounds(a) THEN bytes[a - start + 1] ELSE image[a]]
  /\ outOfBounds' = (outOfBounds \/ \E a \in Covered(start, bytes) : ~InBounds(a))

DataRecord(start, bytes) ==
  /\ NextRecord
  /\ IF extended THEN UNCHANGED <<image, outOfBounds>> ELSE Loads(start, bytes)
  /\ file' = [place \in DOMAIN file |->
                IF place[1] = upper /\ place[2] \in Covered(start, bytes)
                  THEN bytes[place[2] - start + 1] ELSE file[place]]
  /\ UNCHANGED <<extended, upper>>

(* "subsequent data is not program code"                                    *)
ExtendedRecord(u) ==
  /\ NextRecord /\ extended' = TRUE /\ upper' = u
  /\ UNCHANGED <<image, outOfBounds, file>>

(* A record 01, or the end of the file.                                     *)
EndOfFile ==
  /\ pc = "reading" /\ pc' = IF outOfBounds THEN "asking" ELSE "sealing"
  /\ UNCHANGED <<image, outOfBounds, extended, active, file, upper, count, agreed>>

Agree ==
  /\ pc = "asking" /\ pc' = "sealing" /\ agreed' = TRUE
  /\ UNCHANGED <<image, outOfBounds, extended, active, file, upper, count>>

Refuse ==
  /\ pc = "asking" /\ pc' = "idle"
  /\ UNCHANGED <<image, outOfBounds, extended, active, file, upper, count, agreed>>

(* Mutant: one word too high.                                               *)
SealTooHigh ==
  /\ pc = "sealing" /\ pc' = "idle" /\ active' = TRUE
  /\ image' = [a \in Base .. Top + 2 |-> IF a > Top THEN Crc ELSE image[a]]
  /\ UNCHANGED <<outOfBounds, extended, file, upper, count, agreed>>

Seal ==
  /\ pc = "sealing" /\ pc' = "idle" /\ active' = TRUE
  /\ image' = [image EXCEPT ![Top] = Crc, ![Top + 1] = Crc]
  /\ UNCHANGED <<outOfBounds, extended, file, upper, count, agreed>>

-----------------------------------------------------------------------------

Init ==
  /\ image = [a \in Base .. Top + 1 |-> Blank]
  /\ outOfBounds = FALSE /\ extended = FALSE /\ pc = "idle" /\ active = FALSE
  /\ file = NoData /\ upper = 0 /\ count = 0 /\ agreed = FALSE

Next ==
  \/ Press \/ ChooseNone \/ Choose
  \/ \E start \in Starts, length \in Lengths : \E bytes \in [1 .. length -> Byte] : DataRecord(start, bytes)
  \/ \E u \in Uppers : ExtendedRecord(u)
  \/ EndOfFile \/ Agree \/ Refuse \/ Seal

-----------------------------------------------------------------------------
(* Properties.                                                              *)

(* The image the flash button offers to program is what the chosen file     *)
(* says of the user's area, blank where it says nothing: nothing of an      *)
(* earlier file, of a later record's address or of the CRC's own place.     *)
ImageIsTheFile ==
  active => \A a \in Base .. Top + 1 : image[a] = IF a \in User THEN file[<<0, a>>] ELSE Crc

(* A file with program code outside of that area is not programmed without  *)
(* the user's consent.                                                      *)
AsksOutOfBounds ==
  active /\ (\E a \in (0 .. Space - 1) \ User : file[<<0, a>>] # Blank) => agreed
=============================================================================
