---------------------------- MODULE Calculations ----------------------------
(***************************************************************************)
(* Four things that have nothing to do with each other, side by side: part  *)
(* says which of them takes place, and the others' variables stand still at *)
(* one of their initial values.                                             *)
(***************************************************************************)
EXTENDS Integers, Sequences

CONSTANTS
  Width, Poly, Page, FirstPage, LastPage, Words,                              \* BootCrc
  Byte, Blank, Base, Top, Space, Starts, Lengths, Uppers, MaxRecords          \* HexFile

VARIABLES
  part,
  image, address, hostCrc, flash, hi, lo, crc, passedCrc, pc, sealedAt, changed, matched,
  loaded, outOfBounds, extended, step, active, file, upper, count, agreed,
  serial, record,
  firmware, heard, stalled

Crc == INSTANCE BootCrc
Hex == INSTANCE HexFile WITH image <- loaded, pc <- step
Sqtp == INSTANCE SerialNumbers
Usb == INSTANCE Descriptors

ASSUME CalculationsAssumption ==
  Crc!CrcAssumption /\ Hex!HexAssumption

crcVars == <<image, address, hostCrc, flash, hi, lo, crc, passedCrc, pc, sealedAt, changed, matched>>
hexVars == <<loaded, outOfBounds, extended, step, active, file, upper, count, agreed>>
sqtpVars == <<serial, record>>
usbVars == <<firmware, heard, stalled>>
vars == <<part, crcVars, hexVars, sqtpVars, usbVars>>

Init ==
  /\ part \in {"crc", "hex", "sqtp", "usb"}
  /\ Crc!Init /\ Hex!Init /\ Sqtp!Init /\ Usb!Init
  /\ part # "crc" =>
       sealedAt = Crc!LastWord /\ image = [a \in Crc!Address |-> CHOOSE word \in Words : TRUE]
  /\ part # "usb" => firmware = "bootloader"

Next ==
  \/ part = "crc" /\ Crc!Next /\ UNCHANGED <<part, hexVars, sqtpVars, usbVars>>
  \/ part = "hex" /\ Hex!Next /\ UNCHANGED <<part, crcVars, sqtpVars, usbVars>>
  \/ part = "sqtp" /\ Sqtp!Next /\ UNCHANGED <<part, crcVars, hexVars, usbVars>>
  \/ part = "usb" /\ Usb!Next /\ UNCHANGED <<part, crcVars, hexVars, sqtpVars>>

Spec == Init /\ [][Next]_vars

-----------------------------------------------------------------------------
(* The properties, each at its place in its module.                         *)

(* A sealed image starts as long as nothing of it changes.                  *)
SealedStarts == Crc!SealedStarts

(* A single changed bit is noticed where the CRC is.                        *)
OneBitIsNoticed == Crc!OneBitIsNoticed

(* What is offered for programming is the last file's, and all of it.       *)
ImageIsTheFile == part = "hex" => Hex!ImageIsTheFile

(* Data out of bounds is not dropped without asking.                        *)
AsksOutOfBounds == part = "hex" => Hex!AsksOutOfBounds

(* A device programmed with a record reads as the record's number.          *)
ReadsItsNumber == part = "sqtp" => Sqtp!ReadsItsNumber

(* What a host learns of a firmware is so.                                  *)
Understood == part = "usb" => Usb!Understood
=============================================================================
