--------------------------- MODULE SerialNumbers ---------------------------
(***************************************************************************)
(* sqtp-numgen.c, which writes one Intel hex record per device to be made,  *)
(* and the string descriptor of the boot loader in which a programmer puts  *)
(* what the record says: one RETLW instruction for each byte, two bytes to  *)
(* the character.  A word is a pair of bytes, lower one first.              *)
(***************************************************************************)
EXTENDS Integers, Sequences, SequencesExt

WordAddress == 3978          \* 0xF8A
StartSerial == 4096          \* 0x1000
StopSerial  == 8192          \* 0x2000
HexDigits   == 4
Retlw       == 52            \* the upper byte of 0x3400

VARIABLES serial, record     \* the record printed last

vars == <<serial, record>>

-----------------------------------------------------------------------------

LowerByte(word) == word % 256
UpperByte(word) == (word \div 256) % 256

Char(digit) == IF digit < 10 THEN 48 + digit ELSE 65 + digit - 10

(* Mutant: the digits come out last one first.                              *)
DigitReversed(n, index) == (n \div 16 ^ index) % 16

Digit(n, index) == (n \div 16 ^ (HexDigits - index - 1)) % 16

(* Both instructions of each character.                                     *)
Instructions(n) ==
  FlattenSeq([i \in 1 .. HexDigits |-> <<Char(Digit(n, i - 1)), Retlw, 0, Retlw>>])

Header == <<4 * HexDigits, UpperByte(2 * WordAddress), LowerByte(2 * WordAddress), 0>>

Sum(bytes) == FoldLeft(LAMBDA a, b : (a + b) % 256, 0, bytes)

Checksum(bytes) == (256 - Sum(bytes)) % 256

Record(n) == Header \o Instructions(n) \o <<Checksum(Header \o Instructions(n))>>

-----------------------------------------------------------------------------

Init == serial = StartSerial /\ record = Record(serial)

Next ==
  /\ serial < StopSerial
  /\ serial' = serial + 1 /\ record' = Record(serial')

-----------------------------------------------------------------------------
(* The device made with that record.                                        *)

StringAddress == 3968        \* 0xF80
StringWords   == 18          \* bLength, bDescriptorType and eight characters

(* The string as compiled: RETLW 0xFF is for the programmer to fill in.     *)
Compiled == [i \in 0 .. StringWords - 1 |->
               CASE i = 0 -> StringWords
                 [] i = 1 -> 3
                 [] i \in 2 .. 9 -> IF i % 2 = 0 THEN 48 ELSE 0
                 [] OTHER -> 255]

(* What RETLW returns at each word once the record has been programmed, by  *)
(* a programmer that refuses a record with a wrong checksum.                *)
Programmed ==
  IF Sum(record) # 0 THEN Compiled ELSE
  LET first == (256 * record[2] + record[3]) \div 2 - StringAddress
      words == record[1] \div 2
  IN  [i \in 0 .. StringWords - 1 |->
         IF i \in first .. first + words - 1 THEN record[5 + 2 * (i - first)] ELSE Compiled[i]]

Value(char) == IF char < 58 THEN char - 48 ELSE char - 55

-----------------------------------------------------------------------------
(* Properties.                                                              *)

(* A host reads the serial number the record was made for, in hexadecimal,  *)
(* with the digits that are not the record's own still zero: no two devices *)
(* read the same.                                                           *)
ReadsItsNumber ==
  /\ FoldLeft(LAMBDA n, i : 16 * n + Value(Programmed[2 * i]), 0, <<1, 2, 3, 4, 5, 6, 7, 8>>) = serial
  /\ \A i \in 1 .. 8 : Programmed[2 * i + 1] = 0
=============================================================================
