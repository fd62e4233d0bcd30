------------------------------ MODULE BootCrc ------------------------------
(***************************************************************************)
(* The CRC that decides whether user code may start: the loop of            *)
(* hex_button_cb() that seals an image, and the loop at the start of        *)
(* main() that checks the flash.  The first walks over bytes up to          *)
(* crc_address, the second over words with an address kept in two bytes,    *)
(* incremented before the two places of a CRC are looked for.               *)
(*                                                                         *)
(* A word is the set of its bits that are one.  The tool's words have two   *)
(* bits more than the part's.                                               *)
(***************************************************************************)
EXTENDS Integers

CONSTANTS
  Width, Poly,            \* 14, the bits of 0x23B1
  Page,                   \* 256
  FirstPage, LastPage,    \* 0x10, 0x1F
  Words                   \* the words of the images tried

CrcAssumption ==
  /\ Width \in Nat \ {0} /\ Poly \subseteq 0 .. Width - 1
  /\ Page \in Nat \ {0} /\ Page % 2 = 0
  /\ FirstPage \in Nat /\ LastPage \in Nat /\ FirstPage <= LastPage
  /\ Words \subseteq SUBSET (0 .. Width + 1)

Address == FirstPage * Page .. (LastPage + 1) * Page - 1
LastWord == (LastPage + 1) * Page - 1              \* 0x1FFF
NormalEnd == LastPage * Page + Page \div 2 - 1     \* 0x1F7F
Low(word) == word \cap 0 .. Width - 1

VARIABLES
  image, address, hostCrc,          \* the tool
  flash, hi, lo, crc, passedCrc,    \* the boot loader
  pc,
  sealedAt, changed,                \* history: where the CRC is, what was changed since,
  matched                           \* and where a word was equal to the CRC before it

vars == <<image, address, hostCrc, flash, hi, lo, crc, passedCrc, pc, sealedAt, changed, matched>>

Nothing == [address |-> -1, bit |-> -1]

TypeOK ==
  /\ image \in [Address -> SUBSET (0 .. Width + 1)]
  /\ address \in Address /\ hostCrc \subseteq 0 .. Width - 1
  /\ flash \in [Address -> SUBSET (0 .. Width - 1)]
  /\ hi \in FirstPage .. LastPage + 1 /\ lo \in 0 .. Page - 1
  /\ crc \subseteq 0 .. Width - 1 /\ passedCrc \in BOOLEAN
  /\ pc \in {"sealing", "programmed", "checking", "done"}
  /\ sealedAt \in {NormalEnd, LastWord}
  /\ changed \in [address : Address \cup {-1}, bit : -1 .. Width - 1]
  /\ matched \subseteq {NormalEnd, LastWord}

-----------------------------------------------------------------------------
(* Both loops' inner one: Width bits of data, lowest first.  The UNION of   *)
(* one set binds s, which TLC then evaluates once.                          *)

Shifted(word) == {bit - 1 : bit \in word \ {0}}
Xor(a, b) == (a \ b) \cup (b \ a)
Fed(sum, one) == IF (0 \in sum) # one THEN Xor(Shifted(sum), Poly) ELSE Shifted(sum)

(* Mutant: the tool's whole sixteen bits.                                   *)
UpdatedTooFar(sum, data) ==
  LET after[index \in 0 .. Width + 2] ==
        IF index = 0 THEN sum ELSE UNION {Fed(s, index - 1 \in data) : s \in {after[index - 1]}}
  IN  after[Width + 2]

(* Mutant: the polynomial goes in whenever a bit falls out.                 *)
UpdatedWithoutData(sum, data) ==
  LET after[index \in 0 .. Width] ==
        IF index = 0 THEN sum ELSE UNION {Fed(s, FALSE) : s \in {after[index - 1]}}
  IN  after[Width]

Updated(sum, data) ==
  LET after[index \in 0 .. Width] ==
        IF index = 0 THEN sum ELSE UNION {Fed(s, index - 1 \in data) : s \in {after[index - 1]}}
  IN  after[Width]

-----------------------------------------------------------------------------
(* The tool.                                                                *)

SealWord ==
  /\ pc = "sealing" /\ address # sealedAt
  /\ hostCrc' = Updated(hostCrc, image[address]) /\ address' = address + 1
  /\ UNCHANGED <<image, flash, hi, lo, crc, passedCrc, pc, sealedAt, changed, matched>>

(* The CRC is written where the loop stopped, and the image is programmed.  *)
Seal ==
  /\ pc = "sealing" /\ address = sealedAt
  /\ image' = [image EXCEPT ![address] = hostCrc]
  /\ flash' = [a \in Address |-> Low(image'[a])]
  /\ pc' = "programmed"
  /\ UNCHANGED <<address, hostCrc, hi, lo, crc, passedCrc, sealedAt, changed, matched>>

(* One bit of the flash changes afterwards.                                 *)
Change(a, bit) ==
  /\ pc = "programmed" /\ changed = Nothing
  /\ flash' = [flash EXCEPT ![a] = Xor(@, {bit})]
  /\ changed' = [address |-> a, bit |-> bit]
  /\ UNCHANGED <<image, address, hostCrc, hi, lo, crc, passedCrc, pc, sealedAt, matched>>

-----------------------------------------------------------------------------
(* The boot loader.                                                         *)

PowerUp ==
  /\ pc = "programmed" /\ pc' = "checking"
  /\ hi' = FirstPage /\ lo' = 0 /\ crc' = {} /\ passedCrc' = FALSE
  /\ UNCHANGED <<image, address, hostCrc, flash, sealedAt, changed, matched>>

(* lo++, and hi++ when it wraps                                             *)
Incremented == [lo |-> (lo + 1) % Page, hi |-> IF lo + 1 = Page THEN hi + 1 ELSE hi]

AtCrc(next) ==
  (next.lo = Page \div 2 /\ next.hi = LastPage) \/ (next.lo = 0 /\ next.hi = LastPage + 1)

(* One turn of the loop: read, increment, compare, and update.              *)
CheckWord ==
  LET data == flash[hi * Page + lo]
      next == Incremented
      ends == AtCrc(next) /\ next.hi = LastPage + 1
  IN  /\ pc = "checking"
      /\ lo' = next.lo /\ hi' = next.hi
      /\ passedCrc' = (passedCrc \/ (AtCrc(next) /\ data = crc))
      /\ matched' = IF AtCrc(next) /\ data = crc THEN matched \cup {hi * Page + lo} ELSE matched
      /\ crc' = IF ends THEN crc ELSE Updated(crc, data)
      /\ pc' = IF ends THEN "done" ELSE "checking"
      /\ UNCHANGED <<image, address, hostCrc, flash, sealedAt, changed>>

-----------------------------------------------------------------------------

Init ==
  /\ image \in [Address -> Words]
  /\ address = FirstPage * Page /\ hostCrc = {}
  /\ flash = [a \in Address |-> 0 .. Width - 1]
  /\ hi = FirstPage /\ lo = 0 /\ crc = {} /\ passedCrc = FALSE
  /\ pc = "sealing" /\ sealedAt \in {NormalEnd, LastWord} /\ changed = Nothing /\ matched = {}

Next ==
  \/ SealWord \/ Seal
  \/ \E a \in Address, bit \in 0 .. Width - 1 : Change(a, bit)
  \/ PowerUp \/ CheckWord

-----------------------------------------------------------------------------
(* Properties.                                                              *)

(* What was sealed and is as it was starts, wherever it is sealed; and what *)
(* is sealed before the high-endurance words starts whatever happens to     *)
(* those.                                                                   *)
SealedStarts == pc = "done" /\ (changed = Nothing \/ changed.address > sealedAt) => passedCrc

(* One changed bit in what the CRC covers, or in the CRC itself, is noticed *)
(* where the CRC is; the other place vouches for it by accident only.       *)
OneBitIsNoticed ==
  pc = "done" /\ changed.address \in FirstPage * Page .. sealedAt => sealedAt \notin matched
=============================================================================
