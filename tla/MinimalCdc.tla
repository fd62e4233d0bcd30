------------------------------ MODULE MinimalCdc ------------------------------
(***************************************************************************)
(* The minimalCDC example: a serial port on endpoint 2.  Bytes from the     *)
(* line pass the receiver's two-byte FIFO, a buffer of main()'s and the IN  *)
(* buffer; bytes from the PC pass the OUT buffer and another of main()'s.   *)
(*                                                                         *)
(* Its copy of usb.c is newer than the others': it initialises the          *)
(* endpoints when it is configured, so that a host may do so at any time.   *)
(*                                                                         *)
(* Bytes are numbered modulo Bytes in the order in which they came.  A byte *)
(* the receiver has no room for is lost before it gets a number.            *)
(***************************************************************************)
EXTENDS Example

CONSTANTS
  EP_2_LEN,    \* 64
  Bytes

ASSUME CdcAssumption ==
  /\ EP_2_LEN \in Nat \ {0, 1} /\ Bytes \in Nat \ {0, 1}
  /\ \A n \in 0 .. EP_2_LEN : [1 .. n -> 0 .. Bytes - 1] \subseteq Report

VARIABLES
  rcFifo, oerr,          \* the receiver
  pic2pc,                \* PIC2PC_Buffer, up to PIC2PC_pending_count
  pc2pic,                \* PC2PIC_Buffer, from PC2PIC_read_index on, while pc2pic_data_ready
  shifting,              \* ~TRMT: the transmitter is at work
  lineNext, heard,       \* number of the next byte on the line, and of the next the PC is due
  pcNext, spoken         \* number of the next byte of the PC, and of the next due on the line

cdcMain == <<rcFifo, oerr, pic2pc, pc2pic, shifting>>
cdcEnds == <<lineNext, heard, pcNext, spoken>>
cdcVars == <<cdcMain, cdcEnds>>

Byte == 0 .. Bytes - 1

CdcTypeOK ==
  /\ ExampleTypeOK
  /\ rcFifo \in Seq(Byte) /\ Len(rcFifo) <= 2 /\ oerr \in BOOLEAN /\ shifting \in BOOLEAN
  /\ pic2pc \in Seq(Byte) /\ Len(pic2pc) < EP_2_LEN
  /\ pc2pic \in Seq(Byte) /\ Len(pc2pic) <= EP_2_LEN
  /\ {lineNext, heard, pcNext, spoken} \subseteq Byte

After(n, k) == (n + k) % Bytes
Numbered(first, n) == [i \in 1 .. n |-> After(first, i - 1)]

-----------------------------------------------------------------------------
(* main(): one turn of the loop, in three parts.                            *)

TakesByte == rcFifo # <<>> /\ Len(pic2pc) < EP_2_LEN - 1

(* A byte is taken from the receiver, and an overrun cleared,               *)
Receives ==
  IF TakesByte
    THEN rcFifo' = Tail(rcFifo) /\ oerr' = FALSE
    ELSE UNCHANGED <<rcFifo, oerr>>

WithByte == IF TakesByte THEN Append(pic2pc, Head(rcFifo)) ELSE pic2pc

(* a byte is given to the transmitter,                                      *)
GivesByte == pc2pic # <<>> /\ ~shifting

Remaining == IF GivesByte THEN Tail(pc2pic) ELSE pc2pic

(* Mutant: a turn that has sent something ends there.                       *)
FetchesWhenQuiet == Remaining = <<>> /\ bdOut.own = "cpu" /\ WithByte = <<>>

Fetches == Remaining = <<>> /\ bdOut.own = "cpu"

(* and, unless endpoint 2 is halted or busy, what was received is sent and  *)
(* new data is fetched.                                                     *)
CdcTurn ==
  LET sends   == MaySend /\ WithByte # <<>>
      fetches == MaySend /\ Fetches
  IN  /\ configured
      /\ Receives
      /\ shifting' = (shifting \/ GivesByte)
      /\ spoken' = IF GivesByte THEN After(spoken, 1) ELSE spoken
      /\ pic2pc' = IF sends THEN <<>> ELSE WithByte
      /\ pc2pic' = IF fetches THEN bdOut.data ELSE Remaining
      /\ bdIn'  = IF sends THEN Armed(flags.txDts, WithByte) ELSE bdIn
      /\ hasIt' = (hasIt /\ ~sends)
      /\ bdOut' = IF fetches THEN Armed(flags.rxDts, NoReport) ELSE bdOut
      /\ read'  = IF fetches THEN Arrives(bdOut.data, read) ELSE read
      /\ flags' = [flags EXCEPT !.txDts = IF sends THEN 1 - @ ELSE @,
                                !.rxDts = IF fetches THEN 1 - @ ELSE @]
      /\ UNCHANGED <<configured, hostVars, stored, breaks, app, broken, lineNext, heard, pcNext>>

-----------------------------------------------------------------------------
(* The line.                                                                *)

LineByte ==
  /\ IF Len(rcFifo) < 2 /\ ~oerr
       THEN rcFifo' = Append(rcFifo, lineNext) /\ lineNext' = After(lineNext, 1) /\ UNCHANGED oerr
       ELSE oerr' = TRUE /\ UNCHANGED <<rcFifo, lineNext>>
  /\ UNCHANGED <<exampleVars, pic2pc, pc2pic, shifting, heard, pcNext, spoken>>

LineShifted ==
  /\ shifting /\ shifting' = FALSE
  /\ UNCHANGED <<exampleVars, rcFifo, oerr, pic2pc, pc2pic, cdcEnds>>

-----------------------------------------------------------------------------
(* The PC.                                                                  *)

PcWrites(n) ==
  /\ HostOffers(Numbered(pcNext, n)) /\ pcNext' = After(pcNext, n)
  /\ UNCHANGED <<app, broken, cdcMain, lineNext, heard, spoken>>

Hears == heard' = IF HostIsDue THEN After(heard, Len(bdIn.data)) ELSE heard

CdcIn == InToken /\ Hears /\ UNCHANGED <<app, broken, cdcMain, lineNext, pcNext, spoken>>

CdcInAckLost ==
  /\ HostIsDue /\ InTokenAckLost /\ Hears
  /\ UNCHANGED <<app, broken, cdcMain, lineNext, pcNext, spoken>>

CdcOut == OutToken /\ UNCHANGED <<app, broken, cdcVars>>
CdcOutAckLost == bdOut.dts = outToggle /\ OutTokenAckLost /\ UNCHANGED <<app, broken, cdcVars>>

Underway == IF bdIn.own = "sie" /\ ~hasIt THEN bdIn.data ELSE <<>>
Fetchable == IF bdOut.own = "cpu" THEN bdOut.data ELSE <<>>
Unstored == IF offer # NoReport /\ ~stored THEN offer ELSE <<>>

(* What a break discards gets no number: the PC goes on counting from what  *)
(* is left.                                                                 *)
CdcBroken ==
  /\ heard' = After(heard, Len(Underway) - Len(Underway'))
  /\ pcNext' = After(spoken, Len(pc2pic) + Len(Fetchable') + Len(Unstored'))
  /\ UNCHANGED <<app, cdcMain, lineNext, spoken>>

CdcConfigure ==
  /\ IF hostConfigured THEN Breaks ELSE UNCHANGED broken
  /\ HostConfigures(TRUE) /\ CdcBroken

CdcReset  == BusReset /\ Breaks /\ CdcBroken
CdcHalt   == (HostHaltsIn \/ HostHaltsOut) /\ Breaks /\ CdcBroken
CdcClear  == (flags.inHalt /\ HostClearsIn) \/ (flags.outHalt /\ HostClearsOut)
CdcClears == CdcClear /\ CdcBroken /\ UNCHANGED broken

-----------------------------------------------------------------------------

CdcInit ==
  /\ rcFifo = <<>> /\ oerr = FALSE /\ pic2pc = <<>> /\ pc2pic = <<>> /\ shifting = FALSE
  /\ lineNext = 0 /\ heard = 0 /\ pcNext = 0 /\ spoken = 0

CdcNext ==
  \/ CdcTurn \/ LineByte \/ LineShifted
  \/ \E n \in 0 .. EP_2_LEN : PcWrites(n)
  \/ CdcIn \/ CdcInAckLost \/ CdcOut \/ CdcOutAckLost
  \/ CdcReset \/ CdcConfigure \/ CdcHalt \/ CdcClears

-----------------------------------------------------------------------------
(* Properties.                                                              *)

(* Bytes leave in the order in which they came, each once, in either        *)
(* direction: none is lost or repeated on its way through three buffers,    *)
(* but what the host discards by breaking the pipe.                         *)
BytesInOrder ==
  LET fromLine == Underway \o pic2pc \o rcFifo
      fromPc   == pc2pic \o Fetchable \o Unstored
  IN  app = "minimalCDC" =>
        /\ fromLine = Numbered(heard, Len(fromLine)) /\ lineNext = After(heard, Len(fromLine))
        /\ fromPc = Numbered(spoken, Len(fromPc)) /\ pcNext = After(spoken, Len(fromPc))

=============================================================================
