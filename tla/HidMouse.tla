------------------------------ MODULE HidMouse ------------------------------
(***************************************************************************)
(* The hid_mouse example: main() fills and sends reports while the USB      *)
(* stack, and with it every request of the host, runs in the interrupt.     *)
(*                                                                         *)
(* main() is divided where an interrupt makes a difference: each read of    *)
(* what the interrupt writes is a step of its own.  An interrupt runs to    *)
(* its end: each action of the host that reaches usb_service() is one step. *)
(* A completed IN transaction is the exception: the engine frees the buffer *)
(* at once, and usb_service() hears of it later.                            *)
(*                                                                         *)
(* buf[1], the movement, stands for the report.  x_count and delay count    *)
(* down from Steps and Pause instead of 100 and 7.                          *)
(***************************************************************************)
EXTENDS Example

CONSTANTS
  Steps, Pause       \* what x_count and delay start from

ASSUME MouseAssumption ==
  /\ Steps \in Nat \ {0} /\ Pause \in Nat \ {0}
  /\ {<<-1>>, <<0>>, <<1>>} \subseteq Report

VARIABLES
  pc, pid, buf,               \* main() and usb_send_in_buffer()
  xCount, delay, xDirec,
  tokenDone,                  \* SFR_USB_TOKEN_IF, for the IN endpoint
  pointer,                    \* where the host's pointer is
  skipped                     \* history: packets the host dropped in a row, up to 3

mainVars  == <<pc, pid, buf, xCount, delay, xDirec>>
countVars == <<pointer, skipped>>
mouseVars == <<mainVars, tokenDone, countVars>>

MouseTypeOK ==
  /\ ExampleTypeOK
  /\ pc \in {"test", "testHalted", "testBusy", "fill", "enter", "enterHalted", "latch", "arm", "flip", "count"}
  /\ pid \in Toggle /\ buf \in {-1, 0, 1}
  /\ xCount \in 1 .. Steps /\ delay \in 0 .. Pause /\ xDirec \in {-1, 1}
  /\ tokenDone \in BOOLEAN
  /\ pointer \in Int /\ skipped \in 0 .. 3

-----------------------------------------------------------------------------
(* main()                                                                   *)

Goes(p) == pc' = p /\ UNCHANGED <<exampleVars, pid, buf, xCount, delay, xDirec, tokenDone, countVars>>

(* Is it configured, not halted and not busy?                               *)
Test       == pc = "test" /\ configured /\ Goes("testHalted")
TestHalted == pc = "testHalted" /\ Goes(IF flags.inHalt THEN "test" ELSE "testBusy")
TestBusy   == pc = "testBusy" /\ Goes(IF bdIn.own = "cpu" THEN "fill" ELSE "test")

(* Mutant: the last two reports of a pause both move.                       *)
FillMovingTwice ==
  /\ pc = "fill"
  /\ delay' = delay - 1
  /\ buf' = IF delay' > 1 THEN 0 ELSE xDirec
  /\ pc' = "enter"
  /\ UNCHANGED <<exampleVars, pid, xCount, xDirec, tokenDone, countVars>>

Fill ==
  /\ pc = "fill"
  /\ delay' = delay - 1
  /\ buf' = IF delay' # 0 THEN 0 ELSE xDirec
  /\ pc' = "enter"
  /\ UNCHANGED <<exampleVars, pid, xCount, xDirec, tokenDone, countVars>>

(* usb_send_in_buffer() tests again; if it may not send, the report is gone.*)
Enter       == pc = "enter" /\ Goes(IF configured THEN "enterHalted" ELSE "count")
EnterHalted == pc = "enterHalted" /\ Goes(IF flags.inHalt THEN "count" ELSE "latch")

(* It reads EP_TX_DTS and clears BDnSTAT.                                   *)
Latch ==
  /\ pc = "latch"
  /\ pid' = flags.txDts /\ bdIn' = Idle
  /\ pc' = "arm"
  /\ UNCHANGED <<configured, flags, bdOut, hostVars, read, hasIt, stored, breaks, app, broken,
                 buf, xCount, delay, xDirec, tokenDone, countVars>>

Arm ==
  /\ pc = "arm"
  /\ bdIn' = Armed(pid, <<buf>>) /\ hasIt' = FALSE
  /\ pc' = "flip"
  /\ UNCHANGED <<configured, flags, bdOut, hostVars, read, stored, breaks, app, broken,
                 pid, buf, xCount, delay, xDirec, tokenDone, countVars>>

(* Mutant: EP_TX_DTS is set from the packet just sent.                      *)
FlipFromPid ==
  /\ pc = "flip"
  /\ flags' = [flags EXCEPT !.txDts = pid]
  /\ pc' = "count"
  /\ UNCHANGED <<configured, bdIn, bdOut, hostVars, read, hasIt, stored, breaks, app, broken,
                 pid, buf, xCount, delay, xDirec, tokenDone, countVars>>

(* flags ^= EP_TX_DTS is a single instruction.                              *)
Flip ==
  /\ pc = "flip"
  /\ flags' = [flags EXCEPT !.txDts = 1 - @]
  /\ pc' = "count"
  /\ UNCHANGED <<configured, bdIn, bdOut, hostVars, read, hasIt, stored, breaks, app, broken,
                 pid, buf, xCount, delay, xDirec, tokenDone, countVars>>

Count ==
  /\ pc = "count"
  /\ IF delay = 0
       THEN /\ delay' = Pause
            /\ xCount' = IF xCount = 1 THEN Steps ELSE xCount - 1
            /\ xDirec' = IF xCount = 1 THEN -xDirec ELSE xDirec
       ELSE UNCHANGED <<delay, xCount, xDirec>>
  /\ pc' = "test"
  /\ UNCHANGED <<exampleVars, pid, buf, tokenDone, countVars>>

Main ==
  \/ Test \/ TestHalted \/ TestBusy \/ Fill
  \/ Enter \/ EnterHalted \/ Latch \/ Arm \/ Flip
  \/ Count

-----------------------------------------------------------------------------
(* The wire: a packet the host takes moves its pointer.                     *)

Moves ==
  /\ pointer' = IF HostIsDue THEN pointer + bdIn.data[1] ELSE pointer
  /\ skipped' = IF HostIsDue \/ hasIt THEN 0 ELSE IF skipped = 3 THEN 3 ELSE skipped + 1
  /\ UNCHANGED <<app, broken>>

InTransaction ==
  /\ ~tokenDone
  /\ InToken /\ Moves /\ tokenDone' = TRUE
  /\ UNCHANGED mainVars

InTransactionAckLost ==
  /\ ~tokenDone /\ HostIsDue
  /\ InTokenAckLost /\ Moves
  /\ UNCHANGED <<mainVars, tokenDone>>

-----------------------------------------------------------------------------
(* The interrupt: isr() calls usb_service().                                *)

ServiceIn ==
  /\ tokenDone /\ tokenDone' = FALSE
  /\ bdIn' = IF flags.inHalt THEN Stalled ELSE bdIn
  /\ UNCHANGED <<configured, flags, bdOut, hostVars, read, hasIt, stored, breaks, app, broken,
                 mainVars, countVars>>

MouseBreaks == Breaks /\ skipped' = 0

UsbReset == BusReset /\ MouseBreaks /\ tokenDone' = FALSE /\ UNCHANGED <<mainVars, pointer, app>>

Configure == HostConfigures(TRUE) /\ UNCHANGED <<mouseVars, app, broken>>

Halt == ~tokenDone /\ HostHaltsIn /\ MouseBreaks /\ UNCHANGED <<mainVars, tokenDone, pointer, app>>

Clear == ~tokenDone /\ HostClearsIn /\ MouseBreaks /\ UNCHANGED <<mainVars, tokenDone, pointer, app>>

(* A host that finds the endpoint stalled clears it in any case.            *)
ClearStalled ==
  /\ ~tokenDone /\ flags.inHalt /\ HostClearsIn
  /\ skipped' = 0 /\ UNCHANGED <<mainVars, tokenDone, pointer, app, broken>>

-----------------------------------------------------------------------------

MouseInit ==
  /\ pc = "test" /\ pid = 0 /\ buf = 0
  /\ xCount = Steps /\ delay = Pause /\ xDirec = 1
  /\ tokenDone = FALSE /\ pointer = 0 /\ skipped = 0

MouseNext ==
  \/ Test \/ TestHalted \/ TestBusy \/ Fill
  \/ Enter \/ EnterHalted \/ Latch \/ Arm \/ Flip
  \/ Count
  \/ InTransaction \/ InTransactionAckLost
  \/ ServiceIn \/ UsbReset \/ Configure \/ Halt \/ Clear \/ ClearStalled

-----------------------------------------------------------------------------
(* Properties.                                                              *)

(* Wherever an interrupt hits usb_send_in_buffer(), the data toggles meet   *)
(* again: after a reset, a halt or a clear the host drops at most two       *)
(* packets before it takes one.                                             *)
TogglesMeetAgain == skipped <= 2

(* A break that loses packets displaces the pointer by one step at most,    *)
(* even where a reset takes the report in the buffer and usb_send_in_buffer *)
(* drops the next: the pointer stays on the line main() draws but for one   *)
(* step per break.                                                          *)
StaysOnLine == pointer \in -broken .. Steps + broken
=============================================================================
