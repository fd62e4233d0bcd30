--------------------------- MODULE FirmwareUpdate ---------------------------
(***************************************************************************)
(* A user updates the firmware: the download tool                           *)
(* (download-tool/download.cpp) drives the command server of                *)
(* bootloader/main.c through HIDAPI's libusb back end.                      *)
(*                                                                         *)
(* flash_button_cb() is a sequence of xfer() calls, each one hid_write()    *)
(* and one hid_read_timeout().  The call in progress is phase; awaiting     *)
(* tells its two halves apart.  hostQ is input_reports, the queue that      *)
(* HIDAPI's read thread fills while the device is open.  xfer() takes the   *)
(* oldest report in the queue for the answer to what it just wrote: nothing *)
(* matches the two.  A tool that is killed, or gives up, leaves a reply in  *)
(* the device's IN buffer and perhaps a command in its OUT buffer, for the  *)
(* next run of the tool to trip over.                                       *)
(***************************************************************************)
EXTENDS CommandServer

CONSTANT
  IdLike  \* contents whose seventh word equals a valid Device ID by accident

ASSUME ToolAssumption ==
  /\ IdLike \subseteq Content \ {Erased}
  /\ \A i \in Images, u \in Unit :
       /\ [op |-> "programMemory", unit |-> u, data |-> Image[i][u]] \in Commands
       /\ \A o \in {"readConfig", "readMemory", "eraseMemory"} :
            [op |-> o, unit |-> u, data |-> Erased] \in Commands

VARIABLES
  loaded,     \* flash_button is active
  target,     \* whose contents image[] has, when loaded
  handle,     \* "closed", "live", or "dead": open, but its device went away
  phase,      \* the xfer() flash_button_cb() is at, or "idle", or "alert"
  row,        \* the row it is at
  awaiting,   \* FALSE before hid_write(), TRUE before hid_read_timeout()
  hostQ,      \* input_reports
  result,     \* what the alert box says: "none" before, "ok" or "failed"
  stale,      \* history: commands of earlier runs unanswered when this one began
  offered     \* history: the images some run has set out to install

toolVars == <<loaded, target, handle, phase, row, awaiting, hostQ, result, stale, offered>>
vars == <<deviceVars, toolVars>>

Step == {"readId", "erase", "verify", "programLower", "programUpper"}
Row  == 0 .. (NumRows - 1)

ToolTypeOK ==
  /\ loaded \in BOOLEAN
  /\ target \in Images
  /\ handle \in {"closed", "live", "dead"}
  /\ phase \in Step \cup {"idle", "alert"}
  /\ row \in Row
  /\ awaiting \in BOOLEAN
  /\ hostQ \in Seq(Reply)
  /\ result \in {"none", "ok", "failed"}
  /\ stale \in 0 .. 2
  /\ offered \subseteq Images

TypeOK == DeviceTypeOK /\ ToolTypeOK

Init ==
  /\ DeviceInit
  /\ loaded = FALSE /\ target \in Images
  /\ handle = "closed" /\ phase = "idle" /\ row = 0 /\ awaiting = FALSE
  /\ hostQ = <<>> /\ result = "none" /\ stale = 0
  /\ offered = {i \in Images : flash = Image[i]}

Bit(b) == IF b THEN 1 ELSE 0

-----------------------------------------------------------------------------
(* hex_button_cb(): a file is read, cut to the user area and sealed with a  *)
(* CRC at 0x1FFF; or it cannot be read, or the user declines it.            *)

LoadHex(i) ==
  /\ phase = "idle"
  /\ loaded' = TRUE /\ target' = i
  /\ UNCHANGED <<deviceVars, handle, phase, row, awaiting, hostQ, result, stale, offered>>

LoadRefused ==
  /\ phase = "idle"
  /\ loaded' = FALSE
  /\ UNCHANGED <<deviceVars, target, handle, phase, row, awaiting, hostQ, result, stale, offered>>

-----------------------------------------------------------------------------
(* flash_button_cb().                                                       *)

(* hid_open() finds the bootloader; its read thread starts to poll.         *)
Open ==
  /\ phase = "idle" /\ loaded
  /\ online
  /\ handle' = "live" /\ phase' = "readId" /\ row' = 0 /\ awaiting' = FALSE
  /\ result' = "none"
  /\ stale' = Bit(inBusy) + Bit(outFull)
  /\ offered' = offered \cup {target}
  /\ UNCHANGED <<deviceVars, loaded, target, hostQ>>

OpenFails ==
  /\ phase = "idle" /\ loaded
  /\ ~online
  /\ phase' = "alert" /\ result' = "failed"
  /\ UNCHANGED <<deviceVars, loaded, target, handle, row, awaiting, hostQ, stale, offered>>

(* goto bail, which comes down to fl_alert() until the user closes the box. *)
Bail ==
  /\ phase' = "alert" /\ result' = "failed" /\ awaiting' = FALSE
  /\ UNCHANGED row

(* Mutant: "index += 16" is missing before the upper half is programmed.    *)
RequestWithoutAdvance ==
  CASE phase = "readId"       -> [op |-> "readConfig",  unit |-> 0, data |-> Erased]
    [] phase = "erase"        -> [op |-> "eraseMemory", unit |-> 2 * row, data |-> Erased]
    [] phase = "verify"       -> [op |-> "readMemory",  unit |-> 2 * row, data |-> Erased]
    [] phase = "programLower" -> [op |-> "programMemory", unit |-> 2 * row,
                                  data |-> Image[target][2 * row]]
    [] phase = "programUpper" -> [op |-> "programMemory", unit |-> 2 * row,
                                  data |-> Image[target][2 * row + 1]]

Request ==
  CASE phase = "readId"       -> [op |-> "readConfig",  unit |-> 0, data |-> Erased]
    [] phase = "erase"        -> [op |-> "eraseMemory", unit |-> 2 * row, data |-> Erased]
    [] phase = "verify"       -> [op |-> "readMemory",  unit |-> 2 * row, data |-> Erased]
    [] phase = "programLower" -> [op |-> "programMemory", unit |-> 2 * row,
                                  data |-> Image[target][2 * row]]
    [] phase = "programUpper" -> [op |-> "programMemory", unit |-> 2 * row + 1,
                                  data |-> Image[target][2 * row + 1]]

HidWrite ==
  /\ phase \in Step /\ ~awaiting
  /\ handle = "live"
  /\ AcceptOut(Request)
  /\ awaiting' = TRUE
  /\ UNCHANGED <<loaded, target, handle, phase, row, hostQ, result, stale, offered>>

(* The device is gone; or it NAKs for 1000 ms, its OUT buffer being full.   *)
WriteFailsIf(condition) ==
  /\ phase \in Step /\ ~awaiting
  /\ condition
  /\ Bail
  /\ UNCHANGED <<deviceVars, loaded, target, handle, hostQ, stale, offered>>

HidWriteFails    == WriteFailsIf(handle = "dead")
HidWriteTimesOut == WriteFailsIf(handle = "live" /\ outFull)

(* hid_read_timeout() returns the oldest report, whatever it answers; the   *)
(* caller then goes on to the given phase and row, or bails out.            *)
TakeReport ==
  /\ awaiting /\ hostQ # <<>>
  /\ hostQ' = Tail(hostQ)
  /\ UNCHANGED <<deviceVars, loaded, target, handle, stale, offered>>

GoOn(p, r) == phase' = p /\ row' = r /\ awaiting' = FALSE /\ result' = result

DeviceIdValid(p) == p = ConfigWords \/ p \in IdLike

GotId ==
  /\ phase = "readId" /\ TakeReport
  /\ IF DeviceIdValid(Head(hostQ).payload) THEN GoOn("erase", row) ELSE Bail

GotErase == phase = "erase" /\ TakeReport /\ GoOn("verify", row)

(* Mutant: the reply to the verify read is not compared with erased_state.  *)
LooksErasedUnchecked(p) == TRUE

LooksErased(p) == p = Erased

GotVerify ==
  /\ phase = "verify" /\ TakeReport
  /\ IF LooksErased(Head(hostQ).payload) THEN GoOn("programLower", row) ELSE Bail

GotProgramLower == phase = "programLower" /\ TakeReport /\ GoOn("programUpper", row)

(* Mutant: the loop over the rows runs once too often.                      *)
GotProgramUpperOnceMore ==
  /\ phase = "programUpper" /\ TakeReport
  /\ IF row < NumRows
       THEN GoOn("erase", row + 1)
       ELSE phase' = "alert" /\ result' = "ok" /\ awaiting' = FALSE /\ row' = row

GotProgramUpper ==
  /\ phase = "programUpper" /\ TakeReport
  /\ IF row < NumRows - 1
       THEN GoOn("erase", row + 1)
       ELSE phase' = "alert" /\ result' = "ok" /\ awaiting' = FALSE /\ row' = row

(* Mutant: a command that timed out is written again.                       *)
ReadRetriesIf(condition) ==
  /\ awaiting /\ hostQ = <<>>
  /\ condition
  /\ awaiting' = FALSE
  /\ UNCHANGED <<deviceVars, loaded, target, handle, phase, row, hostQ, result, stale, offered>>

(* Mutant: hid_read() is called, which has no timeout.                      *)
ReadBlocksIf(condition) ==
  /\ awaiting /\ hostQ = <<>>
  /\ condition /\ handle # "live"
  /\ Bail
  /\ UNCHANGED <<deviceVars, loaded, target, handle, hostQ, stale, offered>>

(* The queue is empty and the read thread has seen the device go; or no     *)
(* report comes within 1000 ms.                                             *)
ReadFailsIf(condition) ==
  /\ awaiting /\ hostQ = <<>>
  /\ condition
  /\ Bail
  /\ UNCHANGED <<deviceVars, loaded, target, handle, hostQ, stale, offered>>

HidReadFails    == ReadFailsIf(handle = "dead")
HidReadTimesOut == ReadFailsIf(handle = "live")

(* Mutant: reports still queued are handed to the next run.                 *)
CloseAlertKeepingReports ==
  /\ phase = "alert"
  /\ phase' = "idle" /\ handle' = "closed"
  /\ UNCHANGED <<deviceVars, loaded, target, row, awaiting, hostQ, result, stale, offered>>

(* The user closes the alert box: hid_close() drops the queued reports.     *)
(* HIDAPI goes on fetching reports until then, so a user who leaves the box *)
(* up for longer than the device takes to answer leaves none behind.        *)
CloseAlert ==
  /\ phase = "alert"
  /\ phase' = "idle" /\ handle' = "closed" /\ hostQ' = <<>>
  /\ UNCHANGED <<deviceVars, loaded, target, row, awaiting, result, stale, offered>>

(* The tool is killed, and started again without an image.                  *)
Kill ==
  /\ phase' = "idle" /\ handle' = "closed" /\ hostQ' = <<>> /\ awaiting' = FALSE
  /\ loaded' = FALSE /\ result' = "none"
  /\ UNCHANGED <<deviceVars, target, row, stale, offered>>

-----------------------------------------------------------------------------
(* HIDAPI's read thread: read_callback() queues the report and resubmits.   *)
Poll ==
  /\ handle = "live"
  /\ DeliverIn
  /\ hostQ' = Append(hostQ, tx)
  /\ UNCHANGED <<loaded, target, handle, phase, row, awaiting, result, stale, offered>>

(* The device works on.                                                     *)
Device(A) == A /\ UNCHANGED toolVars

(* The device leaves the bus: an open handle is of no more use.             *)
Leaves(A) ==
  /\ A
  /\ handle' = IF handle = "live" THEN "dead" ELSE handle
  /\ UNCHANGED <<loaded, target, phase, row, awaiting, hostQ, result, stale, offered>>

Advance ==
  \/ HidWrite \/ HidWriteFails \/ HidReadFails
  \/ GotId \/ GotErase \/ GotVerify \/ GotProgramLower \/ GotProgramUpper

Works == Device(ExecRead) \/ Device(ExecErase) \/ Device(ExecProgram)

(* What happens when nobody interferes and the device answers in time.      *)
Calm ==
  \/ \E i \in Images : LoadHex(i)
  \/ LoadRefused \/ Open \/ OpenFails \/ CloseAlert
  \/ Advance
  \/ Poll
  \/ Works
  \/ Device(SetConfiguration)

TimesOut == HidWriteTimesOut \/ HidReadTimesOut

Next ==
  \/ Calm
  \/ TimesOut
  \/ Kill
  \/ Leaves(BusReset)
  \/ Leaves(PowerCycle)
  \/ Leaves(WatchdogReset)

Spec == Init /\ [][Next]_vars

-----------------------------------------------------------------------------
(* Safety.                                                                  *)

(* "programming was successful!" is only ever shown when the flash holds    *)
(* the image that was chosen, every unit of it, although the tool neither   *)
(* checks what a reply answers nor reads back what it programmed.           *)
SuccessMeansInstalled ==
  phase = "alert" /\ result = "ok" => flash = Image[target]

(* No unit is programmed twice between two erases, not even by a command a  *)
(* killed tool left in the device: a program command waiting in the OUT     *)
(* buffer is for a blank unit.  The tool has only seen the lower half.      *)
ProgramsBlankUnits ==
  outFull /\ rx.op = "programMemory" => flash[rx.unit] = Erased

(* A tool that is past the first erase verify is in step with the device:   *)
(* the reply it takes from HIDAPI's queue answers the command it has just   *)
(* written, and none other is on its way.  Before that, it may be reading   *)
(* the answers to commands of an earlier run.                               *)
PastVerify ==
  phase \in {"programLower", "programUpper"} \/ (phase \in Step /\ row > 0)

InStep ==
  PastVerify /\ awaiting /\ hostQ # <<>> =>
    /\ Len(hostQ) = 1
    /\ Head(hostQ).op = Request.op /\ Head(hostQ).unit = Request.unit
    /\ handle = "live" => ~inBusy /\ ~outFull

-----------------------------------------------------------------------------
(* Why they hold: an inductive invariant.                                   *)

(* A handle is open in the steps of a run; a live one has a device at its   *)
(* other end, and a dead one has no command or reply left in the device.    *)
HandleInv ==
  /\ phase \notin Step => ~awaiting
  /\ phase \in Step => handle \in {"live", "dead"}
  /\ phase = "idle" => handle = "closed"
  /\ handle = "closed" => hostQ = <<>>
  /\ handle = "live" => online
  /\ handle = "dead" => ~inBusy /\ ~outFull

(* The commands and replies in flight are the stale ones plus the one being *)
(* awaited, less what was lost when the device left the bus.                *)
InFlight == Len(hostQ) + Bit(inBusy) + Bit(outFull)

CountInv ==
  phase \in Step =>
    /\ handle = "live" => InFlight = stale + Bit(awaiting)
    /\ handle = "dead" => InFlight =< stale + Bit(awaiting)

(* A run that is behind by one or two replies never gets past the verify of *)
(* row 0.  The reply it will take there is, at the latest, the one to the   *)
(* erase: that carries the configuration words of the run's first command,  *)
(* which is also what it will take for the reply to the erase.  By position *)
(* in hostQ, the first command's reply is number stale + 1 in "readId".     *)
FromConfig(lo, hi) == \A j \in 1 .. Len(hostQ) : j \in lo .. hi => hostQ[j].payload = ConfigWords

BehindInv ==
  phase \in Step /\ stale > 0 =>
    /\ row = 0
    /\ \/ /\ phase = "readId"
          /\ FromConfig(stale + 1, stale + 1)
          /\ awaiting /\ outFull => rx.op = "readConfig"
          /\ awaiting /\ handle = "live" /\ ~outFull => tx.payload = ConfigWords
       \/ /\ phase = "erase"
          /\ FromConfig(stale, stale + 1)
          /\ outFull => rx.op = (IF awaiting THEN "eraseMemory" ELSE "readConfig")
          /\ handle = "live" /\ (awaiting \/ ~outFull) => tx.payload = ConfigWords
       \/ /\ phase = "verify"
          /\ FromConfig(1, stale)
          /\ outFull => rx.op = (IF awaiting THEN "readMemory" ELSE "eraseMemory")
          /\ handle = "live" /\ (outFull \/ ~awaiting) => tx.payload = ConfigWords

(* A run that is not behind: what is in flight is the current command or    *)
(* the reply to it.                                                         *)
Answers(r) ==
  /\ r.op = Request.op /\ r.unit = Request.unit
  /\ phase = "verify" => r.payload = flash[2 * row]

SyncInv ==
  phase \in Step /\ stale = 0 =>
    /\ outFull => rx = Request
    /\ inBusy => Answers(tx)
    /\ hostQ # <<>> => Answers(hostQ[1])

(* What the rows hold in a run that is not behind.                          *)
Answered == inBusy \/ hostQ # <<>>
Lower == 2 * row
Upper == 2 * row + 1

RowsInv ==
  phase \in Step /\ stale = 0 =>
    /\ \A u \in 0 .. (2 * row - 1) : flash[u] = Image[target][u]
    /\ phase = "erase" /\ Answered => flash[Upper] = Erased
    /\ phase \in {"verify", "programLower"} => flash[Upper] = Erased
    /\ phase = "programLower" /\ (~awaiting \/ outFull) => flash[Lower] = Erased
    /\ phase = "programLower" /\ Answered => flash[Lower] = Image[target][Lower]
    /\ phase = "programUpper" => flash[Lower] = Image[target][Lower]
    /\ phase = "programUpper" /\ (~awaiting \/ outFull) => flash[Upper] = Erased
    /\ phase = "programUpper" /\ Answered => flash[Upper] = Image[target][Upper]

(* After a success nothing is left in the device to disturb the image.      *)
DoneInv == result = "ok" => phase \notin Step /\ ~inBusy /\ ~outFull

IInv ==
  /\ TypeOK /\ HandleInv /\ CountInv /\ BehindInv /\ SyncInv /\ RowsInv /\ DoneInv
  /\ SuccessMeansInstalled /\ ProgramsBlankUnits

(* Why nothing but a whole offered image ever starts: the unit with the CRC *)
(* of an image is only there if somebody set out to install that image, and *)
(* only a command of such a run can put it there.                           *)
SealOf(i, u) == flash[u] = Image[i][u] => i \in offered

SealInv ==
  /\ phase \in Step => target \in offered
  /\ outFull /\ rx.op = "programMemory" => \E i \in offered : rx.data = Image[i][rx.unit]
  /\ \A i \in Images : SealOf(i, EndUnit)
  /\ \A i \in HefSealed : SealOf(i, HefUnit)
  /\ mode = "user" => PassedCrc(flash)

-----------------------------------------------------------------------------
(* Liveness.                                                                *)

(* Each call of the tool into HIDAPI returns, at the latest by its timeout. *)
ToolFairness == WF_vars(Advance \/ TimesOut)

(* The device has no reply left to give.                                    *)
Settled == handle = "live" => ~inBusy /\ ~outFull

(* The user tries again, and closes the box when the device has answered;   *)
(* main() and HIDAPI's read thread keep running; the host configures a      *)
(* device that is plugged in.                                               *)
SystemFairness ==
  /\ WF_vars(Open) /\ WF_vars(Settled /\ CloseAlert)
  /\ WF_vars(Poll)
  /\ WF_vars(Works)
  /\ WF_vars(Device(SetConfiguration))

ToolSpec == Spec /\ ToolFairness

(* flash_button_cb() comes to an end whatever the device does or fails to   *)
(* do: no reply, however late or lost, leaves the tool waiting for ever.    *)
RunEnds == phase \in Step ~> phase \in {"idle", "alert"}

(* Nothing interferes: the device answers in time, its erases clear their   *)
(* rows, and the user leaves the box up until it has answered.              *)
Undisturbed ==
  /\ Calm
  /\ Works /\ rx.op = "eraseMemory" => flash' = EraseRow(flash, rx.unit \div 2, {})
  /\ phase = "alert" /\ phase' = "idle" => Settled

(* Replies left over from killed runs do not keep the tool failing for      *)
(* ever: once nothing interferes, a user who tries again gets the image in. *)
EventuallyInstalled ==
  SystemFairness /\ <>[][Undisturbed]_vars /\ <>[](mode = "boot" /\ loaded)
    => []<>(result = "ok")

-----------------------------------------------------------------------------
(* Seen from outside: an update either takes place or has not taken place.  *)

Atomic == INSTANCE AtomicUpdate WITH
  runnable <- BootableAs(flash), goal <- target, busy <- phase \in Step

UpdateIsAtomic == Atomic!AtomicSpec
=============================================================================
