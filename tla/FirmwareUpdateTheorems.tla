----------------------- MODULE FirmwareUpdateTheorems -----------------------
(***************************************************************************)
(* Proofs about FirmwareUpdate, for every number of rows, every set of      *)
(* images and every fault an erase may show.                                *)
(***************************************************************************)
EXTENDS FirmwareUpdate, CommandServerTheorems

(***************************************************************************)
(* Type correctness.                                                        *)
(***************************************************************************)

LEMMA EmptyQueue == <<>> \in Seq(Reply)
OBVIOUS

LEMMA InitTypeOK == Init => TypeOK
<1> SUFFICES ASSUME Init PROVE TypeOK
  OBVIOUS
<1> USE DEF Init
<1>1. DeviceTypeOK
  BY DeviceInitType
<1>2. ToolTypeOK
  <2>1. 0 \in Row
    BY MemoryAssumption DEF Row
  <2>2. offered \subseteq Images
    OBVIOUS
  <2>3. stale \in 0 .. 2
    OBVIOUS
  <2>4. QED  BY <2>1, <2>2, <2>3, EmptyQueue, Zenon DEF ToolTypeOK
<1>3. QED  BY <1>1, <1>2 DEF TypeOK

LEMMA RequestType ==
  ASSUME TypeOK, phase \in Step
  PROVE  Request \in Commands /\ Request \in Command
<1>1. 2 * row \in Unit /\ 2 * row + 1 \in Unit /\ 0 \in Unit
  BY UnitsOfRow, MemoryAssumption DEF TypeOK, ToolTypeOK, Row, Unit
<1>2. QED
  BY <1>1, ToolAssumption, ServerAssumption, MemoryAssumption
     DEF Request, Step, TypeOK, ToolTypeOK

LEMMA NextTypeOK == TypeOK /\ [Next]_vars => TypeOK'
<1> SUFFICES ASSUME TypeOK, [Next]_vars PROVE TypeOK'
  OBVIOUS
<1> USE DEF TypeOK
<1>1. ASSUME NEW i \in Images, LoadHex(i) PROVE TypeOK'
  BY <1>1 DEF LoadHex, deviceVars, DeviceTypeOK, ToolTypeOK
<1>2. CASE LoadRefused
  BY <1>2 DEF LoadRefused, deviceVars, DeviceTypeOK, ToolTypeOK
<1>3. CASE Open
  <2>1. stale' \in 0 .. 2
    BY <1>3 DEF Open, Bit, DeviceTypeOK
  <2>2. row' \in Row
    BY <1>3, MemoryAssumption DEF Open, Row
  <2>3. UNCHANGED deviceVars => DeviceTypeOK'
    BY DEF deviceVars, DeviceTypeOK
  <2>4. QED
    BY <1>3, <2>1, <2>2, <2>3 DEF Open, ToolTypeOK, Step
<1>4. CASE OpenFails
  BY <1>4 DEF OpenFails, deviceVars, DeviceTypeOK, ToolTypeOK
<1>5. CASE CloseAlert
  BY <1>5 DEF CloseAlert, deviceVars, DeviceTypeOK, ToolTypeOK
<1>6. CASE HidWrite
  <2>1. DeviceTypeOK'
    BY <1>6, RequestType DEF HidWrite, AcceptOut, DeviceTypeOK
  <2>2. QED  BY <1>6, <2>1 DEF HidWrite, ToolTypeOK
<1>7. CASE HidWriteFails \/ HidWriteTimesOut \/ HidReadFails \/ HidReadTimesOut
  BY <1>7 DEF HidWriteFails, HidWriteTimesOut, WriteFailsIf, HidReadFails, HidReadTimesOut,
     ReadFailsIf, Bail, deviceVars, DeviceTypeOK, ToolTypeOK
<1>8. CASE GotId \/ GotErase \/ GotVerify \/ GotProgramLower \/ GotProgramUpper
  <2>1. TakeReport
    BY <1>8 DEF GotId, GotErase, GotVerify, GotProgramLower, GotProgramUpper
  <2>2. Tail(hostQ) \in Seq(Reply)
    BY <2>1 DEF TakeReport, ToolTypeOK
  <2>3. row' \in Row /\ phase' \in Step \cup {"alert"} /\ awaiting' = FALSE
          /\ result' \in {"none", "ok", "failed"}
    BY <1>8, MemoryAssumption DEF GotId, GotErase, GotVerify, GotProgramLower, GotProgramUpper,
       GoOn, Bail, Row, Step, ToolTypeOK
  <2>4. QED
    BY <2>1, <2>2, <2>3 DEF TakeReport, deviceVars, DeviceTypeOK, ToolTypeOK
<1>9. CASE Poll
  <2>1. Append(hostQ, tx) \in Seq(Reply)
    BY DEF ToolTypeOK, DeviceTypeOK
  <2>2. QED  BY <1>9, <2>1 DEF Poll, DeliverIn, DeviceTypeOK, ToolTypeOK
<1>10. CASE Works
  BY <1>10, ExecuteType DEF Works, Execute, Device, toolVars, ToolTypeOK
<1>11. CASE Device(SetConfiguration)
  BY <1>11 DEF Device, SetConfiguration, toolVars, DeviceTypeOK, ToolTypeOK
<1>12. CASE Kill
  <2>1. UNCHANGED deviceVars => DeviceTypeOK'
    BY DEF deviceVars, DeviceTypeOK
  <2>2. QED  BY <1>12, <2>1, EmptyQueue DEF Kill, ToolTypeOK
<1>13. CASE Leaves(BusReset) \/ Leaves(PowerCycle) \/ Leaves(WatchdogReset)
  BY <1>13, ResetType DEF Leaves, ToolTypeOK
<1>14. CASE UNCHANGED vars
  BY <1>14 DEF vars, deviceVars, toolVars, DeviceTypeOK, ToolTypeOK
<1>15. QED
  BY <1>1, <1>2, <1>3, <1>4, <1>5, <1>6, <1>7, <1>8, <1>9, <1>10, <1>11, <1>12, <1>13, <1>14
     DEF Next, Calm, Advance, TimesOut

(* Every variable of the device and of the tool keeps its type, however     *)
(* runs of the tool are interrupted.                                        *)
THEOREM TypeCorrect == Spec => []TypeOK
BY InitTypeOK, NextTypeOK, PTL DEF Spec

(***************************************************************************)
(* The inductive invariant.  It needs one fact about the part: an erase     *)
(* that fails does not fail in the upper half of the row, which the tool    *)
(* does not look at.                                                        *)
(***************************************************************************)
UpperHalfErases == \A f \in EraseFaults : 1 \notin f

LEMMA InitIInv == Init => IInv
<1> SUFFICES ASSUME Init PROVE IInv
  OBVIOUS
<1>1. phase = "idle" /\ handle = "closed" /\ hostQ = <<>> /\ ~awaiting /\ result = "none"
  BY DEF Init
<1>2. ~inBusy /\ ~outFull
  BY DEF Init, DeviceInit
<1>3. QED
  BY <1>1, <1>2, InitTypeOK DEF IInv, HandleInv, CountInv, BehindInv, SyncInv, RowsInv, DoneInv,
     SuccessMeansInstalled, ProgramsBlankUnits, Step

(* Outside a run most of the invariant says nothing.                        *)
LEMMA OutsideRun ==
  ASSUME phase' \notin Step
  PROVE  CountInv' /\ BehindInv' /\ SyncInv' /\ RowsInv'
BY DEF CountInv, BehindInv, SyncInv, RowsInv

(* A run gives up, ends, or is killed.                                      *)
LEMMA LeaveRun ==
  ASSUME IInv, TypeOK', UNCHANGED <<flash, inBusy, outFull, rx, mode, configured>>,
         phase' \in {"idle", "alert"}, ~awaiting', result' # "ok",
         \/ handle' = handle /\ phase' = "alert" /\ (handle = "closed" => hostQ' = <<>>)
         \/ handle' = "closed" /\ hostQ' = <<>>
  PROVE  IInv'
<1>1. phase' \notin Step
  BY DEF Step
<1>2. HandleInv'
  BY <1>1 DEF IInv, HandleInv, online
<1>3. DoneInv' /\ SuccessMeansInstalled'
  BY DEF DoneInv, SuccessMeansInstalled
<1>4. ProgramsBlankUnits'
  BY DEF IInv, ProgramsBlankUnits
<1>5. QED  BY <1>1, <1>2, <1>3, <1>4, OutsideRun DEF IInv

(* The commands by phase.                                                   *)
LEMMA Requests ==
  /\ phase = "readId" => Request = [op |-> "readConfig",  unit |-> 0, data |-> Erased]
  /\ phase = "erase"  => Request = [op |-> "eraseMemory", unit |-> 2 * row, data |-> Erased]
  /\ phase = "verify" => Request = [op |-> "readMemory",  unit |-> 2 * row, data |-> Erased]
  /\ phase = "programLower" =>
       Request = [op |-> "programMemory", unit |-> 2 * row, data |-> Image[target][2 * row]]
  /\ phase = "programUpper" =>
       Request = [op |-> "programMemory", unit |-> 2 * row + 1,
                  data |-> Image[target][2 * row + 1]]
BY DEF Request

-----------------------------------------------------------------------------
(* The user's actions.                                                      *)

LEMMA LoadIInv ==
  ASSUME IInv, TypeOK', NEW i \in Images, LoadHex(i) \/ LoadRefused
  PROVE  IInv'
<1>1. phase = "idle" /\ phase' = "idle"
  BY DEF LoadHex, LoadRefused
<1>2. UNCHANGED <<deviceVars, handle, awaiting, hostQ, result>>
  BY DEF LoadHex, LoadRefused
<1>3. HandleInv'
  BY <1>1, <1>2 DEF IInv, HandleInv, online, deviceVars
<1>4. DoneInv'
  BY <1>1, <1>2 DEF IInv, DoneInv, deviceVars
<1>5. SuccessMeansInstalled' /\ ProgramsBlankUnits'
  BY <1>1, <1>2 DEF IInv, SuccessMeansInstalled, ProgramsBlankUnits, deviceVars
<1>6. QED  BY <1>1, <1>3, <1>4, <1>5, OutsideRun DEF IInv, Step

LEMMA OpenIInv ==
  ASSUME IInv, TypeOK', Open
  PROVE  IInv'
<1> USE DEF Open
<1>1. UNCHANGED <<flash, mode, configured, inBusy, outFull, rx, tx, hostQ, target>>
  BY DEF deviceVars
<1>2. hostQ = <<>> /\ hostQ' = <<>>
  BY DEF IInv, HandleInv
<1>3. HandleInv'
  BY <1>1 DEF HandleInv, online, Step
<1>4. CountInv'
  <2>1. Len(hostQ') = 0
    BY <1>2
  <2>2. InFlight' = Bit(inBusy) + Bit(outFull)
    BY <1>1, <2>1 DEF InFlight, Bit
  <2>3. QED  BY <2>2 DEF CountInv, Bit
<1>5. BehindInv'
  <2>1. \A lo, hi : FromConfig(lo, hi)'
    BY <1>2 DEF FromConfig
  <2>2. QED  BY <2>1 DEF BehindInv
<1>6. stale' = 0 => ~inBusy' /\ ~outFull'
  BY <1>1 DEF Bit, IInv, TypeOK, DeviceTypeOK
<1>7. SyncInv'
  BY <1>2, <1>6 DEF SyncInv
<1>8. RowsInv'
  BY DEF RowsInv
<1>9. DoneInv' /\ SuccessMeansInstalled'
  BY DEF DoneInv, SuccessMeansInstalled
<1>10. ProgramsBlankUnits'
  BY <1>1 DEF IInv, ProgramsBlankUnits
<1>11. QED  BY <1>3, <1>4, <1>5, <1>7, <1>8, <1>9, <1>10 DEF IInv

LEMMA EndIInv ==
  ASSUME IInv, TypeOK', CloseAlert
  PROVE  IInv'
<1>1. phase' = "idle" /\ phase' \notin Step /\ phase = "alert"
  BY DEF CloseAlert, Step
<1>2. UNCHANGED <<deviceVars, awaiting, result, target>> /\ handle' = "closed" /\ hostQ' = <<>>
  BY DEF CloseAlert
<1>3. HandleInv'
  BY <1>1, <1>2 DEF IInv, HandleInv, Step
<1>4. DoneInv' /\ SuccessMeansInstalled' /\ ProgramsBlankUnits'
  BY <1>1, <1>2 DEF IInv, DoneInv, SuccessMeansInstalled, ProgramsBlankUnits, deviceVars
<1>5. QED  BY <1>1, <1>3, <1>4, OutsideRun DEF IInv

LEMMA GiveUpIInv ==
  ASSUME IInv, TypeOK',
         OpenFails \/ HidWriteFails \/ HidWriteTimesOut \/ HidReadFails \/ HidReadTimesOut \/ Kill
  PROVE  IInv'
<1>1. UNCHANGED deviceVars
  BY DEF OpenFails, HidWriteFails, HidWriteTimesOut, WriteFailsIf, HidReadFails,
     HidReadTimesOut, ReadFailsIf, Kill
<1>2. UNCHANGED <<flash, inBusy, outFull, rx, mode, configured>>
  BY <1>1 DEF deviceVars
<1>3. CASE Kill
  BY <1>2, <1>3, LeaveRun DEF Kill
<1>4. CASE OpenFails
  <2>1. ~awaiting /\ hostQ = <<>>
    BY <1>4 DEF OpenFails, IInv, HandleInv, Step
  <2>2. QED  BY <1>2, <1>4, <2>1, LeaveRun DEF OpenFails
<1>5. CASE HidWriteFails \/ HidWriteTimesOut \/ HidReadFails \/ HidReadTimesOut
  <2>1. Bail /\ UNCHANGED <<handle, hostQ>>
    BY <1>5 DEF HidWriteFails, HidWriteTimesOut, WriteFailsIf, HidReadFails, HidReadTimesOut,
       ReadFailsIf
  <2>2. QED  BY <1>2, <2>1, LeaveRun DEF Bail, IInv, HandleInv
<1>6. QED  BY <1>3, <1>4, <1>5

-----------------------------------------------------------------------------
(* The two halves of xfer().                                                *)

LEMMA WriteIInv ==
  ASSUME IInv, TypeOK', HidWrite
  PROVE  IInv'
<1>1. /\ phase \in Step /\ ~awaiting /\ handle = "live" /\ ~outFull
      /\ awaiting' = TRUE /\ outFull' = TRUE /\ rx' = Request
      /\ UNCHANGED <<flash, mode, configured, inBusy, tx>>
      /\ UNCHANGED <<target, handle, phase, row, hostQ, result, stale>>
  BY DEF HidWrite, AcceptOut
<1>2. HandleInv' /\ DoneInv' /\ SuccessMeansInstalled'
  BY <1>1 DEF IInv, HandleInv, online, DoneInv, SuccessMeansInstalled, Step
<1>3. CountInv'
  <2>1. InFlight' = InFlight + 1
    BY <1>1 DEF InFlight, Bit, IInv, TypeOK, ToolTypeOK
  <2>2. QED  BY <1>1, <2>1 DEF IInv, CountInv, Bit, TypeOK, ToolTypeOK
<1>4. BehindInv'
  <2>1. \A lo, hi : FromConfig(lo, hi)' <=> FromConfig(lo, hi)
    BY <1>1 DEF FromConfig
  <2>2. QED  BY <1>1, <2>1, Requests DEF IInv, BehindInv
<1>5. Request' = Request
  BY <1>1 DEF Request
<1>6. stale = 0 => ~inBusy /\ hostQ = <<>>
  BY <1>1 DEF IInv, CountInv, InFlight, Bit, TypeOK, ToolTypeOK, DeviceTypeOK
<1>7. SyncInv'
  BY <1>1, <1>5, <1>6 DEF SyncInv
<1>8. RowsInv'
  BY <1>1, <1>6 DEF IInv, RowsInv, Answered, Lower, Upper
<1>9. ProgramsBlankUnits'
  <2>1. CASE phase \in {"programLower", "programUpper"}
    <3>1. stale = 0
      BY <1>1, <2>1 DEF IInv, BehindInv, TypeOK, ToolTypeOK
    <3>2. QED
      BY <1>1, <2>1, <3>1, Requests DEF IInv, RowsInv, Lower, Upper, ProgramsBlankUnits
  <2>2. CASE phase \in {"readId", "erase", "verify"}
    BY <1>1, <2>2, Requests DEF ProgramsBlankUnits
  <2>3. QED  BY <1>1, <2>1, <2>2 DEF Step
<1>10. QED  BY <1>2, <1>3, <1>4, <1>7, <1>8, <1>9 DEF IInv

LEMMA BitType ==
  ASSUME NEW b
  PROVE  Bit(b) \in {0, 1} /\ (b => Bit(b) = 1) /\ (~b => Bit(b) = 0)
BY DEF Bit

LEMMA InFlightType ==
  ASSUME TypeOK
  PROVE  /\ Len(hostQ) \in Nat /\ InFlight \in Nat /\ Len(hostQ) =< InFlight
         /\ stale \in 0 .. 2
<1>1. hostQ \in Seq(Reply) /\ stale \in 0 .. 2
  BY DEF TypeOK, ToolTypeOK
<1>2. Len(hostQ) \in Nat
  BY <1>1
<1>3. QED  BY <1>1, <1>2, BitType DEF InFlight

LEMMA CountBound ==
  ASSUME IInv, phase \in Step, awaiting
  PROVE  InFlight =< stale + 1
<1>1. stale \in 0 .. 2 /\ InFlight \in Nat
  BY InFlightType DEF IInv
<1>2. InFlight = stale + Bit(awaiting) \/ InFlight =< stale + Bit(awaiting)
  BY DEF IInv, CountInv, HandleInv
<1>3. QED  BY <1>1, <1>2 DEF Bit

LEMMA OneInFlight ==
  ASSUME InFlight =< 1, Len(hostQ) \in Nat \ {0}
  PROVE  Bit(inBusy) = 0 /\ Bit(outFull) = 0 /\ Len(hostQ) = 1
<1> DEFINE n == Len(hostQ)
           b == Bit(inBusy)
           c == Bit(outFull)
<1>1. n \in Nat /\ n # 0 /\ b \in {0, 1} /\ c \in {0, 1} /\ n + b + c =< 1
  BY BitType DEF InFlight
<1> HIDE DEF n, b, c
<1>2. b = 0 /\ c = 0 /\ n = 1
  BY <1>1
<1>3. QED  BY <1>2 DEF n, b, c

(* The queue after its oldest report was taken.                             *)
LEMMA TailOfQueue ==
  ASSUME TypeOK, TakeReport
  PROVE  /\ Len(hostQ) \in Nat \ {0} /\ Len(hostQ') = Len(hostQ) - 1
         /\ \A j \in 1 .. Len(hostQ') : hostQ'[j] = hostQ[j + 1]
         /\ Head(hostQ) = hostQ[1]
         /\ InFlight' = InFlight - 1
<1>1. hostQ \in Seq(Reply) /\ hostQ # <<>> /\ hostQ' = Tail(hostQ)
  BY DEF TypeOK, ToolTypeOK, TakeReport
<1>2. Len(hostQ) \in Nat \ {0} /\ Len(hostQ') = Len(hostQ) - 1
  BY <1>1
<1>3. \A j \in 1 .. Len(hostQ') : hostQ'[j] = hostQ[j + 1]
  BY <1>1, <1>2
<1>4. Head(hostQ) = hostQ[1]
  BY <1>1
<1>5. InFlight' = InFlight - 1
  BY <1>2 DEF InFlight, TakeReport, deviceVars, Bit
<1>6. QED  BY <1>2, <1>3, <1>4, <1>5

(* What taking a report does to the parts that do not depend on which step  *)
(* the run goes to, provided it goes to one.                                *)
LEMMA TakeKeeps ==
  ASSUME IInv, TypeOK', TakeReport, phase \in Step, phase' \in Step, awaiting' = FALSE,
         result' = result
  PROVE  /\ HandleInv' /\ CountInv' /\ DoneInv' /\ SuccessMeansInstalled' /\ ProgramsBlankUnits'
         /\ stale = 0 => hostQ' = <<>> /\ ~inBusy' /\ ~outFull'
<1>1. UNCHANGED <<deviceVars, handle, stale>> /\ awaiting
  BY DEF TakeReport
<1>2. HandleInv' /\ DoneInv' /\ SuccessMeansInstalled'
  BY <1>1 DEF IInv, HandleInv, online, deviceVars, DoneInv, SuccessMeansInstalled, TakeReport, Step
<1>3. ProgramsBlankUnits'
  BY <1>1 DEF IInv, ProgramsBlankUnits, deviceVars
<1>4. CountInv'
  <2>1. InFlight' = InFlight - 1 /\ InFlight \in Nat
    BY TailOfQueue, InFlightType DEF IInv
  <2>2. stale \in Nat
    BY DEF IInv, TypeOK, ToolTypeOK
  <2>3. QED  BY <1>1, <2>1, <2>2 DEF IInv, CountInv, Bit
<1>5. ASSUME stale = 0 PROVE hostQ' = <<>> /\ ~inBusy' /\ ~outFull'
  <2>1. InFlight =< 1
    BY <1>1, <1>5, CountBound
  <2>2. Len(hostQ') = 0 /\ ~inBusy /\ ~outFull
    <3>1. Len(hostQ) \in Nat \ {0} /\ Len(hostQ') = Len(hostQ) - 1
      BY TailOfQueue DEF IInv
    <3>2. Bit(inBusy) = 0 /\ Bit(outFull) = 0 /\ Len(hostQ) = 1
      BY <2>1, <3>1, BitType DEF InFlight
    <3>3. QED  BY <3>1, <3>2, BitType
  <2>3. hostQ' = <<>>
    BY <2>2 DEF TypeOK, ToolTypeOK
  <2>4. QED  BY <1>1, <2>2, <2>3 DEF deviceVars
<1>6. QED  BY <1>2, <1>3, <1>4, <1>5

(* A run that is not behind goes on to its next step.                       *)
LEMMA SyncAfterTake ==
  ASSUME hostQ' = <<>>, ~inBusy', ~outFull'
  PROVE  SyncInv' /\ ~Answered'
BY DEF SyncInv, Answered

LEMMA GotIdIInv ==
  ASSUME IInv, TypeOK', GotId
  PROVE  IInv'
<1>1. TakeReport /\ phase = "readId" /\ awaiting /\ UNCHANGED <<deviceVars, handle, stale, target>>
  BY DEF GotId, TakeReport
<1>2. CASE Bail
  BY <1>1, <1>2, LeaveRun DEF Bail, deviceVars, TakeReport, IInv, HandleInv, Step
<1>3. CASE GoOn("erase", row)
  <2>1. phase \in Step /\ phase' = "erase" /\ phase' \in Step /\ row' = row /\ ~awaiting'
    BY <1>1, <1>3 DEF GoOn, Step
  <2>2. /\ HandleInv' /\ CountInv' /\ DoneInv' /\ SuccessMeansInstalled' /\ ProgramsBlankUnits'
        /\ stale = 0 => hostQ' = <<>> /\ ~inBusy' /\ ~outFull'
    BY <1>1, <1>3, <2>1, TakeKeeps DEF GoOn
  <2>3. CASE stale = 0
    <3>1. SyncInv' /\ ~Answered'
      BY <2>2, <2>3, SyncAfterTake
    <3>2. RowsInv'
      BY <1>1, <2>1, <2>3, <3>1 DEF IInv, RowsInv, deviceVars
    <3>3. QED  BY <1>1, <2>2, <2>3, <3>1, <3>2 DEF IInv, BehindInv
  <2>4. CASE stale > 0
    <3>1. Len(hostQ) \in Nat /\ Len(hostQ) =< stale + 1
      <4>1. stale \in Nat /\ InFlight \in Nat /\ Len(hostQ) \in Nat /\ Len(hostQ) =< InFlight
        BY InFlightType DEF IInv
      <4>2. InFlight =< stale + 1
        BY <1>1, <2>1, CountBound
      <4>3. QED  BY <4>1, <4>2
    <3>2. FromConfig(stale, stale + 1)'
      <4>1. FromConfig(stale + 1, stale + 1)
        BY <1>1, <2>1, <2>4 DEF IInv, BehindInv
      <4>2. QED
        BY <1>1, <3>1, <4>1, TailOfQueue DEF FromConfig, IInv, TypeOK, ToolTypeOK
    <3>3. BehindInv'
      BY <1>1, <2>1, <2>4, <3>2 DEF IInv, BehindInv, deviceVars
    <3>4. SyncInv' /\ RowsInv'
      BY <1>1, <2>4 DEF SyncInv, RowsInv
    <3>5. QED  BY <2>2, <3>3, <3>4 DEF IInv
  <2>5. QED  BY <2>3, <2>4 DEF IInv, TypeOK, ToolTypeOK
<1>4. QED  BY <1>2, <1>3 DEF GotId

LEMMA GotEraseIInv ==
  ASSUME IInv, TypeOK', GotErase
  PROVE  IInv'
<1>1. /\ TakeReport /\ phase = "erase" /\ awaiting /\ UNCHANGED <<deviceVars, handle, stale, target>>
      /\ phase \in Step /\ phase' = "verify" /\ phase' \in Step /\ row' = row
      /\ awaiting' = FALSE /\ result' = result /\ hostQ # <<>>
  BY DEF GotErase, TakeReport, GoOn, Step
<1>2. /\ HandleInv' /\ CountInv' /\ DoneInv' /\ SuccessMeansInstalled' /\ ProgramsBlankUnits'
      /\ stale = 0 => hostQ' = <<>> /\ ~inBusy' /\ ~outFull'
  BY <1>1, TakeKeeps
<1>3. CASE stale = 0
  <2>1. SyncInv' /\ ~Answered'
    BY <1>2, <1>3, SyncAfterTake
  <2>2. RowsInv'
    BY <1>1, <1>3 DEF IInv, RowsInv, deviceVars, Answered, Upper
  <2>3. QED  BY <1>1, <1>2, <1>3, <2>1, <2>2 DEF IInv, BehindInv
<1>4. CASE stale > 0
  <2>1. FromConfig(1, stale)'
    <3>1. FromConfig(stale, stale + 1)
      BY <1>1, <1>4 DEF IInv, BehindInv
    <3>2. QED
      BY <1>1, <3>1, <1>4, TailOfQueue DEF FromConfig, IInv, TypeOK, ToolTypeOK
  <2>2. BehindInv'
    BY <1>1, <1>4, <2>1 DEF IInv, BehindInv, deviceVars
  <2>3. SyncInv' /\ RowsInv'
    BY <1>1, <1>4 DEF SyncInv, RowsInv
  <2>4. QED  BY <1>2, <2>2, <2>3 DEF IInv
<1>5. QED  BY <1>3, <1>4 DEF IInv, TypeOK, ToolTypeOK

LEMMA GotVerifyIInv ==
  ASSUME IInv, TypeOK', GotVerify
  PROVE  IInv'
<1>1. /\ TakeReport /\ phase = "verify" /\ awaiting /\ phase \in Step /\ hostQ # <<>>
      /\ UNCHANGED <<deviceVars, handle, stale, target>>
  BY DEF GotVerify, TakeReport, Step
<1>2. CASE Bail
  BY <1>1, <1>2, LeaveRun DEF Bail, deviceVars, TakeReport, IInv, HandleInv
<1>3. CASE LooksErased(Head(hostQ).payload) /\ GoOn("programLower", row)
  <2>1. /\ phase' = "programLower" /\ phase' \in Step /\ row' = row /\ awaiting' = FALSE
        /\ result' = result
    BY <1>3 DEF GoOn, Step
  <2>2. hostQ[1].payload = Erased
    BY <1>1, <1>3, TailOfQueue DEF LooksErased, IInv
  <2>3. stale = 0
    <3>1. SUFFICES ASSUME stale > 0 PROVE FALSE
      BY InFlightType DEF IInv
    <3>2. FromConfig(1, stale)
      BY <1>1, <3>1 DEF IInv, BehindInv
    <3>3. hostQ[1].payload = ConfigWords
      BY <1>1, <3>1, <3>2, TailOfQueue, InFlightType DEF FromConfig, IInv
    <3>4. QED  BY <2>2, <3>3, MemoryAssumption, ServerAssumption
  <2>4. /\ HandleInv' /\ CountInv' /\ DoneInv' /\ SuccessMeansInstalled' /\ ProgramsBlankUnits'
        /\ hostQ' = <<>> /\ ~inBusy' /\ ~outFull'
    BY <1>1, <2>1, <2>3, TakeKeeps
  <2>5. SyncInv' /\ ~Answered'
    BY <2>4, SyncAfterTake
  <2>6. flash[Lower] = Erased
    BY <1>1, <2>2, <2>3 DEF IInv, SyncInv, Answers, Lower
  <2>7. RowsInv'
    BY <1>1, <2>1, <2>3, <2>5, <2>6 DEF IInv, RowsInv, deviceVars, Lower, Upper
  <2>8. QED  BY <1>1, <2>3, <2>4, <2>5, <2>7 DEF IInv, BehindInv
<1>4. QED  BY <1>2, <1>3 DEF GotVerify

LEMMA GotProgramLowerIInv ==
  ASSUME IInv, TypeOK', GotProgramLower
  PROVE  IInv'
<1>1. /\ TakeReport /\ phase = "programLower" /\ awaiting /\ phase \in Step /\ hostQ # <<>>
      /\ UNCHANGED <<deviceVars, handle, stale, target>>
      /\ phase' = "programUpper" /\ phase' \in Step /\ row' = row /\ awaiting' = FALSE
      /\ result' = result
  BY DEF GotProgramLower, TakeReport, GoOn, Step
<1>2. stale = 0
  BY <1>1, InFlightType DEF IInv, BehindInv
<1>3. /\ HandleInv' /\ CountInv' /\ DoneInv' /\ SuccessMeansInstalled' /\ ProgramsBlankUnits'
      /\ hostQ' = <<>> /\ ~inBusy' /\ ~outFull'
  BY <1>1, <1>2, TakeKeeps
<1>4. SyncInv' /\ ~Answered'
  BY <1>3, SyncAfterTake
<1>5. RowsInv'
  BY <1>1, <1>2, <1>4 DEF IInv, RowsInv, deviceVars, Answered, Lower, Upper
<1>6. QED  BY <1>1, <1>2, <1>3, <1>4, <1>5 DEF IInv, BehindInv

LEMMA GotProgramUpperIInv ==
  ASSUME IInv, TypeOK', GotProgramUpper
  PROVE  IInv'
<1>1. /\ TakeReport /\ phase = "programUpper" /\ awaiting /\ phase \in Step /\ hostQ # <<>>
      /\ UNCHANGED <<deviceVars, handle, stale, target>>
  BY DEF GotProgramUpper, TakeReport, Step
<1>2. stale = 0
  BY <1>1, InFlightType DEF IInv, BehindInv
<1>3. row \in Row /\ flash \in [Unit -> Content] /\ target \in Images
  BY DEF IInv, TypeOK, DeviceTypeOK, ToolTypeOK
<1>4. \A u \in 0 .. (2 * row + 1) : flash[u] = Image[target][u]
  <2>1. Answered
    BY <1>1 DEF Answered
  <2>2. /\ \A u \in 0 .. (2 * row - 1) : flash[u] = Image[target][u]
        /\ flash[2 * row] = Image[target][2 * row]
        /\ flash[2 * row + 1] = Image[target][2 * row + 1]
    BY <1>1, <1>2, <2>1 DEF IInv, RowsInv, Lower, Upper
  <2>3. QED  BY <1>3, <2>2, MemoryAssumption DEF Row
<1>5. CASE row < NumRows - 1 /\ GoOn("erase", row + 1)
  <2>1. /\ phase' = "erase" /\ phase' \in Step /\ row' = row + 1 /\ awaiting' = FALSE
        /\ result' = result
    BY <1>5 DEF GoOn, Step
  <2>2. /\ HandleInv' /\ CountInv' /\ DoneInv' /\ SuccessMeansInstalled' /\ ProgramsBlankUnits'
        /\ hostQ' = <<>> /\ ~inBusy' /\ ~outFull'
    BY <1>1, <1>2, <2>1, TakeKeeps
  <2>3. SyncInv' /\ ~Answered'
    BY <2>2, SyncAfterTake
  <2>4. RowsInv'
    <3>1. 2 * row' - 1 = 2 * row + 1
      BY <1>3, <2>1, MemoryAssumption DEF Row
    <3>2. QED  BY <1>1, <1>4, <2>1, <2>3, <3>1 DEF RowsInv, deviceVars
  <2>5. QED  BY <1>1, <1>2, <2>2, <2>3, <2>4 DEF IInv, BehindInv
<1>6. CASE /\ ~(row < NumRows - 1)
           /\ phase' = "alert" /\ result' = "ok" /\ awaiting' = FALSE /\ row' = row
  <2>1. \A u \in Unit : flash[u] = Image[target][u]
    BY <1>3, <1>4, <1>6, MemoryAssumption DEF Row, Unit
  <2>2. flash = Image[target]
    BY <1>3, <2>1, MemoryAssumption
  <2>3. ~inBusy /\ ~outFull
    <3>1. InFlight =< 1 /\ Len(hostQ) \in Nat \ {0}
      BY <1>1, <1>2, CountBound, TailOfQueue DEF IInv
    <3>2. Bit(inBusy) = 0 /\ Bit(outFull) = 0
      BY <3>1, BitType DEF InFlight
    <3>3. QED  BY <3>2, BitType
  <2>4. phase' \notin Step
    BY <1>6 DEF Step
  <2>5. SuccessMeansInstalled' /\ ProgramsBlankUnits' /\ DoneInv'
    BY <1>1, <1>6, <2>2, <2>3, <2>4 DEF SuccessMeansInstalled, ProgramsBlankUnits, DoneInv, deviceVars
  <2>6. HandleInv'
    BY <1>1, <1>6, <2>4 DEF IInv, HandleInv, online, deviceVars
  <2>7. QED  BY <2>4, <2>5, <2>6, OutsideRun DEF IInv
<1>7. QED  BY <1>5, <1>6 DEF GotProgramUpper

-----------------------------------------------------------------------------
(* HIDAPI's read thread.                                                    *)

LEMMA PollIInv ==
  ASSUME IInv, TypeOK', Poll
  PROVE  IInv'
<1>1. /\ handle = "live" /\ inBusy /\ inBusy' = FALSE /\ hostQ' = Append(hostQ, tx)
      /\ UNCHANGED <<flash, mode, configured, outFull, rx, tx>>
      /\ UNCHANGED <<target, handle, phase, row, awaiting, result, stale>>
  BY DEF Poll, DeliverIn
<1>2. hostQ \in Seq(Reply) /\ tx \in Reply /\ Len(hostQ) \in Nat
  BY DEF IInv, TypeOK, DeviceTypeOK, ToolTypeOK
<1>3. /\ Len(hostQ') = Len(hostQ) + 1
      /\ \A j \in 1 .. Len(hostQ) : hostQ'[j] = hostQ[j]
      /\ hostQ'[Len(hostQ) + 1] = tx
  BY <1>1, <1>2
<1>4. HandleInv' /\ DoneInv' /\ SuccessMeansInstalled' /\ ProgramsBlankUnits'
  BY <1>1 DEF IInv, HandleInv, online, DoneInv, SuccessMeansInstalled, ProgramsBlankUnits
<1>5. InFlight' = InFlight /\ InFlight = Len(hostQ) + 1 + Bit(outFull)
  BY <1>1, <1>2, <1>3 DEF InFlight, Bit
<1>6. CountInv'
  BY <1>1, <1>5 DEF IInv, CountInv
<1>7. BehindInv'
  <2>1. SUFFICES ASSUME phase \in Step, stale > 0 PROVE BehindInv'
    BY <1>1 DEF BehindInv
  <2>2. Len(hostQ) + 1 + Bit(outFull) = stale + Bit(awaiting)
    BY <1>1, <1>5, <2>1 DEF IInv, CountInv
  <2>3. stale \in {1, 2}
    BY <2>1, InFlightType DEF IInv
  <2>4. \A lo, hi \in Int :
          FromConfig(lo, hi) /\ (Len(hostQ) + 1 \in lo .. hi => tx.payload = ConfigWords)
            => FromConfig(lo, hi)'
    BY <1>2, <1>3 DEF FromConfig
  <2>5. CASE phase = "readId"
    <3>1. Len(hostQ) + 1 = stale + 1 => awaiting /\ ~outFull
      BY <1>2, <2>2, <2>3 DEF Bit
    <3>2. Len(hostQ) + 1 = stale + 1 => tx.payload = ConfigWords
      BY <1>1, <2>1, <2>5, <3>1 DEF IInv, BehindInv
    <3>3. FromConfig(stale + 1, stale + 1)
      BY <2>1, <2>5 DEF IInv, BehindInv
    <3>4. FromConfig(stale + 1, stale + 1)'
      BY <1>1, <1>2, <2>3, <2>4, <3>2, <3>3
    <3>5. QED  BY <1>1, <2>1, <2>5, <3>4 DEF IInv, BehindInv
  <2>6. CASE phase = "erase"
    <3>1. Len(hostQ) + 1 \in stale .. stale + 1 => awaiting \/ ~outFull
      BY <1>2, <2>2, <2>3 DEF Bit
    <3>2. Len(hostQ) + 1 \in stale .. stale + 1 => tx.payload = ConfigWords
      BY <1>1, <2>1, <2>6, <3>1 DEF IInv, BehindInv
    <3>3. FromConfig(stale, stale + 1)
      BY <2>1, <2>6 DEF IInv, BehindInv
    <3>4. FromConfig(stale, stale + 1)'
      BY <1>1, <1>2, <2>3, <2>4, <3>2, <3>3
    <3>5. QED  BY <1>1, <2>1, <2>6, <3>4 DEF IInv, BehindInv
  <2>7. CASE phase = "verify"
    <3>1. Len(hostQ) + 1 \in 1 .. stale => outFull \/ ~awaiting
      BY <1>2, <2>2, <2>3 DEF Bit
    <3>2. Len(hostQ) + 1 \in 1 .. stale => tx.payload = ConfigWords
      BY <1>1, <2>1, <2>7, <3>1 DEF IInv, BehindInv
    <3>3. FromConfig(1, stale)
      BY <2>1, <2>7 DEF IInv, BehindInv
    <3>4. FromConfig(1, stale)'
      BY <1>1, <1>2, <2>3, <2>4, <3>2, <3>3
    <3>5. QED  BY <1>1, <2>1, <2>7, <3>4 DEF IInv, BehindInv
  <2>8. QED  BY <2>1, <2>5, <2>6, <2>7 DEF IInv, BehindInv
<1>8. SyncInv' /\ RowsInv'
  <2>1. SUFFICES ASSUME phase \in Step, stale = 0 PROVE SyncInv' /\ RowsInv'
    BY <1>1 DEF SyncInv, RowsInv
  <2>2. Len(hostQ) = 0
    BY <1>1, <1>2, <1>5, <2>1 DEF IInv, CountInv, Bit
  <2>3. hostQ'[1] = tx
    BY <1>3, <2>2
  <2>4. Request' = Request
    BY <1>1 DEF Request
  <2>5. Answers(tx)
    BY <1>1, <2>1 DEF IInv, SyncInv
  <2>6. Answers(hostQ[1])'
    BY <1>1, <2>3, <2>4, <2>5 DEF Answers
  <2>7. SyncInv'
    BY <1>1, <2>1, <2>4, <2>6 DEF IInv, SyncInv
  <2>8. Answered
    BY <1>1 DEF Answered
  <2>9. RowsInv'
    BY <1>1, <2>1, <2>8 DEF IInv, RowsInv, Lower, Upper
  <2>10. QED  BY <2>7, <2>9
<1>9. QED  BY <1>4, <1>6, <1>7, <1>8 DEF IInv

-----------------------------------------------------------------------------
(* The device executes a command.                                           *)

(* What holds whichever command it is.  The run, if there is one, is a live *)
(* one: no command waits behind a dead handle.                              *)
LEMMA ExecuteKeeps ==
  ASSUME IInv, UNCHANGED toolVars, ExecRead \/ ExecErase \/ ExecProgram
  PROVE  /\ HandleInv' /\ CountInv' /\ DoneInv' /\ SuccessMeansInstalled' /\ ProgramsBlankUnits'
         /\ outFull /\ ~inBusy /\ inBusy' = TRUE /\ outFull' = FALSE
         /\ UNCHANGED <<loaded, target, handle, phase, row, awaiting, hostQ, result, stale>>
         /\ \A lo, hi : FromConfig(lo, hi)' <=> FromConfig(lo, hi)
         /\ phase \in Step => handle = "live"
<1>1. /\ outFull /\ ~inBusy /\ inBusy' = TRUE /\ outFull' = FALSE
      /\ UNCHANGED <<mode, configured>>
      /\ UNCHANGED <<loaded, target, handle, phase, row, awaiting, hostQ, result, stale>>
  BY DEF ExecRead, ExecErase, ExecProgram, CommandReady, AnswerWith, ArmOut, toolVars
<1>2. handle # "dead" /\ (phase \in Step => handle = "live")
  BY <1>1 DEF IInv, HandleInv
<1>3. HandleInv'
  BY <1>1, <1>2 DEF IInv, HandleInv, online
<1>4. InFlight' = InFlight
  BY <1>1 DEF InFlight, Bit
<1>5. CountInv'
  BY <1>1, <1>4 DEF IInv, CountInv
<1>6. result # "ok"
  BY <1>1 DEF IInv, DoneInv
<1>7. DoneInv' /\ SuccessMeansInstalled' /\ ProgramsBlankUnits'
  BY <1>1, <1>6 DEF DoneInv, SuccessMeansInstalled, ProgramsBlankUnits
<1>8. \A lo, hi : FromConfig(lo, hi)' <=> FromConfig(lo, hi)
  BY <1>1 DEF FromConfig
<1>9. QED  BY <1>1, <1>2, <1>3, <1>5, <1>7, <1>8

(* A run that is behind stays as far behind, and what it will take for the  *)
(* replies to its first commands still shows the configuration words.       *)
LEMMA ExecuteBehind ==
  ASSUME IInv, UNCHANGED toolVars, ExecRead \/ ExecErase \/ ExecProgram
  PROVE  BehindInv'
<1> SUFFICES ASSUME phase \in Step, stale > 0 PROVE BehindInv'
  BY ExecuteKeeps DEF BehindInv
<1>1. /\ outFull /\ outFull' = FALSE /\ handle = "live" /\ UNCHANGED <<handle, phase, row, awaiting, stale>>
      /\ \A lo, hi : FromConfig(lo, hi)' <=> FromConfig(lo, hi)
  BY ExecuteKeeps
<1>2. \/ rx.op = "readConfig" /\ tx'.payload = ConfigWords
      \/ rx.op = "readMemory"
      \/ rx.op # "readConfig" /\ tx'.payload = tx.payload
  <2>1. CASE ExecRead
    BY <2>1 DEF ExecRead, AnswerWith, ReadReply, InConfig
  <2>2. CASE ExecErase \/ ExecProgram
    <3>1. tx' = EchoReply(rx) /\ rx.op # "readConfig"
      BY <2>2 DEF ExecErase, ExecProgram, AnswerWith
    <3>2. tx \in Reply
      BY DEF IInv, TypeOK, DeviceTypeOK
    <3>3. tx'.payload = tx.payload
      BY <3>1, <3>2 DEF EchoReply, Reply
    <3>4. QED  BY <3>1, <3>3
  <2>3. QED  BY <2>1, <2>2
<1>3. CASE phase = "readId"
  BY <1>1, <1>2, <1>3 DEF IInv, BehindInv
<1>4. CASE phase = "erase"
  BY <1>1, <1>2, <1>4 DEF IInv, BehindInv
<1>5. CASE phase = "verify"
  BY <1>1, <1>2, <1>5 DEF IInv, BehindInv
<1>6. QED  BY <1>3, <1>4, <1>5 DEF IInv, BehindInv

(* In a run that is not behind it is the command the tool awaits.           *)
LEMMA ExecuteSync ==
  ASSUME IInv, TypeOK', UNCHANGED toolVars, ExecRead \/ ExecErase \/ ExecProgram,
         UpperHalfErases, phase \in Step, stale = 0
  PROVE  SyncInv' /\ RowsInv'
<1>1. /\ outFull /\ ~inBusy /\ inBusy' = TRUE /\ outFull' = FALSE
      /\ UNCHANGED <<target, handle, phase, row, awaiting, hostQ, stale>>
  BY ExecuteKeeps
<1>2. rx = Request
  BY <1>1 DEF IInv, SyncInv
<1>3. awaiting /\ hostQ = <<>>
  <2>1. Len(hostQ) + 1 = Bit(awaiting) /\ Len(hostQ) \in Nat
    <3>1. Len(hostQ) \in Nat
      BY InFlightType DEF IInv
    <3>2. InFlight = Len(hostQ) + 1
      BY <1>1, <3>1 DEF InFlight, Bit
    <3>3. InFlight = stale + Bit(awaiting)
      BY ExecuteKeeps DEF IInv, CountInv
    <3>4. QED  BY <3>1, <3>2, <3>3, BitType
  <2>2. Len(hostQ) = 0 /\ awaiting
    BY <2>1 DEF Bit
  <2>3. QED  BY <2>2 DEF IInv, TypeOK, ToolTypeOK
<1>4. Request' = Request
  BY <1>1 DEF Request
<1>5. row \in 0 .. (NumRows - 1) /\ flash \in [Unit -> Content] /\ tx \in Reply /\ target \in Images
  BY DEF IInv, TypeOK, DeviceTypeOK, ToolTypeOK, Row
<1>6. Lower \in Unit /\ Upper \in Unit /\ Lower # Upper
      /\ \A u \in 0 .. (2 * row - 1) : u \in Unit \ {Lower, Upper}
  BY <1>5, UnitsOfRow, MemoryAssumption DEF Lower, Upper, Unit
<1>7. Lower' = Lower /\ Upper' = Upper
  BY <1>1 DEF Lower, Upper
<1>8. CASE phase \in {"readId", "verify"}
  <2>1. ExecRead
    BY <1>2, <1>8, Requests DEF ExecErase, ExecProgram
  <2>2. flash' = flash /\ tx' = ReadReply(rx)
    BY <2>1 DEF ExecRead, AnswerWith
  <2>3. Answers(tx)'
    BY <1>1, <1>2, <1>4, <1>8, <2>2, Requests DEF Answers, ReadReply, InConfig
  <2>4. SyncInv'
    BY <1>1, <1>3, <2>3 DEF SyncInv
  <2>5. RowsInv'
    BY <1>1, <1>7, <1>8, <2>2 DEF IInv, RowsInv
  <2>6. QED  BY <2>4, <2>5
<1>9. CASE phase = "erase"
  <2>1. ExecErase /\ ~InConfig(rx)
    BY <1>2, <1>9, Requests DEF ExecRead, ExecProgram, InConfig
  <2>2. rx.unit \div 2 = row
    BY <1>2, <1>5, <1>9, Requests, UnitsOfRow
  <2>3. PICK f \in EraseFaults : flash' = EraseRow(flash, row, {2 * row + h : h \in f})
    BY <2>1, <2>2, Zenon DEF ExecErase
  <2>4. Upper \notin {2 * row + h : h \in f}
    <3>1. f \subseteq {0, 1} /\ 1 \notin f
      BY ServerAssumption DEF UpperHalfErases
    <3>2. \A h \in f : 2 * row + h # 2 * row + 1
      BY <1>5, <3>1
    <3>3. QED  BY <3>2 DEF Upper
  <2>5. flash'[Upper] = Erased /\ \A u \in Unit \ {Lower, Upper} : flash'[u] = flash[u]
    BY <1>5, <2>3, <2>4, EraseRowEffect DEF RowUnits, Lower, Upper
  <2>6. tx' = EchoReply(rx)
    BY <2>1 DEF ExecErase, AnswerWith
  <2>7. Answers(tx)'
    BY <1>1, <1>2, <1>4, <1>5, <1>9, <2>6 DEF Answers, EchoReply, Reply
  <2>8. SyncInv'
    BY <1>1, <1>3, <2>7 DEF SyncInv
  <2>9. RowsInv'
    BY <1>1, <1>6, <1>7, <1>9, <2>5 DEF IInv, RowsInv
  <2>10. QED  BY <2>8, <2>9
<1>10. CASE phase \in {"programLower", "programUpper"}
  <2>1. ExecProgram /\ ~InConfig(rx)
    BY <1>2, <1>10, Requests DEF ExecRead, ExecErase, InConfig
  <2>2. flash' = ProgramUnit(flash, rx.unit, rx.data) /\ tx' = EchoReply(rx)
    BY <2>1 DEF ExecProgram, AnswerWith
  <2>3. rx.unit = (IF phase = "programLower" THEN Lower ELSE Upper)
        /\ rx.data = Image[target][rx.unit] /\ rx.data \in Content
    BY <1>2, <1>5, <1>6, <1>10, Requests, MemoryAssumption DEF Lower, Upper
  <2>4. flash[rx.unit] = Erased
    BY <1>1, <1>10, <2>3 DEF IInv, RowsInv
  <2>5. flash'[rx.unit] = Image[target][rx.unit]
        /\ \A v \in Unit \ {rx.unit} : flash'[v] = flash[v]
    BY <1>5, <1>6, <2>2, <2>3, <2>4, ProgramUnitEffect, ProgrammedBlank
  <2>6. Answers(tx)'
    BY <1>1, <1>2, <1>4, <1>5, <1>10, <2>2 DEF Answers, EchoReply, Reply
  <2>7. SyncInv'
    BY <1>1, <1>3, <2>6 DEF SyncInv
  <2>8. RowsInv'
    BY <1>1, <1>3, <1>6, <1>7, <1>10, <2>3, <2>5 DEF IInv, RowsInv
  <2>9. QED  BY <2>7, <2>8
<1>11. QED  BY <1>8, <1>9, <1>10 DEF Step

LEMMA WorksIInv ==
  ASSUME IInv, TypeOK', UpperHalfErases, Works
  PROVE  IInv'
<1>1. UNCHANGED toolVars /\ (ExecRead \/ ExecErase \/ ExecProgram)
  BY DEF Works, Device
<1>2. SyncInv' /\ RowsInv'
  <2>1. CASE phase \in Step /\ stale = 0
    BY <1>1, <2>1, ExecuteSync
  <2>2. CASE ~(phase \in Step /\ stale = 0)
    BY <1>1, <2>2 DEF toolVars, SyncInv, RowsInv
  <2>3. QED  BY <2>1, <2>2
<1>3. QED  BY <1>1, <1>2, ExecuteKeeps, ExecuteBehind DEF IInv

-----------------------------------------------------------------------------
(* The device is configured, or leaves the bus.                             *)

LEMMA ConfigureIInv ==
  ASSUME IInv, TypeOK', Device(SetConfiguration)
  PROVE  IInv'
<1>1. /\ UNCHANGED <<flash, outFull, inBusy, rx, tx>> /\ configured' = TRUE /\ mode' = mode
      /\ UNCHANGED toolVars
  BY DEF Device, SetConfiguration
<1>2. Request' = Request /\ InFlight' = InFlight /\ Answered' = Answered /\ Lower' = Lower
      /\ Upper' = Upper
  BY <1>1 DEF toolVars, Request, InFlight, Bit, Answered, Lower, Upper
<1>3. HandleInv' /\ DoneInv' /\ SuccessMeansInstalled' /\ ProgramsBlankUnits'
  BY <1>1 DEF toolVars, IInv, HandleInv, online, DoneInv, SuccessMeansInstalled, ProgramsBlankUnits
<1>4. CountInv' /\ BehindInv'
  BY <1>1, <1>2 DEF toolVars, IInv, CountInv, BehindInv, FromConfig
<1>5. SyncInv'
  BY <1>1, <1>2 DEF toolVars, IInv, SyncInv, Answers
<1>6. RowsInv'
  BY <1>1, <1>2 DEF toolVars, IInv, RowsInv
<1>7. QED  BY <1>3, <1>4, <1>5, <1>6 DEF IInv

(* A reset spoils at most what the command in the OUT buffer was about to   *)
(* change.                                                                  *)
LEMMA TornFlashEffect ==
  ASSUME TypeOK, NEW g \in {flash} \cup TornFlash
  PROVE  \/ g = flash
         \/ /\ CommandReady /\ rx.op = "eraseMemory"
            /\ \A u \in Unit \ RowUnits(rx.unit \div 2) : g[u] = flash[u]
         \/ /\ CommandReady /\ rx.op = "programMemory"
            /\ \A u \in Unit \ {rx.unit} : g[u] = flash[u]
<1>1. flash \in [Unit -> Content] /\ rx.unit \in Unit
  BY DEF TypeOK, DeviceTypeOK, Command
<1>2. rx.unit \div 2 \in 0 .. (NumRows - 1)
  BY <1>1, RowOfUnit
<1>3. CASE g = flash
  BY <1>3
<1>4. CASE CommandReady /\ rx.op = "eraseMemory" /\ g \in TornErase(flash, rx.unit \div 2)
  BY <1>1, <1>2, <1>4, TornEraseEffect
<1>5. CASE CommandReady /\ rx.op = "programMemory" /\ g \in TornProgram(flash, rx.unit, rx.data)
  BY <1>1, <1>5, TornProgramEffect
<1>6. QED  BY <1>3, <1>4, <1>5 DEF TornFlash

LEMMA LeavesIInv ==
  ASSUME IInv, TypeOK', Leaves(BusReset) \/ Leaves(PowerCycle) \/ Leaves(WatchdogReset)
  PROVE  IInv'
<1>1. /\ outFull' = FALSE /\ inBusy' = FALSE
      /\ handle' = (IF handle = "live" THEN "dead" ELSE handle)
      /\ flash' \in {flash} \cup TornFlash
      /\ UNCHANGED <<target, phase, row, awaiting, hostQ, result, stale>>
  BY DEF Leaves, BusReset, PowerCycle, WatchdogReset, UsbInit, ArmOut
<1>2. HandleInv'
  BY <1>1 DEF IInv, HandleInv
<1>3. DoneInv' /\ ProgramsBlankUnits'
  BY <1>1 DEF IInv, DoneInv, ProgramsBlankUnits
<1>4. SuccessMeansInstalled'
  <2>1. result = "ok" => flash' = flash
    BY <1>1 DEF IInv, DoneInv, TornFlash, CommandReady
  <2>2. QED  BY <1>1, <2>1 DEF IInv, SuccessMeansInstalled
<1>5. CountInv'
  <2>1. SUFFICES ASSUME phase \in Step PROVE CountInv'
    BY <1>1 DEF CountInv
  <2>2. handle' = "dead"
    BY <1>1, <2>1 DEF IInv, HandleInv
  <2>3. InFlight' = Len(hostQ)
    BY <1>1, InFlightType DEF IInv, InFlight, Bit
  <2>4. InFlight \in Nat /\ Len(hostQ) \in Nat /\ Len(hostQ) =< InFlight /\ stale \in Nat
    BY InFlightType DEF IInv
  <2>5. InFlight =< stale + Bit(awaiting)
    BY <2>1, <2>4 DEF IInv, CountInv, HandleInv, Bit
  <2>6. QED  BY <1>1, <2>2, <2>3, <2>4, <2>5 DEF CountInv, Bit
<1>6. BehindInv'
  <2>1. \A lo, hi : FromConfig(lo, hi)' <=> FromConfig(lo, hi)
    BY <1>1 DEF FromConfig
  <2>2. SUFFICES ASSUME phase \in Step, stale > 0 PROVE BehindInv'
    BY <1>1 DEF BehindInv
  <2>3. handle' # "live"
    BY <1>1
  <2>4. QED  BY <1>1, <2>1, <2>2, <2>3 DEF IInv, BehindInv
<1>7. SyncInv' /\ RowsInv'
  <2>1. SUFFICES ASSUME phase \in Step, stale = 0 PROVE SyncInv' /\ RowsInv'
    BY <1>1 DEF SyncInv, RowsInv
  <2>2. Request' = Request /\ Lower' = Lower /\ Upper' = Upper
    BY <1>1 DEF Request, Lower, Upper
  <2>3. row \in 0 .. (NumRows - 1)
    BY DEF IInv, TypeOK, ToolTypeOK, Row
  <2>4. Lower \in Unit /\ Upper \in Unit /\ Lower # Upper
        /\ \A u \in 0 .. (2 * row - 1) : u \in Unit \ {Lower, Upper}
    BY <2>3, UnitsOfRow, MemoryAssumption DEF Lower, Upper, Unit
  <2>5. CASE flash' = flash
    BY <1>1, <2>1, <2>2, <2>5 DEF IInv, SyncInv, RowsInv, Answers, Answered
  <2>6. CASE flash' # flash
    <3>1. CommandReady /\ rx = Request /\ awaiting /\ hostQ = <<>>
      <4>1. CommandReady
        BY <1>1, <2>6, TornFlashEffect DEF IInv
      <4>2. rx = Request
        BY <2>1, <4>1 DEF IInv, SyncInv, CommandReady
      <4>3. InFlight \in Nat /\ Len(hostQ) \in Nat /\ InFlight >= Len(hostQ) + 1
        <5>1. Len(hostQ) \in Nat /\ InFlight \in Nat
          BY InFlightType DEF IInv
        <5>2. InFlight = Len(hostQ) + 1
          BY <4>1, <5>1 DEF InFlight, CommandReady, Bit
        <5>3. QED  BY <5>1, <5>2
      <4>4. InFlight =< Bit(awaiting)
        BY <2>1, <4>3 DEF IInv, CountInv, HandleInv, Bit
      <4>5. awaiting /\ Len(hostQ) = 0
        BY <4>3, <4>4 DEF Bit
      <4>6. QED  BY <4>1, <4>2, <4>5 DEF IInv, TypeOK, ToolTypeOK
    <3>2. SyncInv' /\ ~Answered'
      BY <1>1, <3>1, SyncAfterTake
    <3>3. CASE phase = "erase"
      <4>1. rx.unit \div 2 = row /\ rx.op = "eraseMemory"
        BY <2>3, <3>1, <3>3, Requests, UnitsOfRow
      <4>2. \A u \in Unit \ {Lower, Upper} : flash'[u] = flash[u]
        BY <1>1, <2>6, <4>1, TornFlashEffect DEF IInv, RowUnits, Lower, Upper
      <4>3. RowsInv'
        BY <1>1, <2>1, <2>4, <3>2, <3>3, <4>2 DEF IInv, RowsInv
      <4>4. QED  BY <3>2, <4>3
    <3>4. CASE phase \in {"programLower", "programUpper"}
      <4>1. rx.unit = (IF phase = "programLower" THEN Lower ELSE Upper)
            /\ rx.op = "programMemory"
        BY <3>1, <3>4, Requests DEF Lower, Upper
      <4>2. \A u \in Unit \ {rx.unit} : flash'[u] = flash[u]
        BY <1>1, <2>6, <4>1, TornFlashEffect DEF IInv
      <4>3. RowsInv'
        BY <1>1, <2>1, <2>2, <2>4, <3>1, <3>2, <3>4, <4>1, <4>2 DEF IInv, RowsInv
      <4>4. QED  BY <3>2, <4>3
    <3>5. CASE phase \in {"readId", "verify"}
      BY <1>1, <2>6, <3>1, <3>5, Requests, TornFlashEffect DEF IInv
    <3>6. QED  BY <2>1, <3>3, <3>4, <3>5 DEF Step
  <2>7. QED  BY <2>5, <2>6
<1>8. QED  BY <1>2, <1>3, <1>4, <1>5, <1>6, <1>7 DEF IInv

-----------------------------------------------------------------------------

LEMMA NextIInv ==
  ASSUME UpperHalfErases
  PROVE  IInv /\ [Next]_vars => IInv'
<1> SUFFICES ASSUME IInv, [Next]_vars PROVE IInv'
  OBVIOUS
<1>1. TypeOK'
  BY NextTypeOK DEF IInv
<1>2. ASSUME NEW i \in Images, LoadHex(i) PROVE IInv'
  BY <1>1, <1>2, LoadIInv
<1>3. CASE LoadRefused
  <2>1. PICK i \in Images : TRUE
    BY DEF IInv, TypeOK, ToolTypeOK
  <2>2. QED  BY <1>1, <1>3, <2>1, LoadIInv
<1>4. CASE Open
  BY <1>1, <1>4, OpenIInv
<1>5. CASE CloseAlert
  BY <1>1, <1>5, EndIInv
<1>6. CASE OpenFails \/ HidWriteFails \/ HidReadFails \/ TimesOut \/ Kill
  BY <1>1, <1>6, GiveUpIInv DEF TimesOut
<1>7. CASE HidWrite
  BY <1>1, <1>7, WriteIInv
<1>8. CASE GotId
  BY <1>1, <1>8, GotIdIInv
<1>9. CASE GotErase
  BY <1>1, <1>9, GotEraseIInv
<1>10. CASE GotVerify
  BY <1>1, <1>10, GotVerifyIInv
<1>11. CASE GotProgramLower
  BY <1>1, <1>11, GotProgramLowerIInv
<1>12. CASE GotProgramUpper
  BY <1>1, <1>12, GotProgramUpperIInv
<1>13. CASE Poll
  BY <1>1, <1>13, PollIInv
<1>14. CASE Works
  BY <1>1, <1>14, WorksIInv
<1>15. CASE Device(SetConfiguration)
  BY <1>1, <1>15, ConfigureIInv
<1>16. CASE Leaves(BusReset) \/ Leaves(PowerCycle) \/ Leaves(WatchdogReset)
  BY <1>1, <1>16, LeavesIInv
<1>17. CASE UNCHANGED vars
  <2>1. UNCHANGED <<deviceVars, toolVars>>
    BY <1>17 DEF vars
  <2>2. UNCHANGED <<flash, mode, configured, outFull, rx, inBusy, tx, target, handle, phase, row,
                    awaiting, hostQ, result, stale>>
    BY <2>1 DEF deviceVars, toolVars
  <2>3. Request' = Request /\ InFlight' = InFlight /\ Answered' = Answered /\ Lower' = Lower
        /\ Upper' = Upper
    BY <2>2 DEF Request, InFlight, Bit, Answered, Lower, Upper
  <2>4. HandleInv' /\ DoneInv' /\ SuccessMeansInstalled' /\ ProgramsBlankUnits'
    BY <2>2 DEF IInv, HandleInv, online, DoneInv, SuccessMeansInstalled, ProgramsBlankUnits
  <2>5. CountInv' /\ BehindInv'
    BY <2>2, <2>3 DEF IInv, CountInv, BehindInv, FromConfig
  <2>6. SyncInv' /\ RowsInv'
    BY <2>2, <2>3 DEF IInv, SyncInv, RowsInv, Answers
  <2>7. QED  BY <1>1, <2>4, <2>5, <2>6 DEF IInv
<1>18. QED
  BY <1>2, <1>3, <1>4, <1>5, <1>6, <1>7, <1>8, <1>9, <1>10, <1>11, <1>12, <1>13, <1>14, <1>15,
     <1>16, <1>17 DEF Next, Calm, Advance, TimesOut

LEMMA Invariance ==
  ASSUME UpperHalfErases
  PROVE  Spec => []IInv
BY InitIInv, NextIInv, PTL DEF Spec

(* When the tool reports success, every unit of the user area holds what    *)
(* the chosen image has there, whatever earlier runs left in the buffers.   *)
THEOREM SuccessCorrect ==
  ASSUME UpperHalfErases
  PROVE  Spec => []SuccessMeansInstalled
<1>1. IInv => SuccessMeansInstalled
  BY DEF IInv
<1>2. QED  BY <1>1, Invariance, PTL

(* No program command ever reaches a unit that is not blank.                *)
THEOREM BlankCorrect ==
  ASSUME UpperHalfErases
  PROVE  Spec => []ProgramsBlankUnits
<1>1. IInv => ProgramsBlankUnits
  BY DEF IInv
<1>2. QED  BY <1>1, Invariance, PTL

(* Past the first verify the tool takes each reply for the command it is    *)
(* the reply to.                                                            *)
THEOREM StepCorrect ==
  ASSUME UpperHalfErases
  PROVE  Spec => []InStep
<1>1. IInv => InStep
  <2> SUFFICES ASSUME IInv, PastVerify, awaiting, hostQ # <<>>
               PROVE  /\ Len(hostQ) = 1
                      /\ Head(hostQ).op = Request.op /\ Head(hostQ).unit = Request.unit
                      /\ handle = "live" => ~inBusy /\ ~outFull
    BY DEF InStep
  <2>1. phase \in Step
    BY DEF PastVerify, Step
  <2>2. row \in Nat /\ hostQ \in Seq(Reply)
    BY MemoryAssumption DEF IInv, TypeOK, ToolTypeOK, Row
  <2>3. stale = 0
    BY <2>1, <2>2, InFlightType DEF IInv, BehindInv, PastVerify
  <2>4. InFlight =< 1 /\ Len(hostQ) \in Nat \ {0} /\ Head(hostQ) = hostQ[1]
    BY <2>1, <2>2, <2>3, CountBound
  <2>5. Len(hostQ) = 1 /\ ~inBusy /\ ~outFull
    <3>1. Bit(inBusy) = 0 /\ Bit(outFull) = 0 /\ Len(hostQ) = 1
      BY <2>4, OneInFlight
    <3>2. QED  BY <3>1, BitType
  <2>6. Answers(hostQ[1])
    BY <2>1, <2>3 DEF IInv, SyncInv
  <2>7. QED  BY <2>4, <2>5, <2>6 DEF Answers
<1>2. QED  BY <1>1, Invariance, PTL

(***************************************************************************)
(* Seen from outside, an update takes place or does not take place.  This   *)
(* rests on the ideal CRC: the unit that seals an image names the image.    *)
(***************************************************************************)

(* What one step may put into a unit: nothing new, what no image is sealed  *)
(* with, or the data of the program command that is being carried out.      *)
Written(u) ==
  \/ flash'[u] \in {flash[u], Erased, Garbage}
  \/ outFull /\ rx.op = "programMemory" /\ u = rx.unit /\ flash'[u] = rx.data

LEMMA ExecuteWrites ==
  ASSUME TypeOK, Execute, NEW u \in Unit
  PROVE  Written(u)
<1>0. flash \in [Unit -> Content] /\ rx.unit \in Unit /\ rx.data \in Content
  BY DEF TypeOK, DeviceTypeOK, Command
<1>1. CASE flash' = flash
  BY <1>1 DEF Written
<1>2. CASE ExecErase /\ flash' # flash
  <2>1. \E r, kept : flash' = EraseRow(flash, r, kept)
    BY <1>2, Zenon DEF ExecErase
  <2>2. QED  BY <2>1 DEF EraseRow, Written
<1>3. CASE ExecProgram /\ flash' # flash
  <2>1. rx.op = "programMemory" /\ flash' = ProgramUnit(flash, rx.unit, rx.data) /\ outFull
    BY <1>3 DEF ExecProgram, InConfig, CommandReady
  <2>2. Programmed(flash[rx.unit], rx.data) \in {flash[rx.unit], rx.data, Garbage}
    BY DEF Programmed
  <2>3. QED  BY <1>0, <2>1, <2>2, ProgramUnitEffect DEF Written
<1>4. QED  BY <1>1, <1>2, <1>3 DEF Execute, ExecRead, ExecOther

LEMMA ResetWrites ==
  ASSUME TypeOK, BusReset \/ PowerCycle \/ WatchdogReset, NEW u \in Unit
  PROVE  Written(u)
<1>0. flash \in [Unit -> Content] /\ rx.unit \in Unit
  BY DEF TypeOK, DeviceTypeOK, Command
<1>1. flash' \in {flash} \cup TornFlash
  BY DEF BusReset, PowerCycle, WatchdogReset
<1>2. CASE flash' = flash
  BY <1>2 DEF Written
<1>3. CASE flash' # flash /\ rx.op = "eraseMemory"
  <2>1. flash' \in TornErase(flash, rx.unit \div 2)
    BY <1>1, <1>3 DEF TornFlash
  <2>2. PICK lo \in HalfErased(flash[2 * (rx.unit \div 2)]),
             hi \in HalfErased(flash[2 * (rx.unit \div 2) + 1]) :
          flash' = [flash EXCEPT ![2 * (rx.unit \div 2)] = lo, ![2 * (rx.unit \div 2) + 1] = hi]
    BY <2>1 DEF TornErase
  <2>3. lo \in {flash[2 * (rx.unit \div 2)], Erased, Garbage}
        /\ hi \in {flash[2 * (rx.unit \div 2) + 1], Erased, Garbage}
    BY <2>2 DEF HalfErased
  <2>4. QED  BY <1>0, <2>2, <2>3 DEF Written
<1>4. CASE flash' # flash /\ rx.op # "eraseMemory"
  <2>1. outFull /\ rx.op = "programMemory" /\ flash' \in TornProgram(flash, rx.unit, rx.data)
    BY <1>1, <1>4 DEF TornFlash, CommandReady
  <2>2. PICK x \in HalfProgrammed(flash[rx.unit], rx.data) : flash' = [flash EXCEPT ![rx.unit] = x]
    BY <2>1 DEF TornProgram
  <2>3. x \in {flash[rx.unit], rx.data, Garbage}
    BY <2>2 DEF HalfProgrammed, Programmed
  <2>4. QED  BY <1>0, <2>1, <2>2, <2>3 DEF Written
<1>5. QED  BY <1>2, <1>3, <1>4

(* So the seal of an image stays what it was, or is that of an image        *)
(* somebody is installing.                                                  *)
LEMMA SealsKept ==
  ASSUME TypeOK, SealInv, offered \subseteq offered', offered \subseteq Images,
         \A u \in Unit : Written(u)
  PROVE  /\ \A i \in Images : SealOf(i, EndUnit)'
         /\ \A i \in HefSealed : SealOf(i, HefUnit)'
<1>1. EndUnit \in Unit /\ HefUnit \in Unit /\ HefSealed \subseteq Images
  BY MemoryAssumption DEF EndUnit, Unit
<1>2. \A i \in Images, u \in Unit : Image[i][u] # Garbage
  BY MemoryAssumption
<1>3. ASSUME NEW i \in Images, NEW u \in Unit, flash'[u] = Image[i][u], Image[i][u] # Erased,
             \A j \in Images : Image[i][u] = Image[j][u] => i = j, SealOf(i, u)
      PROVE  i \in offered'
  <2>1. CASE flash'[u] = flash[u]
    BY <1>3, <2>1 DEF SealOf
  <2>2. CASE outFull /\ rx.op = "programMemory" /\ u = rx.unit /\ flash'[u] = rx.data
    BY <1>3, <2>2 DEF SealInv
  <2>3. QED  BY <1>2, <1>3, <2>1, <2>2 DEF Written
<1>4. \A i \in Images : flash'[EndUnit] = Image[i][EndUnit] => i \in offered'
  <2> SUFFICES ASSUME NEW i \in Images, flash'[EndUnit] = Image[i][EndUnit] PROVE i \in offered'
    OBVIOUS
  <2>1. Image[i][EndUnit] # Erased
        /\ \A j \in Images : Image[i][EndUnit] = Image[j][EndUnit] => i = j
    BY IdealCrc
  <2>2. SealOf(i, EndUnit)
    BY DEF SealInv
  <2>3. QED  BY <1>1, <1>3, <2>1, <2>2
<1>5. \A i \in HefSealed : flash'[HefUnit] = Image[i][HefUnit] => i \in offered'
  <2> SUFFICES ASSUME NEW i \in HefSealed, flash'[HefUnit] = Image[i][HefUnit]
               PROVE  i \in offered'
    OBVIOUS
  <2>1. Image[i][HefUnit] # Erased
        /\ \A j \in Images : Image[i][HefUnit] = Image[j][HefUnit] => i = j
    BY IdealCrc
  <2>2. SealOf(i, HefUnit)
    BY DEF SealInv
  <2>3. QED  BY <1>1, <1>3, <2>1, <2>2
<1>6. QED  BY <1>4, <1>5 DEF SealOf, EndUnit

LEMMA InitSealInv == Init => SealInv
<1> SUFFICES ASSUME Init PROVE SealInv
  OBVIOUS
<1>1. phase \notin Step /\ ~outFull
  BY DEF Init, DeviceInit, Step
<1>2. EndUnit \in Unit /\ HefUnit \in Unit /\ HefSealed \subseteq Images
  BY MemoryAssumption DEF EndUnit, Unit
<1>3. ASSUME NEW i \in Images, NEW u \in Unit, flash[u] = Image[i][u], Image[i][u] # Erased,
             \A j \in Images : Image[i][u] = Image[j][u] => i = j
      PROVE  i \in offered
  <2>1. flash # [v \in Unit |-> Erased]
    BY <1>3
  <2>2. PICK j \in Images : flash = Image[j]
    BY <2>1 DEF Init, DeviceInit
  <2>3. i = j
    BY <1>3, <2>2
  <2>4. QED  BY <2>2, <2>3 DEF Init
<1>4. \A i \in Images : SealOf(i, EndUnit)
  BY <1>2, <1>3, IdealCrc DEF SealOf
<1>5. \A i \in HefSealed : SealOf(i, HefUnit)
  BY <1>2, <1>3, IdealCrc DEF SealOf
<1>6. mode = "user" => PassedCrc(flash)
  BY DEF Init, DeviceInit, StartedMode
<1>7. QED  BY <1>1, <1>4, <1>5, <1>6 DEF SealInv

(* User code is started, and left running, only on a flash that passed.     *)
LEMMA ResetStarts ==
  ASSUME BusReset \/ PowerCycle \/ WatchdogReset
  PROVE  \/ mode' \in {"boot", "user"} /\ (mode' = "user" => PassedCrc(flash)')
         \/ UNCHANGED <<mode, flash>>
BY DEF BusReset, PowerCycle, WatchdogReset, StartedMode, PassedCrc, BootableAs, CrcMatches

LEMMA NextSealInv == TypeOK /\ SealInv /\ [Next]_vars => SealInv'
<1> SUFFICES ASSUME TypeOK, SealInv, [Next]_vars PROVE SealInv'
  OBVIOUS
<1>1. offered \subseteq Images /\ target \in Images
  BY DEF TypeOK, ToolTypeOK
<1>2. ASSUME UNCHANGED <<flash, mode, outFull, rx>>, offered \subseteq offered',
             phase' \in Step => target' \in offered'
      PROVE  SealInv'
  <2>1. \A u \in Unit : Written(u)
    BY <1>2 DEF Written
  <2>2. PassedCrc(flash)' <=> PassedCrc(flash)
    BY <1>2 DEF PassedCrc, BootableAs, CrcMatches
  <2>3. \A i \in Images : SealOf(i, EndUnit)'
    BY <1>1, <1>2, <2>1, SealsKept
  <2>4. \A i \in HefSealed : SealOf(i, HefUnit)'
    BY <1>1, <1>2, <2>1, SealsKept
  <2>5. QED  BY <1>2, <2>2, <2>3, <2>4 DEF SealInv
<1>3. ASSUME NEW i \in Images, LoadHex(i) PROVE SealInv'
  BY <1>2, <1>3 DEF LoadHex, deviceVars, Step
<1>4. CASE LoadRefused \/ Open \/ OpenFails \/ CloseAlert \/ Kill
  BY <1>2, <1>4 DEF LoadRefused, Open, OpenFails, CloseAlert, Kill, deviceVars, Step
<1>5. CASE HidWriteFails \/ HidReadFails \/ TimesOut
  BY <1>2, <1>5 DEF HidWriteFails, HidReadFails, TimesOut, HidWriteTimesOut, HidReadTimesOut,
     WriteFailsIf, ReadFailsIf, Bail, deviceVars, Step
<1>6. CASE GotId \/ GotErase \/ GotVerify \/ GotProgramLower \/ GotProgramUpper
  <2>1. TakeReport /\ phase \in Step
    BY <1>6 DEF GotId, GotErase, GotVerify, GotProgramLower, GotProgramUpper, Step
  <2>2. QED  BY <1>2, <2>1 DEF TakeReport, deviceVars, SealInv
<1>7. CASE Poll \/ Device(SetConfiguration) \/ UNCHANGED vars
  BY <1>2, <1>7 DEF Poll, DeliverIn, Device, SetConfiguration, vars, deviceVars, toolVars, SealInv
<1>8. CASE HidWrite
  <2>1. /\ phase \in Step /\ rx' = Request /\ UNCHANGED <<flash, mode, phase, target, offered>>
    BY <1>8 DEF HidWrite, AcceptOut
  <2>2. Request.op = "programMemory" => Request.data = Image[target][Request.unit]
    BY <2>1, Requests DEF Step
  <2>3. outFull' /\ rx'.op = "programMemory" => \E i \in offered' : rx'.data = Image[i][rx'.unit]
    BY <2>1, <2>2 DEF SealInv
  <2>4. \A u \in Unit : Written(u)
    BY <2>1 DEF Written
  <2>5. PassedCrc(flash)' <=> PassedCrc(flash)
    BY <2>1 DEF PassedCrc, BootableAs, CrcMatches
  <2>6. /\ \A i \in Images : SealOf(i, EndUnit)'
        /\ \A i \in HefSealed : SealOf(i, HefUnit)'
    BY <1>1, <2>1, <2>4, SealsKept
  <2>7. QED  BY <2>1, <2>3, <2>5, <2>6 DEF SealInv
<1>9. CASE Works
  <2>1. Execute /\ UNCHANGED toolVars /\ mode' = mode /\ mode = "boot" /\ ~outFull'
    BY <1>9 DEF Works, Device, Execute, ExecRead, ExecErase, ExecProgram, CommandReady, online,
       AnswerWith, ArmOut
  <2>2. \A u \in Unit : Written(u)
    BY <2>1, ExecuteWrites
  <2>3. /\ \A i \in Images : SealOf(i, EndUnit)'
        /\ \A i \in HefSealed : SealOf(i, HefUnit)'
    BY <1>1, <2>1, <2>2, SealsKept DEF toolVars
  <2>4. QED  BY <2>1, <2>3 DEF toolVars, SealInv
<1>10. CASE Leaves(BusReset) \/ Leaves(PowerCycle) \/ Leaves(WatchdogReset)
  <2>1. /\ BusReset \/ PowerCycle \/ WatchdogReset
        /\ UNCHANGED <<target, phase, offered>> /\ ~outFull'
    BY <1>10 DEF Leaves, BusReset, PowerCycle, WatchdogReset, UsbInit, ArmOut
  <2>2. \A u \in Unit : Written(u)
    BY <2>1, ResetWrites
  <2>3. /\ \A i \in Images : SealOf(i, EndUnit)'
        /\ \A i \in HefSealed : SealOf(i, HefUnit)'
    BY <1>1, <2>1, <2>2, SealsKept
  <2>4. mode' = "user" => PassedCrc(flash)'
    BY <2>1, ResetStarts DEF SealInv, PassedCrc, BootableAs, CrcMatches
  <2>5. QED  BY <2>1, <2>3, <2>4 DEF SealInv
<1>11. QED
  BY <1>3, <1>4, <1>5, <1>6, <1>7, <1>8, <1>9, <1>10 DEF Next, Calm, Advance

(* Only offered images are runnable.                                        *)
LEMMA RunnableOffered == SealInv => BootableAs(flash) \subseteq offered
<1>1. EndUnit \in 0 .. EndUnit /\ HefUnit \in 0 .. HefUnit
  BY MemoryAssumption DEF EndUnit, Unit
<1>2. QED  BY <1>1 DEF SealInv, SealOf, BootableAs, CrcMatches

LEMMA InitAtomic == Init => Atomic!AtomicInit
<1> SUFFICES ASSUME Init PROVE Atomic!AtomicInit
  OBVIOUS
<1>1. BootableAs(flash) \subseteq offered
  BY InitSealInv, RunnableOffered
<1>2. mode = "user" => BootableAs(flash) # {}
  BY InitSealInv DEF SealInv, PassedCrc
<1>3. QED  BY <1>1, <1>2 DEF Init, Atomic!AtomicInit, Step

(* Each step of the code is a step, or nothing, to the user.                *)
LEMMA StepAtomic ==
  IInv /\ SealInv /\ IInv' /\ SealInv' /\ [Next]_vars => [Atomic!AtomicNext]_(Atomic!atomicVars)
<1> SUFFICES ASSUME IInv, SealInv, IInv', SealInv', [Next]_vars
             PROVE  [Atomic!AtomicNext]_(Atomic!atomicVars)
  OBVIOUS
<1>1. target \in Images /\ target' \in Images /\ mode \in {"boot", "user"} /\ mode' \in {"boot", "user"}
  BY DEF IInv, TypeOK, ToolTypeOK, DeviceTypeOK
<1>2. flash' = flash => BootableAs(flash)' = BootableAs(flash)
  BY DEF BootableAs, CrcMatches
<1>3. ASSUME NEW i \in Images, LoadHex(i) PROVE Atomic!Choose
  BY <1>1, <1>2, <1>3 DEF LoadHex, deviceVars, Step, Atomic!Choose
<1>4. CASE LoadRefused \/ CloseAlert
  BY <1>2, <1>4 DEF LoadRefused, CloseAlert, deviceVars, Step, Atomic!atomicVars
<1>5. CASE Open
  BY <1>2, <1>5 DEF Open, online, deviceVars, Step, Atomic!AtomicNext, Atomic!Begin
<1>6. CASE OpenFails \/ Kill
  BY <1>2, <1>6 DEF OpenFails, Kill, deviceVars, Step, Atomic!AtomicNext, Atomic!Fail
<1>7. CASE HidWriteFails \/ HidReadFails \/ TimesOut
  BY <1>2, <1>7 DEF HidWriteFails, HidReadFails, TimesOut, HidWriteTimesOut, HidReadTimesOut,
     WriteFailsIf, ReadFailsIf, Bail, deviceVars, Step, Atomic!AtomicNext, Atomic!Fail
<1>8. CASE GotId \/ GotErase \/ GotVerify \/ GotProgramLower \/ GotProgramUpper
  <2>1. TakeReport /\ phase \in Step /\ UNCHANGED <<flash, mode, target, offered>>
    BY <1>8 DEF GotId, GotErase, GotVerify, GotProgramLower, GotProgramUpper, Step, TakeReport,
       deviceVars
  <2>2. CASE phase' \in Step
    <3>1. result' = result
      BY <1>8, <2>2 DEF GotId, GotErase, GotVerify, GotProgramLower, GotProgramUpper, GoOn, Bail,
         Step
    <3>2. QED  BY <1>2, <2>1, <2>2, <3>1 DEF Atomic!atomicVars
  <2>3. CASE Bail
    BY <1>2, <2>1, <2>3 DEF Bail, Step, Atomic!AtomicNext, Atomic!Fail
  <2>4. CASE phase' = "alert" /\ result' = "ok"
    <3>1. flash = Image[target]
      BY <2>1, <2>4 DEF IInv, SuccessMeansInstalled
    <3>2. target \in BootableAs(flash)
      BY <1>1, <3>1 DEF BootableAs, CrcMatches
    <3>3. QED  BY <1>2, <2>1, <2>4, <3>2 DEF Step, Atomic!AtomicNext, Atomic!Succeed
  <2>5. QED
    BY <1>8, <2>2, <2>3, <2>4 DEF GotId, GotErase, GotVerify, GotProgramLower, GotProgramUpper,
       GoOn, Step
<1>9. CASE HidWrite \/ Poll \/ Device(SetConfiguration) \/ UNCHANGED vars
  BY <1>2, <1>9 DEF HidWrite, AcceptOut, Poll, DeliverIn, Device, SetConfiguration, vars,
     deviceVars, toolVars, Atomic!atomicVars
<1>10. CASE Works \/ Leaves(BusReset) \/ Leaves(PowerCycle) \/ Leaves(WatchdogReset)
  <2>1. UNCHANGED <<target, phase, result, offered>>
    BY <1>10 DEF Works, Device, toolVars, Leaves
  <2>2. mode = "user" \/ result = "ok" => flash' = flash
    <3>1. mode = "user" => ~CommandReady
      BY DEF CommandReady, online
    <3>2. result = "ok" => ~CommandReady
      BY DEF IInv, DoneInv, CommandReady
    <3>3. ~CommandReady => flash' = flash
      BY <1>10 DEF Works, Device, ExecRead, ExecErase, ExecProgram, Leaves, BusReset, PowerCycle,
         WatchdogReset, TornFlash
    <3>4. QED  BY <3>1, <3>2, <3>3
  <2>3. BootableAs(flash)' \subseteq offered
    <3>1. (BootableAs(flash) \subseteq offered)'
      BY RunnableOffered, PTL
    <3>2. QED  BY <2>1, <3>1
  <2>4. mode' = "user" => BootableAs(flash)' # {}
    BY DEF SealInv, PassedCrc
  <2>5. QED
    BY <1>1, <1>2, <2>1, <2>2, <2>3, <2>4 DEF Atomic!AtomicNext, Atomic!Device
<1>11. QED
  BY <1>3, <1>4, <1>5, <1>6, <1>7, <1>8, <1>9, <1>10 DEF Next, Calm, Advance, Atomic!AtomicNext

(* The device runs user code only on a flash that holds, up to the word the *)
(* power-up check trusts, an image somebody set out to install, whenever    *)
(* the power fails or the tool goes away; and a success the tool reports    *)
(* has put the image in place for good.                                     *)
THEOREM UpdateCorrect ==
  ASSUME UpperHalfErases
  PROVE  Spec => UpdateIsAtomic
<1>1. IInv => TypeOK
  BY DEF IInv
<1>2. Spec => []IInv
  BY Invariance
<1>3. Spec => []SealInv
  BY <1>1, <1>2, InitSealInv, NextSealInv, PTL DEF Spec
<1>4. QED
  BY <1>2, <1>3, InitAtomic, StepAtomic, PTL DEF Spec, UpdateIsAtomic, Atomic!AtomicSpec

=============================================================================
