----------------------- MODULE CommandServerTheorems -----------------------
(***************************************************************************)
(* Proofs about CommandServer, for any flash, any set of commands and any   *)
(* erase faults: types, and that a host meets a queue of one command.       *)
(***************************************************************************)
EXTENDS CommandServer, TLAPS

(***************************************************************************)
(* ProgramMemory: facts about its operators, for every number of rows and   *)
(* every set of images.                                                     *)
(***************************************************************************)

(* Programming yields a content, whatever was there before.                 *)
LEMMA ProgrammedType ==
  ASSUME NEW old \in Content, NEW new \in Content
  PROVE  Programmed(old, new) \in Content
BY MemoryAssumption DEF Programmed

(* A blank unit takes exactly the data it is programmed with.               *)
LEMMA ProgrammedBlank ==
  ASSUME NEW new \in Content
  PROVE  Programmed(Erased, new) = new
BY DEF Programmed

(* The units of a row are units, and a unit's row is the half of its index. *)
LEMMA RowOfUnit ==
  ASSUME NEW u \in Unit
  PROVE  /\ u \div 2 \in 0 .. (NumRows - 1)
         /\ 2 * (u \div 2) \in Unit /\ 2 * (u \div 2) + 1 \in Unit
         /\ u \in RowUnits(u \div 2)
BY MemoryAssumption DEF Unit, RowUnits

LEMMA UnitsOfRow ==
  ASSUME NEW r \in 0 .. (NumRows - 1)
  PROVE  /\ 2 * r \in Unit /\ 2 * r + 1 \in Unit
         /\ (2 * r) \div 2 = r /\ (2 * r + 1) \div 2 = r
BY MemoryAssumption DEF Unit

(* Erasing and programming, complete or torn, leave every unit a content.   *)
LEMMA EraseRowType ==
  ASSUME NEW f \in [Unit -> Content], NEW r, NEW kept
  PROVE  EraseRow(f, r, kept) \in [Unit -> Content]
BY MemoryAssumption DEF EraseRow

LEMMA ProgramUnitType ==
  ASSUME NEW f \in [Unit -> Content], NEW u \in Unit, NEW c \in Content
  PROVE  ProgramUnit(f, u, c) \in [Unit -> Content]
BY ProgrammedType DEF ProgramUnit

LEMMA HalfErasedType ==
  ASSUME NEW c \in Content
  PROVE  HalfErased(c) \subseteq Content
BY MemoryAssumption DEF HalfErased

LEMMA HalfProgrammedType ==
  ASSUME NEW old \in Content, NEW new \in Content
  PROVE  HalfProgrammed(old, new) \subseteq Content
BY MemoryAssumption, ProgrammedType DEF HalfProgrammed

LEMMA TornEraseType ==
  ASSUME NEW f \in [Unit -> Content], NEW u \in Unit
  PROVE  TornErase(f, u \div 2) \subseteq [Unit -> Content]
<1>1. f[2 * (u \div 2)] \in Content /\ f[2 * (u \div 2) + 1] \in Content
  BY RowOfUnit
<1>2. QED  BY <1>1, HalfErasedType DEF TornErase

LEMMA TornProgramType ==
  ASSUME NEW f \in [Unit -> Content], NEW u \in Unit, NEW c \in Content
  PROVE  TornProgram(f, u, c) \subseteq [Unit -> Content]
BY HalfProgrammedType DEF TornProgram

(* An erase leaves the other rows alone, and clears what it does not keep.  *)
LEMMA EraseRowEffect ==
  ASSUME NEW f \in [Unit -> Content], NEW r \in 0 .. (NumRows - 1), NEW kept
  PROVE  /\ \A u \in Unit \ RowUnits(r) : EraseRow(f, r, kept)[u] = f[u]
         /\ 2 * r + 1 \notin kept => EraseRow(f, r, kept)[2 * r + 1] = Erased
<1>1. 2 * r + 1 \in Unit /\ 2 * r + 1 \in RowUnits(r)
  BY UnitsOfRow DEF RowUnits
<1>2. QED  BY <1>1 DEF EraseRow

LEMMA ProgramUnitEffect ==
  ASSUME NEW f \in [Unit -> Content], NEW u \in Unit, NEW c \in Content
  PROVE  /\ ProgramUnit(f, u, c)[u] = Programmed(f[u], c)
         /\ \A v \in Unit \ {u} : ProgramUnit(f, u, c)[v] = f[v]
BY DEF ProgramUnit

(* A power cut spoils at most the row being erased or the unit being        *)
(* programmed.                                                              *)
LEMMA TornEraseEffect ==
  ASSUME NEW f \in [Unit -> Content], NEW r \in 0 .. (NumRows - 1), NEW g \in TornErase(f, r)
  PROVE  \A u \in Unit \ RowUnits(r) : g[u] = f[u]
<1>1. PICK lo, hi : g = [f EXCEPT ![2 * r] = lo, ![2 * r + 1] = hi]
  BY DEF TornErase
<1>2. QED  BY <1>1 DEF RowUnits

LEMMA TornProgramEffect ==
  ASSUME NEW f \in [Unit -> Content], NEW u \in Unit, NEW c, NEW g \in TornProgram(f, u, c)
  PROVE  \A v \in Unit \ {u} : g[v] = f[v]
BY DEF TornProgram

(***************************************************************************)
(* Type correctness.                                                        *)
(***************************************************************************)

LEMMA BlankCommandType == BlankCommand \in Command
BY MemoryAssumption DEF BlankCommand, Command, Op, Unit

LEMMA DeviceInitType == DeviceInit => DeviceTypeOK
<1> SUFFICES ASSUME DeviceInit PROVE DeviceTypeOK
  OBVIOUS
<1> USE DEF DeviceInit
<1>1. flash \in [Unit -> Content]
  BY MemoryAssumption
<1>2. mode \in {"boot", "user"}
  BY DEF StartedMode
<1>3. tx \in Reply
  BY MemoryAssumption, ServerAssumption DEF Reply, Op, Unit
<1>4. QED  BY <1>1, <1>2, <1>3, BlankCommandType, MemoryAssumption DEF DeviceTypeOK

(* What each action of the device does to the types of its variables.       *)
LEMMA ExecuteType ==
  ASSUME DeviceTypeOK, Execute
  PROVE  DeviceTypeOK'
<1> USE BlankCommandType DEF DeviceTypeOK, AnswerWith, ArmOut
<1>0. rx.op \in Op /\ rx.unit \in Unit /\ rx.data \in Content
  BY DEF Command
<1>1. EchoReply(rx) \in Reply
  BY <1>0 DEF EchoReply, Reply
<1>2. CASE ExecRead
  <2>1. ReadReply(rx) \in Reply
    BY <1>0 DEF ReadReply, Reply, Payload
  <2>2. QED  BY <1>2, <2>1 DEF ExecRead
<1>3. CASE ExecErase
  <2>1. \E r, kept : flash' \in {flash, EraseRow(flash, r, kept)}
    BY <1>3, Zenon DEF ExecErase
  <2>2. flash' \in [Unit -> Content]
    BY <2>1, EraseRowType
  <2>3. userId' \in Content
    BY <1>3, MemoryAssumption DEF ExecErase
  <2>4. QED  BY <2>2, <2>3, <1>1, <1>3, <2>1 DEF ExecErase
<1>4. CASE ExecProgram
  <2>1. flash' \in [Unit -> Content] /\ userId' \in Content
    BY <1>0, <1>4, ProgramUnitType, ProgrammedType DEF ExecProgram
  <2>2. QED  BY <1>1, <1>4, <2>1 DEF ExecProgram
<1>5. CASE ExecOther
  BY <1>1, <1>5 DEF ExecOther
<1>6. QED  BY <1>2, <1>3, <1>4, <1>5 DEF Execute

LEMMA ResetType ==
  ASSUME DeviceTypeOK, BusReset \/ PowerCycle \/ WatchdogReset
  PROVE  DeviceTypeOK'
<1> USE BlankCommandType, ServerAssumption DEF DeviceTypeOK, UsbInit, ArmOut, StartedMode
<1>0. rx.op \in Op /\ rx.unit \in Unit /\ rx.data \in Content
  BY DEF Command
<1>1. \A p \in RamNoise : [tx EXCEPT !.payload = p] \in Reply
  BY DEF Reply
<1>2. CASE BusReset
  BY <1>2 DEF BusReset
<1>3. CASE PowerCycle
  <2>1. TornFlash \subseteq [Unit -> Content]
    BY <1>0, TornEraseType, TornProgramType DEF TornFlash
  <2>2. TornUserId \subseteq Content
    BY <1>0, HalfErasedType, HalfProgrammedType DEF TornUserId
  <2>3. QED  BY <1>1, <1>3, <2>1, <2>2 DEF PowerCycle
<1>4. CASE WatchdogReset
  BY <1>1, <1>4 DEF WatchdogReset
<1>5. QED  BY <1>2, <1>3, <1>4

LEMMA ServerNextType ==
  ASSUME DeviceTypeOK, [ServerNext]_deviceVars
  PROVE  DeviceTypeOK'
<1>1. CASE Execute
  BY <1>1, ExecuteType
<1>2. CASE BusReset \/ PowerCycle \/ WatchdogReset
  BY <1>2, ResetType
<1>3. ASSUME NEW c \in Commands, AcceptOut(c)  PROVE DeviceTypeOK'
  BY <1>3, ServerAssumption DEF AcceptOut, DeviceTypeOK
<1>4. CASE DeliverIn \/ SetConfiguration \/ UNCHANGED deviceVars
  BY <1>4 DEF DeliverIn, SetConfiguration, deviceVars, DeviceTypeOK
<1>5. QED  BY <1>1, <1>2, <1>3, <1>4 DEF ServerNext, HostSends, Execute

(* Every variable of the device keeps its type.                             *)
THEOREM ServerTypeCorrect == ServerSpec => []DeviceTypeOK
<1>1. DeviceTypeOK /\ [ServerNext]_deviceVars => DeviceTypeOK'
  BY ServerNextType
<1>2. QED  BY DeviceInitType, <1>1, PTL DEF ServerSpec

(***************************************************************************)
(* The refinement.                                                          *)
(***************************************************************************)

(* A turn of the command loop: the command leaves memory as it should, and  *)
(* its reply shows what it should of the memory before it.                  *)
LEMMA ExecuteServes ==
  ASSUME DeviceTypeOK, Execute
  PROVE  Pipe!Serve
<1> USE DEF DeviceTypeOK, AnswerWith, ArmOut, CommandReady, KeyOf
<1>0. rx.op \in Op /\ tx \in Reply
  BY DEF Command
<1>1. CASE ExecRead
  BY <1>0, <1>1 DEF Pipe!Serve, ExecRead, ReadReply, InConfig, ShownBy, MemoryAfter
<1>2. CASE ExecErase
  <2>1. \/ /\ rx.op = "eraseConfig" /\ flash' = flash /\ userId' = Erased
        \/ /\ rx.op = "eraseMemory" /\ userId' = userId
           /\ \E f \in EraseFaults :
                flash' = EraseRow(flash, rx.unit \div 2, {2 * (rx.unit \div 2) + h : h \in f})
    BY <1>2 DEF ExecErase, InConfig
  <2>2. <<flash, userId>>' \in MemoryAfter(rx, <<flash, userId>>)
    BY <2>1 DEF MemoryAfter
  <2>3. QED
    BY <1>0, <1>2, <2>2 DEF Pipe!Serve, ExecErase, EchoReply, Reply, ShownBy
<1>3. CASE ExecProgram
  <2>1. <<flash, userId>>' \in MemoryAfter(rx, <<flash, userId>>)
    BY <1>3 DEF ExecProgram, InConfig, MemoryAfter
  <2>2. QED
    BY <1>0, <1>3, <2>1 DEF Pipe!Serve, ExecProgram, EchoReply, Reply, ShownBy
<1>4. CASE ExecOther
  BY <1>0, <1>4 DEF Pipe!Serve, ExecOther, EchoReply, Reply, ShownBy, MemoryAfter
<1>5. QED  BY <1>1, <1>2, <1>3, <1>4 DEF Execute

(* A reset empties both buffers; only a power cut tears a command, and only *)
(* the one that is being carried out.                                       *)
LEMMA ResetForgets ==
  ASSUME DeviceTypeOK, BusReset \/ PowerCycle \/ WatchdogReset
  PROVE  Pipe!Forget
<1> USE DEF UsbInit, ArmOut, Pipe!Forget
<1>1. CASE BusReset \/ WatchdogReset
  BY <1>1 DEF BusReset, WatchdogReset
<1>2. CASE PowerCycle
  <2>1. ~outFull' /\ ~inBusy' /\ flash' \in {flash} \cup TornFlash /\ userId' \in {userId} \cup TornUserId
    BY <1>2 DEF PowerCycle
  <2>2. CASE ~CommandReady
    BY <2>1, <2>2 DEF TornFlash, TornUserId
  <2>3. CASE CommandReady
    <3>1. \/ <<flash, userId>>' = <<flash, userId>>
          \/ <<flash, userId>>' \in MemoryTorn(rx, <<flash, userId>>)
      BY <2>1, <2>3 DEF TornFlash, TornUserId, MemoryTorn
    <3>2. QED  BY <2>1, <2>3, <3>1 DEF CommandReady
  <2>4. QED  BY <2>2, <2>3
<1>3. QED  BY <1>1, <1>2

LEMMA ServerStep ==
  ASSUME DeviceTypeOK, [ServerNext]_deviceVars
  PROVE  [Pipe!PipeNext]_(Pipe!pipeVars)
<1>1. CASE Execute
  BY <1>1, ExecuteServes DEF Pipe!PipeNext
<1>2. CASE BusReset \/ PowerCycle \/ WatchdogReset
  BY <1>2, ResetForgets DEF Pipe!PipeNext
<1>3. CASE HostSends
  BY <1>3 DEF HostSends, AcceptOut, Pipe!PipeNext, Pipe!Accept
<1>4. CASE DeliverIn
  BY <1>4 DEF DeliverIn, Pipe!PipeNext, Pipe!Take
<1>5. CASE SetConfiguration \/ UNCHANGED deviceVars
  BY <1>5 DEF SetConfiguration, deviceVars, Pipe!pipeVars
<1>6. QED  BY <1>1, <1>2, <1>3, <1>4, <1>5 DEF ServerNext, Execute

(* The device implements the queue of one command, whatever the host sends  *)
(* and whenever the bus is reset or the power fails: each command is        *)
(* carried out once and in order, and no reply is touched before the host   *)
(* has it, though TxDataBuffer is where the next one is put together.       *)
THEOREM ServesInOrderCorrect == ServerSpec => ServesInOrder
<1>1. DeviceInit => Pipe!PipeInit
  BY DEF DeviceInit, Pipe!PipeInit
<1>2. DeviceTypeOK /\ [ServerNext]_deviceVars => [Pipe!PipeNext]_(Pipe!pipeVars)
  BY ServerStep
<1>3. QED  BY <1>1, <1>2, ServerTypeCorrect, PTL DEF ServerSpec, ServesInOrder, Pipe!PipeSpec
=============================================================================
