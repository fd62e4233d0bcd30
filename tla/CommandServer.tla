--------------------------- MODULE CommandServer ---------------------------
(***************************************************************************)
(* The device: the power-up decision and the command loop of                *)
(* bootloader/main.c.  The host reaches it through the two buffers of       *)
(* endpoint 1.  Who owns each buffer is the UOWN bit of its descriptor:     *)
(*   outFull   EP1 OUT belongs to the CPU: rx is a command not yet executed *)
(*   inBusy    EP1 IN belongs to the USB engine: tx is a reply not yet sent *)
(* tx is TxDataBuffer, which is the IN buffer itself.  Only a read command  *)
(* writes all of it: any other reply carries what the last read left there. *)
(*                                                                         *)
(* Halting EP1, its data toggles and the control endpoint are not modelled  *)
(* here: a transfer this module lets happen is one the host saw ACKed.      *)
(***************************************************************************)
EXTENDS ProgramMemory, Sequences

CONSTANTS
  ConfigWords,   \* what Read Config returns: user IDs, then the Device ID
  EraseFaults,   \* the sets of halves, within {0, 1}, an erase may fail to clear
  RamNoise,      \* what TxDataBuffer may hold when RAM comes back
  Commands       \* the commands hosts send

Op == {"readMemory", "readConfig", "eraseMemory", "eraseConfig",
       "programMemory", "programConfig", "other"}

Payload == Content \cup {ConfigWords}
Command == [op : Op, unit : Unit, data : Content]
Reply   == [op : Op, unit : Unit, payload : Payload]

ASSUME ServerAssumption ==
  /\ ConfigWords \notin Content
  /\ EraseFaults \subseteq SUBSET {0, 1} /\ {} \in EraseFaults
  /\ RamNoise \subseteq Payload /\ RamNoise # {}
  /\ Commands \subseteq Command

VARIABLES
  flash,        \* the user-programmable area
  userId,       \* the user-ID words of configuration memory
  mode,         \* "boot": this program runs; "user": it jumped to 0x1000
  configured,   \* usb_is_configured()
  outFull, rx,  \* EP1 OUT
  inBusy, tx    \* EP1 IN

deviceVars == <<flash, userId, mode, configured, outFull, rx, inBusy, tx>>

DeviceTypeOK ==
  /\ flash \in [Unit -> Content]
  /\ userId \in Content
  /\ mode \in {"boot", "user"}
  /\ configured \in BOOLEAN
  /\ outFull \in BOOLEAN /\ rx \in Command
  /\ inBusy \in BOOLEAN /\ tx \in Reply

online == mode = "boot" /\ configured

-----------------------------------------------------------------------------

BlankCommand == [op |-> "other", unit |-> 0, data |-> Erased]

(* The OUT buffer goes back to the USB engine.  Hosts send full 64-byte      *)
(* reports, so nothing reads its old bytes again and the model drops them.  *)
ArmOut == outFull' = FALSE /\ rx' = BlankCommand

(* usb_init(): both buffers are handed out afresh and any transfer in them  *)
(* is forgotten; the bytes of the IN buffer stay.                           *)
UsbInit == configured' = FALSE /\ ArmOut /\ inBusy' = FALSE

(* Mutant: FLAG_PASSED_CRC does not enter into the decision.                *)
StartedUnchecked(f, ra3, notTimeout) == IF ra3 /\ notTimeout THEN "user" ELSE "boot"

(* The decision main() takes on the flash f, RA3 high being "no button", /TO *)
(* high being "not a watchdog reset".                                       *)
StartedMode(f, ra3, notTimeout) ==
  IF ra3 /\ PassedCrc(f) /\ notTimeout THEN "user" ELSE "boot"

DeviceInit ==
  /\ flash \in {[u \in Unit |-> Erased]} \cup {Image[i] : i \in Images}
  /\ userId = Erased
  /\ \E ra3 \in BOOLEAN : mode = StartedMode(flash, ra3, TRUE)
  /\ configured = FALSE /\ outFull = FALSE /\ inBusy = FALSE
  /\ rx = BlankCommand
  /\ tx \in [op : {"other"}, unit : {0}, payload : RamNoise]

-----------------------------------------------------------------------------
(* What one command does to memory and to TxDataBuffer.  Bit 2 of the       *)
(* command byte selects configuration memory.                               *)

InConfig(c) == c.op \in {"readConfig", "eraseConfig", "programConfig"}

ReadReply(c) ==
  [op |-> c.op, unit |-> c.unit,
   payload |-> IF InConfig(c) THEN ConfigWords ELSE flash[c.unit]]

EchoReply(c) == [tx EXCEPT !.op = c.op, !.unit = c.unit]

(* Mutant: usb_arm_out_endpoint(1) is forgotten.                            *)
AnswerWithoutArming(r) == tx' = r /\ inBusy' = TRUE /\ UNCHANGED <<outFull, rx>>

(* usb_send_in_buffer(1), then usb_arm_out_endpoint(1).                     *)
AnswerWith(r) == tx' = r /\ inBusy' = TRUE /\ ArmOut

(* Mutant: usb_in_endpoint_busy(1) is not tested.                           *)
ReadyWithoutBusyTest == online /\ outFull

(* The conditions main() tests before it takes a command.                   *)
CommandReady == online /\ ~inBusy /\ outFull

ExecRead ==
  /\ CommandReady
  /\ rx.op \in {"readMemory", "readConfig"}
  /\ AnswerWith(ReadReply(rx))
  /\ UNCHANGED <<flash, userId, mode, configured>>

(* The part clears a whole row of 32 words, whichever of its words is named.*)
ExecErase ==
  /\ CommandReady
  /\ rx.op \in {"eraseMemory", "eraseConfig"}
  /\ IF InConfig(rx)
       THEN userId' = Erased /\ flash' = flash
       ELSE /\ userId' = userId
            /\ \E f \in EraseFaults :
                 LET r == rx.unit \div 2
                 IN  flash' = EraseRow(flash, r, {2 * r + h : h \in f})
  /\ AnswerWith(EchoReply(rx))
  /\ UNCHANGED <<mode, configured>>

ExecProgram ==
  /\ CommandReady
  /\ rx.op \in {"programMemory", "programConfig"}
  /\ IF InConfig(rx)
       THEN userId' = Programmed(userId, rx.data) /\ flash' = flash
       ELSE userId' = userId /\ flash' = ProgramUnit(flash, rx.unit, rx.data)
  /\ AnswerWith(EchoReply(rx))
  /\ UNCHANGED <<mode, configured>>

ExecOther ==
  /\ CommandReady
  /\ rx.op = "other"
  /\ AnswerWith(EchoReply(rx))
  /\ UNCHANGED <<flash, userId, mode, configured>>

Execute == ExecRead \/ ExecErase \/ ExecProgram \/ ExecOther

-----------------------------------------------------------------------------
(* The bus.                                                                 *)

(* The host's OUT transaction is ACKed: the engine owned the OUT buffer.    *)
AcceptOut(c) ==
  /\ online /\ ~outFull
  /\ outFull' = TRUE /\ rx' = c
  /\ UNCHANGED <<flash, userId, mode, configured, inBusy, tx>>

(* The host ACKs the IN transaction: the CPU owns the IN buffer again.      *)
DeliverIn ==
  /\ online /\ inBusy
  /\ inBusy' = FALSE
  /\ UNCHANGED <<flash, userId, mode, configured, outFull, rx, tx>>

SetConfiguration ==
  /\ mode = "boot" /\ ~configured
  /\ configured' = TRUE
  /\ UNCHANGED <<flash, userId, mode, outFull, rx, inBusy, tx>>

(* usb_service() sees URSTIF.                                               *)
BusReset ==
  /\ mode = "boot"
  /\ UsbInit
  /\ UNCHANGED <<flash, userId, mode, tx>>

(* Power fails and returns.  A command may be half way through its effect   *)
(* on the flash; RAM, hence tx, comes back with any contents.               *)
TornFlash ==
  IF CommandReady
    THEN CASE rx.op = "eraseMemory"   -> TornErase(flash, rx.unit \div 2)
           [] rx.op = "programMemory" -> TornProgram(flash, rx.unit, rx.data)
           [] OTHER                   -> {flash}
    ELSE {flash}

TornUserId ==
  IF CommandReady
    THEN CASE rx.op = "eraseConfig"   -> HalfErased(userId)
           [] rx.op = "programConfig" -> HalfProgrammed(userId, rx.data)
           [] OTHER                   -> {userId}
    ELSE {userId}

PowerCycle ==
  /\ flash' \in {flash} \cup TornFlash
  /\ userId' \in {userId} \cup TornUserId
  /\ \E ra3 \in BOOLEAN : mode' = StartedMode(flash', ra3, TRUE)
  /\ \E p \in RamNoise : tx' = [tx EXCEPT !.payload = p]
  /\ UsbInit

(* User code lets its watchdog expire to get back into the bootloader; what *)
(* it did to RAM in the meantime is anybody's guess.                        *)
WatchdogReset ==
  /\ mode = "user"
  /\ \E ra3 \in BOOLEAN : mode' = StartedMode(flash, ra3, FALSE)
  /\ \E p \in RamNoise : tx' = [tx EXCEPT !.payload = p]
  /\ UsbInit
  /\ UNCHANGED <<flash, userId>>

-----------------------------------------------------------------------------
(* The device with an arbitrary host.                                       *)

HostSends  == \E c \in Commands : AcceptOut(c)

ServerNext ==
  \/ HostSends \/ DeliverIn \/ SetConfiguration \/ BusReset
  \/ ExecRead \/ ExecErase \/ ExecProgram \/ ExecOther
  \/ PowerCycle \/ WatchdogReset

(* main() loops for ever, and a host that keeps its driver bound polls EP1  *)
(* IN at every interval and configures the device after a reset.            *)
ServerFairness ==
  /\ WF_deviceVars(Execute)
  /\ WF_deviceVars(DeliverIn)
  /\ WF_deviceVars(SetConfiguration)

ServerSpec == DeviceInit /\ [][ServerNext]_deviceVars /\ ServerFairness

-----------------------------------------------------------------------------
(* Properties.                                                              *)

MemoryAfter(c, m) ==
  CASE c.op = "eraseMemory" ->
         {<<EraseRow(m[1], c.unit \div 2, {2 * (c.unit \div 2) + h : h \in f}), m[2]>> :
            f \in EraseFaults}
    [] c.op = "eraseConfig"   -> {<<m[1], Erased>>}
    [] c.op = "programMemory" -> {<<ProgramUnit(m[1], c.unit, c.data), m[2]>>}
    [] c.op = "programConfig" -> {<<m[1], Programmed(m[2], c.data)>>}
    [] OTHER                  -> {m}

MemoryTorn(c, m) ==
  CASE c.op = "eraseMemory"   -> TornErase(m[1], c.unit \div 2) \X {m[2]}
    [] c.op = "eraseConfig"   -> {m[1]} \X HalfErased(m[2])
    [] c.op = "programMemory" -> TornProgram(m[1], c.unit, c.data) \X {m[2]}
    [] c.op = "programConfig" -> {m[1]} \X HalfProgrammed(m[2], c.data)
    [] OTHER                  -> {m}

(* What of an answer a host can use: all of a read's, the echo of others.   *)
KeyOf(c) == <<c.op, c.unit>>
ShownBy(c, m) ==
  CASE c.op = "readMemory" -> m[1][c.unit]
    [] c.op = "readConfig" -> ConfigWords
    [] OTHER               -> Erased

Pipe == INSTANCE CommandPipe WITH
  Command <- Commands, Key <- KeyOf, Result <- MemoryAfter,
  Shown <- ShownBy, Torn <- MemoryTorn,
  waiting <- IF outFull THEN <<rx>> ELSE <<>>,
  answers <- IF inBusy
               THEN <<[key |-> KeyOf(tx),
                       shown |-> IF tx.op \in {"readMemory", "readConfig"}
                                   THEN tx.payload ELSE Erased]>>
               ELSE <<>>,
  memory <- <<flash, userId>>

(* Each command the device ACKs is executed exactly once, in order, and its *)
(* reply stays intact in TxDataBuffer until the host has fetched it, though *)
(* that buffer is also where the next command's reply is put together and   *)
(* the OUT buffer is re-armed only after the command was carried out; a     *)
(* config command never touches program memory, nor the other way round.    *)
ServesInOrder == Pipe!PipeSpec

(* A command that was ACKed does not wait for ever: it is carried out, or a *)
(* reset discards it.  The command loop takes nothing while a reply is      *)
(* still in the IN buffer, so this rests on the host fetching replies.      *)
CommandsTakenUp == outFull ~> ~outFull

=============================================================================
