---------------------------- MODULE DataEndpoint ----------------------------
(***************************************************************************)
(* A data endpoint number of usb.c, without ping-pong buffers: its two      *)
(* buffer descriptors, its flags byte, and the host at the other end.       *)
(*                                                                         *)
(* Both sides keep a data toggle for each direction.  A receiver drops a    *)
(* packet with the wrong toggle and still acknowledges it, so that a packet *)
(* repeated after a lost ACK is taken once; for the same reason a packet is *)
(* lost when the two sides disagree.  A descriptor is owned by the CPU, by  *)
(* the serial interface engine (sie), or by the engine in order to answer   *)
(* with STALL.                                                              *)
(*                                                                         *)
(* Control requests are carried out here in one step: ControlEndpoint has   *)
(* their stages, and a host does not use an endpoint while it halts, clears *)
(* or configures it.  The firmware is any that tests usb_is_configured(),   *)
(* usb_in_endpoint_halted() and usb_in_endpoint_busy() before it sends, and *)
(* usb_out_endpoint_has_data() before it reads, as all of the repository's  *)
(* do, and that calls usb_service() between whole turns of its main loop.   *)
(***************************************************************************)
EXTENDS Integers, Sequences

CONSTANTS
  Report, NoReport,   \* what the two ends send
  Copies,             \* the copies of usb.c: is it the newer one, minimalCDC's?
  ConfiguresAgain,    \* the host may set the configuration of a device that is
                      \* configured, with the older copies too
  Recording           \* received, read and breaks are kept

ASSUME EndpointAssumption ==
  /\ NoReport \notin Report
  /\ Copies \subseteq BOOLEAN /\ ConfiguresAgain \in BOOLEAN /\ Recording \in BOOLEAN

VARIABLES
  newer,               \* the copy of usb.c in use; never changes
  \* the device
  configured,          \* g_configuration > 0
  flags,               \* ep_buf[].flags
  bdIn, bdOut,         \* BDSnIN, BDSnOUT
  \* the host
  hostConfigured, inToggle, outToggle,
  offer,               \* the report it is sending
  \* history
  received,            \* the last report the host took, and a bit that flips with each
  read,                \* the last report the firmware read, and a bit that flips with each
  hasIt,               \* the host has taken the packet in bdIn
  stored,              \* the device has stored the offer
  breaks               \* flips with each reset, configuration, halt or clear

deviceVars == <<configured, flags, bdIn, bdOut>>
hostVars   == <<hostConfigured, inToggle, outToggle, received, offer>>
movingVars == <<deviceVars, hostVars, read, hasIt, stored, breaks>>
endpointVars == <<newer, movingVars>>

Toggle == {0, 1}
Flags  == [rxDts : Toggle, txDts : Toggle, inHalt : BOOLEAN, outHalt : BOOLEAN]
Bd     == [own : {"cpu", "sie", "stall"}, dts : Toggle, data : Report \cup {NoReport}]
Arrival == [data : Report \cup {NoReport}, bit : Toggle]

EndpointTypeOK ==
  /\ newer \in BOOLEAN /\ configured \in BOOLEAN /\ flags \in Flags /\ bdIn \in Bd /\ bdOut \in Bd
  /\ hostConfigured \in BOOLEAN /\ inToggle \in Toggle /\ outToggle \in Toggle
  /\ received \in Arrival /\ offer \in Report \cup {NoReport} /\ read \in Arrival
  /\ hasIt \in BOOLEAN /\ stored \in BOOLEAN /\ breaks \in {0, 1}

-----------------------------------------------------------------------------
(* usb.c                                                                    *)

Idle      == [own |-> "cpu", dts |-> 0, data |-> NoReport]
Stalled   == [own |-> "stall", dts |-> 0, data |-> NoReport]
Armed(bit, r) == [own |-> "sie", dts |-> bit, data |-> r]

(* usb_init(): endpoints 1 and up.  EP_RX_DTS is the toggle of the packet   *)
(* after the one the OUT buffer is armed for.                               *)
InitFlags == [rxDts |-> 1, txDts |-> 0, inHalt |-> FALSE, outHalt |-> FALSE]
InitEndpoints == flags' = InitFlags /\ bdIn' = Idle /\ bdOut' = Armed(0, NoReport)
UsbInit == configured' = FALSE /\ InitEndpoints

(* Mutant: newer or older, it leaves the endpoints alone.                   *)
SetConfigurationOnly(c) == configured' = c /\ UNCHANGED <<flags, bdIn, bdOut>>

(* The branch for SET_CONFIGURATION touches g_configuration only; in the    *)
(* newer copy it initialises the endpoints as well.                         *)
SetConfiguration(c) ==
  /\ configured' = c
  /\ IF newer THEN InitEndpoints ELSE UNCHANGED <<flags, bdIn, bdOut>>

(* Mutant: the flag is not set.                                             *)
HaltInUnflagged == bdIn' = Stalled /\ UNCHANGED <<flags, configured, bdOut>>

(* SET_FEATURE(ENDPOINT_HALT)                                               *)
HaltIn  == flags' = [flags EXCEPT !.inHalt = TRUE]  /\ bdIn' = Stalled  /\ UNCHANGED <<configured, bdOut>>
HaltOut == flags' = [flags EXCEPT !.outHalt = TRUE] /\ bdOut' = Stalled /\ UNCHANGED <<configured, bdIn>>

(* Mutant: EP_TX_DTS stays.                                                 *)
ClearInKeepingToggle ==
  flags' = [flags EXCEPT !.inHalt = FALSE] /\ bdIn' = Idle /\ UNCHANGED <<configured, bdOut>>

(* CLEAR_FEATURE(ENDPOINT_HALT), whether or not the endpoint is halted.     *)
ClearIn ==
  /\ flags' = [flags EXCEPT !.inHalt = FALSE, !.txDts = 0]
  /\ bdIn' = Idle /\ UNCHANGED <<configured, bdOut>>

(* Mutant: the buffer stays stalled.                                        *)
ClearOutNotArming ==
  /\ flags' = [flags EXCEPT !.outHalt = FALSE, !.rxDts = 1]
  /\ UNCHANGED <<configured, bdIn, bdOut>>

ClearOut ==
  /\ flags' = [flags EXCEPT !.outHalt = FALSE, !.rxDts = 1]
  /\ bdOut' = Armed(0, NoReport) /\ UNCHANGED <<configured, bdIn>>

(* The tests before usb_send_in_buffer(), with those inside of it.  UOWN is *)
(* set in a stalled descriptor too.                                         *)
MaySend == configured /\ ~flags.inHalt /\ bdIn.own = "cpu"

(* usb_send_in_buffer()                                                     *)
SendInBuffer(r) ==
  /\ bdIn' = Armed(flags.txDts, r)
  /\ flags' = [flags EXCEPT !.txDts = 1 - @]
  /\ UNCHANGED <<configured, bdOut>>

(* usb_out_endpoint_has_data()                                              *)
HasData == configured /\ bdOut.own = "cpu"

(* usb_arm_out_endpoint()                                                   *)
ArmOut ==
  /\ bdOut' = Armed(flags.rxDts, NoReport)
  /\ flags' = [flags EXCEPT !.rxDts = 1 - @]
  /\ UNCHANGED <<configured, bdIn>>

-----------------------------------------------------------------------------
(* The firmware.                                                            *)

Arrives(r, before) == IF Recording THEN [data |-> r, bit |-> 1 - before.bit] ELSE before

FirmwareSends(r) ==
  /\ MaySend /\ SendInBuffer(r) /\ hasIt' = FALSE
  /\ UNCHANGED <<hostVars, read, stored, breaks>>

(* It reads the OUT buffer and arms it again.                               *)
FirmwareReads ==
  /\ HasData /\ ArmOut /\ read' = Arrives(bdOut.data, read)
  /\ UNCHANGED <<hostVars, hasIt, stored, breaks>>

-----------------------------------------------------------------------------
(* The wire.                                                                *)

(* The host's share of an IN transaction.                                   *)
HostIsDue == bdIn.dts = inToggle

HostTakesIn ==
  IF HostIsDue
    THEN received' = Arrives(bdIn.data, received) /\ inToggle' = 1 - inToggle
    ELSE UNCHANGED <<received, inToggle>>

InToken ==
  /\ hostConfigured /\ bdIn.own = "sie"
  /\ HostTakesIn /\ bdIn' = Idle /\ hasIt' = FALSE
  /\ UNCHANGED <<configured, flags, bdOut, hostConfigured, outToggle, offer, read, stored, breaks>>

InTokenAckLost ==
  /\ hostConfigured /\ bdIn.own = "sie"
  /\ HostTakesIn /\ hasIt' = (hasIt \/ HostIsDue)
  /\ UNCHANGED <<deviceVars, hostConfigured, outToggle, offer, read, stored, breaks>>

HostOffers(r) ==
  /\ hostConfigured /\ offer = NoReport
  /\ offer' = r /\ stored' = FALSE
  /\ UNCHANGED <<deviceVars, hostConfigured, inToggle, outToggle, received, read, hasIt, breaks>>

(* The engine's share of an OUT transaction.                                *)
EngineIsDue == bdOut.dts = outToggle

EngineTakesOut ==
  bdOut' = IF EngineIsDue THEN [own |-> "cpu", dts |-> outToggle, data |-> offer] ELSE bdOut

OutToken ==
  /\ hostConfigured /\ offer # NoReport /\ bdOut.own = "sie"
  /\ EngineTakesOut /\ stored' = FALSE /\ offer' = NoReport /\ outToggle' = 1 - outToggle
  /\ UNCHANGED <<configured, flags, bdIn, hostConfigured, inToggle, received, read, hasIt, breaks>>

OutTokenAckLost ==
  /\ hostConfigured /\ offer # NoReport /\ bdOut.own = "sie"
  /\ EngineTakesOut /\ stored' = (stored \/ EngineIsDue)
  /\ UNCHANGED <<configured, flags, bdIn, hostVars, read, hasIt, breaks>>

-----------------------------------------------------------------------------
(* The host breaks the pipe.                                                *)

Breaking == breaks' = IF Recording THEN 1 - breaks ELSE breaks

BusReset ==
  /\ UsbInit
  /\ hostConfigured' = FALSE /\ inToggle' = 0 /\ outToggle' = 0 /\ offer' = NoReport
  /\ Breaking /\ hasIt' = FALSE /\ stored' = FALSE /\ UNCHANGED <<received, read>>

HostConfigures(c) ==
  /\ hostConfigured => newer \/ ConfiguresAgain
  /\ ~hostConfigured => c
  /\ SetConfiguration(c)
  /\ hostConfigured' = c /\ inToggle' = 0 /\ outToggle' = 0 /\ offer' = NoReport
  /\ Breaking /\ hasIt' = (hasIt /\ ~newer) /\ stored' = FALSE /\ UNCHANGED <<received, read>>

HostHaltsIn ==
  /\ hostConfigured /\ HaltIn
  /\ Breaking /\ hasIt' = FALSE /\ UNCHANGED <<hostVars, read, stored>>

HostClearsIn ==
  /\ hostConfigured /\ ClearIn /\ inToggle' = 0
  /\ Breaking /\ hasIt' = FALSE
  /\ UNCHANGED <<hostConfigured, outToggle, received, offer, read, stored>>

(* What the host was sending when it meets the STALL has failed.            *)
HostHaltsOut ==
  /\ hostConfigured /\ HaltOut /\ offer' = NoReport
  /\ Breaking /\ stored' = FALSE
  /\ UNCHANGED <<hostConfigured, inToggle, outToggle, received, read, hasIt>>

HostClearsOut ==
  /\ hostConfigured /\ ClearOut /\ outToggle' = 0 /\ offer' = NoReport
  /\ Breaking /\ stored' = FALSE
  /\ UNCHANGED <<hostConfigured, inToggle, received, read, hasIt>>

HostBreaks ==
  \/ BusReset \/ \E c \in BOOLEAN : HostConfigures(c)
  \/ HostHaltsIn \/ HostClearsIn \/ HostHaltsOut \/ HostClearsOut

-----------------------------------------------------------------------------

EndpointInit ==
  /\ newer \in Copies
  /\ configured = FALSE /\ flags = InitFlags /\ bdIn = Idle /\ bdOut = Armed(0, NoReport)
  /\ hostConfigured = FALSE /\ inToggle = 0 /\ outToggle = 0
  /\ received = [data |-> NoReport, bit |-> 0] /\ offer = NoReport
  /\ read = [data |-> NoReport, bit |-> 0]
  /\ hasIt = FALSE /\ stored = FALSE /\ breaks = 0

EndpointStep ==
  \/ \E r \in Report : FirmwareSends(r) \/ HostOffers(r)
  \/ FirmwareReads
  \/ InToken \/ InTokenAckLost \/ OutToken \/ OutTokenAckLost
  \/ BusReset \/ (\E c \in BOOLEAN : HostConfigures(c))
  \/ HostHaltsIn \/ HostClearsIn \/ HostHaltsOut \/ HostClearsOut

EndpointNext == EndpointStep /\ UNCHANGED newer

(* The main loop runs for ever, a host repeats what was not answered until  *)
(* a handshake gets through, and clears an endpoint that stalls.            *)
EndpointFairness ==
  /\ WF_movingVars(FirmwareReads)
  /\ SF_movingVars(InToken) /\ SF_movingVars(OutToken)
  /\ WF_movingVars(HostClearsIn /\ flags.inHalt)
  /\ WF_movingVars(HostClearsOut /\ flags.outHalt)
  /\ WF_movingVars(HostConfigures(TRUE))

EndpointSpec == EndpointInit /\ [][EndpointNext]_endpointVars /\ EndpointFairness

-----------------------------------------------------------------------------
(* Properties.                                                              *)

Pipe == INSTANCE ReportPipe WITH
  toHost   <- IF bdIn.own = "sie" /\ ~hasIt THEN <<bdIn.data>> ELSE <<>>,
  taken    <- offer # NoReport /\ stored,
  toDevice <- IF bdOut.own = "cpu" THEN <<bdOut.data>> ELSE <<>>

(* A report is delivered once in either direction, in spite of lost         *)
(* handshakes, and only the host's own breaking of the pipe loses one:      *)
(* EP_TX_DTS and EP_RX_DTS, which flip when a buffer is handed over, never  *)
(* part from the toggles the host keeps, which flip with its transactions.  *)
DeliversOnce == Pipe!PipeSpec

(* A halted endpoint answers every packet with STALL until it is cleared,   *)
(* and no other does: halting takes a buffer from whoever owns it, and the  *)
(* firmware never takes a stalled buffer for its own.                       *)
HaltedMeansStalled ==
  /\ flags.inHalt <=> bdIn.own = "stall"
  /\ flags.outHalt <=> bdOut.own = "stall"

(* What a host offers does not wait for ever, whatever was halted or        *)
(* re-armed in between: there is always a buffer for it in the end.         *)
OffersEnd == offer # NoReport ~> offer = NoReport
=============================================================================
