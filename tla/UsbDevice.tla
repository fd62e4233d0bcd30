------------------------------ MODULE UsbDevice ------------------------------
(***************************************************************************)
(* usb.c with both of its endpoints: the control requests of                *)
(* ControlEndpoint act on the buffers of DataEndpoint.                      *)
(*                                                                         *)
(* DataEndpoint carries out SET_CONFIGURATION, SET_FEATURE and              *)
(* CLEAR_FEATURE in one step with the host's share in them.  Here the       *)
(* device does its part when handle_ep0_setup() runs and the host does its  *)
(* own when it has seen the status stage; the firmware goes on sending and  *)
(* reading in between.  A host leaves an endpoint alone while it clears or  *)
(* configures it, or halts its OUT side, and it does not give up such a     *)
(* request.  The two endpoints share the USTAT FIFO, PKTDIS and the         *)
(* address.  Read from the copy of usb.c that customHID is built with.      *)
(***************************************************************************)
EXTENDS ControlEndpoint

CONSTANTS Report, NoReport, Recording   \* as in DataEndpoint

ASSUME DeviceAssumption == NoReport \notin Report /\ Recording \in BOOLEAN

VARIABLES
  configured, flags, bdIn, bdOut,                  \* the device's data endpoint
  hostConfigured, inToggle, outToggle, offer,      \* the host's end of it
  received, read, hasIt, stored, breaks            \* its history

Ep1 == INSTANCE DataEndpoint WITH
  newer <- profile.newer, Copies <- BOOLEAN, ConfiguresAgain <- FALSE

ep1Device  == <<configured, flags, bdIn, bdOut>>
ep1Host    == <<hostConfigured, inToggle, outToggle, offer>>
ep1History == <<received, read, hasIt, stored, breaks>>
ep1Vars    == <<ep1Device, ep1Host, ep1History>>
usbVars    == <<vars, ep1Vars>>

(* Everything of endpoint 0 but the FIFO.                                   *)
ep0Rest == <<pktDis, address, addrPending, addr, needZlp, short, direc, ds, dts, halted, bd, hostVars, appVars>>

-----------------------------------------------------------------------------
(* usb_service()                                                            *)

(* The branches of handle_standard_control_request() that concern the data  *)
(* endpoint.                                                                *)
CarryOut(r) ==
  /\ \/ r.kind = "configure" /\ Ep1!SetConfiguration(TRUE)
     \/ r.kind = "haltIn"    /\ Ep1!HaltIn
     \/ r.kind = "clearIn"   /\ Ep1!ClearIn
     \/ r.kind = "haltOut"   /\ Ep1!HaltOut
     \/ r.kind = "clearOut"  /\ Ep1!ClearOut
     \/ r.kind \notin EndpointKind /\ UNCHANGED ep1Device
  /\ IF r.kind \in EndpointKind THEN Ep1!Breaking ELSE UNCHANGED breaks

(* What was in a buffer that is taken back is forgotten.                    *)
Forget(kind) ==
  /\ hasIt'  = (hasIt /\ kind \notin {"haltIn", "clearIn"} /\ ~(kind = "configure" /\ profile.newer))
  /\ stored' = (stored /\ kind \notin {"configure", "haltOut", "clearOut"})

(* handle_ep0_setup()                                                       *)
ServiceSetup ==
  /\ HandleSetup /\ CarryOut(Head(events).req) /\ Forget(Head(events).req.kind)
  /\ UNCHANGED <<ep1Host, received, read>>

(* handle_ep0_out() and handle_ep0_in()                                     *)
ServiceEp0 == HandleEp0 /\ UNCHANGED ep1Vars

(* Mutant: every completed transaction stalls its endpoint.                 *)
ServiceDataStalling ==
  /\ HandleData
  /\ bdIn'  = IF Head(events).dir = "in"  THEN Ep1!Stalled ELSE bdIn
  /\ bdOut' = IF Head(events).dir = "out" THEN Ep1!Stalled ELSE bdOut
  /\ UNCHANGED <<configured, flags, ep1Host, ep1History>>

(* An endpoint that was halted since its transaction is stalled again.      *)
ServiceData ==
  /\ HandleData
  /\ bdIn'  = IF Head(events).dir = "in"  /\ flags.inHalt  THEN Ep1!Stalled ELSE bdIn
  /\ bdOut' = IF Head(events).dir = "out" /\ flags.outHalt THEN Ep1!Stalled ELSE bdOut
  /\ UNCHANGED <<configured, flags, ep1Host, ep1History>>

ServiceAny == ServiceSetup \/ ServiceEp0 \/ ServiceData

(* The rest of the main loop.                                               *)
Firmware ==
  /\ (\E r \in Report : Ep1!FirmwareSends(r)) \/ Ep1!FirmwareReads
  /\ UNCHANGED vars

-----------------------------------------------------------------------------
(* The host.                                                                *)

(* It halts or clears endpoints of a device that is configured, and         *)
(* configures one that is not, or has the newer copy of usb.c.              *)
HostRequests(r) ==
  /\ r.kind \in EndpointKind \ {"configure"} => hostConfigured
  /\ r.kind = "configure" => ~hostConfigured \/ profile.newer
  /\ Setup(r) /\ UNCHANGED ep1Vars

(* It has seen the status stage.                                            *)
Learns(kind) ==
  /\ hostConfigured' = (hostConfigured \/ kind = "configure")
  /\ inToggle'  = IF kind \in {"configure", "clearIn"}  THEN 0 ELSE inToggle
  /\ outToggle' = IF kind \in {"configure", "clearOut"} THEN 0 ELSE outToggle
  /\ offer' = IF kind \in {"configure", "haltOut", "clearOut"} THEN NoReport ELSE offer

Ep0In ==
  /\ InToken
  /\ IF stage' = "idle" THEN Learns(cur.kind) ELSE UNCHANGED ep1Host
  /\ UNCHANGED <<ep1Device, ep1History>>

Ep0Other ==
  /\ InTokenLost \/ InStalled \/ OutToken \/ OutTokenLost \/ GiveUp
  /\ UNCHANGED ep1Vars

Asking(kinds) == stage # "idle" /\ cur.kind \in kinds
InAlone  == Asking({"configure", "clearIn"})
OutAlone == Asking({"configure", "haltOut", "clearOut"})

(* A transaction that moves a buffer to the CPU makes an event.             *)
Completed(direction) == events' = Append(events, [type |-> "data", dir |-> direction])

Ep1In ==
  /\ Hears /\ ~InAlone
  /\ \/ Ep1!InToken /\ Completed("in")
     \/ Ep1!InTokenAckLost /\ UNCHANGED events
  /\ UNCHANGED ep0Rest

Ep1Out ==
  /\ Hears /\ ~OutAlone
  /\ Ep1!OutToken \/ Ep1!OutTokenAckLost
  /\ IF bdOut'.own = "cpu" THEN Completed("out") ELSE UNCHANGED events
  /\ UNCHANGED ep0Rest

Ep1Offers ==
  /\ ~OutAlone /\ \E r \in Report : Ep1!HostOffers(r)
  /\ UNCHANGED vars

Reset == BusReset /\ Ep1!BusReset

-----------------------------------------------------------------------------

DeviceInit == Init /\ Ep1!EndpointInit

DeviceNext ==
  \/ ServiceSetup \/ ServiceEp0 \/ ServiceData
  \/ Firmware
  \/ \E r \in profile.requests : HostRequests(r)
  \/ Ep0In \/ Ep0Other
  \/ Ep1In \/ Ep1Out \/ Ep1Offers
  \/ Reset

(* As in ControlEndpoint; an endpoint that finds the FIFO full tries again. *)
DeviceFairness ==
  /\ WF_usbVars(ServiceAny)
  /\ SF_usbVars(Ep0In \/ (InStalled /\ UNCHANGED ep1Vars))
  /\ SF_usbVars(OutToken /\ UNCHANGED ep1Vars)
  /\ WF_usbVars(halts /\ GiveUp /\ UNCHANGED ep1Vars)

DeviceSpec == DeviceInit /\ [][DeviceNext]_usbVars /\ DeviceFairness

-----------------------------------------------------------------------------
(* Properties.                                                              *)

CarriedOut(kinds) ==
  stage = "statusIn" /\ cur.kind \in kinds /\ \A i \in 1 .. Len(events) : events[i].type # "SETUP"

Endpoint == INSTANCE DataEndpoint WITH
  newer <- profile.newer, Copies <- BOOLEAN, ConfiguresAgain <- FALSE,
  hostConfigured <- hostConfigured \/ CarriedOut({"configure"}),
  inToggle  <- IF CarriedOut({"configure", "clearIn"})  THEN 0 ELSE inToggle,
  outToggle <- IF CarriedOut({"configure", "clearOut"}) THEN 0 ELSE outToggle,
  offer <- IF CarriedOut({"configure", "haltOut", "clearOut"}) THEN NoReport ELSE offer

(* A request that halts, clears or configures the data endpoint takes       *)
(* effect for both sides as if at once, when handle_ep0_setup() carries it  *)
(* out, whatever the firmware and the host have on the way at the time:     *)
(* no packet sent before it is taken for one sent after, and an event that  *)
(* is handled late does not undo it.                                        *)
RequestsAreAtomic == Endpoint!EndpointInit /\ [][Endpoint!EndpointNext]_(Endpoint!endpointVars)

(* So the reports of the data endpoint are delivered once, in order, while   *)
(* control requests come and go on endpoint 0.                              *)
ReportsGetThroughOnce == Endpoint!DeliversOnce

(* Both are proved in UsbDeviceTheorems for hosts that do not give up such  *)
(* a request.                                                               *)
SeesThrough(p) == p.givesUp \cap EndpointKind = {}
=============================================================================
