------------------------- MODULE UsbDeviceTheorems -------------------------
(***************************************************************************)
(* Proofs about UsbDevice, for any packet size, any reports, and any hosts  *)
(* and firmwares, which have to be well-behaved only where a property says  *)
(* how.  What ControlEndpointTheorems has of the control endpoint holds     *)
(* with the data endpoint beside it; and what the requests do to the data   *)
(* endpoint implements DataEndpoint.                                        *)
(***************************************************************************)
EXTENDS UsbDevice, ControlEndpointTheorems

(* To the control endpoint, a step is one of its own, or an event of the    *)
(* data endpoint that comes or goes, or nothing.                            *)
LEMMA DeviceSteps ==
  ASSUME [DeviceNext]_usbVars
  PROVE  [Step]_vars
<1>1. CASE ServiceSetup \/ ServiceEp0 \/ ServiceData
  BY <1>1 DEF ServiceSetup, ServiceEp0, ServiceData, Step, Next, Service
<1>2. CASE Firmware \/ Ep1Offers
  BY <1>2 DEF Firmware, Ep1Offers
<1>3. CASE \E r \in profile.requests : HostRequests(r)
  BY <1>3 DEF HostRequests, Step, Next
<1>4. CASE Ep0In \/ Ep0Other
  BY <1>4 DEF Ep0In, Ep0Other, Step, Next
<1>5. CASE Ep1In \/ Ep1Out
  <2>1. /\ Hears /\ UNCHANGED ep0Rest
        /\ Completed("in") \/ Completed("out") \/ UNCHANGED events
    BY <1>5 DEF Ep1In, Ep1Out
  <2>2. UNCHANGED <<pktDis, address, addrPending, addr, needZlp, short, direc, ds, dts, halted, bd, hostVars, appVars>>
    BY <2>1 DEF ep0Rest
  <2>3. CASE UNCHANGED events
    BY <2>2, <2>3 DEF vars, deviceVars
  <2>4. CASE Completed("in") \/ Completed("out")
    BY <2>1, <2>2, <2>4 DEF Completed, DataEvent, Step
  <2>5. QED  BY <2>1, <2>3, <2>4
<1>6. CASE Reset
  BY <1>6 DEF Reset, Step, Next
<1>7. CASE UNCHANGED usbVars
  BY <1>7 DEF usbVars
<1>8. QED  BY <1>1, <1>2, <1>3, <1>4, <1>5, <1>6, <1>7 DEF DeviceNext

LEMMA DeviceKeepsControl == DeviceSpec => []ControlInv
<1>1. DeviceInit => ControlInv
  BY InitInv DEF DeviceInit
<1>2. ControlInv /\ [DeviceNext]_usbVars => ControlInv'
  BY DeviceSteps, StepInv
<1>3. QED  BY <1>1, <1>2, PTL DEF DeviceSpec

(* A read that ends well brought the bytes it should, and all of them, over *)
(* any number of packets, repeated after a lost ACK or not, though          *)
(* handle_ep0_in() runs behind the host, and whatever transfers were given  *)
(* up half way before.                                                      *)
THEOREM ReadsCorrect == DeviceSpec => []ReadsIntact
<1>1. ControlInv => ReadsIntact
  BY ControlFacts
<1>2. QED  BY <1>1, DeviceKeepsControl, PTL

(* The STALL that handle_ep0_setup() or handle_ep0_out() left in the buffer *)
(* is met by the request it was meant for, and a request that was refused   *)
(* is never seen to succeed, unless the ACK of a write is lost.             *)
THEOREM StallsCorrect ==
  ASSUME \A p \in Profiles : LosesNoWrite(p)
  PROVE  DeviceSpec => []StallsMatch
<1>1. ControlInv => StallsMatch
  BY ControlFacts DEF NoWriteLost
<1>2. QED  BY <1>1, DeviceKeepsControl, PTL

(* handle_ep0_in() gives the device a new address after the host has seen   *)
(* the status stage of SET_ADDRESS, and the two only disagree until then,   *)
(* where the host sees that stage through.                                  *)
THEOREM AddressCorrect ==
  ASSUME \A p \in Profiles : CompletesAddress(p)
  PROVE  DeviceSpec => []AddressesAgree
<1>1. ControlInv => AddressesAgree
  BY ControlFacts DEF AddressesCompleted
<1>2. QED  BY <1>1, DeviceKeepsControl, PTL

(* However a transfer ends, the application's callback is called once for   *)
(* it, or dropped by a bus reset, before the next is begun, where hosts are *)
(* orderly.                                                                 *)
THEOREM CallbacksCorrect ==
  ASSUME \A p \in Profiles : Orderly(p)
  PROVE  DeviceSpec => []OneCallbackEach
<1>1. ControlInv => OneCallbackEach
  BY ControlFacts DEF AllOrderly
<1>2. QED  BY <1>1, DeviceKeepsControl, PTL

(* It is called, as usb.h:275 promises, where no bus reset meets a firmware *)
(* with callbacks: usb_init() calls none.                                   *)
THEOREM CalledBackCorrect ==
  ASSUME \A p \in Profiles : Orderly(p) /\ Uninterrupted(p)
  PROVE  DeviceSpec => []CalledBackFirst
<1>1. AllOrderly /\ \A p \in Profiles : Uninterrupted(p)
  BY DEF AllOrderly
<1>2. DeviceInit => LostInv
  BY DEF DeviceInit, Init, LostInv
<1>3. ControlInv /\ LostInv /\ [DeviceNext]_usbVars => LostInv'
  BY LostStep, DeviceSteps
<1>4. ControlInv /\ LostInv => CalledBackFirst
  BY <1>1, NothingLost
<1>5. QED  BY <1>2, <1>3, <1>4, DeviceKeepsControl, PTL DEF DeviceSpec

(* A write the host saw acknowledged is in the application's buffer, whole  *)
(* and unspoiled, where writes fit it and no ACK of one is lost.            *)
THEOREM WritesCorrect ==
  ASSUME \A p \in Profiles : WritesFit(p)
  PROVE  DeviceSpec => []WritesIntact
<1>1. ControlInv => WritesIntact
  BY ControlFacts DEF AllWritesFit
<1>2. QED  BY <1>1, DeviceKeepsControl, PTL

-----------------------------------------------------------------------------
(* The data endpoint under the requests.                                    *)

DeviceTypes ==
  /\ hostConfigured \in BOOLEAN /\ hasIt \in BOOLEAN /\ stored \in BOOLEAN
  /\ flags \in Ep1!Flags

(* The host asks what it may ask, and a halted endpoint is stalled.         *)
Asks ==
  /\ stage # "idle" /\ cur.kind \in EndpointKind \ {"configure"} => hostConfigured
  /\ pktDis /\ stage # "idle" /\ cur.kind = "configure" => ~hostConfigured \/ profile.newer

Halts ==
  /\ flags.inHalt => bdIn = Ep1!Stalled
  /\ flags.outHalt => bdOut = Ep1!Stalled

AllSeeThrough == \A p \in Profiles : SeesThrough(p)

DeviceInv == ControlInv /\ DeviceTypes /\ Asks /\ Halts /\ AllSeeThrough

(* When a request is carried out, in terms of PKTDIS.                       *)
IsCarriedOut(kinds) == stage = "statusIn" /\ cur.kind \in kinds /\ ~pktDis

LEMMA CarriedOutIs ==
  ASSUME ControlInv, NEW kinds
  PROVE  CarriedOut(kinds) <=> IsCarriedOut(kinds)
BY DEF ControlInv, QueueInv, IsCarriedOut, CarriedOut, HasSetup, Waiting

LEMMA CarriedOutThen ==
  ASSUME ControlInv', NEW kinds
  PROVE  CarriedOut(kinds)' <=> IsCarriedOut(kinds)'
BY DEF ControlInv, QueueInv, IsCarriedOut, CarriedOut, HasSetup, Waiting

(* What the requests do to flags and to the stalled buffers.                *)
LEMMA CarryOutInv ==
  ASSUME DeviceTypes, Halts, NEW r, CarryOut(r)
  PROVE  flags' \in Ep1!Flags /\ Halts'
<1> USE DEF DeviceTypes, Halts
<1>1. Ep1!InitFlags \in Ep1!Flags /\ ~Ep1!InitFlags.inHalt /\ ~Ep1!InitFlags.outHalt
  BY DEF Ep1!InitFlags, Ep1!Flags, Ep1!Toggle
<1>2. CASE r.kind = "configure" /\ Ep1!SetConfiguration(TRUE)
  <2>1. CASE profile.newer
    BY <1>1, <1>2, <2>1 DEF Ep1!SetConfiguration, Ep1!InitEndpoints
  <2>2. CASE ~profile.newer
    BY <1>2, <2>2 DEF Ep1!SetConfiguration
  <2>3. QED  BY <2>1, <2>2
<1>3. CASE Ep1!HaltIn
  BY <1>3 DEF Ep1!HaltIn, Ep1!Flags
<1>4. CASE Ep1!ClearIn
  BY <1>4 DEF Ep1!ClearIn, Ep1!Flags, Ep1!Toggle
<1>5. CASE Ep1!HaltOut
  BY <1>5 DEF Ep1!HaltOut, Ep1!Flags
<1>6. CASE Ep1!ClearOut
  BY <1>6 DEF Ep1!ClearOut, Ep1!Flags, Ep1!Toggle
<1>7. CASE UNCHANGED ep1Device
  BY <1>7 DEF ep1Device
<1>8. QED  BY <1>2, <1>3, <1>4, <1>5, <1>6, <1>7 DEF CarryOut

LEMMA DeviceInvInit ==
  ASSUME DeviceInit, AllSeeThrough
  PROVE  DeviceInv
<1>1. ControlInv /\ stage = "idle"
  BY InitInv DEF DeviceInit, Init
<1>2. DeviceTypes
  BY DEF DeviceInit, Ep1!EndpointInit, DeviceTypes, Ep1!InitFlags, Ep1!Flags, Ep1!Toggle
<1>3. Asks
  BY <1>1 DEF Asks
<1>4. Halts
  BY DEF DeviceInit, Ep1!EndpointInit, Ep1!InitFlags, Halts
<1>5. QED  BY <1>1, <1>2, <1>3, <1>4 DEF DeviceInv

(* What usb_service() makes of a data event: nothing, as it turns out.      *)
LEMMA ServiceDataNothing ==
  ASSUME Halts, ServiceData
  PROVE  UNCHANGED ep1Vars
<1>1. bdIn' = bdIn /\ bdOut' = bdOut
  BY DEF Halts, ServiceData
<1>2. QED  BY <1>1 DEF ServiceData, ep1Vars, ep1Device

LEMMA ForgetTypes ==
  ASSUME DeviceTypes, NEW kind, Forget(kind)
  PROVE  /\ hasIt' \in BOOLEAN /\ stored' \in BOOLEAN
         /\ kind \in {"haltIn", "clearIn"} \/ (kind = "configure" /\ profile.newer) => hasIt' = FALSE
         /\ kind \notin {"configure", "haltIn", "clearIn"} \/ (kind = "configure" /\ ~profile.newer) => hasIt' = hasIt
         /\ kind \in {"configure", "haltOut", "clearOut"} => stored' = FALSE
         /\ kind \notin {"configure", "haltOut", "clearOut"} => stored' = stored
BY DEF Forget, DeviceTypes

LEMMA LearnsTypes ==
  ASSUME DeviceTypes, NEW kind, Learns(kind)
  PROVE  /\ hostConfigured' \in BOOLEAN
         /\ kind = "configure" => hostConfigured' = TRUE
         /\ kind # "configure" => hostConfigured' = hostConfigured
BY DEF Learns, DeviceTypes

LEMMA DeviceInvNext ==
  ASSUME DeviceInv, [DeviceNext]_usbVars
  PROVE  DeviceInv'
<1> USE DEF DeviceTypes, Halts
<1>1. ControlInv'
  BY DeviceSteps, StepInv DEF DeviceInv
<1>3. DeviceTypes /\ Asks /\ Halts
  BY DEF DeviceInv
<1>4. SUFFICES DeviceTypes' /\ Asks' /\ Halts'
  BY <1>1 DEF DeviceInv
<1>5. CASE ServiceSetup
  <2>1. pktDis' = FALSE /\ UNCHANGED <<cur, stage, hostConfigured, profile>>
    BY <1>5 DEF ServiceSetup, HandleSetup, hostVars, ep1Host
  <2>2. hasIt' \in BOOLEAN /\ stored' \in BOOLEAN /\ flags' \in Ep1!Flags /\ Halts'
    BY <1>3, <1>5, CarryOutInv, ForgetTypes DEF ServiceSetup
  <2>3. QED  BY <1>3, <2>1, <2>2 DEF Asks
<1>6. CASE ServiceEp0
  BY <1>3, <1>6 DEF ServiceEp0, HandleEp0, HandleStatusOut, HandleDataOut, HandleInMore, HandleInZlp, HandleInDone,
                    hostVars, ep1Vars, ep1Device, ep1Host, ep1History, appVars, Asks
<1>7. CASE ServiceData
  BY <1>3, <1>7, ServiceDataNothing
  DEF ServiceData, HandleData, hostVars, appVars, ep1Vars, ep1Device, ep1Host, ep1History, Asks
<1>8. CASE Firmware
  <2>1. UNCHANGED <<cur, stage, pktDis, profile>>
    BY <1>8 DEF Firmware, vars, deviceVars, hostVars, appVars
  <2>2. ASSUME NEW r \in Report, Ep1!FirmwareSends(r)
        PROVE  DeviceTypes' /\ Halts' /\ hostConfigured' = hostConfigured
    <3>1. /\ flags' = [flags EXCEPT !.txDts = 1 - flags.txDts] /\ ~flags.inHalt
          /\ hasIt' = FALSE /\ UNCHANGED <<hostConfigured, stored, bdOut>>
      BY <2>2 DEF Ep1!FirmwareSends, Ep1!MaySend, Ep1!SendInBuffer, Ep1!hostVars
    <3>2. flags' \in Ep1!Flags /\ ~flags'.inHalt /\ flags'.outHalt = flags.outHalt
      BY <1>3, <3>1 DEF Ep1!Flags, Ep1!Toggle
    <3>3. hasIt' \in BOOLEAN
      BY <3>1
    <3>4. QED  BY <1>3, <3>1, <3>2, <3>3
  <2>3. ASSUME Ep1!FirmwareReads
        PROVE  DeviceTypes' /\ Halts' /\ hostConfigured' = hostConfigured
    BY <1>3, <2>3 DEF Ep1!FirmwareReads, Ep1!HasData, Ep1!ArmOut, Ep1!hostVars, Ep1!Flags, Ep1!Toggle, Ep1!Stalled
  <2>4. QED  BY <1>3, <1>8, <2>1, <2>2, <2>3 DEF Firmware, Asks
<1>9. ASSUME NEW r \in profile.requests, HostRequests(r)
      PROVE  DeviceTypes' /\ Asks' /\ Halts'
  BY <1>3, <1>9 DEF HostRequests, Setup, appVars, ep1Vars, ep1Device, ep1Host, ep1History, Asks
<1>10. CASE Ep0In
  <2>1. /\ pktDis' = pktDis /\ ~pktDis /\ UNCHANGED <<cur, profile>> /\ stage # "idle"
        /\ UNCHANGED <<hasIt, stored, flags, bdIn, bdOut>>
    BY <1>10 DEF Ep0In, InToken, Hears, appVars, ep1Device, ep1History
  <2>2. stage' # "idle" => hostConfigured' = hostConfigured
    BY <1>10 DEF Ep0In, ep1Host
  <2>3. hostConfigured' \in BOOLEAN
    BY <1>3, <1>10, LearnsTypes DEF Ep0In, ep1Host
  <2>4. QED  BY <1>3, <2>1, <2>2, <2>3 DEF Asks
<1>11. CASE Ep0Other
  <2>1. UNCHANGED <<cur, pktDis, profile>> /\ (stage' # "idle" => stage # "idle")
    BY <1>11 DEF Ep0Other, InTokenLost, HostTakes, InStalled, OutToken, OutTokenLost, GiveUp, hostVars, appVars, deviceVars
  <2>2. UNCHANGED <<hostConfigured, hasIt, stored, flags, bdIn, bdOut>>
    BY <1>11 DEF Ep0Other, ep1Vars, ep1Device, ep1Host, ep1History
  <2>3. QED  BY <1>3, <2>1, <2>2 DEF Asks
<1>12. CASE Ep1In
  <2>1. UNCHANGED <<cur, stage, pktDis, profile>>
    BY <1>12 DEF Ep1In, ep0Rest, hostVars, appVars
  <2>2. ASSUME Ep1!InToken \/ Ep1!InTokenAckLost
        PROVE  DeviceTypes' /\ Halts' /\ hostConfigured' = hostConfigured
    <3>1. hasIt' \in BOOLEAN
      BY <1>3, <2>2 DEF Ep1!InToken, Ep1!InTokenAckLost, Ep1!HostIsDue
    <3>2. QED  BY <1>3, <2>2, <3>1 DEF Ep1!InToken, Ep1!InTokenAckLost, Ep1!deviceVars, Ep1!Stalled
  <2>3. QED  BY <1>3, <1>12, <2>1, <2>2 DEF Ep1In, Asks
<1>13. CASE Ep1Out
  <2>1. UNCHANGED <<cur, stage, pktDis, profile>>
    BY <1>13 DEF Ep1Out, ep0Rest, hostVars, appVars
  <2>2. ASSUME Ep1!OutToken \/ Ep1!OutTokenAckLost
        PROVE  DeviceTypes' /\ Halts' /\ hostConfigured' = hostConfigured
    <3>1. stored' \in BOOLEAN
      BY <1>3, <2>2 DEF Ep1!OutToken, Ep1!OutTokenAckLost, Ep1!EngineIsDue
    <3>2. ~flags.outHalt
      BY <1>3, <2>2 DEF Ep1!OutToken, Ep1!OutTokenAckLost, Ep1!Stalled
    <3>3. QED  BY <1>3, <2>2, <3>1, <3>2 DEF Ep1!OutToken, Ep1!OutTokenAckLost, Ep1!hostVars
  <2>3. QED  BY <1>3, <1>13, <2>1, <2>2 DEF Ep1Out, Asks
<1>14. CASE Ep1Offers
  <2>1. UNCHANGED <<cur, stage, pktDis, profile>>
    BY <1>14 DEF Ep1Offers, vars, deviceVars, hostVars, appVars
  <2>2. stored' \in BOOLEAN /\ UNCHANGED <<hostConfigured, hasIt, flags, bdIn, bdOut>>
    BY <1>14 DEF Ep1Offers, Ep1!HostOffers, Ep1!deviceVars
  <2>3. QED  BY <1>3, <2>1, <2>2 DEF Asks
<1>15. CASE Reset
  <2>1. pktDis' = FALSE /\ stage' = "idle"
    BY <1>15 DEF Reset, BusReset
  <2>2. /\ flags' = Ep1!InitFlags /\ hostConfigured' = FALSE /\ hasIt' = FALSE /\ stored' = FALSE
    BY <1>15 DEF Reset, Ep1!BusReset, Ep1!UsbInit, Ep1!InitEndpoints
  <2>3. flags' \in Ep1!Flags /\ ~flags'.inHalt /\ ~flags'.outHalt
    BY <2>2 DEF Ep1!InitFlags, Ep1!Flags, Ep1!Toggle
  <2>4. hostConfigured' \in BOOLEAN /\ hasIt' \in BOOLEAN /\ stored' \in BOOLEAN
    BY <2>2
  <2>5. QED  BY <2>1, <2>3, <2>4 DEF Asks
<1>16. CASE UNCHANGED usbVars
  BY <1>3, <1>16
  DEF usbVars, vars, deviceVars, hostVars, appVars, ep1Vars, ep1Device, ep1Host, ep1History, Asks
<1>17. QED
  BY <1>5, <1>6, <1>7, <1>8, <1>9, <1>10, <1>11, <1>12, <1>13, <1>14, <1>15, <1>16 DEF DeviceNext

-----------------------------------------------------------------------------
(* Every step of the device implements a step of DataEndpoint or none.      *)

SameCarriedOut ==
  /\ CarriedOut({"configure"})' <=> CarriedOut({"configure"})
  /\ CarriedOut({"configure", "clearIn"})' <=> CarriedOut({"configure", "clearIn"})
  /\ CarriedOut({"configure", "clearOut"})' <=> CarriedOut({"configure", "clearOut"})
  /\ CarriedOut({"configure", "haltOut", "clearOut"})' <=> CarriedOut({"configure", "haltOut", "clearOut"})

LEMMA CarriedOutSame ==
  ASSUME ControlInv, ControlInv', UNCHANGED <<cur, stage, pktDis>>
  PROVE  SameCarriedOut
BY CarriedOutIs, CarriedOutThen DEF IsCarriedOut, SameCarriedOut

NoneCarriedOut ==
  /\ ~CarriedOut({"configure"})
  /\ ~CarriedOut({"configure", "clearIn"})
  /\ ~CarriedOut({"configure", "clearOut"})
  /\ ~CarriedOut({"configure", "haltOut", "clearOut"})

LEMMA NoneIs ==
  ASSUME ControlInv, stage # "statusIn" \/ pktDis \/ cur.kind \notin EndpointKind
  PROVE  NoneCarriedOut
BY CarriedOutIs DEF IsCarriedOut, NoneCarriedOut, EndpointKind

LEMMA NoneThen ==
  ASSUME ControlInv', stage' # "statusIn" \/ pktDis' \/ cur'.kind \notin EndpointKind
  PROVE  NoneCarriedOut'
BY CarriedOutThen DEF IsCarriedOut, NoneCarriedOut, EndpointKind

LEMMA Stutters ==
  ASSUME UNCHANGED ep1Vars, UNCHANGED profile, SameCarriedOut \/ (NoneCarriedOut /\ NoneCarriedOut')
  PROVE  UNCHANGED Endpoint!endpointVars
<1>1. SameCarriedOut
  BY DEF SameCarriedOut, NoneCarriedOut
<1>2. (hostConfigured \/ CarriedOut({"configure"}))' = (hostConfigured \/ CarriedOut({"configure"}))
  BY <1>1 DEF SameCarriedOut, ep1Vars, ep1Host
<1>3. QED
  BY <1>1, <1>2 DEF SameCarriedOut, ep1Vars, ep1Device, ep1Host, ep1History,
     Endpoint!endpointVars, Endpoint!movingVars, Endpoint!deviceVars, Endpoint!hostVars

LEMMA SetupRefines ==
  ASSUME DeviceInv, ControlInv', ServiceSetup
  PROVE  [Endpoint!EndpointNext]_(Endpoint!endpointVars)
<1> DEFINE kind == cur.kind
<1>1. /\ Head(events).req = cur /\ pktDis /\ pktDis' = FALSE
      /\ UNCHANGED <<cur, stage, hostConfigured, inToggle, outToggle, offer, received, read, profile>>
  <2>1. Takes("SETUP") /\ pktDis' = FALSE /\ UNCHANGED hostVars /\ profile' = profile
    BY DEF ServiceSetup, HandleSetup
  <2>2. Head(events).req = cur /\ pktDis
    BY <2>1, BeforeSetup DEF DeviceInv, ControlInv, QueueInv, Known
  <2>3. QED  BY <2>1, <2>2 DEF ServiceSetup, hostVars, ep1Host
<1>2. CarryOut(cur) /\ Forget(cur.kind)
  BY <1>1 DEF ServiceSetup
<1>3. /\ cur.kind \in EndpointKind => Endpoint!Breaking
      /\ cur.kind \notin EndpointKind => breaks' = breaks
      /\ DeviceTypes /\ Asks
  BY <1>2 DEF CarryOut, DeviceInv, Ep1!Breaking, Endpoint!Breaking
<1>4. NoneCarriedOut
  BY <1>1, NoneIs DEF DeviceInv
<1>5. cur.kind \in EndpointKind => stage = "statusIn"
  <2>1. ControlInv /\ SeesThrough(profile) /\ Takes("SETUP")
    BY Typed DEF DeviceInv, AllSeeThrough, ServiceSetup, HandleSetup
  <2>2. /\ stage = "idle" => cur.kind \in profile.givesUp
        /\ stage # "statusOut"
        /\ stage = "dataIn" => IsIn(cur)
        /\ stage = "dataOut" => IsOut(cur)
    BY <2>1, BeforeSetup
  <2>3. stage \in {"idle", "dataIn", "statusOut", "dataOut", "statusIn"}
    BY <2>1 DEF ControlInv, TypeOK
  <2>4. QED  BY <2>1, <2>2, <2>3 DEF SeesThrough, EndpointKind, IsIn, IsOut
<1>6. \A kinds \in SUBSET EndpointKind : CarriedOut(kinds)' <=> cur.kind \in kinds
  BY <1>1, <1>5, CarriedOutThen DEF IsCarriedOut
<1>7. /\ CarriedOut({"configure"})' <=> cur.kind \in {"configure"}
      /\ CarriedOut({"configure", "clearIn"})' <=> cur.kind \in {"configure", "clearIn"}
      /\ CarriedOut({"configure", "clearOut"})' <=> cur.kind \in {"configure", "clearOut"}
      /\ CarriedOut({"configure", "haltOut", "clearOut"})' <=> cur.kind \in {"configure", "haltOut", "clearOut"}
  BY <1>6 DEF EndpointKind
<1>8. CASE cur.kind = "configure"
  <2>1. Ep1!SetConfiguration(TRUE)
    BY <1>2, <1>8 DEF CarryOut, EndpointKind
  <2>2. stored' = FALSE /\ hasIt' = (hasIt /\ ~profile.newer)
    BY <1>2, <1>8 DEF Forget
  <2>3. hostConfigured => profile.newer
    BY <1>1, <1>3, <1>5, <1>8 DEF Asks, EndpointKind
  <2>4. (hostConfigured \/ CarriedOut({"configure"}))' = TRUE
    BY <1>7, <1>8
  <2>5. Endpoint!HostConfigures(TRUE)
    BY <1>1, <1>3, <1>4, <1>7, <1>8, <2>1, <2>2, <2>3, <2>4
    DEF NoneCarriedOut, Endpoint!HostConfigures, Endpoint!SetConfiguration, Ep1!SetConfiguration,
        Endpoint!InitEndpoints, Ep1!InitEndpoints, Endpoint!InitFlags, Ep1!InitFlags, Endpoint!Idle, Ep1!Idle,
        Endpoint!Armed, Ep1!Armed, EndpointKind
  <2>6. QED  BY <1>1, <2>5 DEF Endpoint!EndpointNext, Endpoint!EndpointStep
<1>9. CASE cur.kind \in {"haltIn", "clearIn", "haltOut", "clearOut"}
  <2>1. hostConfigured
    BY <1>3, <1>5, <1>9 DEF Asks, EndpointKind
  <2>2. ~CarriedOut({"configure"})' /\ ~CarriedOut({"configure"})
    BY <1>4, <1>7, <1>9 DEF NoneCarriedOut
  <2>3. (hostConfigured \/ CarriedOut({"configure"}))' = (hostConfigured \/ CarriedOut({"configure"}))
    BY <1>1, <2>2
  <2>4. CASE cur.kind = "haltIn"
    <3>1. Ep1!HaltIn /\ hasIt' = FALSE /\ stored' = stored
      BY <1>2, <1>3, <2>4, ForgetTypes DEF CarryOut, EndpointKind
    <3>2. Endpoint!HostHaltsIn
      BY <1>1, <1>3, <1>4, <1>7, <2>1, <2>3, <2>4, <3>1
      DEF NoneCarriedOut, Endpoint!HostHaltsIn, Endpoint!HaltIn, Ep1!HaltIn, Endpoint!Stalled, Ep1!Stalled,
          Endpoint!hostVars, EndpointKind
    <3>3. QED  BY <1>1, <3>2 DEF Endpoint!EndpointNext, Endpoint!EndpointStep
  <2>5. CASE cur.kind = "clearIn"
    <3>1. Ep1!ClearIn /\ hasIt' = FALSE /\ stored' = stored
      BY <1>2, <1>3, <2>5, ForgetTypes DEF CarryOut, EndpointKind
    <3>2. Endpoint!HostClearsIn
      BY <1>1, <1>3, <1>4, <1>7, <2>1, <2>3, <2>5, <3>1
      DEF NoneCarriedOut, Endpoint!HostClearsIn, Endpoint!ClearIn, Ep1!ClearIn, Endpoint!Idle, Ep1!Idle,
          EndpointKind
    <3>3. QED  BY <1>1, <3>2 DEF Endpoint!EndpointNext, Endpoint!EndpointStep
  <2>6. CASE cur.kind = "haltOut"
    <3>1. Ep1!HaltOut /\ hasIt' = hasIt /\ stored' = FALSE
      BY <1>2, <1>3, <2>6, ForgetTypes DEF CarryOut, EndpointKind
    <3>2. Endpoint!HostHaltsOut
      BY <1>1, <1>3, <1>4, <1>7, <2>1, <2>3, <2>6, <3>1
      DEF NoneCarriedOut, Endpoint!HostHaltsOut, Endpoint!HaltOut, Ep1!HaltOut, Endpoint!Stalled, Ep1!Stalled,
          EndpointKind
    <3>3. QED  BY <1>1, <3>2 DEF Endpoint!EndpointNext, Endpoint!EndpointStep
  <2>7. CASE cur.kind = "clearOut"
    <3>1. Ep1!ClearOut /\ hasIt' = hasIt /\ stored' = FALSE
      BY <1>2, <1>3, <2>7, ForgetTypes DEF CarryOut, EndpointKind
    <3>2. Endpoint!HostClearsOut
      BY <1>1, <1>3, <1>4, <1>7, <2>1, <2>3, <2>7, <3>1
      DEF NoneCarriedOut, Endpoint!HostClearsOut, Endpoint!ClearOut, Ep1!ClearOut, Endpoint!Armed, Ep1!Armed,
          EndpointKind
    <3>3. QED  BY <1>1, <3>2 DEF Endpoint!EndpointNext, Endpoint!EndpointStep
  <2>8. QED  BY <1>9, <2>4, <2>5, <2>6, <2>7
<1>10. CASE cur.kind \notin EndpointKind
  <2>1. UNCHANGED ep1Device
    BY <1>2, <1>10 DEF CarryOut, EndpointKind
  <2>2. hasIt' = hasIt /\ stored' = stored
    BY <1>2, <1>3, <1>10, ForgetTypes DEF EndpointKind
  <2>3. NoneCarriedOut'
    BY <1>1, <1>10, NoneThen
  <2>4. QED  BY <1>1, <1>3, <1>4, <1>10, <2>1, <2>2, <2>3, Stutters DEF ep1Vars, ep1Host, ep1History
<1>11. QED  BY <1>8, <1>9, <1>10 DEF EndpointKind

(* The host's own part of a request changes nothing that was not already so.*)
LEMMA Ep0InRefines ==
  ASSUME DeviceInv, ControlInv', Ep0In
  PROVE  UNCHANGED Endpoint!endpointVars
<1>1. /\ stage \in {"dataIn", "statusIn"} /\ ~pktDis /\ pktDis' = pktDis /\ UNCHANGED <<cur, profile>>
      /\ UNCHANGED <<ep1Device, ep1History>> /\ HostTakes(bd.packet) /\ ControlInv
  BY DEF Ep0In, InToken, Hears, appVars, DeviceInv
<1>2. CASE stage' # "idle"
  <2>1. UNCHANGED ep1Vars
    BY <1>1, <1>2 DEF Ep0In, ep1Vars
  <2>2. CASE stage' = stage
    BY <1>1, <2>1, <2>2, CarriedOutSame, Stutters
  <2>3. CASE stage' # stage
    <3>1. stage = "dataIn" /\ stage' = "statusOut"
      BY <1>1, <1>2, <2>3 DEF HostTakes
    <3>2. NoneCarriedOut /\ NoneCarriedOut'
      BY <1>1, <3>1, NoneIs, NoneThen
    <3>3. QED  BY <1>1, <2>1, <3>2, Stutters
  <2>4. QED  BY <2>2, <2>3
<1>3. CASE stage' = "idle"
  <2>1. stage = "statusIn"
    BY <1>1, <1>3 DEF HostTakes
  <2>2. Learns(cur.kind) /\ DeviceTypes
    BY <1>3 DEF Ep0In, DeviceInv
  <2>3. NoneCarriedOut'
    BY <1>1, <1>3, NoneThen
  <2>4. \A kinds \in SUBSET EndpointKind : CarriedOut(kinds) <=> cur.kind \in kinds
    BY <1>1, <2>1, CarriedOutIs DEF IsCarriedOut
  <2>5. /\ CarriedOut({"configure"}) <=> cur.kind \in {"configure"}
        /\ CarriedOut({"configure", "clearIn"}) <=> cur.kind \in {"configure", "clearIn"}
        /\ CarriedOut({"configure", "clearOut"}) <=> cur.kind \in {"configure", "clearOut"}
        /\ CarriedOut({"configure", "haltOut", "clearOut"}) <=> cur.kind \in {"configure", "haltOut", "clearOut"}
    BY <2>4 DEF EndpointKind
  <2>6. (hostConfigured \/ CarriedOut({"configure"}))' = (hostConfigured \/ CarriedOut({"configure"}))
    <3>1. CASE cur.kind = "configure"
      BY <2>2, <2>5, <3>1, LearnsTypes
    <3>2. CASE cur.kind # "configure"
      <4>1. hostConfigured' = hostConfigured
        BY <2>2, <3>2, LearnsTypes
      <4>2. ~CarriedOut({"configure"}) /\ ~CarriedOut({"configure"})'
        BY <2>3, <2>5, <3>2 DEF NoneCarriedOut
      <4>3. QED  BY <4>1, <4>2
    <3>3. QED  BY <3>1, <3>2
  <2>7. QED
    BY <1>1, <2>2, <2>3, <2>5, <2>6
    DEF NoneCarriedOut, Learns, ep1Device, ep1History,
        Endpoint!endpointVars, Endpoint!movingVars, Endpoint!deviceVars, Endpoint!hostVars
<1>4. QED  BY <1>2, <1>3

(* The firmware, and the wire of the data endpoint.                         *)
LEMMA DataRefines ==
  ASSUME DeviceInv, ControlInv', Firmware \/ Ep1In \/ Ep1Out \/ Ep1Offers
  PROVE  Endpoint!EndpointNext
<1>1. /\ UNCHANGED <<cur, stage, pktDis, profile>> /\ ControlInv
      /\ SameCarriedOut
  <2>1. UNCHANGED <<cur, stage, pktDis, profile>>
    BY DEF Firmware, Ep1In, Ep1Out, Ep1Offers, ep0Rest, vars, deviceVars, hostVars, appVars
  <2>2. ControlInv
    BY DEF DeviceInv
  <2>3. QED  BY <2>1, <2>2, CarriedOutSame
<1> USE <1>1 DEF SameCarriedOut
<1>2. ASSUME hostConfigured' = hostConfigured
      PROVE  (hostConfigured \/ CarriedOut({"configure"}))' = (hostConfigured \/ CarriedOut({"configure"}))
  BY <1>2
<1>3. CASE Firmware
  <2>1. ASSUME NEW r \in Report, Ep1!FirmwareSends(r)
        PROVE  Endpoint!FirmwareSends(r)
    BY <1>2, <2>1
    DEF Ep1!FirmwareSends, Ep1!MaySend, Ep1!SendInBuffer, Ep1!Armed, Ep1!hostVars,
        Endpoint!FirmwareSends, Endpoint!MaySend, Endpoint!SendInBuffer, Endpoint!Armed, Endpoint!hostVars
  <2>2. ASSUME Ep1!FirmwareReads
        PROVE  Endpoint!FirmwareReads
    BY <1>2, <2>2
    DEF Ep1!FirmwareReads, Ep1!HasData, Ep1!ArmOut, Ep1!Armed, Ep1!Arrives, Ep1!hostVars,
        Endpoint!FirmwareReads, Endpoint!HasData, Endpoint!ArmOut, Endpoint!Armed, Endpoint!Arrives, Endpoint!hostVars
  <2>3. QED  BY <1>3, <2>1, <2>2 DEF Firmware, Endpoint!EndpointNext, Endpoint!EndpointStep
<1>4. CASE Ep1In
  <2>1. ~CarriedOut({"configure", "clearIn"}) /\ ~CarriedOut({"configure"})
    BY <1>4, CarriedOutIs DEF Ep1In, InAlone, Asking, IsCarriedOut
  <2>2. ASSUME Ep1!InToken
        PROVE  Endpoint!InToken
    BY <1>2, <2>1, <2>2
    DEF Ep1!InToken, Ep1!HostTakesIn, Ep1!HostIsDue, Ep1!Arrives, Ep1!Idle,
        Endpoint!InToken, Endpoint!HostTakesIn, Endpoint!HostIsDue, Endpoint!Arrives, Endpoint!Idle
  <2>3. ASSUME Ep1!InTokenAckLost
        PROVE  Endpoint!InTokenAckLost
    BY <1>2, <2>1, <2>3
    DEF Ep1!InTokenAckLost, Ep1!HostTakesIn, Ep1!HostIsDue, Ep1!Arrives, Ep1!deviceVars,
        Endpoint!InTokenAckLost, Endpoint!HostTakesIn, Endpoint!HostIsDue, Endpoint!Arrives, Endpoint!deviceVars
  <2>4. QED  BY <1>4, <2>2, <2>3 DEF Ep1In, Endpoint!EndpointNext, Endpoint!EndpointStep
<1>5. CASE Ep1Out
  <2>1. /\ ~CarriedOut({"configure"}) /\ ~CarriedOut({"configure", "clearOut"})
        /\ ~CarriedOut({"configure", "haltOut", "clearOut"})
    BY <1>5, CarriedOutIs DEF Ep1Out, OutAlone, Asking, IsCarriedOut
  <2>2. ASSUME Ep1!OutToken
        PROVE  Endpoint!OutToken
    BY <1>2, <2>1, <2>2
    DEF Ep1!OutToken, Ep1!EngineTakesOut, Ep1!EngineIsDue,
        Endpoint!OutToken, Endpoint!EngineTakesOut, Endpoint!EngineIsDue
  <2>3. ASSUME Ep1!OutTokenAckLost
        PROVE  Endpoint!OutTokenAckLost
    BY <1>2, <2>1, <2>3
    DEF Ep1!OutTokenAckLost, Ep1!EngineTakesOut, Ep1!EngineIsDue, Ep1!hostVars,
        Endpoint!OutTokenAckLost, Endpoint!EngineTakesOut, Endpoint!EngineIsDue, Endpoint!hostVars
  <2>4. QED  BY <1>5, <2>2, <2>3 DEF Ep1Out, Endpoint!EndpointNext, Endpoint!EndpointStep
<1>6. CASE Ep1Offers
  <2>1. PICK r \in Report : Ep1!HostOffers(r)
    BY <1>6 DEF Ep1Offers
  <2>2. ~CarriedOut({"configure"}) /\ ~CarriedOut({"configure", "haltOut", "clearOut"})
    BY <1>6, CarriedOutIs DEF Ep1Offers, OutAlone, Asking, IsCarriedOut
  <2>3. Endpoint!HostOffers(r)
    BY <1>2, <2>1, <2>2
    DEF Ep1!HostOffers, Ep1!deviceVars, Endpoint!HostOffers, Endpoint!deviceVars
  <2>4. QED  BY <2>3 DEF Endpoint!EndpointNext, Endpoint!EndpointStep
<1>7. QED  BY <1>3, <1>4, <1>5, <1>6

LEMMA ResetRefines ==
  ASSUME ControlInv', Reset
  PROVE  Endpoint!EndpointNext
<1>1. stage' = "idle" /\ profile' = profile /\ Ep1!BusReset
  BY DEF Reset, BusReset
<1>2. NoneCarriedOut'
  BY <1>1, NoneThen
<1>3. hostConfigured' = FALSE
  BY <1>1 DEF Ep1!BusReset
<1>4. (hostConfigured \/ CarriedOut({"configure"}))' = FALSE
  BY <1>2, <1>3 DEF NoneCarriedOut
<1>5. Endpoint!BusReset
  BY <1>1, <1>2, <1>4
  DEF NoneCarriedOut, Ep1!BusReset, Ep1!UsbInit, Ep1!InitEndpoints, Ep1!InitFlags, Ep1!Idle, Ep1!Armed, Ep1!Breaking,
      Endpoint!BusReset, Endpoint!UsbInit, Endpoint!InitEndpoints, Endpoint!InitFlags, Endpoint!Idle, Endpoint!Armed,
      Endpoint!Breaking
<1>6. QED  BY <1>1, <1>5 DEF Endpoint!EndpointNext, Endpoint!EndpointStep

(* What concerns endpoint 0 only.                                           *)
LEMMA OthersStutter ==
  ASSUME DeviceInv, ControlInv',
         \/ ServiceEp0 \/ ServiceData \/ Ep0Other \/ UNCHANGED usbVars
         \/ \E r \in profile.requests : HostRequests(r)
  PROVE  UNCHANGED Endpoint!endpointVars
<1>1. ControlInv /\ Halts /\ SeesThrough(profile)
  BY Typed DEF DeviceInv, AllSeeThrough
<1>2. CASE ServiceEp0 \/ ServiceData \/ UNCHANGED usbVars
  <2>1. UNCHANGED <<cur, stage, pktDis, profile>>
    BY <1>2 DEF ServiceEp0, HandleEp0, HandleStatusOut, HandleDataOut, HandleInMore, HandleInZlp, HandleInDone,
                ServiceData, HandleData, usbVars, vars, deviceVars, hostVars, appVars
  <2>2. UNCHANGED ep1Vars
    BY <1>1, <1>2, ServiceDataNothing DEF ServiceEp0, usbVars
  <2>3. QED  BY <1>1, <2>1, <2>2, CarriedOutSame, Stutters
<1>3. ASSUME NEW r \in profile.requests, HostRequests(r)
      PROVE  UNCHANGED Endpoint!endpointVars
  <2>1. stage = "idle" /\ pktDis' = TRUE /\ profile' = profile /\ UNCHANGED ep1Vars
    BY <1>3 DEF HostRequests, Setup, appVars
  <2>2. NoneCarriedOut /\ NoneCarriedOut'
    BY <1>1, <2>1, NoneIs, NoneThen
  <2>3. QED  BY <2>1, <2>2, Stutters
<1>4. CASE Ep0Other
  <2>1. UNCHANGED <<cur, pktDis, profile>> /\ UNCHANGED ep1Vars
    BY <1>4 DEF Ep0Other, InTokenLost, InStalled, OutToken, OutTokenLost, GiveUp, hostVars, appVars, deviceVars
  <2>2. CASE stage' = stage
    BY <1>1, <2>1, <2>2, CarriedOutSame, Stutters
  <2>3. CASE stage' # stage /\ cur.kind \notin EndpointKind
    BY <1>1, <2>1, <2>3, NoneIs, NoneThen, Stutters
  <2>4. CASE stage' # stage /\ cur.kind \in EndpointKind
    <3>1. ~IsIn(cur) /\ ~IsOut(cur) /\ cur.kind \in Acknowledged
      BY <2>4 DEF IsIn, IsOut, EndpointKind, Acknowledged
    <3>2. stage \in {"idle", "statusIn"}
      BY <1>1, <3>1 DEF ControlInv, HostInv, TypeOK
    <3>3. InStalled /\ stage = "statusIn" /\ stage' = "idle"
      BY <1>1, <1>4, <2>4, <3>2 DEF Ep0Other, InTokenLost, InStalled, OutToken, OutTokenLost, GiveUp, SeesThrough
    <3>4. Known /\ bd.owner = "stall"
      BY <1>1, <3>3, HearsFacts DEF InStalled
    <3>5. bd = Status
      BY <1>1, <3>1, <3>3, <3>4 DEF ControlInv, AnswerInv
    <3>6. QED  BY <3>4, <3>5, BdTypes
  <2>5. QED  BY <2>2, <2>3, <2>4
<1>5. QED  BY <1>2, <1>3, <1>4

LEMMA InitRefines ==
  ASSUME DeviceInit
  PROVE  Endpoint!EndpointInit
<1>1. ControlInv /\ stage = "idle" /\ profile \in Profiles
  BY InitInv DEF DeviceInit, Init
<1>2. NoneCarriedOut /\ profile.newer \in BOOLEAN
  BY <1>1, NoneIs, ControlAssumption
<1>3. Ep1!EndpointInit
  BY DEF DeviceInit
<1>4. (hostConfigured \/ CarriedOut({"configure"})) = FALSE
  BY <1>2, <1>3 DEF NoneCarriedOut, Ep1!EndpointInit
<1>5. QED
  BY <1>2, <1>3, <1>4
  DEF NoneCarriedOut, Ep1!EndpointInit, Ep1!InitFlags, Ep1!Idle, Ep1!Armed,
      Endpoint!EndpointInit, Endpoint!InitFlags, Endpoint!Idle, Endpoint!Armed

LEMMA Refines ==
  ASSUME DeviceInv, DeviceInv', [DeviceNext]_usbVars
  PROVE  [Endpoint!EndpointNext]_(Endpoint!endpointVars)
<1>1. ControlInv'
  BY DEF DeviceInv
<1>2. CASE ServiceSetup
  BY <1>1, <1>2, SetupRefines
<1>3. CASE Ep0In
  BY <1>1, <1>3, Ep0InRefines
<1>4. CASE Firmware \/ Ep1In \/ Ep1Out \/ Ep1Offers
  BY <1>1, <1>4, DataRefines
<1>5. CASE Reset
  BY <1>1, <1>5, ResetRefines
<1>6. CASE \/ ServiceEp0 \/ ServiceData \/ Ep0Other \/ UNCHANGED usbVars
           \/ \E r \in profile.requests : HostRequests(r)
  BY <1>1, <1>6, OthersStutter
<1>7. QED  BY <1>2, <1>3, <1>4, <1>5, <1>6 DEF DeviceNext

(* DataEndpoint, in which a request that halts, clears or configures an     *)
(* endpoint is one step of both sides, is what usb.c implements: though     *)
(* handle_ep0_setup() acts on the buffers at one time and the host learns   *)
(* of it at another, with packets and their events on the way in between,   *)
(* no step of either shows.  A halted endpoint keeps its STALL through      *)
(* events that are handled late.                                            *)
THEOREM RequestsAtomic ==
  ASSUME \A p \in Profiles : SeesThrough(p)
  PROVE  DeviceSpec => RequestsAreAtomic
<1>1. DeviceInit => DeviceInv /\ Endpoint!EndpointInit
  BY DeviceInvInit, InitRefines DEF AllSeeThrough
<1>2. DeviceInv /\ [DeviceNext]_usbVars => DeviceInv'
  BY DeviceInvNext
<1>3. DeviceInv /\ DeviceInv' /\ [DeviceNext]_usbVars => [Endpoint!EndpointNext]_(Endpoint!endpointVars)
  BY Refines
<1>4. QED  BY <1>1, <1>2, <1>3, PTL DEF DeviceSpec, RequestsAreAtomic

-----------------------------------------------------------------------------
(* What DataEndpoint implements the device does too: Proved is Endpoint,    *)
(* with the theorems about it.                                              *)

Proved == INSTANCE DataEndpointTheorems WITH
  newer <- profile.newer, Copies <- BOOLEAN, ConfiguresAgain <- FALSE,
  hostConfigured <- hostConfigured \/ CarriedOut({"configure"}),
  inToggle  <- IF CarriedOut({"configure", "clearIn"})  THEN 0 ELSE inToggle,
  outToggle <- IF CarriedOut({"configure", "clearOut"}) THEN 0 ELSE outToggle,
  offer <- IF CarriedOut({"configure", "haltOut", "clearOut"}) THEN NoReport ELSE offer

LEMMA ProvedInit ==
  ASSUME Endpoint!EndpointInit
  PROVE  Proved!EndpointInit
BY DEF Endpoint!EndpointInit, Endpoint!InitFlags, Endpoint!Idle, Endpoint!Armed,
       Proved!EndpointInit, Proved!InitFlags, Proved!Idle, Proved!Armed

LEMMA ProvedNext ==
  ASSUME [Endpoint!EndpointNext]_(Endpoint!endpointVars)
  PROVE  [Proved!EndpointNext]_(Proved!endpointVars)
BY DEF Endpoint!FirmwareSends, Endpoint!MaySend, Endpoint!SendInBuffer, Endpoint!Armed, Endpoint!hostVars,
       Endpoint!HostOffers, Endpoint!deviceVars, Endpoint!FirmwareReads, Endpoint!HasData, Endpoint!ArmOut,
       Endpoint!Arrives, Endpoint!InToken, Endpoint!HostTakesIn, Endpoint!HostIsDue, Endpoint!Idle,
       Endpoint!InTokenAckLost, Endpoint!OutToken, Endpoint!EngineTakesOut, Endpoint!EngineIsDue,
       Endpoint!OutTokenAckLost, Endpoint!BusReset, Endpoint!UsbInit, Endpoint!InitEndpoints,
       Endpoint!InitFlags, Endpoint!Breaking, Endpoint!HostConfigures, Endpoint!SetConfiguration,
       Endpoint!HostHaltsIn, Endpoint!HaltIn, Endpoint!Stalled, Endpoint!HostClearsIn, Endpoint!ClearIn,
       Endpoint!HostHaltsOut, Endpoint!HaltOut, Endpoint!HostClearsOut, Endpoint!ClearOut,
       Endpoint!endpointVars, Endpoint!movingVars, Endpoint!EndpointNext, Endpoint!EndpointStep,
       Proved!FirmwareSends, Proved!MaySend, Proved!SendInBuffer, Proved!Armed, Proved!hostVars,
       Proved!HostOffers, Proved!deviceVars, Proved!FirmwareReads, Proved!HasData, Proved!ArmOut,
       Proved!Arrives, Proved!InToken, Proved!HostTakesIn, Proved!HostIsDue, Proved!Idle, Proved!InTokenAckLost,
       Proved!OutToken, Proved!EngineTakesOut, Proved!EngineIsDue, Proved!OutTokenAckLost, Proved!BusReset,
       Proved!UsbInit, Proved!InitEndpoints, Proved!InitFlags, Proved!Breaking, Proved!HostConfigures,
       Proved!SetConfiguration, Proved!HostHaltsIn, Proved!HaltIn, Proved!Stalled, Proved!HostClearsIn,
       Proved!ClearIn, Proved!HostHaltsOut, Proved!HaltOut, Proved!HostClearsOut, Proved!ClearOut,
       Proved!endpointVars, Proved!movingVars, Proved!EndpointNext, Proved!EndpointStep

LEMMA ProvedInvInit ==
  ASSUME Proved!EndpointInit
  PROVE  Proved!EndpointInv /\ Proved!Pipe!PipeInit
BY DeviceAssumption, Proved!EndpointInitInv, Proved!PipeInitially

LEMMA ProvedInvNext ==
  ASSUME Proved!EndpointInv, [Proved!EndpointNext]_(Proved!endpointVars)
  PROVE  /\ Proved!EndpointInv'
         /\ Recording => [Proved!Pipe!PipeNext]_(Proved!Pipe!pipeVars)
<1>1. Proved!ConfiguresOnce
  BY DEF Proved!ConfiguresOnce
<1>2. Proved!EndpointInv'
  BY <1>1, DeviceAssumption, Proved!EndpointInvNext
<1>3. ASSUME Recording  PROVE [Proved!Pipe!PipeNext]_(Proved!Pipe!pipeVars)
  BY <1>1, <1>3, DeviceAssumption, Proved!PipeStep
<1>4. QED  BY <1>2, <1>3

LEMMA PipeInitIs == Proved!Pipe!PipeInit => Endpoint!Pipe!PipeInit
BY DEF Proved!Pipe!PipeInit, Endpoint!Pipe!PipeInit

LEMMA PipeNextIs ==
  ASSUME [Proved!Pipe!PipeNext]_(Proved!Pipe!pipeVars)
  PROVE  [Endpoint!Pipe!PipeNext]_(Endpoint!Pipe!pipeVars)
BY DEF Proved!Pipe!PipeNext, Proved!Pipe!Send, Proved!Pipe!Receive, Proved!Pipe!Offer, Proved!Pipe!Take,
       Proved!Pipe!Confirm, Proved!Pipe!TakeAndConfirm, Proved!Pipe!Read, Proved!Pipe!Break,
       Proved!Pipe!Arrives, Proved!Pipe!pipeVars,
       Endpoint!Pipe!PipeNext, Endpoint!Pipe!Send, Endpoint!Pipe!Receive, Endpoint!Pipe!Offer,
       Endpoint!Pipe!Take, Endpoint!Pipe!Confirm, Endpoint!Pipe!TakeAndConfirm, Endpoint!Pipe!Read,
       Endpoint!Pipe!Break, Endpoint!Pipe!Arrives, Endpoint!Pipe!pipeVars

(* Reports are delivered once and in order in either direction over         *)
(* endpoint 1 while usb_service() handles whatever control requests the     *)
(* host makes on endpoint 0, those that halt, clear or configure endpoint 1 *)
(* among them; only these and a bus reset lose a report.                    *)
THEOREM ReportsCorrect ==
  ASSUME \A p \in Profiles : SeesThrough(p), Recording
  PROVE  DeviceSpec => ReportsGetThroughOnce
<1>1. Endpoint!EndpointInit => Proved!EndpointInv /\ Endpoint!Pipe!PipeInit
  BY ProvedInit, ProvedInvInit, PipeInitIs
<1>2. Proved!EndpointInv /\ [Endpoint!EndpointNext]_(Endpoint!endpointVars) => Proved!EndpointInv'
  BY ProvedNext, ProvedInvNext
<1>3. /\ Proved!EndpointInv /\ Recording /\ [Endpoint!EndpointNext]_(Endpoint!endpointVars)
      => [Endpoint!Pipe!PipeNext]_(Endpoint!Pipe!pipeVars)
  BY ProvedNext, ProvedInvNext, PipeNextIs
<1>4. DeviceSpec => RequestsAreAtomic
  BY RequestsAtomic
<1>5. QED
  BY <1>1, <1>2, <1>3, <1>4, PTL
  DEF RequestsAreAtomic, ReportsGetThroughOnce, Endpoint!DeliversOnce, Endpoint!Pipe!PipeSpec
=============================================================================
