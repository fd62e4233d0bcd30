------------------------ MODULE DataEndpointTheorems ------------------------
(***************************************************************************)
(* Proofs about DataEndpoint, for any set of reports.  Types and halts are  *)
(* right whatever the host does; that reports arrive once rests, with the   *)
(* older copies of usb.c, on a host that sets a configuration only once     *)
(* after a reset (the configured_again run shows what happens otherwise);   *)
(* with the newer copy it may set one at any time.                          *)
(***************************************************************************)
EXTENDS DataEndpoint, TLAPS

(* Everything a step may do.                                                *)
LEMMA EndpointSteps ==
  ASSUME [EndpointNext]_endpointVars
  PROVE  \/ \E r \in Report : FirmwareSends(r)
         \/ \E r \in Report : HostOffers(r)
         \/ FirmwareReads
         \/ InToken \/ InTokenAckLost \/ OutToken \/ OutTokenAckLost
         \/ BusReset \/ (\E c \in BOOLEAN : HostConfigures(c))
         \/ HostHaltsIn \/ HostClearsIn \/ HostHaltsOut \/ HostClearsOut
         \/ UNCHANGED endpointVars
BY DEF EndpointNext, EndpointStep

LEMMA SameCopy ==
  ASSUME [EndpointNext]_endpointVars
  PROVE  newer' = newer
BY DEF EndpointNext, endpointVars

-----------------------------------------------------------------------------
(* Types.                                                                   *)

LEMMA ArrivesType ==
  ASSUME NEW r \in Report \cup {NoReport}, NEW before \in Arrival
  PROVE  Arrives(r, before) \in Arrival
BY DEF Arrives, Arrival, Toggle

LEMMA FlipType == \A t \in Toggle : 1 - t \in Toggle
BY DEF Toggle

LEMMA BdTypes ==
  /\ Idle \in Bd /\ Stalled \in Bd
  /\ \A t \in Toggle, r \in Report \cup {NoReport} : Armed(t, r) \in Bd
BY DEF Idle, Stalled, Armed, Bd, Toggle

LEMMA FlagTypes ==
  /\ InitFlags \in Flags
  /\ \A f \in Flags :
       /\ [f EXCEPT !.inHalt = TRUE] \in Flags /\ [f EXCEPT !.outHalt = TRUE] \in Flags
       /\ [f EXCEPT !.inHalt = FALSE, !.txDts = 0] \in Flags
       /\ [f EXCEPT !.outHalt = FALSE, !.rxDts = 1] \in Flags
BY DEF InitFlags, Flags, Toggle

LEMMA BreakingType ==
  ASSUME breaks \in {0, 1}, Breaking
  PROVE  breaks' \in {0, 1}
BY DEF Breaking

LEMMA EndpointInitType == EndpointInit => EndpointTypeOK
<1> SUFFICES ASSUME EndpointInit PROVE EndpointTypeOK
  OBVIOUS
<1>1. 0 \in Toggle
  BY DEF Toggle
<1>2. [data |-> NoReport, bit |-> 0] \in Arrival
  BY <1>1 DEF Arrival
<1>3. QED  BY <1>1, <1>2, EndpointAssumption, FlagTypes, BdTypes DEF EndpointInit, EndpointTypeOK

LEMMA HostTakesType ==
  ASSUME EndpointTypeOK, HostTakesIn
  PROVE  received' \in Arrival /\ inToggle' \in Toggle
<1>1. CASE HostIsDue
  <2>1. bdIn.data \in Report \cup {NoReport}
    BY DEF EndpointTypeOK, Bd
  <2>2. QED  BY <1>1, <2>1, ArrivesType, FlipType DEF HostTakesIn, EndpointTypeOK
<1>2. CASE ~HostIsDue
  BY <1>2 DEF HostTakesIn, EndpointTypeOK
<1>3. QED  BY <1>1, <1>2

LEMMA EngineTakesType ==
  ASSUME EndpointTypeOK, EngineTakesOut
  PROVE  bdOut' \in Bd
<1>1. CASE EngineIsDue
  <2>1. [own |-> "cpu", dts |-> outToggle, data |-> offer] \in Bd
    BY DEF EndpointTypeOK, Bd
  <2>2. QED  BY <1>1, <2>1 DEF EngineTakesOut, EngineIsDue
<1>2. CASE ~EngineIsDue
  BY <1>2 DEF EndpointTypeOK, EngineTakesOut, EngineIsDue
<1>3. QED  BY <1>1, <1>2

LEMMA EndpointNextType ==
  ASSUME EndpointTypeOK, [EndpointNext]_endpointVars
  PROVE  EndpointTypeOK'
<1> USE DEF EndpointTypeOK, deviceVars, hostVars
<1>1. /\ 0 \in Toggle
      /\ flags.txDts \in Toggle /\ flags.rxDts \in Toggle
      /\ 1 - flags.txDts \in Toggle /\ 1 - flags.rxDts \in Toggle
      /\ bdOut.data \in Report \cup {NoReport}
      /\ newer' \in BOOLEAN
  BY FlipType, SameCopy DEF Flags, Bd, Toggle
<1>2. ASSUME NEW r \in Report, FirmwareSends(r)  PROVE EndpointTypeOK'
  BY <1>1, <1>2, BdTypes DEF FirmwareSends, SendInBuffer, Flags
<1>3. ASSUME NEW r \in Report, HostOffers(r)  PROVE EndpointTypeOK'
  BY <1>1, <1>3 DEF HostOffers
<1>4. CASE FirmwareReads
  BY <1>1, <1>4, BdTypes, ArrivesType DEF FirmwareReads, ArmOut, Flags
<1>5. CASE InToken
  BY <1>1, <1>5, BdTypes, HostTakesType DEF InToken
<1>6. CASE InTokenAckLost
  BY <1>1, <1>6, HostTakesType DEF InTokenAckLost
<1>7. CASE OutToken
  BY <1>1, <1>7, FlipType, EngineTakesType DEF OutToken
<1>8. CASE OutTokenAckLost
  BY <1>1, <1>8, EngineTakesType DEF OutTokenAckLost
<1>9. CASE BusReset
  BY <1>1, <1>9, FlagTypes, BdTypes, BreakingType DEF BusReset, UsbInit, InitEndpoints
<1>10. ASSUME NEW c \in BOOLEAN, HostConfigures(c)  PROVE EndpointTypeOK'
  BY <1>1, <1>10, FlagTypes, BdTypes, BreakingType DEF HostConfigures, SetConfiguration, InitEndpoints
<1>11. CASE HostHaltsIn
  BY <1>1, <1>11, FlagTypes, BdTypes, BreakingType DEF HostHaltsIn, HaltIn
<1>12. CASE HostClearsIn
  BY <1>1, <1>12, FlagTypes, BdTypes, BreakingType DEF HostClearsIn, ClearIn
<1>13. CASE HostHaltsOut
  BY <1>1, <1>13, FlagTypes, BdTypes, BreakingType DEF HostHaltsOut, HaltOut
<1>14. CASE HostClearsOut
  BY <1>1, <1>14, FlagTypes, BdTypes, BreakingType DEF HostClearsOut, ClearOut
<1>15. CASE UNCHANGED endpointVars
  BY <1>15 DEF endpointVars, movingVars
<1>16. QED
  BY EndpointSteps, <1>2, <1>3, <1>4, <1>5, <1>6, <1>7, <1>8, <1>9, <1>10, <1>11, <1>12, <1>13, <1>14, <1>15

(* Every variable of the data endpoint keeps its type.                      *)
THEOREM EndpointTypeCorrect == EndpointSpec => []EndpointTypeOK
<1>1. EndpointTypeOK /\ [EndpointNext]_endpointVars => EndpointTypeOK'
  BY EndpointNextType
<1>2. QED  BY EndpointInitType, <1>1, PTL DEF EndpointSpec

-----------------------------------------------------------------------------
(* Halts.                                                                   *)

LEMMA HaltedNext ==
  ASSUME EndpointTypeOK, HaltedMeansStalled, [EndpointNext]_endpointVars
  PROVE  HaltedMeansStalled'
<1> USE DEF HaltedMeansStalled, EndpointTypeOK, Flags, deviceVars
<1>1. ASSUME NEW r \in Report, FirmwareSends(r)  PROVE HaltedMeansStalled'
  BY <1>1 DEF FirmwareSends, SendInBuffer, MaySend, Armed
<1>2. ASSUME NEW r \in Report, HostOffers(r)  PROVE HaltedMeansStalled'
  BY <1>2 DEF HostOffers
<1>3. CASE FirmwareReads
  BY <1>3 DEF FirmwareReads, ArmOut, HasData, Armed
<1>4. CASE InToken
  BY <1>4 DEF InToken, Idle
<1>5. CASE InTokenAckLost
  BY <1>5 DEF InTokenAckLost
<1>6. CASE OutToken
  BY <1>6 DEF OutToken, EngineTakesOut, EngineIsDue
<1>7. CASE OutTokenAckLost
  BY <1>7 DEF OutTokenAckLost, EngineTakesOut, EngineIsDue
<1>8. CASE BusReset
  BY <1>8 DEF BusReset, UsbInit, InitEndpoints, InitFlags, Idle, Armed
<1>9. ASSUME NEW c \in BOOLEAN, HostConfigures(c)  PROVE HaltedMeansStalled'
  BY <1>9 DEF HostConfigures, SetConfiguration, InitEndpoints, InitFlags, Idle, Armed
<1>10. CASE HostHaltsIn
  BY <1>10 DEF HostHaltsIn, HaltIn, Stalled
<1>11. CASE HostClearsIn
  BY <1>11 DEF HostClearsIn, ClearIn, Idle
<1>12. CASE HostHaltsOut
  BY <1>12 DEF HostHaltsOut, HaltOut, Stalled
<1>13. CASE HostClearsOut
  BY <1>13 DEF HostClearsOut, ClearOut, Armed
<1>14. CASE UNCHANGED endpointVars
  BY <1>14 DEF endpointVars, movingVars
<1>15. QED
  BY EndpointSteps, <1>1, <1>2, <1>3, <1>4, <1>5, <1>6, <1>7, <1>8, <1>9, <1>10, <1>11, <1>12, <1>13, <1>14

(* An endpoint answers with STALL if and only if it is halted.              *)
THEOREM HaltedCorrect == EndpointSpec => []HaltedMeansStalled
<1>1. EndpointInit => HaltedMeansStalled
  BY DEF EndpointInit, HaltedMeansStalled, InitFlags, Idle, Armed
<1>2. HaltedMeansStalled /\ EndpointTypeOK /\ [EndpointNext]_endpointVars => HaltedMeansStalled'
  BY HaltedNext
<1>3. QED  BY <1>1, <1>2, EndpointTypeCorrect, PTL DEF EndpointSpec
-----------------------------------------------------------------------------
(* The inductive invariant of such a host.                                  *)

(* A device that is not configured is as usb_init() left it.                *)
Fresh ==
  /\ flags = InitFlags /\ bdIn = Idle /\ bdOut = Armed(0, NoReport)
  /\ inToggle = 0 /\ outToggle = 0 /\ offer = NoReport

ConfiguredInv == configured = hostConfigured /\ (~configured => Fresh)

(* EP_TX_DTS is the toggle the host expects next; of a packet that is armed *)
(* the host has seen the end if it expects the other toggle.                *)
InInv ==
  /\ bdIn.own = "cpu" => flags.txDts = inToggle
  /\ bdIn.own = "sie" =>
       /\ flags.txDts = 1 - bdIn.dts
       /\ inToggle = IF hasIt THEN 1 - bdIn.dts ELSE bdIn.dts

(* The host is sending again what the device has stored.                    *)
Repeating == offer # NoReport /\ stored

(* EP_RX_DTS is one ahead of the armed buffer, and so is the host unless    *)
(* its report is yet to come, or came and was not acknowledged.             *)
OutInv ==
  /\ bdOut.own # "stall" => flags.rxDts = 1 - bdOut.dts
  /\ bdOut.own = "sie" => outToggle = IF Repeating THEN 1 - bdOut.dts ELSE bdOut.dts
  /\ bdOut.own = "cpu" => outToggle = IF Repeating THEN bdOut.dts ELSE 1 - bdOut.dts

EndpointInv == EndpointTypeOK /\ HaltedMeansStalled /\ ConfiguredInv /\ InInv /\ OutInv

(* The newer copy bears with a host that sets a configuration again; with   *)
(* an older one it must not.                                                *)
ConfiguresOnce == newer \/ ~ConfiguresAgain

LEMMA EndpointInitInv == EndpointInit => EndpointInv
<1> SUFFICES ASSUME EndpointInit PROVE EndpointInv
  OBVIOUS
<1>1. Fresh /\ ConfiguredInv
  BY DEF EndpointInit, Fresh, ConfiguredInv
<1>2. HaltedMeansStalled /\ InInv /\ OutInv
  BY DEF EndpointInit, HaltedMeansStalled, InInv, OutInv, Repeating, InitFlags, Idle, Armed
<1>3. QED  BY <1>1, <1>2, EndpointInitType DEF EndpointInv

(* What a fresh device and a fresh host agree on.                           *)
LEMMA FreshToggles ==
  ASSUME Fresh
  PROVE  InInv /\ OutInv
BY DEF Fresh, InInv, OutInv, Repeating, InitFlags, Idle, Armed

(* A host and a device are fresh after a configuration, the older copies    *)
(* because they were so before it.                                          *)
LEMMA ConfiguredFresh ==
  ASSUME EndpointInv, ConfiguresOnce, NEW c \in BOOLEAN, HostConfigures(c)
  PROVE  Fresh' /\ configured' = hostConfigured'
<1> USE DEF HostConfigures, SetConfiguration, Fresh
<1>1. CASE newer
  BY <1>1 DEF InitEndpoints, InitFlags, Idle, Armed
<1>2. CASE ~newer
  BY <1>2 DEF ConfiguresOnce, EndpointInv, ConfiguredInv, InitFlags, Idle, Armed
<1>3. QED  BY <1>1, <1>2

LEMMA ConfiguredNext ==
  ASSUME EndpointInv, ConfiguresOnce, [EndpointNext]_endpointVars
  PROVE  ConfiguredInv'
<1> USE DEF EndpointInv, ConfiguredInv, deviceVars, hostVars
<1>1. ASSUME NEW r \in Report, FirmwareSends(r)  PROVE ConfiguredInv'
  BY <1>1 DEF FirmwareSends, MaySend, SendInBuffer
<1>2. ASSUME NEW r \in Report, HostOffers(r)  PROVE ConfiguredInv'
  BY <1>2 DEF HostOffers
<1>3. CASE FirmwareReads
  BY <1>3 DEF FirmwareReads, HasData, ArmOut
<1>4. CASE InToken
  BY <1>4 DEF InToken
<1>5. CASE InTokenAckLost
  BY <1>5 DEF InTokenAckLost
<1>6. CASE OutToken
  BY <1>6 DEF OutToken
<1>7. CASE OutTokenAckLost
  BY <1>7 DEF OutTokenAckLost
<1>8. CASE BusReset
  BY <1>8 DEF BusReset, UsbInit, InitEndpoints, Fresh
<1>9. ASSUME NEW c \in BOOLEAN, HostConfigures(c)  PROVE ConfiguredInv'
  BY <1>9, ConfiguredFresh
<1>10. CASE HostHaltsIn
  BY <1>10 DEF HostHaltsIn, HaltIn
<1>11. CASE HostClearsIn
  BY <1>11 DEF HostClearsIn, ClearIn
<1>12. CASE HostHaltsOut
  BY <1>12 DEF HostHaltsOut, HaltOut
<1>13. CASE HostClearsOut
  BY <1>13 DEF HostClearsOut, ClearOut
<1>14. CASE UNCHANGED endpointVars
  BY <1>14 DEF endpointVars, movingVars, Fresh
<1>15. QED
  BY EndpointSteps, <1>1, <1>2, <1>3, <1>4, <1>5, <1>6, <1>7, <1>8, <1>9, <1>10, <1>11, <1>12, <1>13, <1>14

LEMMA InNext ==
  ASSUME EndpointInv, ConfiguresOnce, [EndpointNext]_endpointVars
  PROVE  InInv'
<1> USE DEF EndpointInv, InInv, deviceVars, hostVars
<1>1. /\ flags.txDts \in {0, 1} /\ bdIn.dts \in {0, 1} /\ inToggle \in {0, 1}
      /\ hasIt \in BOOLEAN /\ DOMAIN flags = {"rxDts", "txDts", "inHalt", "outHalt"}
  BY DEF EndpointTypeOK, Flags, Bd, Toggle
<1>2. ASSUME NEW r \in Report, FirmwareSends(r)  PROVE InInv'
  BY <1>1, <1>2 DEF FirmwareSends, MaySend, SendInBuffer, Armed
<1>3. ASSUME NEW r \in Report, HostOffers(r)  PROVE InInv'
  BY <1>3 DEF HostOffers
<1>4. CASE FirmwareReads
  BY <1>1, <1>4 DEF FirmwareReads, ArmOut
<1>5. CASE InToken
  BY <1>1, <1>5 DEF InToken, HostTakesIn, HostIsDue, Idle
<1>6. CASE InTokenAckLost
  BY <1>1, <1>6 DEF InTokenAckLost, HostTakesIn, HostIsDue
<1>7. CASE OutToken
  BY <1>7 DEF OutToken
<1>8. CASE OutTokenAckLost
  BY <1>8 DEF OutTokenAckLost
<1>9. CASE BusReset
  BY <1>9 DEF BusReset, UsbInit, InitEndpoints, InitFlags, Idle
<1>10. ASSUME NEW c \in BOOLEAN, HostConfigures(c)  PROVE InInv'
  BY <1>10, ConfiguredFresh DEF Fresh, InitFlags, Idle
<1>11. CASE HostHaltsIn
  BY <1>11 DEF HostHaltsIn, HaltIn, Stalled
<1>12. CASE HostClearsIn
  BY <1>1, <1>12 DEF HostClearsIn, ClearIn, Idle
<1>13. CASE HostHaltsOut
  BY <1>1, <1>13 DEF HostHaltsOut, HaltOut
<1>14. CASE HostClearsOut
  BY <1>1, <1>14 DEF HostClearsOut, ClearOut
<1>15. CASE UNCHANGED endpointVars
  BY <1>15 DEF endpointVars, movingVars
<1>16. QED
  BY EndpointSteps, <1>2, <1>3, <1>4, <1>5, <1>6, <1>7, <1>8, <1>9, <1>10, <1>11, <1>12, <1>13, <1>14, <1>15

LEMMA OutNext ==
  ASSUME EndpointInv, ConfiguresOnce, [EndpointNext]_endpointVars
  PROVE  OutInv'
<1> USE DEF EndpointInv, OutInv, Repeating, deviceVars, hostVars
<1>1. /\ flags.rxDts \in {0, 1} /\ bdOut.dts \in {0, 1} /\ outToggle \in {0, 1}
      /\ bdOut.own \in {"cpu", "sie", "stall"}
      /\ stored \in BOOLEAN /\ DOMAIN flags = {"rxDts", "txDts", "inHalt", "outHalt"}
  BY DEF EndpointTypeOK, Flags, Bd, Toggle
<1>2. ASSUME NEW r \in Report, FirmwareSends(r)  PROVE OutInv'
  BY <1>1, <1>2 DEF FirmwareSends, SendInBuffer
<1>3. ASSUME NEW r \in Report, HostOffers(r)  PROVE OutInv'
  BY <1>3 DEF HostOffers
<1>4. CASE FirmwareReads
  BY <1>1, <1>4 DEF FirmwareReads, HasData, ArmOut, Armed
<1>5. CASE InToken
  BY <1>5 DEF InToken
<1>6. CASE InTokenAckLost
  BY <1>6 DEF InTokenAckLost
<1>7. CASE OutToken
  BY <1>1, <1>7 DEF OutToken, EngineTakesOut, EngineIsDue
<1>8. CASE OutTokenAckLost
  BY <1>1, <1>8 DEF OutTokenAckLost, EngineTakesOut, EngineIsDue
<1>9. CASE BusReset
  BY <1>9 DEF BusReset, UsbInit, InitEndpoints, InitFlags, Armed
<1>10. ASSUME NEW c \in BOOLEAN, HostConfigures(c)  PROVE OutInv'
  BY <1>10, ConfiguredFresh DEF Fresh, InitFlags, Armed
<1>11. CASE HostHaltsIn
  BY <1>1, <1>11 DEF HostHaltsIn, HaltIn
<1>12. CASE HostClearsIn
  BY <1>1, <1>12 DEF HostClearsIn, ClearIn
<1>13. CASE HostHaltsOut
  BY <1>13 DEF HostHaltsOut, HaltOut, Stalled
<1>14. CASE HostClearsOut
  BY <1>1, <1>14 DEF HostClearsOut, ClearOut, Armed
<1>15. CASE UNCHANGED endpointVars
  BY <1>15 DEF endpointVars, movingVars
<1>16. QED
  BY EndpointSteps, <1>2, <1>3, <1>4, <1>5, <1>6, <1>7, <1>8, <1>9, <1>10, <1>11, <1>12, <1>13, <1>14, <1>15

LEMMA EndpointInvNext ==
  ASSUME EndpointInv, ConfiguresOnce, [EndpointNext]_endpointVars
  PROVE  EndpointInv'
BY EndpointNextType, HaltedNext, ConfiguredNext, InNext, OutNext DEF EndpointInv

LEMMA EndpointInvariance ==
  ASSUME ~ConfiguresAgain \/ Copies = {TRUE}
  PROVE  EndpointSpec => [](EndpointInv /\ ConfiguresOnce)
<1>1. EndpointInit => EndpointInv /\ ConfiguresOnce
  <2>1. EndpointInit => newer \in Copies
    BY DEF EndpointInit
  <2>2. newer \in Copies => ConfiguresOnce
    <3>1. CASE ~ConfiguresAgain
      BY <3>1 DEF ConfiguresOnce
    <3>2. CASE Copies = {TRUE}
      <4>1. newer \in Copies => newer = TRUE
        BY <3>2
      <4>2. QED  BY <4>1 DEF ConfiguresOnce
    <3>3. QED  BY <3>1, <3>2
  <2>3. QED  BY <2>1, <2>2, EndpointInitInv
<1>2. (EndpointInv /\ ConfiguresOnce) /\ [EndpointNext]_endpointVars => (EndpointInv /\ ConfiguresOnce)'
  BY EndpointInvNext, SameCopy DEF ConfiguresOnce
<1>3. QED  BY <1>1, <1>2, PTL DEF EndpointSpec

-----------------------------------------------------------------------------
(* The refinement.                                                          *)

LEMMA PipeInitially == ASSUME EndpointInit PROVE Pipe!PipeInit
BY DEF EndpointInit, Pipe!PipeInit, Idle, Armed

LEMMA PipeStep ==
  ASSUME EndpointInv, ConfiguresOnce, Recording, [EndpointNext]_endpointVars
  PROVE  [Pipe!PipeNext]_(Pipe!pipeVars)
<1> USE DEF EndpointInv, deviceVars, hostVars, Pipe!pipeVars
<1>1. /\ bdIn.dts \in {0, 1} /\ bdOut.dts \in {0, 1} /\ inToggle \in {0, 1} /\ outToggle \in {0, 1}
      /\ hasIt \in BOOLEAN /\ stored \in BOOLEAN
  BY DEF EndpointTypeOK, Bd, Toggle
<1>2. \A r, before : Arrives(r, before) = Pipe!Arrives(r, before)
  BY DEF Arrives, Pipe!Arrives
<1>3. ASSUME NEW r \in Report, FirmwareSends(r)  PROVE Pipe!PipeNext
  <2>1. Pipe!Send
    BY <1>3 DEF FirmwareSends, MaySend, SendInBuffer, Armed, Pipe!Send
  <2>2. QED  BY <2>1 DEF Pipe!PipeNext
<1>4. ASSUME NEW r \in Report, HostOffers(r)  PROVE Pipe!PipeNext
  <2>1. Pipe!Offer
    BY <1>4 DEF HostOffers, Pipe!Offer
  <2>2. QED  BY <2>1 DEF Pipe!PipeNext
<1>5. CASE FirmwareReads
  <2>1. Pipe!Read
    BY <1>5, <1>2 DEF FirmwareReads, HasData, ArmOut, Armed, Pipe!Read
  <2>2. QED  BY <2>1 DEF Pipe!PipeNext
(* A packet the host has had already is taken by nobody.                    *)
<1>6. ASSUME bdIn.own = "sie", HostTakesIn
      PROVE  /\ HostIsDue <=> ~hasIt
             /\ received' = IF hasIt THEN received ELSE Arrives(bdIn.data, received)
  BY <1>1, <1>6 DEF HostTakesIn, HostIsDue, InInv
<1>7. CASE InToken \/ InTokenAckLost
  <2>1. /\ bdIn.own = "sie"
        /\ HostIsDue <=> ~hasIt
        /\ received' = IF hasIt THEN received ELSE Arrives(bdIn.data, received)
        /\ UNCHANGED <<offer, stored, bdOut, read, breaks>>
    BY <1>7, <1>6 DEF InToken, InTokenAckLost
  <2>2. ~(bdIn'.own = "sie" /\ ~hasIt')
    <3>1. CASE InToken
      BY <3>1 DEF InToken, Idle
    <3>2. CASE InTokenAckLost
      BY <2>1, <3>2 DEF InTokenAckLost
    <3>3. QED  BY <1>7, <3>1, <3>2
  <2>3. CASE ~hasIt
    <3>1. Pipe!Receive
      BY <1>2, <2>1, <2>2, <2>3 DEF Pipe!Receive
    <3>2. QED  BY <3>1 DEF Pipe!PipeNext
  <2>4. CASE hasIt
    <3>1. UNCHANGED Pipe!pipeVars
      BY <2>1, <2>2, <2>4
    <3>2. QED  BY <3>1
  <2>5. QED  BY <2>3, <2>4
<1>8. ASSUME bdOut.own = "sie", offer # NoReport
      PROVE  EngineIsDue <=> ~stored
  BY <1>1, <1>8 DEF OutInv, Repeating, EngineIsDue
<1>9. CASE OutToken
  <2>1. CASE ~stored
    <3>1. Pipe!TakeAndConfirm
      BY <1>9, <1>8, <2>1 DEF OutToken, EngineTakesOut, Pipe!TakeAndConfirm
    <3>2. QED  BY <3>1 DEF Pipe!PipeNext
  <2>2. CASE stored
    <3>1. Pipe!Confirm
      BY <1>9, <1>8, <2>2 DEF OutToken, EngineTakesOut, Pipe!Confirm
    <3>2. QED  BY <3>1 DEF Pipe!PipeNext
  <2>3. QED  BY <2>1, <2>2
<1>10. CASE OutTokenAckLost
  <2>1. CASE ~stored
    <3>1. Pipe!Take
      BY <1>10, <1>8, <2>1 DEF OutTokenAckLost, EngineTakesOut, Pipe!Take
    <3>2. QED  BY <3>1 DEF Pipe!PipeNext
  <2>2. CASE stored
    <3>1. UNCHANGED Pipe!pipeVars
      BY <1>10, <1>8, <2>2 DEF OutTokenAckLost, EngineTakesOut, EngineIsDue
    <3>2. QED  BY <3>1
  <2>3. QED  BY <2>1, <2>2
<1>11. CASE HostBreaks
  <2> USE DEF Pipe!Break, Breaking
  <2>1. ASSUME BusReset  PROVE Pipe!Break
    BY <2>1 DEF BusReset, UsbInit, InitEndpoints, Idle, Armed
  <2>2. ASSUME NEW c \in BOOLEAN, HostConfigures(c)  PROVE Pipe!Break
    BY <2>2 DEF HostConfigures, SetConfiguration, InitEndpoints, Idle, Armed, ConfiguresOnce
  <2>3. ASSUME HostHaltsIn  PROVE Pipe!Break
    BY <2>3 DEF HostHaltsIn, HaltIn, Stalled
  <2>4. ASSUME HostClearsIn  PROVE Pipe!Break
    BY <2>4 DEF HostClearsIn, ClearIn, Idle
  <2>5. ASSUME HostHaltsOut  PROVE Pipe!Break
    BY <2>5 DEF HostHaltsOut, HaltOut, Stalled
  <2>6. ASSUME HostClearsOut  PROVE Pipe!Break
    BY <2>6 DEF HostClearsOut, ClearOut, Armed
  <2>7. Pipe!Break
    BY <1>11, <2>1, <2>2, <2>3, <2>4, <2>5, <2>6 DEF HostBreaks
  <2>8. QED  BY <2>7 DEF Pipe!PipeNext
<1>12. CASE UNCHANGED endpointVars
  BY <1>12 DEF endpointVars, movingVars
<1>13. QED
  BY EndpointSteps, <1>3, <1>4, <1>5, <1>7, <1>9, <1>10, <1>11, <1>12 DEF HostBreaks

(* Reports are delivered once and in order in either direction, for any set *)
(* of reports: usb.c's toggles never part from the host's, with the newer   *)
(* copy even if the host configures the device again.                       *)
THEOREM DeliversOnceCorrect ==
  ASSUME ~ConfiguresAgain \/ Copies = {TRUE}, Recording
  PROVE  EndpointSpec => DeliversOnce
<1>1. EndpointInit => Pipe!PipeInit
  BY PipeInitially
<1>2. EndpointInv /\ ConfiguresOnce /\ [EndpointNext]_endpointVars => [Pipe!PipeNext]_(Pipe!pipeVars)
  BY PipeStep
<1>3. EndpointSpec => [](EndpointInv /\ ConfiguresOnce)
  BY EndpointInvariance
<1>4. QED  BY <1>1, <1>2, <1>3, PTL DEF EndpointSpec, DeliversOnce, Pipe!PipeSpec
=============================================================================
