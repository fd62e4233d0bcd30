--------------------------- MODULE ControlEndpoint ---------------------------
(***************************************************************************)
(* Control transfers on endpoint 0: bootloader/usb.c against a USB host.    *)
(*                                                                         *)
(* The host moves on the wire: SETUP, IN and OUT transactions.  Each one    *)
(* that completes puts an event into the USTAT FIFO; usb_service() handles  *)
(* one event at a time, later.  The IN and OUT buffers change owner in      *)
(* between, so that at most one event of each direction is waiting, but the *)
(* host may be a stage ahead of the code, or may have begun a new transfer. *)
(*                                                                         *)
(* A request stands for what handle_ep0_setup() does with it:               *)
(*   read, refusedRead    a standard IN request, answered or stalled        *)
(*   classRead, appRead   one answered through usb_send_data_stage(), without *)
(*                        and with a callback of the application           *)
(*   noData, refused      one without a data stage                          *)
(*   setAddress           SET_ADDRESS                                       *)
(*   haltEp0, clearEp0    SET_ and CLEAR_FEATURE(ENDPOINT_HALT) for the IN  *)
(*                        side of endpoint 0 (the OUT side's is a noData:   *)
(*                        reset_bd0_out() undoes what it does)              *)
(*   configure, haltIn, clearIn, haltOut, clearOut                          *)
(*                        also without a data stage; module UsbDevice has   *)
(*                        what they do to the data endpoint                 *)
(*   write, refusedWrite  an OUT data stage, received through               *)
(*                        usb_start_receive_ep0_data_stage(), or stalled    *)
(* asked is wLength; len is the size of the descriptor or of the buffer.    *)
(* The FIFO holds four events, those of the data endpoint among them; while *)
(* it is full the engine answers nothing.                                   *)
(* Ping-pong buffers are not modelled.                                      *)
(***************************************************************************)
EXTENDS Integers, Sequences

CONSTANTS
  EP_0_LEN,   \* the packet size of endpoint 0
  Profiles    \* the hosts and firmwares that may meet:
              \*   requests  what the host asks for, and what the firmware makes of it
              \*   givesUp   the kinds of transfer the host may give up half way
              \*   loses     the kinds of transfer whose data stage may lose an ACK
              \*   resets    the host may reset the bus
              \*   newer     the firmware has the newer copy of usb.c

EndpointKind == {"configure", "haltIn", "clearIn", "haltOut", "clearOut"}
Acknowledged == {"noData", "setAddress", "haltEp0", "clearEp0"} \cup EndpointKind
Kind == {"read", "classRead", "appRead", "refusedRead", "refused", "write", "refusedWrite"} \cup Acknowledged
Request == [kind : Kind, len : Nat, asked : Nat, addr : Nat]

IsIn(r)  == r.kind \in {"read", "classRead", "appRead", "refusedRead"}
IsOut(r) == r.kind \in {"write", "refusedWrite"}

Requests == UNION {p.requests : p \in Profiles}

ASSUME ControlAssumption ==
  /\ EP_0_LEN \in Nat \ {0}
  /\ Profiles \subseteq [requests : SUBSET Request, givesUp : SUBSET Kind, loses : SUBSET Kind, resets : BOOLEAN,
                           newer : BOOLEAN]
  /\ \A r \in Requests : (IsIn(r) \/ IsOut(r) => r.asked > 0) /\ (IsIn(r) => r.len > 0)

Min(a, b) == IF a < b THEN a ELSE b

VARIABLES
  \* the device
  events,       \* the USTAT FIFO
  pktDis,       \* PKTDIS: set with a SETUP, stops everything but resets
  address,      \* SFR_USB_ADDR
  addrPending,  \* addr_pending
  addr,         \* the address to be set
  needZlp,      \* control_need_zlp
  short,        \* returning_short
  direc,        \* ep0_data_stage_direc
  ds,           \* the other ep0_data_stage_* variables
  dts,          \* EP_TX_DTS of ep0_buf.flags
  halted,       \* EP_IN_HALT_FLAG of ep_buf[0].flags
  bd,           \* BDS0IN
  \* the host
  cur,          \* its current, or latest, request
  stage,        \* the stage it is in
  toggle,       \* the data toggle it expects
  got, intact,  \* bytes it has read; they are the right ones
  sent,         \* bytes it has written
  outcome,      \* how its latest transfer ended
  hostAddr,     \* the address it uses
  halts,        \* it has halted endpoint 0, and not cleared it since
  \* the application
  owed,         \* history: transfers it began, less callbacks it was given or lost
  lost,         \* history: 1 when a bus reset has lost a callback
  corrupt,      \* its buffer holds something else than the host wrote
  profile       \* who has met; never changes

deviceVars == <<events, pktDis, address, addrPending, addr, needZlp, short, direc, ds, dts, halted, bd>>
hostVars   == <<cur, stage, toggle, got, intact, sent, outcome, hostAddr, halts>>
appVars    == <<owed, lost, corrupt, profile>>
vars       == <<deviceVars, hostVars, appVars>>

NoRequest == [kind |-> "refused", len |-> 0, asked |-> 0, addr |-> 0]

UstatDepth == 4
Event  == [type : {"SETUP"}, req : Requests] \cup [type : {"IN"}]
            \cup [type : {"OUT"}, at : Nat, len : 0 .. EP_0_LEN] \cup [type : {"data"}, dir : {"in", "out"}]
Packet == [dts : {0, 1}, from : Requests \cup {NoRequest}, at : Nat, len : 0 .. EP_0_LEN]
InBd   == [owner : {"cpu", "stall"}] \cup [owner : {"sie"}, packet : Packet]
DataStage == [callback : BOOLEAN, outBuffer : BOOLEAN, from : Requests \cup {NoRequest},
              at : Nat, remaining : Nat]

TypeOK ==
  /\ events \in Seq(Event) /\ Len(events) <= UstatDepth /\ pktDis \in BOOLEAN
  /\ address \in Nat /\ addrPending \in BOOLEAN /\ addr \in Nat
  /\ needZlp \in BOOLEAN /\ short \in BOOLEAN /\ direc \in {"IN", "OUT"}
  /\ ds \in DataStage /\ dts \in {0, 1} /\ halted \in BOOLEAN /\ bd \in InBd
  /\ cur \in Requests \cup {NoRequest}
  /\ stage \in {"idle", "dataIn", "statusOut", "dataOut", "statusIn"}
  /\ toggle \in {0, 1} /\ got \in Nat /\ intact \in BOOLEAN /\ sent \in Nat
  /\ outcome \in {"none", "done", "stalled"} /\ hostAddr \in Nat /\ halts \in BOOLEAN
  /\ owed \in Int /\ lost \in {0, 1} /\ corrupt \in BOOLEAN
  /\ profile \in Profiles

-----------------------------------------------------------------------------
(* Building blocks of usb.c.                                                *)

Cpu   == [owner |-> "cpu"]
Stall == [owner |-> "stall"]
Data(toggleBit, r, offset, n) ==
  [owner |-> "sie", packet |-> [dts |-> toggleBit, from |-> r, at |-> offset, len |-> n]]

(* Mutant: the buffer pointer stays where it is.                            *)
ConsumeInPlace(d, n) == [d EXCEPT !.remaining = @ - n]

Consume(d, n) == [d EXCEPT !.at = @ + n, !.remaining = @ - n]

(* Mutant: forgets to forget the callback.                                  *)
ResetKeepingCallback(d) == [d EXCEPT !.outBuffer = FALSE, !.remaining = 0]

ResetDataStage(d) == [d EXCEPT !.callback = FALSE, !.outBuffer = FALSE, !.remaining = 0]

(* send_zero_length_packet_ep0() always sends DATA1.                        *)
SendStatus == bd' = Data(1, NoRequest, 0, 0) /\ UNCHANGED dts

(* Mutant: a refusal is not heeded.                                         *)
StallUnheeded == bd' = Data(1, NoRequest, 0, 0)

StallEp0 == bd' = Stall

(* SET_ADDRESS is noted, and carried out by SetPendingAddress.              *)
(* Mutant: it is carried out at once.                                       *)
NoteAddressAtOnce(r) ==
  /\ address' = IF r.kind = "setAddress" THEN r.addr ELSE address
  /\ UNCHANGED <<addrPending, addr>>

NoteAddress(r) ==
  /\ addrPending' = (addrPending \/ r.kind = "setAddress")
  /\ addr' = IF r.kind = "setAddress" THEN r.addr ELSE addr
  /\ UNCHANGED address

(* usb_send_in_buffer_0() sends what EP_TX_DTS says, and flips it.  Halted, *)
(* it does nothing; the CPU has the buffer at each of its calls.            *)
SendIn(r, offset, n, bit) ==
  IF halted THEN bd' = Cpu /\ dts' = bit
  ELSE bd' = Data(bit, r, offset, n) /\ dts' = 1 - bit

(* In the newer copy usb_halt_ep_in() does not halt it, which is ignored.   *)
NoteHalt(r) ==
  halted' = CASE r.kind = "haltEp0" -> ~profile.newer [] r.kind = "clearEp0" -> FALSE [] OTHER -> halted

(* Mutant: the first packet goes out with whatever EP_TX_DTS was left at.   *)
StartReturnAnyToggle(d, r, len, asked) ==
  LET n == Min(Min(len, EP_0_LEN), asked)
  IN  /\ short' = (len < asked)
      /\ ds' = [d EXCEPT !.from = r, !.at = n, !.remaining = Min(asked, len) - n]
      /\ SendIn(r, 0, n, dts)

(* start_control_return(), which begins with DATA1.                         *)
StartReturn(d, r, len, asked) ==
  LET n == Min(Min(len, EP_0_LEN), asked)
  IN  /\ short' = (len < asked)
      /\ ds' = [d EXCEPT !.from = r, !.at = n, !.remaining = Min(asked, len) - n]
      /\ SendIn(r, 0, n, 1)

-----------------------------------------------------------------------------
(* usb_service(), on the oldest event.                                      *)

Takes(type) == events # <<>> /\ Head(events).type = type /\ events' = Tail(events)

(* handle_standard_control_request(): descriptors, the configuration and    *)
(* statuses are returned; the rest is acknowledged.                         *)
ReturnData(r, d) == r.kind = "read" /\ StartReturn(d, r, r.len, r.asked)

Acknowledge(r, d) ==
  /\ r.kind \in Acknowledged
  /\ SendStatus
  /\ ds' = d /\ UNCHANGED short

(* process_hid_setup_request() and the application: usb_send_data_stage()   *)
(* or usb_start_receive_ep0_data_stage().                                   *)
AnswerClass(r, d) ==
  \/ /\ r.kind \in {"classRead", "appRead"}
     /\ LET n == Min(r.len, r.asked)
        IN  StartReturn([d EXCEPT !.callback = (r.kind = "appRead")], r, n, n)
  \/ /\ r.kind = "write"
     /\ ds' = [callback |-> TRUE, outBuffer |-> TRUE, from |-> d.from, at |-> 0, remaining |-> r.len]
     /\ bd' = Cpu
     /\ UNCHANGED <<short, dts>>

Refuse(r, d) ==
  /\ r.kind \in {"refused", "refusedRead", "refusedWrite"}
  /\ StallEp0
  /\ ds' = d /\ UNCHANGED <<short, dts>>

(* handle_ep0_setup(): a transfer with bytes remaining is abandoned and its *)
(* application told.                                                        *)
HandleSetup ==
  /\ Takes("SETUP")
  /\ pktDis' = FALSE
  /\ LET r == Head(events).req
         abandoned == ds.remaining > 0
         d == IF abandoned THEN ResetDataStage(ds) ELSE ds
         told  == IF abandoned /\ ds.callback THEN 1 ELSE 0
         begun == IF r.kind \in {"appRead", "write"} THEN 1 ELSE 0
     IN  /\ direc' = IF IsIn(r) THEN "IN" ELSE "OUT"
         /\ owed' = owed - told + begun
         /\ corrupt' = (corrupt /\ r.kind # "write")
         /\ NoteAddress(r) /\ NoteHalt(r)
         /\ ReturnData(r, d) \/ Acknowledge(r, d) \/ AnswerClass(r, d) \/ Refuse(r, d)
  /\ UNCHANGED <<hostVars, needZlp, lost, profile>>

(* handle_ep0_out() in an IN transfer: its status stage.                    *)
HandleStatusOut ==
  /\ Takes("OUT") /\ direc = "IN"
  /\ owed' = owed - (IF ds.callback THEN 1 ELSE 0)
  /\ ds' = ResetDataStage(ds)
  /\ UNCHANGED <<hostVars, pktDis, address, addrPending, addr, needZlp, short, direc, dts, halted, bd,
                 corrupt, lost, profile>>

(* handle_ep0_out() in an OUT transfer.                                     *)
HandleDataOut ==
  /\ Takes("OUT") /\ direc = "OUT"
  /\ IF ~ds.outBuffer THEN UNCHANGED <<ds, bd, dts, owed, corrupt>>
     ELSE
       LET e == Head(events)
           n == Min(e.len, ds.remaining)
           d == Consume(ds, n)
           last == e.len < EP_0_LEN \/ d.remaining = 0
       IN  /\ corrupt' = (corrupt \/ (n > 0 /\ e.at # ds.at))
           /\ \/ /\ ~last
                 /\ ds' = d /\ UNCHANGED <<bd, dts, owed>>
              \/ /\ last /\ n < e.len
                 /\ StallEp0 /\ UNCHANGED dts
                 /\ owed' = owed - (IF ds.callback THEN 1 ELSE 0)
                 /\ ds' = ResetDataStage(d)
              \/ /\ last /\ n = e.len
                 /\ SendStatus
                 /\ ds' = d /\ UNCHANGED owed
  /\ UNCHANGED <<hostVars, pktDis, address, addrPending, addr, needZlp, short, direc, halted, lost, profile>>

(* handle_ep0_in() begins by setting a pending address, whatever transfer   *)
(* the packet belonged to.                                                  *)
SetPendingAddress ==
  /\ address' = IF addrPending THEN addr ELSE address
  /\ addrPending' = FALSE /\ UNCHANGED addr

(* Mutant: an exact multiple of EP_0_LEN is not followed by an empty packet.*)
HandleInMoreNoZlp ==
  /\ Takes("IN") /\ ds.remaining > 0
  /\ SetPendingAddress
  /\ LET n == Min(ds.remaining, EP_0_LEN)
     IN  /\ SendIn(ds.from, ds.at, n, dts)
         /\ ds' = Consume(ds, n)
  /\ UNCHANGED <<hostVars, appVars, pktDis, short, direc, needZlp, halted>>

(* It sends the next packet of a data stage,                                *)
HandleInMore ==
  /\ Takes("IN") /\ ds.remaining > 0
  /\ SetPendingAddress
  /\ LET n == Min(ds.remaining, EP_0_LEN)
     IN  /\ SendIn(ds.from, ds.at, n, dts)
         /\ ds' = Consume(ds, n)
         /\ needZlp' = (needZlp \/ (ds.remaining = n /\ n = EP_0_LEN /\ short))
  /\ UNCHANGED <<hostVars, appVars, pktDis, short, direc, halted>>

(* or the empty packet that ends one,                                       *)
HandleInZlp ==
  /\ Takes("IN") /\ ds.remaining = 0 /\ needZlp
  /\ SetPendingAddress
  /\ SendIn(NoRequest, 0, 0, dts)
  /\ needZlp' = FALSE
  /\ ds' = ResetDataStage(ds)
  /\ UNCHANGED <<hostVars, appVars, pktDis, short, direc, halted>>

(* or learns that the status stage of an OUT transfer is over.              *)
HandleInDone ==
  /\ Takes("IN") /\ ds.remaining = 0 /\ ~needZlp
  /\ SetPendingAddress
  /\ IF direc = "OUT"
       THEN /\ owed' = owed - (IF ds.callback THEN 1 ELSE 0)
            /\ ds' = ResetDataStage(ds)
       ELSE UNCHANGED <<owed, ds>>
  /\ UNCHANGED <<hostVars, pktDis, short, direc, needZlp, dts, halted, bd, corrupt, lost, profile>>

HandleEp0 == HandleStatusOut \/ HandleDataOut \/ HandleInMore \/ HandleInZlp \/ HandleInDone

Service == HandleSetup \/ HandleEp0

(* A transaction of the data endpoint has completed.                        *)
HandleData ==
  /\ Takes("data")
  /\ UNCHANGED <<hostVars, appVars, pktDis, address, addrPending, addr, needZlp, short, direc, ds, dts, halted, bd>>

-----------------------------------------------------------------------------
(* The wire.                                                                *)

(* The device answers: it is spoken to by its address and not in the middle *)
(* of a SETUP.  It takes SETUP and OUT when it owns the OUT buffer.         *)
Hears == address = hostAddr /\ ~pktDis /\ Len(events) < UstatDepth
OutArmed == \A i \in 1 .. Len(events) : events[i].type \in {"IN", "data"}

Setup(r) ==
  /\ stage = "idle" /\ Hears /\ OutArmed
  /\ events' = Append(events, [type |-> "SETUP", req |-> r])
  /\ pktDis' = TRUE
  /\ halts' = (halts \/ r.kind = "haltEp0")
  /\ cur' = r /\ toggle' = 1 /\ got' = 0 /\ intact' = TRUE /\ sent' = 0 /\ outcome' = "none"
  /\ stage' = IF IsIn(r) THEN "dataIn" ELSE IF IsOut(r) THEN "dataOut" ELSE "statusIn"
  /\ UNCHANGED <<address, addrPending, addr, needZlp, short, direc, ds, dts, halted, bd, hostAddr, appVars>>

(* The host reads a packet; one with the wrong toggle is a repetition.      *)
HostTakes(p) ==
  IF p.dts # toggle THEN UNCHANGED <<toggle, got, intact, stage, outcome, hostAddr, halts>>
  ELSE
    /\ toggle' = 1 - toggle
    /\ \/ /\ stage = "dataIn"
          /\ got' = got + p.len
          /\ intact' = (intact /\ (p.len > 0 => p.from = cur /\ p.at = got))
          /\ stage' = IF p.len < EP_0_LEN \/ got' >= cur.asked THEN "statusOut" ELSE "dataIn"
          /\ UNCHANGED <<outcome, hostAddr, halts>>
       \/ /\ stage = "statusIn"
          /\ stage' = "idle" /\ outcome' = "done"
          /\ hostAddr' = IF cur.kind = "setAddress" THEN cur.addr ELSE hostAddr
          /\ halts' = (halts /\ cur.kind # "clearEp0")
          /\ UNCHANGED <<got, intact>>

InToken ==
  /\ stage \in {"dataIn", "statusIn"} /\ Hears /\ bd.owner = "sie"
  /\ HostTakes(bd.packet)
  /\ bd' = Cpu /\ events' = Append(events, [type |-> "IN"])
  /\ UNCHANGED <<pktDis, address, addrPending, addr, needZlp, short, direc, ds, dts, halted, cur, sent, appVars>>

(* The host's ACK gets lost: the device will repeat the packet.             *)
InTokenLost ==
  /\ cur.kind \in profile.loses
  /\ stage = "dataIn" /\ Hears /\ bd.owner = "sie"
  /\ HostTakes(bd.packet)
  /\ UNCHANGED <<deviceVars, cur, sent, appVars>>

InStalled ==
  /\ stage \in {"dataIn", "statusIn"} /\ Hears /\ bd.owner = "stall"
  /\ stage' = "idle" /\ outcome' = "stalled"
  /\ UNCHANGED <<deviceVars, cur, toggle, got, intact, sent, hostAddr, halts, appVars>>

OutPacket ==
  [type |-> "OUT", at |-> sent,
   len |-> IF stage = "dataOut" THEN Min(EP_0_LEN, cur.asked - sent) ELSE 0]

OutToken ==
  /\ stage \in {"dataOut", "statusOut"} /\ Hears /\ OutArmed
  /\ events' = Append(events, OutPacket)
  /\ sent' = sent + OutPacket.len
  /\ stage' = IF stage = "statusOut" THEN "idle"
              ELSE IF sent' = cur.asked THEN "statusIn" ELSE "dataOut"
  /\ outcome' = IF stage = "statusOut" THEN "done" ELSE outcome
  /\ UNCHANGED <<pktDis, address, addrPending, addr, needZlp, short, direc, ds, dts, halted, bd,
                 cur, toggle, got, intact, hostAddr, halts, appVars>>

(* The device's ACK gets lost: the host will repeat the packet.  The OUT    *)
(* buffer of endpoint 0 is armed without DTSEN, so it is taken again.       *)
OutTokenLost ==
  /\ cur.kind \in profile.loses
  /\ stage = "dataOut" /\ Hears /\ OutArmed
  /\ events' = Append(events, OutPacket)
  /\ UNCHANGED <<pktDis, address, addrPending, addr, needZlp, short, direc, ds, dts, halted, bd,
                 hostVars, appVars>>

GiveUp ==
  /\ stage # "idle" /\ cur.kind \in profile.givesUp
  /\ stage' = "idle" /\ outcome' = "none"
  /\ UNCHANGED <<deviceVars, cur, toggle, got, intact, sent, hostAddr, halts, appVars>>

(* A reset on the wire; the host waits until usb_service() has run          *)
(* usb_init().  That ends in reset_ep0_data_stage(), which drops a callback *)
(* without calling it: the application never hears how its transfer ended.  *)
(* PKTDIS is taken to be cleared by the reset: usb_init() does not touch it.*)
BusReset ==
  /\ profile.resets
  /\ events' = <<>> /\ pktDis' = FALSE /\ address' = 0 /\ addrPending' = FALSE /\ addr' = addr
  /\ ds' = ResetDataStage(ds) /\ dts' = 0 /\ halted' = FALSE /\ bd' = Cpu
  /\ stage' = "idle" /\ outcome' = "none" /\ hostAddr' = 0 /\ halts' = FALSE
  /\ owed' = owed - (IF ds.callback THEN 1 ELSE 0)
  /\ lost' = IF ds.callback THEN 1 ELSE lost
  /\ UNCHANGED <<needZlp, short, direc, cur, toggle, got, intact, sent, corrupt, profile>>

-----------------------------------------------------------------------------

Init ==
  /\ events = <<>> /\ pktDis = FALSE /\ address = 0 /\ addrPending = FALSE /\ addr = 0
  /\ needZlp = FALSE /\ short = FALSE /\ direc = "OUT" /\ dts = 0 /\ halted = FALSE /\ bd = Cpu
  /\ ds = [callback |-> FALSE, outBuffer |-> FALSE, from |-> NoRequest, at |-> 0, remaining |-> 0]
  /\ cur = NoRequest /\ stage = "idle" /\ toggle = 1 /\ got = 0 /\ intact = TRUE /\ sent = 0
  /\ outcome = "none" /\ hostAddr = 0 /\ halts = FALSE
  /\ owed = 0 /\ lost = 0 /\ corrupt = FALSE
  /\ profile \in Profiles

Next ==
  \/ Service
  \/ \E r \in profile.requests : Setup(r)
  \/ InToken \/ InTokenLost \/ InStalled \/ OutToken \/ OutTokenLost
  \/ GiveUp \/ BusReset

(* main() calls usb_service() for ever; a host in the middle of a transfer  *)
(* repeats a transaction that was not answered, and one of its handshakes   *)
(* gets through in the end.  It does not wait for ever for an endpoint it   *)
(* has halted.                                                              *)
Fairness ==
  /\ WF_vars(Service) /\ WF_vars(InToken \/ InStalled) /\ SF_vars(OutToken)
  /\ WF_vars(halts /\ GiveUp)

Spec == Init /\ [][Next]_vars /\ Fairness

-----------------------------------------------------------------------------
(* Properties.                                                              *)

(* A transfer the host sees complete carried exactly the bytes it should,   *)
(* though handle_ep0_in() runs behind the host, packets may be repeated and *)
(* earlier transfers may have been given up anywhere.                       *)
ReadsIntact ==
  outcome = "done" /\ IsIn(cur) =>
    cur.kind # "refusedRead" /\ intact /\ got = Min(cur.len, cur.asked)

(* A request the device can serve is never answered with the STALL of an    *)
(* earlier one, and one it cannot serve is never acknowledged.  A write is  *)
(* refused late when it is longer than the application's buffer.            *)
StallsMatch ==
  /\ outcome = "stalled" =>
       \/ cur.kind \in {"refused", "refusedRead", "refusedWrite"}
       \/ cur.kind = "write" /\ cur.asked > cur.len
  /\ outcome = "done" => cur.kind \notin {"refused", "refusedRead", "refusedWrite"}

(* usb.c:920: "The address gets set only after the transaction is           *)
(* complete": the device answers to the address the host uses, except until *)
(* it has seen the host complete a SET_ADDRESS.                             *)
AddressesAgree ==
  address # hostAddr =>
    /\ cur.kind = "setAddress" /\ outcome = "done" /\ cur.addr = hostAddr
    /\ \E i \in 1 .. Len(events) : events[i].type = "IN"

(* No transfer is called back twice, or by the end of another, and none is  *)
(* forgotten: its callback comes, or a bus reset drops it, before the       *)
(* application can begin the next.                                          *)
OneCallbackEach == owed \in {0, 1}

(* usb.h:275: the callback "will be called before                           *)
(* UNKNOWN_SETUP_REQUEST_CALLBACK() can be called again", so that it is     *)
(* "safe to use the same buffer for all control transfers".                 *)
CalledBackFirst == owed + lost \in {0, 1}

(* What a host has written, and seen acknowledged, is what the application  *)
(* finds in its buffer.                                                     *)
WritesIntact ==
  outcome = "done" /\ cur.kind = "write" => ~corrupt /\ ds.at = cur.asked

(* Each transfer comes to an end: nobody waits for the other, unless the    *)
(* host itself has halted endpoint 0, and then until it clears it.          *)
(* usb.c:1284 promises an empty packet after "a full-length packet ... if   *)
(* we are returning less data than was requested".                          *)
TransfersEnd == stage # "idle" ~> stage = "idle"

-----------------------------------------------------------------------------
(* What the safety properties ask of hosts and firmwares, in                *)
(* ControlEndpointTheorems.                                                 *)

(* AddressesAgree: a host completes a SET_ADDRESS.                          *)
CompletesAddress(p) == "setAddress" \notin p.givesUp

(* StallsMatch: no ACK of a write is lost.                                  *)
LosesNoWrite(p) == "write" \notin p.loses

WholePackets(n) == \E k \in 0 .. n : n = k * EP_0_LEN

(* WritesIntact: nor does a write end before the application's buffer does, *)
(* or, where that is whole packets long, within a packet behind its end.    *)
Fits(r) ==
  /\ r.len <= r.asked
  /\ r.len < r.asked /\ WholePackets(r.len) => r.len + EP_0_LEN < r.asked

WritesFit(p) == LosesNoWrite(p) /\ \A r \in p.requests : r.kind = "write" => Fits(r)

(* A read that ends with an empty packet.                                   *)
EndsEmpty(r) == r.kind = "read" /\ r.len < r.asked /\ WholePackets(r.len)

HasCallbacks(p) == \E r \in p.requests : r.kind \in {"appRead", "write"}

(* OneCallbackEach: a host completes what the application takes part in,    *)
(* with a write that fills its buffer; and where the application has        *)
(* callbacks, a read that ends with an empty packet is completed too.       *)
Orderly(p) ==
  /\ p.givesUp \cap {"appRead", "write"} = {}
  /\ \A r \in p.requests : r.kind = "write" => r.len <= r.asked
  /\ HasCallbacks(p) /\ (\E r \in p.requests : EndsEmpty(r)) => ~p.resets /\ "read" \notin p.givesUp

(* CalledBackFirst: and no bus reset meets a firmware with callbacks.       *)
Uninterrupted(p) == HasCallbacks(p) => ~p.resets
=============================================================================
