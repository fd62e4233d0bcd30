------------------------------- MODULE Requests -------------------------------
(***************************************************************************)
(* What the firmwares make of a setup packet: handle_ep0_setup() with       *)
(* handle_standard_control_request(), and usb_hid.c or usb_cdc.c, which the *)
(* applications pass the rest to.  An answer is a request of                *)
(* ControlEndpoint: it says what happens on the wire.                       *)
(*                                                                         *)
(* The dispatch is read from minimalCDC's copy of usb.c; the older copies   *)
(* differ from it in what the requests do, not in which they answer.        *)
(* The Microsoft descriptors are compiled into none of the firmwares.       *)
(***************************************************************************)
EXTENDS Firmwares

(* bmRequestType in three parts, bRequest, wIndex and wLength; descriptor   *)
(* and value are the two halves of wValue.                                  *)
Setup(in, class, to, request, descriptor, value, index, length) ==
  [in |-> in, class |-> class, to |-> to, request |-> request,
   descriptor |-> descriptor, value |-> value, index |-> index, length |-> length]

-----------------------------------------------------------------------------
(* The answers.                                                             *)

Answered(s, kind, len) == [kind |-> kind, len |-> len, asked |-> s.length, addr |-> s.index]

(* start_control_return(), usb_send_data_stage() without and with a         *)
(* callback, and usb_start_receive_ep0_data_stage().                        *)
Returned(s, len)  == Answered(s, "read", len)
Sent(s, len)      == Answered(s, "classRead", len)
SentBack(s, len)  == Answered(s, "appRead", len)
Received(s, len)  == Answered(s, "write", len)
Done(s, kind)     == Answered(s, kind, 0)

(* stall_ep0()                                                              *)
Refused(s) ==
  IF s.length = 0 THEN Answered(s, "refused", 0)
  ELSE Answered(s, IF s.in THEN "refusedRead" ELSE "refusedWrite", 1)

-----------------------------------------------------------------------------
(* handle_standard_control_request()                                        *)

DeviceLength == 18

GetDescriptor(f, s) ==
  CASE s.descriptor = "device" -> Returned(s, DeviceLength)
    [] s.descriptor = "configuration" /\ s.value = 0 -> Returned(s, Length(Firmware[f].configuration))
    [] s.descriptor = "string" /\ s.value \in DOMAIN Firmware[f].strings ->
         Returned(s, Firmware[f].strings[s.value])
    [] OTHER -> Refused(s)

(* NUM_ENDPOINT_NUMBERS                                                     *)
EndpointNumbers(f) == Cardinality(DOMAIN Firmware[f].buffers)

(* An interface has no status here, though USB gives it one.                *)
GetStatus(f, s) ==
  IF s.to = "device" \/ (s.to = "endpoint" /\ s.index <= EndpointNumbers(f))
    THEN Returned(s, 2) ELSE Refused(s)

(* value 0 is ENDPOINT_HALT; index is less its direction, which is in       *)
(* descriptor.                                                              *)
Feature(f, s) ==
  LET sets == s.request = "SET_FEATURE"
  IN  IF s.to # "endpoint" \/ s.value # 0 \/ s.index > EndpointNumbers(f) THEN Refused(s)
      ELSE Done(s, CASE s.index = 0 /\ s.descriptor = "out" -> "noData"
                     [] s.index = 0 /\ s.descriptor = "in" -> IF sets THEN "haltEp0" ELSE "clearEp0"
                     [] s.index > 0 /\ s.descriptor = "out" -> IF sets THEN "haltOut" ELSE "clearOut"
                     [] s.index > 0 /\ s.descriptor = "in" -> IF sets THEN "haltIn" ELSE "clearIn")

StandardRequest(f, s) ==
  CASE s.request = "GET_DESCRIPTOR" -> GetDescriptor(f, s)
    [] s.request = "SET_ADDRESS" -> Done(s, "setAddress")
    [] s.request = "SET_CONFIGURATION" -> Done(s, "configure")
    [] s.request = "GET_CONFIGURATION" -> Returned(s, 1)
    [] s.request = "GET_STATUS" -> GetStatus(f, s)
    [] s.request = "SET_INTERFACE" -> Done(s, "noData")
    [] s.request = "GET_INTERFACE" -> Returned(s, 1)
    [] s.request \in {"SET_FEATURE", "CLEAR_FEATURE"} -> Feature(f, s)
    [] OTHER -> Refused(s)

-----------------------------------------------------------------------------
(* process_hid_setup_request() and process_cdc_setup_request()              *)

Callback(f, s) ==
  IF s.request \in DOMAIN Firmware[f].callbacks THEN Firmware[f].callbacks[s.request] ELSE None

HidRequest(f, s) ==
  LET n == Callback(f, s)
  IN  CASE s.request = "GET_DESCRIPTOR" /\ s.descriptor = "hid" -> Sent(s, 9)
        [] s.request = "GET_DESCRIPTOR" /\ s.descriptor = "report" -> Sent(s, Length(Firmware[f].report))
        [] s.request = "GET_REPORT" /\ n # None -> SentBack(s, n)
        [] s.request = "SET_REPORT" /\ n # None -> Received(s, n)
        [] s.request \in {"GET_IDLE", "GET_PROTOCOL"} /\ n # None -> Sent(s, n)
        [] s.request \in {"SET_IDLE", "SET_PROTOCOL"} /\ n # None -> Done(s, "noData")
        [] OTHER -> Refused(s)

CdcRequest(f, s) ==
  LET n == Callback(f, s)
  IN  CASE s.request = "SET_LINE_CODING" /\ n # None -> Received(s, Min({s.length, n}))
        [] s.request = "GET_LINE_CODING" /\ n # None -> Sent(s, n)
        [] OTHER -> Refused(s)

ClassRequest(f, s) == IF Firmware[f].class = "hid" THEN HidRequest(f, s) ELSE CdcRequest(f, s)

(* handle_ep0_setup().  A descriptor of an interface is none of those that  *)
(* handle_standard_control_request() knows.                                 *)
SetupRequest(f, s) ==
  IF s.class = "standard" /\ ~(s.request = "GET_DESCRIPTOR" /\ s.to = "interface")
    THEN StandardRequest(f, s) ELSE ClassRequest(f, s)

-----------------------------------------------------------------------------
(* What a host may ask of a firmware, in the lengths hosts ask in: the      *)
(* requests of chapter 9 of the USB specification, save for a configuration *)
(* to be given up, and those of the class.                                  *)

Get(to, request, descriptor, value, index, length) ==
  Setup(TRUE, "standard", to, request, descriptor, value, index, length)
Set(to, request, descriptor, value, index) ==
  Setup(FALSE, "standard", to, request, descriptor, value, index, 0)
ClassGet(request, length) == Setup(TRUE, "class", "interface", request, "none", 0, 0, length)
ClassSet(request, length) == Setup(FALSE, "class", "interface", request, "none", 0, 0, length)

Whole(f) == Length(Firmware[f].configuration)

Descriptors(f) ==
  {Get("device", "GET_DESCRIPTOR", "device", 0, 0, n) : n \in {8, DeviceLength, 64}}
  \cup {Get("device", "GET_DESCRIPTOR", "configuration", k, 0, n) : k \in {0, 1}, n \in {9, Whole(f), 255}}
  \cup {Get("device", "GET_DESCRIPTOR", "string", k, 0, n) : k \in 0 .. 3, n \in {2, 4, 255}}
  \cup {Get("device", "GET_DESCRIPTOR", "other", 0, 0, 10)}
  \cup {Get("interface", "GET_DESCRIPTOR", d, 0, 0, n) :
          d \in {"hid", "report"}, n \in {9, Length(Firmware[f].report), 255} \ {0}}

Directions == {"in", "out"}

HaltRequests(f) ==
  {Set("endpoint", q, d, 0, e) :
     q \in {"SET_FEATURE", "CLEAR_FEATURE"}, d \in Directions, e \in 0 .. EndpointNumbers(f) + 1}

StandardRequests(f) ==
  Descriptors(f) \cup HaltRequests(f)
  \cup {Get("device", "GET_CONFIGURATION", "none", 0, 0, 1), Get("interface", "GET_INTERFACE", "none", 0, 0, 1),
        Get("device", "GET_STATUS", "none", 0, 0, 2), Get("interface", "GET_STATUS", "none", 0, 0, 2),
        Set("device", "SET_ADDRESS", "none", 0, 1), Set("device", "SET_CONFIGURATION", "none", 1, 0),
        Set("interface", "SET_INTERFACE", "none", 0, 0), Set("device", "SET_FEATURE", "none", 1, 0),
        Set("device", "CLEAR_FEATURE", "none", 1, 0)}
  \cup {Get("endpoint", "GET_STATUS", d, 0, e, 2) : d \in Directions, e \in 0 .. EndpointNumbers(f) + 1}

HidRequests(f) ==
  {ClassGet("GET_REPORT", n) : n \in {1, 3, 8}}
  \cup {ClassGet(q, 1) : q \in {"GET_IDLE", "GET_PROTOCOL"}}
  \cup {ClassSet("SET_REPORT", n) : n \in {1, 8}}
  \cup {ClassSet(q, 0) : q \in {"SET_IDLE", "SET_PROTOCOL"}}

CdcRequests(f) ==
  {ClassSet("SET_LINE_CODING", LineCoding), ClassGet("GET_LINE_CODING", LineCoding),
   ClassSet("SET_CONTROL_LINE_STATE", 0), ClassSet("SEND_BREAK", 0),
   ClassSet("SEND_ENCAPSULATED_COMMAND", 8), ClassGet("GET_ENCAPSULATED_RESPONSE", 8)}

Legal(f) == StandardRequests(f) \cup (IF Firmware[f].class = "hid" THEN HidRequests(f) ELSE CdcRequests(f))
=============================================================================
