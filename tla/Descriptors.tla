----------------------------- MODULE Descriptors -----------------------------
(***************************************************************************)
(* A host that reads its way through a firmware, as hosts do when a device  *)
(* is plugged in: the device descriptor, the head of the configuration, all *)
(* of it, the strings it has been told of, the configuration to be set, and *)
(* then what the class and the announced endpoints are asked.  The answers  *)
(* are those of Requests.                                                   *)
(***************************************************************************)
EXTENDS Requests

VARIABLES
  firmware,
  heard,          \* request |-> the number of bytes the firmware answered with
  stalled         \* a request has been answered with a STALL

vars == <<firmware, heard, stalled>>

-----------------------------------------------------------------------------
(* The host.                                                                *)

ReadDevice == Get("device", "GET_DESCRIPTOR", "device", 0, 0, DeviceLength)
ReadHead   == Get("device", "GET_DESCRIPTOR", "configuration", 0, 0, 9)
ReadWhole  == Get("device", "GET_DESCRIPTOR", "configuration", 0, 0, Whole(firmware))
Configure  == Set("device", "SET_CONFIGURATION", "none", 1, 0)

(* The descriptors that lie wholly within what was read.                    *)
Within(descriptors, bytes) ==
  LET whole == {n \in 0 .. Len(descriptors) : Length(SubSeq(descriptors, 1, n)) <= bytes}
  IN  SubSeq(descriptors, 1, Max(whole))

Known(s) == s \in DOMAIN heard
Seen == IF Known(ReadWhole) THEN Within(Firmware[firmware].configuration, heard[ReadWhole]) ELSE <<>>
Some(kind) == {d \in Range(Seen) : d.kind = kind}
Named == Firmware[firmware].device \cup {d.string : d \in Some("configuration") \cup Some("interface")}

ReadStrings == {Get("device", "GET_DESCRIPTOR", "string", index, 0, 255) : index \in {0} \cup Named}
ReadReports == {Get("interface", "GET_DESCRIPTOR", "report", 0, 0, d.size) : d \in Some("hid")}

(* A host relies on what it is told of: a HID interface has a report        *)
(* descriptor, a CDC interface takes a line coding, and an endpoint has a   *)
(* status and can be cleared.                                               *)
OfClass == IF Some("functional") = {} THEN ReadReports ELSE {ClassSet("SET_LINE_CODING", LineCoding)}
OfEndpoint(e) ==
  LET direction == IF e.in THEN "in" ELSE "out"
  IN  {Get("endpoint", "GET_STATUS", direction, 0, e.number, 2),
       Set("endpoint", "CLEAR_FEATURE", direction, 0, e.number)}

(* What may be asked next.                                                  *)
Questions ==
  LET after(s, asked) == IF Known(s) THEN asked ELSE {}
  IN  {s \in {ReadDevice} \cup after(ReadDevice, {ReadHead}) \cup after(ReadHead, {ReadWhole})
             \cup after(ReadWhole, ReadStrings \cup {Configure})
             \cup after(Configure, OfClass \cup UNION {OfEndpoint(e) : e \in Some("endpoint")}) :
       ~Known(s)}

Ask(s) ==
  LET answer == SetupRequest(firmware, s)
  IN  /\ ~stalled
      /\ stalled' = (answer.kind \in {"refused", "refusedRead", "refusedWrite"})
      /\ heard' = heard @@ (s :> Min({answer.len, answer.asked}))
      /\ UNCHANGED firmware

-----------------------------------------------------------------------------

Init == firmware \in DOMAIN Firmware /\ heard = <<>> /\ stalled = FALSE

Next == \E s \in Questions : Ask(s)

-----------------------------------------------------------------------------
(* The property, and what it says of a report and of a configuration.       *)

(* The bits that the INPUT or OUTPUT items of a report add up to, by the    *)
(* REPORT_SIZE and the REPORT_COUNT last said.                              *)
Bits(report, main) ==
  FoldLeft(LAMBDA state, item :
             CASE item.tag \in {"size", "count"} -> [state EXCEPT ![item.tag] = item.value]
               [] item.tag = main -> [state EXCEPT !.bits = @ + state.size * state.count]
               [] OTHER -> state,
           [size |-> 0, count |-> 0, bits |-> 0], report).bits

(* Every collection is ended, and none before it has begun.                 *)
Balanced(report) ==
  LET times(tag, n) == Cardinality({k \in 1 .. n : report[k].tag = tag})
  IN  /\ times("begin", Len(report)) = times("end", Len(report))
      /\ \A n \in 1 .. Len(report) : times("end", n) <= times("begin", n)

(* The endpoints that follow an interface, up to the next.                  *)
EndpointsOf(n) ==
  {k \in n + 1 .. Len(Seen) :
     Seen[k].kind = "endpoint" /\ \A m \in n + 1 .. k : Seen[m].kind # "interface"}

(* An output report arrives at an endpoint whose buffer it fills, or with   *)
(* SET_REPORT, whose callback takes as much of it as there is.              *)
TakesReport(f, endpoints, bits) ==
  \/ f.receives /\ \E e \in endpoints : ~e.in /\ bits = 8 * e.size
  \/ ~f.receives /\ bits = (IF "SET_REPORT" \in DOMAIN f.callbacks /\ f.callbacks.SET_REPORT # None
                            THEN 8 * f.callbacks.SET_REPORT ELSE 0)

(* A host that follows what it is told is never refused, and what it        *)
(* learns is so: as many interfaces and endpoints as announced; no endpoint *)
(* without a buffer of its size, and none that main() uses left out;        *)
(* no interface joined to one that is missing; and input and output reports *)
(* as long as what main() sends and takes.                                  *)
Understood ==
  /\ ~stalled
  /\ Questions = {} =>
       LET f == Firmware[firmware]
           numbers == {d.number : d \in Some("interface")}
           endpoints == Some("endpoint")
           places == {n \in 1 .. Len(Seen) : Seen[n].kind = "interface"}
       IN  /\ \A d \in Some("configuration") : numbers = 0 .. d.interfaces - 1
           /\ \A n \in places : Cardinality(EndpointsOf(n)) = Seen[n].endpoints
           /\ \A e \in endpoints :
                /\ e.number \in DOMAIN f.buffers
                /\ e.size = IF e.in THEN f.buffers[e.number].in ELSE f.buffers[e.number].out
           /\ \A d \in Some("functional") : d.of \subseteq numbers
           /\ f.report # <<>> =>
                /\ Balanced(f.report)
                /\ \E e \in endpoints : e.in /\ Bits(f.report, "input") = 8 * f.sends /\ f.sends <= e.size
                /\ TakesReport(f, endpoints, Bits(f.report, "output"))
=============================================================================
