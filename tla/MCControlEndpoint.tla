-------------------------- MODULE MCControlEndpoint --------------------------
(***************************************************************************)
(* Instances of ControlEndpoint.  A packet is two bytes: data stages of up  *)
(* to five bytes take one to three packets, and end with a short packet,    *)
(* with an empty one or with the last byte asked for.                       *)
(***************************************************************************)
EXTENDS ControlEndpoint

Read(kind, n, wLength) == [kind |-> kind, len |-> n, asked |-> wLength, addr |-> 0]
Write(n, wLength)      == [kind |-> "write", len |-> n, asked |-> wLength, addr |-> 0]
Plain(k)               == [kind |-> k, len |-> 0, asked |-> 0, addr |-> 0]
SetAddress             == [kind |-> "setAddress", len |-> 0, asked |-> 0, addr |-> 1]
RefusedData(k)         == [kind |-> k, len |-> 1, asked |-> 3, addr |-> 0]

(* What the bootloader answers: no class descriptor of it is a multiple of  *)
(* a packet.                                                                *)
BootloaderRequests ==
  {Read("read", 1, 1), Read("read", 3, 5), Read("read", 4, 5), Read("read", 5, 4), Read("classRead", 3, 5),
   Plain("noData"), SetAddress, Plain("refused"), RefusedData("refusedRead"),
   RefusedData("refusedWrite")}

(* An application with feature reports; the buffer it offers is as long as  *)
(* the report, as in passfob, or shorter than what the host writes.         *)
ApplicationRequests ==
  {Read("appRead", 4, 4), Read("appRead", 3, 5), Write(3, 3), Write(4, 4), Write(2, 5),
   Read("classRead", 3, 5), Plain("noData"), Plain("refused")}

(* The bootloader's host gives up anything but SET_ADDRESS.                 *)
Bootloader ==
  [requests |-> BootloaderRequests, resets |-> TRUE, newer |-> FALSE,
   givesUp |-> {"read", "classRead", "refusedRead", "noData", "refused", "refusedWrite"},
   loses |-> {"read", "classRead", "refusedRead", "refusedWrite"}]

(* An application's host completes what the application takes part in.      *)
Application ==
  [requests |-> ApplicationRequests, resets |-> TRUE, newer |-> FALSE,
   givesUp |-> {"classRead", "noData", "refused"},
   loses |-> {"classRead", "appRead"}]

(* A host that halts endpoint 0, and reads in vain until it clears it again.*)
Halting ==
  [requests |-> {Read("read", 3, 5), Read("read", 4, 5), Read("classRead", 3, 5), Plain("noData"),
                 Plain("haltEp0"), Plain("clearEp0"), Plain("refused")},
   resets |-> TRUE, newer |-> FALSE, givesUp |-> {"read", "classRead"}, loses |-> {"read"}]

(* The other lengths that the firmwares have, in both copies of usb.c.  A   *)
(* read that ends with an empty packet is not given up where the firmware   *)
(* has callbacks: EmptyPacketLeft.                                          *)
Lengths(copy) ==
  [requests |-> {Read("read", 1, 1), Read("read", 5, 2), Read("read", 5, 5), Write(1, 1),
                 Plain("noData"), SetAddress, Plain("clearEp0"), Plain("refused"),
                 RefusedData("refusedRead"), RefusedData("refusedWrite")}
                \cup IF copy THEN {Read("read", 5, 3), Plain("haltEp0")}
                     ELSE {Read("classRead", 1, 1), Read("classRead", 5, 5), Read("appRead", 1, 3), Write(1, 2)},
   resets |-> TRUE, newer |-> copy, givesUp |-> {"read", "classRead"}, loses |-> {"read"}]

Firmwares == {Bootloader, Application, Halting, Lengths(FALSE), Lengths(TRUE)}

Only(asked, givenUp) ==
  {[requests |-> asked \cup {Plain("noData")}, givesUp |-> givenUp, loses |-> {}, resets |-> FALSE,
    newer |-> FALSE]}

MoveAway == Only({SetAddress}, {"setAddress"})

(* A standard read that ends with an empty packet, and an application's.    *)
EmptyPacketLeft == Only({Read("read", 4, 5), Read("appRead", 3, 3)}, {"read"})

(* An application's writes, none of them given up, and bus resets.          *)
WritesAndResets == {[p EXCEPT !.resets = TRUE] : p \in Only({Write(3, 3)}, {})}
=============================================================================
