----------------------------- MODULE MCUsbDevice -----------------------------
(***************************************************************************)
(* UsbDevice with the hosts and firmwares of MCControlEndpoint, which leave *)
(* the data endpoint alone, and one more that uses it.                      *)
(***************************************************************************)
EXTENDS UsbDevice, MCControlEndpoint, TLC

Using(requests, copy) ==
  [requests |-> requests, resets |-> TRUE, givesUp |-> {"read"}, loses |-> {}, newer |-> copy]

Acting == {Plain(k) : k \in EndpointKind}

MCProfiles ==
  Firmwares \cup {Using(Acting \cup {Read("read", 3, 5)}, FALSE), Using(Acting \cup {Plain("haltEp0")}, TRUE)}

(* What the firmwares make of the requests they may be asked is among the   *)
(* profiles of their copy of usb.c, as far as the sizes matter to it: how   *)
(* many whole packets there are, how the last one ends the data stage, and  *)
(* whether a write is too long for the buffer.                              *)
R == INSTANCE Requests

Shape(r, size) ==
  LET n == IF IsIn(r) THEN Min(r.len, r.asked) ELSE r.asked
  IN  [kind |-> r.kind] @@
      IF r.kind \in {"refusedRead", "refusedWrite"} THEN <<>>
      ELSE [packets |-> Min(n \div size, 2),
            end |-> CASE n % size > 0 -> "short" [] n = r.asked -> "asked" [] OTHER -> "empty",
            fits |-> IsIn(r) \/ r.asked <= r.len]

ShapesOf(copy) == {Shape(r, EP_0_LEN) : r \in UNION {p.requests : p \in {q \in MCProfiles : q.newer = copy}}}

ASSUME ProfilesCover ==
  \A f \in DOMAIN R!Firmware : \A s \in R!Legal(f) :
    Shape(R!SetupRequest(f, s), 8) \in ShapesOf(f = "minimalCDC")

(* They are of the kind the theorems are about, which WritesFit has lose no *)
(* ACK of a write.                                                          *)
ASSUME ProfilesOrderly ==
  \A p \in MCProfiles : CompletesAddress(p) /\ WritesFit(p) /\ Orderly(p) /\ SeesThrough(p)

CONSTANT r1
MCReport == {r1}
=============================================================================
