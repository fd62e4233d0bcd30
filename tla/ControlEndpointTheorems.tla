------------------------ MODULE ControlEndpointTheorems ------------------------
(***************************************************************************)
(* Proofs about ControlEndpoint, for any packet size, any set of requests   *)
(* and any hosts and firmwares, which have to be well-behaved only where a  *)
(* property says how.  The steps are those of ControlEndpoint and, since    *)
(* the FIFO is shared, the arrival and handling of events of the data       *)
(* endpoint.                                                                *)
(***************************************************************************)
EXTENDS ControlEndpoint, TLAPS

DataEvent ==
  /\ Hears /\ \E way \in {"in", "out"} : events' = Append(events, [type |-> "data", dir |-> way])
  /\ UNCHANGED <<pktDis, address, addrPending, addr, needZlp, short, direc, ds, dts, halted, bd, hostVars, appVars>>

Step == Next \/ HandleData \/ DataEvent

-----------------------------------------------------------------------------
(* The inductive invariant.                                                 *)

Waiting  == {events[i] : i \in 1 .. Len(events)}
HasSetup == \E e \in Waiting : e.type = "SETUP"
HasIn    == \E e \in Waiting : e.type = "IN"
HasOut   == \E e \in Waiting : e.type = "OUT"

(* The device has seen what the host asks.                                  *)
Known == ~HasSetup

Total(r) == Min(r.len, r.asked)
Served == {"read", "classRead", "appRead"}
Refused == {"refused", "refusedRead", "refusedWrite"}
Status == Data(1, NoRequest, 0, 0)

(* What is asked of all hosts and firmwares, where it is.                   *)
AddressesCompleted == \A p \in Profiles : CompletesAddress(p)
NoWriteLost        == \A p \in Profiles : LosesNoWrite(p)
AllWritesFit       == \A p \in Profiles : WritesFit(p)
AllOrderly         == \A p \in Profiles : Orderly(p)

(* One event of a kind at most waits in the FIFO, and a SETUP behind all.   *)
OneOfAKind ==
  /\ \A i, j \in 1 .. Len(events) : events[i].type = events[j].type /\ events[i].type # "data" => i = j
  /\ \A i \in 1 .. Len(events) : events[i].type = "SETUP" => i = Len(events)

QueueInv ==
  /\ OneOfAKind
  /\ \A e \in Waiting : e.type = "SETUP" => e.req = cur
  /\ \A e \in Waiting : e.type = "OUT" /\ IsOut(cur) => e.len > 0
  /\ ~(HasSetup /\ HasOut)
  /\ pktDis <=> HasSetup
  /\ HasIn /\ Known /\ stage # "idle" => bd = Cpu /\ stage \in {"dataIn", "statusOut"}

(* Where the host is, and what the device knows of it.                      *)
HostInv ==
  /\ cur \in profile.requests \cup {NoRequest}
  /\ stage \in {"dataIn", "statusOut"} => IsIn(cur)
  /\ stage = "dataOut" => IsOut(cur) /\ sent < cur.asked /\ WholePackets(sent)
  /\ stage = "statusIn" => ~IsIn(cur) /\ (IsOut(cur) => sent = cur.asked)
  /\ stage \in {"dataOut", "statusIn"} => toggle = 1
  /\ HasSetup /\ stage # "idle" =>
       /\ toggle = 1 /\ got = 0 /\ intact /\ sent = 0 /\ stage # "statusOut"
       /\ stage = "statusIn" => ~IsOut(cur)
  /\ HasSetup /\ stage = "idle" => cur.kind \in profile.givesUp
  /\ HasSetup \/ stage # "idle" => outcome = "none"
  /\ HasOut => (IsIn(cur) /\ stage = "idle") \/ IsOut(cur)
  /\ Known /\ (stage # "idle" \/ HasOut) => (IsIn(cur) <=> direc = "IN")

(* The packet in BDS0IN is the one the host expects, or the last it took.   *)
PacketInv(p) ==
  /\ dts = 1 - p.dts
  /\ \/ p.len = 0 /\ ds.remaining = 0 /\ got = ds.at /\ toggle = p.dts
     \/ /\ p.len > 0 /\ p.from = cur /\ p.at + p.len = ds.at
        /\ p.len < EP_0_LEN => ds.remaining = 0
        /\ p.dts = toggle => got = p.at
        /\ p.dts # toggle => got = ds.at

ReadInv ==
  Known /\ stage = "dataIn" /\ cur.kind \in Served =>
    /\ ds.from = cur /\ ds.at + ds.remaining = Total(cur) /\ intact
    /\ bd.owner # "stall"
    /\ HasIn => got = ds.at /\ toggle = dts
    /\ bd.owner = "sie" => PacketInv(bd.packet)

ReadDoneInv ==
  IsIn(cur) /\ (stage = "statusOut" \/ outcome = "done") =>
    cur.kind \in Served /\ intact /\ got = Total(cur)

(* A request without data is answered as it should be; a write, with a      *)
(* STALL or the status stage.                                               *)
AnswerInv ==
  /\ outcome = "done" => cur.kind \notin Refused
  /\ Known =>
       /\ stage # "idle" /\ cur.kind \in Refused => bd = Stall /\ ds.remaining = 0
       /\ stage = "statusIn" /\ cur.kind \in Acknowledged => bd = Status
       /\ stage \in {"dataOut", "statusIn"} /\ cur.kind = "write" => bd \in {Cpu, Stall, Status}

(* The packet of a write that waits is the next one for the buffer.         *)
OutIs(e) ==
  /\ e.at = ds.at /\ e.at + e.len = sent /\ e.len > 0
  /\ e.len = Min(EP_0_LEN, cur.asked - e.at)
  /\ WholePackets(e.at)

(* A write goes on until it is refused, or the device has all it can take.  *)
Accepting ==
  /\ ds.outBuffer /\ ds.at + ds.remaining = cur.len /\ ~corrupt
  /\ ~HasOut => ds.at = sent
  /\ \A e \in Waiting : e.type = "OUT" => OutIs(e)
  /\ \/ bd = Cpu
     \/ /\ bd = Status
        /\ \/ ds.at = cur.asked /\ ~HasOut
           \/ ds.remaining = 0 /\ WholePackets(cur.len)

WriteInv ==
  NoWriteLost /\ Known /\ stage \in {"dataOut", "statusIn"} /\ cur.kind = "write" =>
    Accepting \/ (bd = Stall /\ ~ds.outBuffer /\ cur.asked > cur.len)

RefusalInv ==
  NoWriteLost /\ outcome = "stalled" => cur.kind \in Refused \/ (cur.kind = "write" /\ cur.asked > cur.len)

WriteDoneInv ==
  AllWritesFit /\ outcome = "done" /\ cur.kind = "write" =>
    ~corrupt /\ ds.at = cur.asked /\ ~HasOut /\ ds.remaining = 0

(* What the device has of a write is at least what the host knows it to     *)
(* have: packets may be repeated.  It is done with one only when its buffer *)
(* is full.                                                                 *)
Reaches(e) ==
  /\ e.at <= ds.at /\ e.at + e.len >= sent
  /\ e.len < EP_0_LEN => e.at + e.len = cur.asked

FillInv ==
  AllOrderly /\ Known /\ stage \in {"dataOut", "statusIn"} /\ cur.kind = "write" /\ ds.outBuffer =>
    /\ ds.at + ds.remaining = cur.len
    /\ ~HasOut => ds.at >= sent
    /\ \A e \in Waiting : e.type = "OUT" => Reaches(e)
    /\ bd = Cpu \/ (bd = Status /\ ds.remaining = 0)

(* A callback that is due is that of the transfer under way, or of a write  *)
(* whose status stage is over.                                              *)
Reading == Known /\ cur.kind = "appRead" /\ ~ds.outBuffer /\ (stage \in {"dataIn", "statusOut"} \/ HasOut)
Writing == Known /\ cur.kind = "write" /\ ds.outBuffer /\ stage \in {"dataOut", "statusIn"}
Written ==
  /\ HasIn /\ ds.remaining = 0 /\ direc = "OUT" /\ ~needZlp
  /\ stage = "idle" \/ HasSetup

CallbackInv ==
  AllOrderly =>
    /\ ds.callback => owed = 1
    /\ ~ds.callback => owed = 0
    /\ ds.outBuffer => ds.callback /\ direc = "OUT"
    /\ ds.callback => HasCallbacks(profile) /\ (Reading \/ Writing \/ Written)

AddressInv ==
  AddressesCompleted =>
    /\ Known /\ cur.kind = "setAddress" /\ stage = "statusIn" => addrPending /\ addr = cur.addr
    /\ addrPending =>
         \/ Known /\ cur.kind = "setAddress" /\ stage = "statusIn"
         \/ HasIn /\ addr = hostAddr
    /\ address # hostAddr =>
         /\ addrPending /\ HasIn /\ addr = hostAddr
         /\ cur.kind = "setAddress" /\ outcome = "done" /\ cur.addr = hostAddr

(* What is left to be sent is the rest of a request; unless the host may    *)
(* have given it up, of the current one.                                    *)
SendInv ==
  AllOrderly /\ ds.remaining > 0 /\ ~ds.outBuffer =>
    /\ ds.from \in profile.requests /\ ds.from.kind \in Served
    /\ WholePackets(ds.at) /\ ds.at + ds.remaining = Total(ds.from)
    /\ short = (ds.from.kind = "read" /\ ds.from.len < ds.from.asked)
    /\ ds.from.kind \notin profile.givesUp => Known /\ stage = "dataIn" /\ cur = ds.from

(* Where there are callbacks, an empty packet is owed to its own read only. *)
ZlpInv ==
  AllOrderly /\ needZlp /\ HasCallbacks(profile) =>
    /\ ~profile.resets /\ "read" \notin profile.givesUp
    /\ Known /\ stage = "dataIn" /\ cur.kind = "read" /\ cur.len < cur.asked /\ ds.remaining = 0
    /\ bd.owner = "sie" => bd.packet.len = EP_0_LEN

(* QueueInv to AnswerInv hold whatever hosts and firmwares do.              *)
ControlInv ==
  /\ TypeOK /\ QueueInv /\ HostInv /\ ReadInv /\ ReadDoneInv /\ AnswerInv
  /\ AddressInv
  /\ WriteInv /\ RefusalInv /\ WriteDoneInv
  /\ FillInv /\ CallbackInv /\ SendInv /\ ZlpInv

-----------------------------------------------------------------------------
(* Requests and buffers.                                                    *)

LEMMA RequestTypes ==
  /\ NoRequest \in Request
  /\ \A p \in Profiles : p.requests \subseteq Requests
  /\ \A r \in Requests : /\ r \in Request
                         /\ IsIn(r) \/ IsOut(r) => r.asked > 0
                         /\ IsIn(r) => r.len > 0
<1>1. NoRequest \in Request
  BY DEF NoRequest, Request, Kind
<1>2. \A p \in Profiles : p.requests \subseteq Requests
  BY DEF Requests
<1>3. \A r \in Requests : r \in Request
  BY ControlAssumption DEF Requests
<1>4. QED  BY <1>1, <1>2, <1>3, ControlAssumption

LEMMA KindCases ==
  \A r \in Request :
    /\ IsIn(r) <=> r.kind \in Served \cup {"refusedRead"}
    /\ IsOut(r) <=> r.kind \in {"write", "refusedWrite"}
    /\ ~IsIn(r) /\ ~IsOut(r) <=> r.kind \in Acknowledged \cup {"refused"}
BY DEF Request, Kind, IsIn, IsOut, Served, Acknowledged, EndpointKind

LEMMA BdCases ==
  ASSUME NEW b \in InBd
  PROVE  \/ b = Cpu \/ b = Stall
         \/ b.owner = "sie" /\ b.packet \in Packet /\ b = [owner |-> "sie", packet |-> b.packet]
BY DEF InBd, Cpu, Stall

LEMMA BdTypes ==
  /\ Cpu \in InBd /\ Stall \in InBd /\ Status \in InBd
  /\ Cpu.owner = "cpu" /\ Stall.owner = "stall" /\ Status.owner = "sie"
  /\ Cpu # Stall /\ Cpu # Status /\ Stall # Status
  /\ Status.packet = [dts |-> 1, from |-> NoRequest, at |-> 0, len |-> 0]
BY ControlAssumption DEF Cpu, Stall, Status, Data, InBd, Packet

LEMMA DataType ==
  ASSUME NEW t \in {0, 1}, NEW r \in Requests \cup {NoRequest}, NEW offset \in Nat, NEW n \in 0 .. EP_0_LEN
  PROVE  /\ Data(t, r, offset, n) \in InBd /\ Data(t, r, offset, n).owner = "sie"
         /\ Data(t, r, offset, n).packet = [dts |-> t, from |-> r, at |-> offset, len |-> n]
BY DEF Data, InBd, Packet

LEMMA MinFacts ==
  \A a, b \in Nat : /\ Min(a, b) \in Nat /\ Min(a, b) <= a /\ Min(a, b) <= b
                    /\ Min(a, b) = a \/ Min(a, b) = b
BY DEF Min

LEMMA PacketSize == EP_0_LEN \in Nat /\ EP_0_LEN > 0
BY ControlAssumption

LEMMA NextWholePacket ==
  /\ WholePackets(0) /\ WholePackets(EP_0_LEN)
  /\ \A n \in Nat : WholePackets(n) => WholePackets(n + EP_0_LEN)
<1> USE PacketSize
<1>1. WholePackets(0)
  <2>1. 0 \in 0 .. 0 /\ 0 = 0 * EP_0_LEN
    OBVIOUS
  <2>2. QED  BY <2>1 DEF WholePackets
<1>2. WholePackets(EP_0_LEN)
  <2>1. 1 \in 0 .. EP_0_LEN /\ EP_0_LEN = 1 * EP_0_LEN
    OBVIOUS
  <2>2. QED  BY <2>1 DEF WholePackets
<1>3. ASSUME NEW n \in Nat, WholePackets(n)  PROVE WholePackets(n + EP_0_LEN)
  <2>1. PICK k \in 0 .. n : n = k * EP_0_LEN
    BY <1>3 DEF WholePackets
  <2>2. (k + 1) * EP_0_LEN = k * EP_0_LEN + EP_0_LEN
    OBVIOUS
  <2>3. k + 1 \in 0 .. n + EP_0_LEN
    OBVIOUS
  <2>4. QED  BY <2>1, <2>2, <2>3 DEF WholePackets
<1>4. QED  BY <1>1, <1>2, <1>3

-----------------------------------------------------------------------------
(* The FIFO.                                                                *)

LEMMA WaitingTypes ==
  ASSUME events \in Seq(Event)
  PROVE  /\ \A e \in Waiting : e \in Event
         /\ \A e \in Waiting : e.type = "SETUP" => e.req \in Requests
         /\ \A e \in Waiting : e.type = "OUT" => e.at \in Nat /\ e.len \in 0 .. EP_0_LEN
<1>1. \A e \in Waiting : e \in Event
  BY DEF Waiting
<1>2. QED  BY <1>1 DEF Event

LEMMA Enqueued ==
  ASSUME events \in Seq(Event), NEW e \in Event, events' = Append(events, e), Len(events) < UstatDepth
  PROVE  /\ events' \in Seq(Event) /\ Len(events') <= UstatDepth
         /\ Waiting' = Waiting \cup {e}
         /\ HasSetup' <=> HasSetup \/ e.type = "SETUP"
         /\ HasIn' <=> HasIn \/ e.type = "IN"
         /\ HasOut' <=> HasOut \/ e.type = "OUT"
<1>1. /\ events' \in Seq(Event) /\ Len(events') = Len(events) + 1
      /\ events'[Len(events) + 1] = e
      /\ \A i \in 1 .. Len(events) : events'[i] = events[i]
  OBVIOUS
<1>2. Len(events') <= UstatDepth
  BY <1>1 DEF UstatDepth
<1>3. Waiting' = Waiting \cup {e}
  BY <1>1 DEF Waiting
<1>4. QED  BY <1>1, <1>2, <1>3 DEF HasSetup, HasIn, HasOut

LEMMA EnqueuedInOrder ==
  ASSUME events \in Seq(Event), OneOfAKind, Known, NEW e \in Event, events' = Append(events, e),
         e.type = "IN" => ~HasIn, e.type = "OUT" => ~HasOut
  PROVE  OneOfAKind'
<1>1. /\ Len(events) \in Nat /\ Len(events') = Len(events) + 1
      /\ events'[Len(events) + 1] = e
      /\ \A i \in 1 .. Len(events) : events'[i] = events[i]
  OBVIOUS
<1>2. \A i \in 1 .. Len(events) : events[i] \in Waiting
  BY DEF Waiting
<1>3. \A i \in 1 .. Len(events) : events[i].type # "SETUP"
  BY <1>2 DEF Known, HasSetup
<1>4. e.type \in {"SETUP", "IN", "OUT", "data"}
  BY DEF Event
<1>5. \A i \in 1 .. Len(events) : e.type # "data" => events[i].type # e.type
  BY <1>2, <1>3, <1>4 DEF HasIn, HasOut
<1>6. ASSUME NEW i \in 1 .. Len(events'), NEW j \in 1 .. Len(events'),
             events'[i].type = events'[j].type, events'[i].type # "data"
      PROVE  i = j
  <2>1. CASE i \in 1 .. Len(events) /\ j \in 1 .. Len(events)
    BY <2>1, <1>1, <1>6 DEF OneOfAKind
  <2>2. CASE i = Len(events) + 1 \/ j = Len(events) + 1
    BY <2>2, <1>1, <1>5, <1>6
  <2>3. QED  BY <2>1, <2>2, <1>1
<1>7. \A i \in 1 .. Len(events') : events'[i].type = "SETUP" => i = Len(events')
  BY <1>1, <1>3
<1>8. QED  BY <1>6, <1>7 DEF OneOfAKind

LEMMA Dequeued ==
  ASSUME events \in Seq(Event), Len(events) <= UstatDepth, OneOfAKind,
         NEW type \in {"IN", "OUT", "data"}, Takes(type)
  PROVE  /\ events' \in Seq(Event) /\ Len(events') <= UstatDepth
         /\ Head(events) \in Waiting /\ Head(events).type = type
         /\ Waiting' \subseteq Waiting
         /\ OneOfAKind'
         /\ HasSetup' <=> HasSetup
         /\ HasIn' <=> HasIn /\ type # "IN"
         /\ HasOut' <=> HasOut /\ type # "OUT"
<1>1. /\ Len(events) \in Nat \ {0} /\ Len(events') = Len(events) - 1 /\ events' \in Seq(Event)
      /\ \A i \in 1 .. Len(events') : events'[i] = events[i + 1]
      /\ Head(events) = events[1] /\ events[1].type = type
  BY DEF Takes
<1>2. Head(events) \in Waiting
  BY <1>1 DEF Waiting
<1>3. Waiting = Waiting' \cup {events[1]}
  <2>1. \A i \in 1 .. Len(events) : i = 1 \/ i - 1 \in 1 .. Len(events')
    BY <1>1
  <2>2. \A i \in 1 .. Len(events) : i # 1 => events[i] = events'[i - 1]
    BY <1>1, <2>1
  <2>3. Waiting \subseteq Waiting' \cup {events[1]}
    BY <2>1, <2>2 DEF Waiting
  <2>4. \A i \in 1 .. Len(events') : i + 1 \in 1 .. Len(events)
    BY <1>1
  <2>5. Waiting' \subseteq Waiting
    BY <1>1, <2>4 DEF Waiting
  <2>6. QED  BY <1>1, <1>2, <2>3, <2>5
<1>4. \A i \in 1 .. Len(events') : type # "data" => events'[i].type # type
  BY <1>1 DEF OneOfAKind
<1>5. OneOfAKind'
  <2>1. \A i \in 1 .. Len(events') : i + 1 \in 1 .. Len(events)
    BY <1>1
  <2>2. ASSUME NEW i \in 1 .. Len(events'), NEW j \in 1 .. Len(events'),
               events'[i].type = events'[j].type, events'[i].type # "data"
        PROVE  i = j
    <3>1. i + 1 = j + 1
      BY <1>1, <2>1, <2>2 DEF OneOfAKind
    <3>2. QED  BY <3>1
  <2>3. ASSUME NEW i \in 1 .. Len(events'), events'[i].type = "SETUP"
        PROVE  i = Len(events')
    <3>1. i + 1 = Len(events)
      BY <1>1, <2>1, <2>3 DEF OneOfAKind
    <3>2. QED  BY <1>1, <3>1
  <2>4. QED  BY <2>2, <2>3 DEF OneOfAKind
<1>6. \A e \in Waiting' : type # "data" => e.type # type
  BY <1>4 DEF Waiting
<1>7. /\ HasSetup' <=> HasSetup
      /\ HasIn' <=> HasIn /\ type # "IN"
      /\ HasOut' <=> HasOut /\ type # "OUT"
  BY <1>1, <1>3, <1>6 DEF HasSetup, HasIn, HasOut
<1>8. QED  BY <1>1, <1>2, <1>3, <1>5, <1>7 DEF UstatDepth

LEMMA SetupDequeued ==
  ASSUME TypeOK, QueueInv, Takes("SETUP")
  PROVE  /\ events' = <<>> /\ Waiting' = {}
         /\ HasSetup /\ ~HasIn /\ ~HasOut /\ ~HasSetup' /\ ~HasIn' /\ ~HasOut' /\ OneOfAKind'
         /\ Head(events).req = cur /\ cur \in Requests
<1>1. /\ Len(events) \in Nat \ {0} /\ Head(events) = events[1] /\ events[1].type = "SETUP"
      /\ events' = Tail(events)
  BY DEF Takes, TypeOK
<1>2. Len(events) = 1
  <2>1. 1 \in 1 .. Len(events)
    BY <1>1
  <2>2. QED  BY <1>1, <2>1 DEF QueueInv, OneOfAKind
<1>3. events' = <<>>
  BY <1>1, <1>2 DEF TypeOK
<1>4. Waiting = {events[1]} /\ Waiting' = {}
  BY <1>2, <1>3 DEF Waiting
<1>5. events[1].req = cur
  BY <1>1, <1>4 DEF QueueInv
<1>6. events[1].req \in Requests
  BY <1>1, <1>4, WaitingTypes DEF TypeOK
<1>7. HasSetup /\ ~HasIn /\ ~HasOut
  BY <1>1, <1>4 DEF HasSetup, HasIn, HasOut
<1>8. ~HasSetup' /\ ~HasIn' /\ ~HasOut'
  BY <1>4 DEF HasSetup, HasIn, HasOut
<1>9. OneOfAKind'
  BY <1>3 DEF OneOfAKind
<1>10. QED  BY <1>1, <1>3, <1>4, <1>5, <1>6, <1>7, <1>8, <1>9

(* What the types say, one variable at a time.                              *)
LEMMA Typed ==
  ASSUME ControlInv
  PROVE  /\ events \in Seq(Event) /\ Len(events) <= UstatDepth /\ OneOfAKind
         /\ profile \in Profiles /\ profile.requests \subseteq Requests
         /\ cur \in Request /\ cur \in Requests \cup {NoRequest}
         /\ cur.len \in Nat /\ cur.asked \in Nat /\ cur.addr \in Nat /\ cur.kind \in Kind
         /\ ds = [callback |-> ds.callback, outBuffer |-> ds.outBuffer, from |-> ds.from,
                  at |-> ds.at, remaining |-> ds.remaining]
         /\ ds \in DataStage /\ ds.callback \in BOOLEAN /\ ds.outBuffer \in BOOLEAN
         /\ ds.from \in Requests \cup {NoRequest} /\ ds.at \in Nat /\ ds.remaining \in Nat
         /\ EP_0_LEN \in Nat /\ EP_0_LEN > 0
         /\ owed \in Int /\ got \in Nat /\ sent \in Nat /\ toggle \in {0, 1} /\ dts \in {0, 1}
         /\ addrPending \in BOOLEAN /\ needZlp \in BOOLEAN /\ short \in BOOLEAN /\ bd \in InBd
<1>1. TypeOK /\ OneOfAKind
  BY DEF ControlInv, QueueInv
<1>2. profile.requests \subseteq Requests /\ cur \in Request
  BY <1>1, RequestTypes DEF TypeOK
<1>3. cur.len \in Nat /\ cur.asked \in Nat /\ cur.addr \in Nat /\ cur.kind \in Kind
  BY <1>2 DEF Request
<1>4. ds \in DataStage
  BY <1>1 DEF TypeOK
<1>5. QED  BY <1>1, <1>2, <1>3, <1>4, PacketSize DEF TypeOK, DataStage

LEMMA ResetFacts ==
  ASSUME NEW d \in DataStage
  PROVE  /\ ResetDataStage(d) \in DataStage
         /\ ~ResetDataStage(d).callback /\ ~ResetDataStage(d).outBuffer
         /\ ResetDataStage(d).from = d.from /\ ResetDataStage(d).at = d.at
         /\ ResetDataStage(d).remaining = 0
BY DEF DataStage, ResetDataStage

LEMMA ConsumeFacts ==
  ASSUME NEW d \in DataStage, NEW n \in Nat, n <= d.remaining
  PROVE  /\ Consume(d, n) \in DataStage
         /\ Consume(d, n).callback = d.callback /\ Consume(d, n).outBuffer = d.outBuffer
         /\ Consume(d, n).from = d.from /\ Consume(d, n).at = d.at + n
         /\ Consume(d, n).remaining = d.remaining - n
<1>1. d.at + n \in Nat /\ d.remaining - n \in Nat /\ DOMAIN d = {"callback", "outBuffer", "from", "at", "remaining"}
  BY DEF DataStage
<1>2. /\ Consume(d, n).callback = d.callback /\ Consume(d, n).outBuffer = d.outBuffer
      /\ Consume(d, n).from = d.from /\ Consume(d, n).at = d.at + n
      /\ Consume(d, n).remaining = d.remaining - n
  BY <1>1 DEF Consume
<1>3. Consume(d, n) \in DataStage
  BY <1>1 DEF DataStage, Consume
<1>4. QED  BY <1>2, <1>3

LEMMA InDequeued ==
  ASSUME ControlInv, Takes("IN")
  PROVE  /\ events' \in Seq(Event) /\ Len(events') <= UstatDepth /\ OneOfAKind'
         /\ Waiting' \subseteq Waiting
         /\ (HasSetup' <=> HasSetup) /\ HasIn /\ ~HasIn' /\ (HasOut' <=> HasOut)
         /\ Known /\ stage # "idle" => bd = Cpu /\ stage \in {"dataIn", "statusOut"}
<1>1. HasIn
  BY Typed, Dequeued DEF HasIn
<1>2. Known /\ stage # "idle" => bd = Cpu /\ stage \in {"dataIn", "statusOut"}
  BY <1>1 DEF ControlInv, QueueInv
<1>3. QED  BY <1>1, <1>2, Typed, Dequeued

LEMMA OutDequeued ==
  ASSUME ControlInv, Takes("OUT")
  PROVE  /\ events' \in Seq(Event) /\ Len(events') <= UstatDepth /\ OneOfAKind'
         /\ Waiting' \subseteq Waiting
         /\ (HasSetup' <=> HasSetup) /\ ~HasSetup /\ (HasIn' <=> HasIn) /\ HasOut /\ ~HasOut'
         /\ Head(events) \in Waiting /\ Head(events).type = "OUT"
<1>1. Head(events) \in Waiting /\ Head(events).type = "OUT"
  BY Typed, Dequeued
<1>2. HasOut
  BY <1>1 DEF HasOut
<1>3. ~HasSetup
  BY <1>2 DEF ControlInv, QueueInv
<1>4. QED  BY <1>1, <1>2, <1>3, Typed, Dequeued

-----------------------------------------------------------------------------
(* usb_service(), on an IN event: whatever follows, an address that is      *)
(* pending is the one the host has begun to use.                            *)

LEMMA AddressSet ==
  ASSUME ControlInv, Takes("IN"), SetPendingAddress, UNCHANGED <<cur, stage, outcome, hostAddr>>
  PROVE  address' \in Nat /\ addrPending' \in BOOLEAN /\ addr' \in Nat /\ AddressInv'
<1> USE DEF ControlInv
<1>1. HasIn /\ (Known' <=> Known) /\ ~(Known /\ stage = "statusIn")
  BY InDequeued DEF Known
<1>2. addrPending' = FALSE /\ addr' = addr /\ address' = IF addrPending THEN addr ELSE address
  BY DEF SetPendingAddress
<1>3. AddressInv'
  <2>1. SUFFICES ASSUME AddressesCompleted  PROVE address' = hostAddr
    BY <1>1, <1>2 DEF AddressInv
  <2>2. QED  BY <1>1, <1>2, <2>1 DEF AddressInv
<1>4. address' \in Nat /\ addr' \in Nat /\ addrPending' \in BOOLEAN
  <2>1. address' \in {addr, address}
    BY <1>2
  <2>2. QED  BY <1>2, <2>1 DEF TypeOK
<1>5. QED  BY <1>3, <1>4

LEMMA InDoneInv ==
  ASSUME ControlInv, HandleInDone
  PROVE  ControlInv'
<1> USE DEF ControlInv, hostVars
<1>1. /\ events' \in Seq(Event) /\ Len(events') <= UstatDepth /\ OneOfAKind'
      /\ Waiting' \subseteq Waiting
      /\ (HasSetup' <=> HasSetup) /\ ~HasIn' /\ HasIn /\ (HasOut' <=> HasOut)
  BY InDequeued DEF HandleInDone
<1>2. /\ ds.remaining = 0 /\ ~needZlp
      /\ direc = "OUT" =>
           /\ (ds.callback => owed' = owed - 1) /\ (~ds.callback => owed' = owed)
           /\ ~ds'.callback /\ ~ds'.outBuffer
      /\ ds' \in DataStage /\ ds'.from = ds.from /\ ds'.at = ds.at /\ ds'.remaining = 0
      /\ direc # "OUT" => UNCHANGED <<owed, ds>>
      /\ UNCHANGED <<pktDis, needZlp, short, direc, dts, halted, bd, lost, corrupt, profile>>
      /\ UNCHANGED <<cur, stage, toggle, got, intact, sent, outcome, hostAddr, halts>>
  <2>1. CASE ds.callback
    BY <2>1, Typed, ResetFacts DEF HandleInDone
  <2>2. CASE ~ds.callback
    BY <2>2, Typed, ResetFacts DEF HandleInDone
  <2>3. QED  BY <2>1, <2>2
<1>3. /\ Known' <=> Known
      /\ Known /\ stage # "idle" => bd = Cpu /\ stage \in {"dataIn", "statusOut"}
  BY <1>1 DEF QueueInv, Known
<1>4. AddressInv' /\ address' \in Nat /\ addrPending' \in BOOLEAN /\ addr' \in Nat
  BY <1>2, AddressSet DEF HandleInDone
<1>5. TypeOK'
  <2>1. ds' \in DataStage /\ owed' \in Int
    BY <1>2, Typed DEF TypeOK
  <2>2. QED  BY <1>1, <1>2, <1>4, <2>1 DEF TypeOK
<1>6. QueueInv'
  BY <1>1, <1>2, <1>3 DEF QueueInv
<1>7. HostInv'
  BY <1>1, <1>2, <1>3 DEF HostInv
<1>8. ReadInv'
  <2>1. direc # "OUT" \/ ~(Known /\ stage = "dataIn")
    BY DEF HostInv
  <2>2. QED  BY <1>1, <1>2, <1>3, <2>1, BdTypes DEF ReadInv
<1>9. ReadDoneInv' /\ AnswerInv'
  BY <1>2, <1>3 DEF ReadDoneInv, AnswerInv
<1>10. WriteInv' /\ RefusalInv' /\ FillInv'
  BY <1>2, <1>3 DEF WriteInv, RefusalInv, FillInv
<1>11. WriteDoneInv'
  BY <1>1, <1>2 DEF WriteDoneInv
<1>12. CallbackInv'
  <2>1. CASE direc = "OUT"
    BY <2>1, <1>2, Typed DEF CallbackInv
  <2>2. CASE direc # "OUT"
    BY <2>2, <1>1, <1>2, <1>3 DEF CallbackInv, Reading, Writing, Written
  <2>3. QED  BY <2>1, <2>2
<1>13. SendInv' /\ ZlpInv'
  BY <1>2 DEF SendInv, ZlpInv
<1>14. QED  BY <1>5, <1>6, <1>7, <1>8, <1>9, <1>10, <1>11, <1>12, <1>4, <1>13

-----------------------------------------------------------------------------
(* usb_service(): the status stage of a read.                               *)

LEMMA StatusOutInv ==
  ASSUME ControlInv, HandleStatusOut
  PROVE  ControlInv'
<1> USE DEF ControlInv, hostVars
<1>1. /\ events' \in Seq(Event) /\ Len(events') <= UstatDepth /\ OneOfAKind'
      /\ Waiting' \subseteq Waiting
      /\ (HasSetup' <=> HasSetup) /\ ~HasSetup /\ (HasIn' <=> HasIn) /\ ~HasOut' /\ HasOut
  BY OutDequeued DEF HandleStatusOut
<1>2. /\ direc = "IN" /\ (ds.callback => owed' = owed - 1) /\ (~ds.callback => owed' = owed)
      /\ ds' \in DataStage /\ ~ds'.callback /\ ~ds'.outBuffer
      /\ ds'.from = ds.from /\ ds'.at = ds.at /\ ds'.remaining = 0
      /\ UNCHANGED <<pktDis, address, addrPending, addr, needZlp, short, direc, dts, halted, bd, lost, corrupt, profile>>
      /\ UNCHANGED <<cur, stage, toggle, got, intact, sent, outcome, hostAddr, halts>>
  <2>1. CASE ds.callback
    BY <2>1, Typed, ResetFacts DEF HandleStatusOut
  <2>2. CASE ~ds.callback
    BY <2>2, Typed, ResetFacts DEF HandleStatusOut
  <2>3. QED  BY <2>1, <2>2
<1>3. ~HasSetup /\ Known /\ Known' /\ IsIn(cur) /\ stage = "idle"
  BY <1>1, <1>2, Typed, KindCases DEF HostInv, Known, Served
<1>4. TypeOK'
  <2>1. ds' \in DataStage /\ owed' \in Int /\ address' \in Nat
    BY <1>2, Typed DEF TypeOK
  <2>2. QED  BY <1>1, <1>2, <2>1 DEF TypeOK
<1>5. QueueInv'
  BY <1>1, <1>2, <1>3 DEF QueueInv
<1>6. HostInv'
  BY <1>1, <1>2, <1>3 DEF HostInv
<1>7. ReadInv' /\ ReadDoneInv' /\ AnswerInv' /\ WriteInv' /\ RefusalInv' /\ FillInv'
  BY <1>2, <1>3 DEF ReadInv, ReadDoneInv, AnswerInv, WriteInv, RefusalInv, FillInv
<1>8. WriteDoneInv'
  BY <1>1, <1>2 DEF WriteDoneInv
<1>9. CallbackInv'
  BY <1>2, Typed DEF CallbackInv
<1>10. AddressInv'
  BY <1>1, <1>2, <1>3 DEF AddressInv
<1>11. SendInv' /\ ZlpInv'
  BY <1>2, <1>3 DEF SendInv, ZlpInv
<1>12. QED  BY <1>4, <1>5, <1>6, <1>7, <1>8, <1>9, <1>10, <1>11

-----------------------------------------------------------------------------
(* usb_service(): the next packet of a read, and the empty one.             *)

LEMMA Sends ==
  ASSUME ControlInv, NEW r \in Requests \cup {NoRequest}, NEW offset \in Nat, NEW n \in 0 .. EP_0_LEN,
         NEW t \in {0, 1}, SendIn(r, offset, n, t)
  PROVE  /\ bd' \in InBd /\ dts' \in {0, 1}
         /\ \/ bd' = Cpu
            \/ /\ bd'.owner = "sie" /\ dts' = 1 - t
               /\ bd'.packet.dts = t /\ bd'.packet.from = r /\ bd'.packet.at = offset /\ bd'.packet.len = n
<1>1. CASE halted
  BY <1>1, BdTypes DEF SendIn
<1>2. CASE ~halted
  <2>1. bd' = Data(t, r, offset, n) /\ dts' = 1 - t
    BY <1>2 DEF SendIn
  <2>2. /\ bd' \in InBd /\ bd'.owner = "sie"
        /\ bd'.packet = [dts |-> t, from |-> r, at |-> offset, len |-> n]
    BY <2>1, DataType
  <2>3. dts' \in {0, 1}
    BY <2>1
  <2>4. QED  BY <2>1, <2>2, <2>3
<1>3. QED  BY <1>1, <1>2

LEMMA InMoreInv ==
  ASSUME ControlInv, HandleInMore
  PROVE  ControlInv'
<1> USE DEF ControlInv, hostVars, appVars
<1> DEFINE n == Min(ds.remaining, EP_0_LEN)
<1>1. /\ events' \in Seq(Event) /\ Len(events') <= UstatDepth /\ OneOfAKind'
      /\ Waiting' \subseteq Waiting
      /\ (HasSetup' <=> HasSetup) /\ ~HasIn' /\ HasIn /\ (HasOut' <=> HasOut)
      /\ Known /\ stage # "idle" => bd = Cpu /\ stage \in {"dataIn", "statusOut"}
  BY InDequeued DEF HandleInMore
<1>2. /\ ds.remaining > 0 /\ n \in Nat /\ n > 0 /\ n \in 0 .. EP_0_LEN /\ n <= ds.remaining
      /\ n < EP_0_LEN => ds.remaining = n
      /\ n < ds.remaining => n = EP_0_LEN
  BY Typed DEF HandleInMore, Min
<1>3. /\ ds' \in DataStage /\ ds'.callback = ds.callback /\ ds'.outBuffer = ds.outBuffer
      /\ ds'.from = ds.from /\ ds'.at = ds.at + n /\ ds'.remaining = ds.remaining - n
  BY <1>2, Typed, ConsumeFacts DEF HandleInMore
<1>4. /\ bd' \in InBd /\ dts' \in {0, 1}
      /\ \/ bd' = Cpu
         \/ /\ bd'.owner = "sie" /\ dts' = 1 - dts
            /\ bd'.packet.dts = dts /\ bd'.packet.from = ds.from /\ bd'.packet.at = ds.at /\ bd'.packet.len = n
  <2>1. SendIn(ds.from, ds.at, n, dts)
    BY DEF HandleInMore
  <2>2. ds.from \in Requests \cup {NoRequest} /\ ds.at \in Nat /\ n \in 0 .. EP_0_LEN /\ dts \in {0, 1}
    BY <1>2, Typed
  <2>3. QED  BY <2>1, <2>2, Sends
<1>5. /\ needZlp' = (needZlp \/ (ds.remaining = n /\ n = EP_0_LEN /\ short))
      /\ UNCHANGED <<pktDis, short, direc, halted, profile, owed, lost, corrupt>>
      /\ UNCHANGED <<cur, stage, toggle, got, intact, sent, outcome, hostAddr, halts>>
  BY DEF HandleInMore
<1>6. Known' <=> Known
  BY <1>1 DEF Known
<1>7. AddressInv' /\ address' \in Nat /\ addrPending' \in BOOLEAN /\ addr' \in Nat
  BY <1>5, AddressSet DEF HandleInMore
<1>8. ~(Known /\ stage \in {"dataOut", "statusIn"})
  BY <1>1
<1>9. AllOrderly => ~ds.outBuffer /\ (ds.callback => Reading)
  BY <1>1, <1>2, <1>8 DEF CallbackInv, Writing, Written, Reading
<1>10. TypeOK'
  <2>1. needZlp' \in BOOLEAN
    BY <1>5
  <2>2. QED  BY <1>1, <1>3, <1>4, <1>5, <1>7, <2>1 DEF TypeOK
<1>11. QueueInv'
  BY <1>1, <1>5 DEF QueueInv
<1>12. HostInv'
  BY <1>1, <1>5, <1>6 DEF HostInv
<1>13. ReadInv'
  <2>1. SUFFICES ASSUME Known, stage = "dataIn", cur.kind \in Served
                 PROVE  /\ ds'.from = cur /\ ds'.at + ds'.remaining = Total(cur) /\ intact
                        /\ bd'.owner # "stall"
                        /\ bd'.owner = "sie" => PacketInv(bd.packet)'
    BY <1>1, <1>5, <1>6 DEF ReadInv
  <2>2. ds.from = cur /\ ds.at + ds.remaining = Total(cur) /\ intact /\ got = ds.at /\ toggle = dts
    BY <1>1, <2>1 DEF ReadInv
  <2>3. ds'.at + ds'.remaining = Total(cur)
    BY <1>2, <1>3, <2>2, Typed
  <2>4. CASE bd' = Cpu
    BY <1>3, <2>2, <2>3, <2>4, BdTypes
  <2>5. CASE bd'.owner = "sie" /\ bd' # Cpu
    <3>1. PacketInv(bd.packet)'
      BY <1>2, <1>3, <1>4, <1>5, <2>2, <2>5 DEF PacketInv
    <3>2. QED  BY <1>3, <2>2, <2>3, <2>5, <3>1
  <2>6. QED  BY <1>4, <2>4, <2>5
<1>14. ReadDoneInv'
  BY <1>5 DEF ReadDoneInv
<1>15. AnswerInv'
  BY <1>1, <1>5, <1>6, <1>8, BdTypes DEF AnswerInv
<1>16. WriteInv' /\ RefusalInv' /\ FillInv'
  BY <1>5, <1>6, <1>8 DEF WriteInv, RefusalInv, FillInv
<1>17. WriteDoneInv'
  BY <1>2, <1>5 DEF WriteDoneInv
<1>18. CallbackInv'
  BY <1>1, <1>3, <1>5, <1>6, <1>9 DEF CallbackInv, Reading
<1>19. SendInv'
  <2>1. SUFFICES ASSUME AllOrderly, ds.remaining - n > 0
                 PROVE  /\ ds'.from \in profile.requests /\ ds'.from.kind \in Served
                        /\ WholePackets(ds.at + n) /\ ds'.at + ds'.remaining = Total(ds'.from)
                        /\ short = (ds'.from.kind = "read" /\ ds'.from.len < ds'.from.asked)
                        /\ ds'.from.kind \notin profile.givesUp => Known /\ stage = "dataIn" /\ cur = ds'.from
    BY <1>3, <1>5, <1>6 DEF SendInv
  <2>2. WholePackets(ds.at + n)
    <3>1. n = EP_0_LEN
      BY <1>2, <2>1, Typed
    <3>2. WholePackets(ds.at)
      BY <1>2, <1>9, <2>1 DEF SendInv
    <3>3. QED  BY <3>1, <3>2, NextWholePacket, Typed
  <2>3. ds'.at + ds'.remaining = Total(ds.from)
    <3>1. ds.at + ds.remaining = Total(ds.from)
      BY <1>2, <1>9, <2>1 DEF SendInv
    <3>2. QED  BY <1>2, <1>3, <3>1, Typed
  <2>4. QED  BY <1>2, <1>3, <1>9, <2>1, <2>2, <2>3 DEF SendInv
<1>20. ZlpInv'
  <2>1. SUFFICES ASSUME AllOrderly, needZlp', HasCallbacks(profile)
                 PROVE  /\ ~profile.resets /\ "read" \notin profile.givesUp
                        /\ Known /\ stage = "dataIn" /\ cur.kind = "read" /\ cur.len < cur.asked
                        /\ ds.remaining = n
                        /\ bd'.owner = "sie" => bd'.packet.len = EP_0_LEN
    <3>1. ds.remaining = n => ds'.remaining = 0
      BY <1>3, Typed
    <3>2. QED  BY <1>5, <1>6, <3>1 DEF ZlpInv
  <2>2. ~needZlp
    BY <1>2, <2>1 DEF ZlpInv
  <2>3. ds.remaining = n /\ n = EP_0_LEN /\ short
    BY <1>5, <2>1, <2>2
  <2>4. /\ ds.from \in profile.requests /\ ds.from.kind = "read" /\ ds.from.len < ds.from.asked
        /\ WholePackets(ds.at) /\ ds.at + ds.remaining = Total(ds.from)
        /\ ds.from.kind \notin profile.givesUp => Known /\ stage = "dataIn" /\ cur = ds.from
    BY <1>2, <1>9, <2>1, <2>3 DEF SendInv
  <2>5. Total(ds.from) = ds.from.len
    BY <2>4 DEF Total, Min
  <2>6. EndsEmpty(ds.from)
    <3>1. WholePackets(ds.at + EP_0_LEN)
      BY <2>4, NextWholePacket, Typed
    <3>2. QED  BY <2>3, <2>4, <2>5, <3>1 DEF EndsEmpty
  <2>7. ~profile.resets /\ "read" \notin profile.givesUp
    BY <2>1, <2>4, <2>6, Typed DEF AllOrderly, Orderly
  <2>8. bd'.owner = "sie" => bd'.packet.len = EP_0_LEN
    BY <1>4, <2>3, BdTypes
  <2>9. QED  BY <2>3, <2>4, <2>7, <2>8
<1>21. QED  BY <1>7, <1>10, <1>11, <1>12, <1>13, <1>14, <1>15, <1>16, <1>17, <1>18, <1>19, <1>20

LEMMA InZlpInv ==
  ASSUME ControlInv, HandleInZlp
  PROVE  ControlInv'
<1> USE DEF ControlInv, hostVars, appVars
<1>1. /\ events' \in Seq(Event) /\ Len(events') <= UstatDepth /\ OneOfAKind'
      /\ Waiting' \subseteq Waiting
      /\ (HasSetup' <=> HasSetup) /\ ~HasIn' /\ HasIn /\ (HasOut' <=> HasOut)
      /\ Known /\ stage # "idle" => bd = Cpu /\ stage \in {"dataIn", "statusOut"}
  BY InDequeued DEF HandleInZlp
<1>2. /\ ds.remaining = 0 /\ needZlp /\ needZlp' = FALSE
      /\ ds' \in DataStage /\ ~ds'.callback /\ ~ds'.outBuffer
      /\ ds'.from = ds.from /\ ds'.at = ds.at /\ ds'.remaining = 0
      /\ UNCHANGED <<pktDis, short, direc, halted, profile, owed, lost, corrupt>>
      /\ UNCHANGED <<cur, stage, toggle, got, intact, sent, outcome, hostAddr, halts>>
  BY Typed, ResetFacts DEF HandleInZlp
<1>3. /\ bd' \in InBd /\ dts' \in {0, 1}
      /\ \/ bd' = Cpu
         \/ /\ bd'.owner = "sie" /\ dts' = 1 - dts
            /\ bd'.packet.dts = dts /\ bd'.packet.len = 0
  <2>1. SendIn(NoRequest, 0, 0, dts)
    BY DEF HandleInZlp
  <2>2. NoRequest \in Requests \cup {NoRequest} /\ 0 \in Nat /\ 0 \in 0 .. EP_0_LEN /\ dts \in {0, 1}
    BY Typed
  <2>3. QED  BY <2>1, <2>2, Sends
<1>4. Known' <=> Known
  BY <1>1 DEF Known
<1>5. AddressInv' /\ address' \in Nat /\ addrPending' \in BOOLEAN /\ addr' \in Nat
  BY <1>2, AddressSet DEF HandleInZlp
<1>6. AllOrderly => ~ds.callback
  BY <1>2 DEF CallbackInv, ZlpInv, Reading, Writing, Written
<1>7. TypeOK'
  <2>1. needZlp' \in BOOLEAN
    BY <1>2
  <2>2. QED  BY <1>1, <1>2, <1>3, <1>5, <2>1 DEF TypeOK
<1>8. QueueInv' /\ HostInv'
  BY <1>1, <1>2, <1>4 DEF QueueInv, HostInv
<1>9. ReadInv'
  <2>1. SUFFICES ASSUME Known, stage = "dataIn", cur.kind \in Served
                 PROVE  /\ ds'.from = cur /\ ds'.at + ds'.remaining = Total(cur) /\ intact
                        /\ bd'.owner # "stall"
                        /\ bd'.owner = "sie" => PacketInv(bd.packet)'
    BY <1>1, <1>2, <1>4 DEF ReadInv
  <2>2. ds.from = cur /\ ds.at + ds.remaining = Total(cur) /\ intact /\ got = ds.at /\ toggle = dts
    BY <1>1, <2>1 DEF ReadInv
  <2>3. CASE bd' = Cpu
    BY <1>2, <2>2, <2>3, BdTypes
  <2>4. CASE bd'.owner = "sie" /\ bd' # Cpu
    <3>1. PacketInv(bd.packet)'
      BY <1>2, <1>3, <2>2, <2>4 DEF PacketInv
    <3>2. QED  BY <1>2, <2>2, <2>4, <3>1
  <2>5. QED  BY <1>3, <2>3, <2>4
<1>10. ReadDoneInv' /\ AnswerInv'
  BY <1>1, <1>2, <1>4, BdTypes DEF ReadDoneInv, AnswerInv
<1>11. WriteInv' /\ RefusalInv' /\ WriteDoneInv' /\ FillInv'
  BY <1>1, <1>2, <1>4 DEF WriteInv, RefusalInv, WriteDoneInv, FillInv
<1>12. CallbackInv'
  BY <1>2, <1>6 DEF CallbackInv
<1>13. SendInv' /\ ZlpInv'
  BY <1>2 DEF SendInv, ZlpInv
<1>14. QED  BY <1>5, <1>7, <1>8, <1>9, <1>10, <1>11, <1>12, <1>13

-----------------------------------------------------------------------------
(* usb_service(): data of a write.                                          *)

LEMMA DataOutInv ==
  ASSUME ControlInv, HandleDataOut
  PROVE  ControlInv'
<1> USE DEF ControlInv, hostVars
<1> DEFINE e == Head(events)
           n == Min(e.len, ds.remaining)
           d == Consume(ds, n)
           last == e.len < EP_0_LEN \/ d.remaining = 0
<1>1. /\ events' \in Seq(Event) /\ Len(events') <= UstatDepth /\ OneOfAKind'
      /\ Waiting' \subseteq Waiting
      /\ (HasSetup' <=> HasSetup) /\ ~HasSetup /\ (HasIn' <=> HasIn) /\ HasOut /\ ~HasOut'
      /\ e \in Waiting /\ e.type = "OUT"
  BY OutDequeued DEF HandleDataOut
<1>2. /\ direc = "OUT"
      /\ UNCHANGED <<pktDis, address, addrPending, addr, needZlp, short, direc, halted, lost, profile>>
      /\ UNCHANGED <<cur, stage, toggle, got, intact, sent, outcome, hostAddr, halts>>
  BY DEF HandleDataOut
<1>3. Known /\ Known' /\ ~IsIn(cur) /\ IsOut(cur) /\ cur.kind \in {"write", "refusedWrite"}
  BY <1>1, <1>2, Typed, KindCases DEF Known, HostInv
<1>4. e.at \in Nat /\ e.len \in 0 .. EP_0_LEN /\ e.len > 0
  BY <1>1, <1>3, WaitingTypes, Typed DEF QueueInv
<1>5. stage \notin {"dataIn", "statusOut"} /\ (HasIn => stage = "idle")
  BY <1>3 DEF HostInv, QueueInv
<1>6. \A o \in Waiting' : o.type # "OUT"
  BY <1>1 DEF HasOut
<1>7. /\ HostInv' /\ ReadInv' /\ ReadDoneInv' /\ AddressInv'
      /\ RefusalInv' /\ WriteDoneInv' /\ ZlpInv' /\ QueueInv'
  BY <1>1, <1>2, <1>3, <1>5
  DEF HostInv, ReadInv, ReadDoneInv, AddressInv, RefusalInv, WriteDoneInv, ZlpInv, QueueInv
<1>8. CASE ~ds.outBuffer
  <2>1. UNCHANGED <<ds, bd, dts, owed, corrupt>>
    BY <1>8 DEF HandleDataOut
  <2>2. TypeOK' /\ AnswerInv' /\ SendInv'
    BY <1>1, <1>2, <1>3, <2>1 DEF TypeOK, AnswerInv, SendInv
  <2>3. WriteInv' /\ FillInv'
    BY <1>1, <1>2, <1>3, <1>8, <2>1 DEF WriteInv, FillInv, Accepting
  <2>4. CallbackInv'
    <3>1. AllOrderly /\ ds.callback => Written
      BY <1>3, <1>8, Typed, KindCases DEF CallbackInv, Reading, Writing, Served
    <3>2. QED  BY <1>1, <1>2, <1>3, <1>8, <2>1, <3>1 DEF CallbackInv, Written
  <2>5. QED  BY <1>7, <2>2, <2>3, <2>4
<1>9. CASE ds.outBuffer
  <2>1. n \in Nat /\ n <= e.len /\ n <= ds.remaining /\ (n = e.len \/ n = ds.remaining)
    BY <1>4, Typed DEF Min
  <2>2. /\ d \in DataStage /\ d.callback = ds.callback /\ d.outBuffer = ds.outBuffer
        /\ d.from = ds.from /\ d.at = ds.at + n /\ d.remaining = ds.remaining - n
    BY <2>1, Typed, ConsumeFacts
  <2>3. corrupt' = (corrupt \/ (n > 0 /\ e.at # ds.at)) /\ corrupt' \in BOOLEAN
    BY <1>9 DEF HandleDataOut
  <2>4. cur.kind = "refusedWrite" /\ stage # "idle" => ds.remaining = 0
    BY <1>3 DEF AnswerInv, Refused
  <2>5. AllOrderly => ds.callback /\ owed = 1 /\ HasCallbacks(profile) /\ (Writing \/ Written)
    BY <1>9 DEF CallbackInv, Reading
  <2>6. ASSUME NoWriteLost, stage \in {"dataOut", "statusIn"}, cur.kind = "write"
        PROVE  /\ Accepting /\ e.at = ds.at /\ ds.at + e.len = sent /\ ds.at + ds.remaining = cur.len
               /\ e.len = Min(EP_0_LEN, cur.asked - ds.at) /\ WholePackets(ds.at) /\ ~corrupt'
    <3>1. Accepting /\ OutIs(e)
      BY <1>1, <1>3, <1>9, <2>6 DEF WriteInv, Accepting
    <3>2. QED  BY <2>3, <3>1 DEF Accepting, OutIs
  <2>7. ASSUME AllOrderly, stage \in {"dataOut", "statusIn"}, cur.kind = "write"
        PROVE  /\ ds.at + ds.remaining = cur.len /\ ds.at + e.len >= sent
               /\ bd = Cpu \/ (bd = Status /\ ds.remaining = 0)
               /\ e.len < EP_0_LEN => ds.at + e.len >= cur.asked
               /\ cur.len <= cur.asked
    <3>1. Reaches(e) /\ ds.at + ds.remaining = cur.len /\ (bd = Cpu \/ (bd = Status /\ ds.remaining = 0))
      BY <1>1, <1>3, <1>9, <2>7 DEF FillInv
    <3>2. cur \in profile.requests /\ profile \in Profiles
      BY <2>7, Typed DEF HostInv, NoRequest
    <3>3. cur.len <= cur.asked
      BY <2>7, <3>2 DEF AllOrderly, Orderly
    <3>4. QED  BY <1>4, <3>1, <3>3, Typed DEF Reaches
  <2>8. CASE ~last
    <3>1. ds' = d /\ UNCHANGED <<bd, dts, owed>>
      BY <1>9, <2>8 DEF HandleDataOut
    <3>2. n = e.len /\ ds.remaining > 0
      BY <1>4, <2>1, <2>2, <2>8, Typed
    <3>3. /\ ds' \in DataStage /\ ds'.callback = ds.callback /\ ds'.outBuffer
          /\ ds'.at = ds.at + e.len /\ ds'.remaining = ds.remaining - e.len
      BY <1>9, <2>2, <3>1, <3>2
    <3>4. TypeOK'
      BY <1>1, <1>2, <2>3, <3>1, <3>3 DEF TypeOK
    <3>5. AnswerInv'
      BY <1>2, <1>3, <2>4, <3>1, <3>2 DEF AnswerInv, Refused, Acknowledged, EndpointKind
    <3>6. WriteInv'
      <4>1. SUFFICES ASSUME NoWriteLost, stage \in {"dataOut", "statusIn"}, cur.kind = "write"
                     PROVE  Accepting'
        BY <1>2 DEF WriteInv
      <4>2. bd = Cpu
        BY <1>1, <2>6, <3>2, <4>1 DEF Accepting
      <4>3. ds'.at = sent /\ ds'.at + ds'.remaining = cur.len
        BY <1>4, <2>6, <3>3, <4>1, Typed
      <4>4. QED  BY <1>2, <1>6, <2>6, <3>1, <3>3, <4>1, <4>2, <4>3 DEF Accepting
    <3>7. FillInv'
      <4>1. SUFFICES ASSUME AllOrderly, stage \in {"dataOut", "statusIn"}, cur.kind = "write"
                     PROVE  bd = Cpu /\ ds'.at + ds'.remaining = cur.len /\ ds'.at >= sent
        BY <1>2, <1>6, <3>1 DEF FillInv
      <4>2. QED  BY <1>4, <2>7, <3>2, <3>3, <4>1, Typed
    <3>8. CallbackInv'
      <4>1. AllOrderly => Writing
        BY <2>5, <3>2 DEF Written
      <4>2. QED  BY <1>2, <1>3, <2>5, <3>1, <3>3, <4>1 DEF CallbackInv, Writing
    <3>9. SendInv'
      BY <3>3 DEF SendInv
    <3>10. QED  BY <1>7, <3>4, <3>5, <3>6, <3>7, <3>8, <3>9
  <2>9. CASE last /\ n < e.len
    <3>1. bd' = Stall /\ UNCHANGED dts /\ owed' = owed - (IF ds.callback THEN 1 ELSE 0) /\ ds' = ResetDataStage(d)
      BY <1>9, <2>1, <2>9 DEF HandleDataOut, StallEp0
    <3>2. /\ ds' \in DataStage /\ ~ds'.callback /\ ~ds'.outBuffer /\ ds'.remaining = 0
          /\ owed' \in Int /\ (ds.callback => owed' = owed - 1)
      <4>1. (ds.callback => owed' = owed - 1) /\ (~ds.callback => owed' = owed)
        BY <3>1, Typed
      <4>2. QED  BY <2>2, <3>1, <4>1, Typed, ResetFacts
    <3>3. TypeOK'
      BY <1>1, <1>2, <2>3, <3>1, <3>2, BdTypes DEF TypeOK
    <3>4. AnswerInv'
      BY <1>2, <1>3, <3>1, <3>2 DEF AnswerInv, Acknowledged, EndpointKind
    <3>5. WriteInv'
      <4>1. SUFFICES ASSUME NoWriteLost, stage \in {"dataOut", "statusIn"}, cur.kind = "write"
                     PROVE  cur.asked > cur.len
        BY <1>2, <3>1, <3>2 DEF WriteInv
      <4>2. n = ds.remaining /\ n < e.len
        BY <1>4, <2>1, <2>9, Typed
      <4>3. e.len <= cur.asked - ds.at
        BY <2>6, <4>1, Typed DEF Min
      <4>4. QED  BY <1>4, <2>6, <4>1, <4>2, <4>3, Typed
    <3>6. FillInv' /\ SendInv'
      BY <3>2 DEF FillInv, SendInv
    <3>7. CallbackInv'
      BY <2>5, <3>2 DEF CallbackInv
    <3>8. QED  BY <1>7, <3>3, <3>4, <3>5, <3>6, <3>7
  <2>10. CASE last /\ n = e.len
    <3>1. bd' = Status /\ ds' = d /\ UNCHANGED <<dts, owed>>
      BY <1>4, <1>9, <2>10 DEF HandleDataOut, SendStatus, Status
    <3>2. ds.remaining > 0
      BY <1>4, <2>1, <2>10, Typed
    <3>3. /\ ds' \in DataStage /\ ds'.callback = ds.callback /\ ds'.outBuffer
          /\ ds'.at = ds.at + e.len /\ ds'.remaining = ds.remaining - e.len
      BY <1>9, <2>2, <2>10, <3>1
    <3>4. e.len < EP_0_LEN \/ (e.len = EP_0_LEN /\ ds'.remaining = 0)
      BY <1>4, <2>10, <3>1, Typed
    <3>5. TypeOK'
      BY <1>1, <1>2, <2>3, <3>1, <3>3, BdTypes DEF TypeOK
    <3>6. AnswerInv'
      BY <1>2, <1>3, <2>4, <3>1, <3>2 DEF AnswerInv, Refused, Acknowledged, EndpointKind
    <3>7. WriteInv'
      <4>1. SUFFICES ASSUME NoWriteLost, stage \in {"dataOut", "statusIn"}, cur.kind = "write"
                     PROVE  Accepting'
        BY <1>2 DEF WriteInv
      <4>2. ds'.at = sent /\ ds'.at + ds'.remaining = cur.len
        BY <1>4, <2>6, <3>3, <4>1, Typed
      <4>3. e.len < EP_0_LEN => ds'.at = cur.asked
        BY <1>4, <2>6, <3>3, <4>1, Typed DEF Min
      <4>4. e.len = EP_0_LEN /\ ds'.remaining = 0 => WholePackets(cur.len)
        <5>1. ds'.remaining = 0 => cur.len = ds.at + e.len
          BY <1>4, <3>3, <4>2, Typed
        <5>2. QED  BY <2>6, <4>1, <5>1, NextWholePacket, Typed
      <4>5. QED  BY <1>1, <1>2, <1>6, <2>6, <3>1, <3>3, <3>4, <4>1, <4>2, <4>3, <4>4 DEF Accepting
    <3>8. FillInv'
      <4>1. SUFFICES ASSUME AllOrderly, stage \in {"dataOut", "statusIn"}, cur.kind = "write"
                     PROVE  ds'.remaining = 0 /\ ds'.at + ds'.remaining = cur.len /\ ds'.at >= sent
        BY <1>2, <1>6, <3>1 DEF FillInv
      <4>2. ds'.at + ds'.remaining = cur.len /\ ds'.at >= sent /\ ds'.remaining \in Nat
        BY <1>4, <2>7, <3>3, <4>1, Typed DEF DataStage
      <4>3. e.len < EP_0_LEN => ds'.at >= cur.len
        BY <1>4, <2>7, <3>3, <4>1, Typed
      <4>4. QED  BY <1>4, <3>3, <3>4, <4>2, <4>3, Typed
    <3>9. CallbackInv'
      <4>1. AllOrderly => Writing
        BY <2>5, <3>2 DEF Written
      <4>2. QED  BY <1>2, <1>3, <2>5, <3>1, <3>3, <4>1 DEF CallbackInv, Writing
    <3>10. SendInv'
      BY <3>3 DEF SendInv
    <3>11. QED  BY <1>7, <3>5, <3>6, <3>7, <3>8, <3>9, <3>10
  <2>11. QED
    <3>1. n < e.len \/ n = e.len
      BY <1>4, <2>1
    <3>2. QED  BY <2>8, <2>9, <2>10, <3>1
<1>10. QED  BY <1>8, <1>9, Typed

-----------------------------------------------------------------------------
(* usb_service(): a SETUP.                                                  *)

(* Where hosts are orderly, nothing of the transfers before is left when it  *)
(* is handled.                                                              *)
LEMMA BeforeSetup ==
  ASSUME ControlInv, Takes("SETUP")
  PROVE  /\ events' = <<>> /\ Waiting' = {} /\ OneOfAKind'
         /\ ~Known /\ ~HasIn /\ ~HasOut /\ Known' /\ ~HasSetup' /\ ~HasIn' /\ ~HasOut'
         /\ Head(events).req = cur /\ cur \in Requests /\ cur \in profile.requests \cup {NoRequest}
         /\ AllOrderly => /\ ~ds.callback /\ ~ds.outBuffer /\ owed = 0 /\ ~(needZlp /\ HasCallbacks(profile))
                          /\ cur.kind \in {"appRead", "write"} => stage # "idle"
         /\ AddressesCompleted => /\ ~addrPending /\ address = hostAddr
                                  /\ cur.kind = "setAddress" => stage # "idle"
         /\ outcome = "none" /\ stage # "statusOut"
         /\ stage # "idle" => toggle = 1 /\ got = 0 /\ intact /\ sent = 0
         /\ stage = "dataIn" => IsIn(cur)
         /\ stage = "dataOut" => IsOut(cur)
         /\ stage = "statusIn" => ~IsIn(cur) /\ ~IsOut(cur)
         /\ stage = "idle" => cur.kind \in profile.givesUp
<1> USE DEF ControlInv
<1>1. /\ events' = <<>> /\ Waiting' = {} /\ OneOfAKind'
      /\ HasSetup /\ ~HasIn /\ ~HasOut /\ ~HasSetup' /\ ~HasIn' /\ ~HasOut'
      /\ Head(events).req = cur /\ cur \in Requests
  BY SetupDequeued
<1>2. ~Known /\ Known'
  BY <1>1 DEF Known
<1>3. /\ outcome = "none" /\ stage # "statusOut" /\ cur \in profile.requests \cup {NoRequest}
      /\ stage # "idle" => toggle = 1 /\ got = 0 /\ intact /\ sent = 0
      /\ stage = "dataIn" => IsIn(cur)
      /\ stage = "dataOut" => IsOut(cur)
      /\ stage = "statusIn" => ~IsIn(cur) /\ ~IsOut(cur)
      /\ stage = "idle" => cur.kind \in profile.givesUp
  BY <1>1 DEF HostInv
<1>4. ASSUME AllOrderly
      PROVE  /\ ~ds.callback /\ ~ds.outBuffer /\ owed = 0 /\ ~(needZlp /\ HasCallbacks(profile))
             /\ cur.kind \in {"appRead", "write"} => stage # "idle"
  <2>1. ~ds.callback /\ ~ds.outBuffer /\ owed = 0
    BY <1>1, <1>2, <1>4 DEF CallbackInv, Reading, Writing, Written
  <2>2. ~(needZlp /\ HasCallbacks(profile))
    BY <1>2, <1>4 DEF ZlpInv
  <2>3. cur.kind \in {"appRead", "write"} => stage # "idle"
    BY <1>3, <1>4, Typed DEF AllOrderly, Orderly
  <2>4. QED  BY <2>1, <2>2, <2>3
<1>5. ASSUME AddressesCompleted
      PROVE  ~addrPending /\ address = hostAddr /\ (cur.kind = "setAddress" => stage # "idle")
  <2>1. ~addrPending /\ address = hostAddr
    BY <1>1, <1>2, <1>5 DEF AddressInv
  <2>2. cur.kind = "setAddress" => stage # "idle"
    BY <1>3, <1>5, Typed DEF AddressesCompleted, CompletesAddress
  <2>3. QED  BY <2>1, <2>2
<1>6. QED  BY <1>1, <1>2, <1>3, <1>4, <1>5

(* What each way to answer does to the data stage and to BDS0IN.            *)
Answers(d) ==
  ReturnData(cur, d) \/ Acknowledge(cur, d) \/ AnswerClass(cur, d) \/ Refuse(cur, d)

LEMMA SetupEffects ==
  ASSUME ControlInv, HandleSetup
  PROVE  /\ \E d \in DataStage : /\ AllOrderly => ~d.callback /\ ~d.outBuffer
                                /\ d.remaining = 0 /\ Answers(d)
         /\ pktDis' = FALSE /\ direc' \in {"IN", "OUT"} /\ (direc' = "IN" <=> IsIn(cur))
         /\ owed' \in Int
         /\ AllOrderly /\ cur.kind \in {"appRead", "write"} => owed' = 1
         /\ AllOrderly /\ cur.kind \notin {"appRead", "write"} => owed' = 0
         /\ corrupt' \in BOOLEAN /\ (cur.kind = "write" => ~corrupt')
         /\ halted' \in BOOLEAN
         /\ NoteAddress(cur)
         /\ UNCHANGED <<cur, stage, toggle, got, intact, sent, outcome, hostAddr, halts, needZlp, lost, profile>>
<1>1. Takes("SETUP")
  BY DEF HandleSetup
<1>2. Head(events).req = cur /\ (AllOrderly => ~ds.callback /\ ~ds.outBuffer /\ owed = 0)
  BY <1>1, BeforeSetup
<1>3. \E d \in DataStage : (AllOrderly => ~d.callback /\ ~d.outBuffer) /\ d.remaining = 0 /\ Answers(d)
  <2>1. CASE ds.remaining > 0
    <3>1. Answers(ResetDataStage(ds))
      BY <1>2, <2>1 DEF HandleSetup, Answers
    <3>2. QED  BY <3>1, Typed, ResetFacts
  <2>2. CASE ~(ds.remaining > 0)
    <3>1. Answers(ds)
      BY <1>2, <2>2 DEF HandleSetup, Answers
    <3>2. QED  BY <1>2, <2>2, <3>1, Typed
  <2>3. QED  BY <2>1, <2>2
<1>4. /\ owed' \in Int
      /\ AllOrderly /\ cur.kind \in {"appRead", "write"} => owed' = 1
      /\ AllOrderly /\ cur.kind \notin {"appRead", "write"} => owed' = 0
  <2> DEFINE told  == IF ds.remaining > 0 /\ ds.callback THEN 1 ELSE 0
             begun == IF cur.kind \in {"appRead", "write"} THEN 1 ELSE 0
  <2>1. owed' = owed - told + begun
    BY <1>2 DEF HandleSetup
  <2>2. told \in {0, 1} /\ begun \in {0, 1} /\ (AllOrderly => told = 0)
    BY <1>2
  <2>3. cur.kind \in {"appRead", "write"} <=> begun = 1
    OBVIOUS
  <2> HIDE DEF told, begun
  <2>4. QED  BY <1>2, <2>1, <2>2, <2>3, Typed
<1>5. pktDis' = FALSE /\ direc' = (IF IsIn(cur) THEN "IN" ELSE "OUT") /\ NoteAddress(cur) /\ NoteHalt(cur)
  BY <1>2 DEF HandleSetup
<1>6. direc' \in {"IN", "OUT"} /\ (direc' = "IN" <=> IsIn(cur))
  BY <1>5
<1>7. corrupt' = (corrupt /\ cur.kind # "write")
  BY <1>2 DEF HandleSetup
<1>8. corrupt' \in BOOLEAN /\ (cur.kind = "write" => ~corrupt')
  BY <1>7
<1>9. halted' \in BOOLEAN
  <2>1. halted \in BOOLEAN /\ profile.newer \in BOOLEAN
    <3>1. profile \in Profiles /\ halted \in BOOLEAN
      BY DEF ControlInv, TypeOK
    <3>2. QED  BY <3>1, ControlAssumption
  <2>2. CASE cur.kind = "haltEp0"
    <3>1. halted' = ~profile.newer
      BY <1>5, <2>2 DEF NoteHalt
    <3>2. QED  BY <3>1
  <2>3. CASE cur.kind = "clearEp0"
    BY <1>5, <2>3 DEF NoteHalt
  <2>4. CASE cur.kind \notin {"haltEp0", "clearEp0"}
    BY <1>5, <2>1, <2>4 DEF NoteHalt
  <2>5. QED  BY <2>2, <2>3, <2>4
<1>10. UNCHANGED <<cur, stage, toggle, got, intact, sent, outcome, hostAddr, halts, needZlp, lost, profile>>
  BY DEF HandleSetup, hostVars
<1>11. QED  BY <1>3, <1>4, <1>5, <1>6, <1>8, <1>9, <1>10

LEMMA SetupReturns ==
  ASSUME ControlInv, cur \in Requests, IsIn(cur), NEW d \in DataStage, NEW len \in Nat, NEW asked \in Nat,
         len > 0, asked > 0, Min(len, asked) = Total(cur), StartReturn(d, cur, len, asked)
  PROVE  /\ bd' \in InBd /\ dts' \in {0, 1} /\ short' = (len < asked) /\ ds' \in DataStage
         /\ ds'.callback = d.callback /\ ds'.outBuffer = d.outBuffer /\ ds'.from = cur
         /\ ds'.at + ds'.remaining = Total(cur)
         /\ ds'.remaining > 0 => ds'.at = EP_0_LEN
         /\ \/ bd' = Cpu
            \/ /\ bd'.owner = "sie" /\ dts' = 1 - bd'.packet.dts /\ bd'.packet.dts = 1
               /\ bd'.packet.from = cur /\ bd'.packet.at = 0
               /\ bd'.packet.len > 0 /\ bd'.packet.len = ds'.at
               /\ bd'.packet.len < EP_0_LEN => ds'.remaining = 0
<1> DEFINE n == Min(Min(len, EP_0_LEN), asked)
           rest == Min(asked, len) - n
<1>1. /\ n \in Nat /\ n > 0 /\ n \in 0 .. EP_0_LEN /\ rest \in Nat /\ n + rest = Total(cur)
      /\ n < EP_0_LEN => rest = 0
  BY Typed DEF Min
<1>2. /\ short' = (len < asked)
      /\ ds' = [d EXCEPT !.from = cur, !.at = n, !.remaining = rest]
      /\ SendIn(cur, 0, n, 1)
  BY DEF StartReturn
<1>3. /\ ds' \in DataStage /\ ds'.callback = d.callback /\ ds'.outBuffer = d.outBuffer
      /\ ds'.from = cur /\ ds'.at = n /\ ds'.remaining = rest
  <2> HIDE DEF n, rest
  <2>1. n \in Nat /\ rest \in Nat /\ cur \in Requests \cup {NoRequest}
    BY <1>1
  <2>2. ds' = [d EXCEPT !.from = cur, !.at = n, !.remaining = rest]
    BY <1>2
  <2>3. DOMAIN d = {"callback", "outBuffer", "from", "at", "remaining"} /\ d.callback \in BOOLEAN /\ d.outBuffer \in BOOLEAN
    BY DEF DataStage
  <2>4. QED  BY <2>1, <2>2, <2>3 DEF DataStage
<1>4. /\ bd' \in InBd /\ dts' \in {0, 1}
      /\ \/ bd' = Cpu
         \/ /\ bd'.owner = "sie" /\ dts' = 1 - 1
            /\ bd'.packet.dts = 1 /\ bd'.packet.from = cur /\ bd'.packet.at = 0 /\ bd'.packet.len = n
  <2>1. cur \in Requests \cup {NoRequest} /\ 0 \in Nat /\ 1 \in {0, 1} /\ n \in 0 .. EP_0_LEN
    BY <1>1
  <2>2. QED  BY <1>2, <2>1, Sends
<1> HIDE DEF n, rest
<1>5. rest > 0 => n = EP_0_LEN
  BY <1>1, Typed
<1>6. QED  BY <1>1, <1>2, <1>3, <1>4, <1>5

LEMMA SetupInv ==
  ASSUME ControlInv, HandleSetup
  PROVE  ControlInv'
<1> USE DEF ControlInv
<1>1. Takes("SETUP")
  BY DEF HandleSetup
<1>2. /\ events' = <<>> /\ Waiting' = {} /\ OneOfAKind'
      /\ ~Known /\ Known' /\ ~HasSetup' /\ ~HasIn' /\ ~HasOut'
      /\ cur \in Requests /\ cur \in Request /\ cur \in profile.requests \cup {NoRequest}
      /\ AllOrderly => ~(needZlp /\ HasCallbacks(profile))
      /\ AllOrderly /\ cur.kind \in {"appRead", "write"} => stage # "idle"
      /\ AddressesCompleted => /\ ~addrPending /\ address = hostAddr
                               /\ cur.kind = "setAddress" => stage # "idle"
      /\ outcome = "none" /\ stage # "statusOut"
      /\ stage # "idle" => toggle = 1 /\ got = 0 /\ intact /\ sent = 0
      /\ stage = "dataIn" => IsIn(cur)
      /\ stage = "dataOut" => IsOut(cur)
      /\ stage = "statusIn" => ~IsIn(cur) /\ ~IsOut(cur)
      /\ stage = "idle" => cur.kind \in profile.givesUp
  BY <1>1, BeforeSetup, Typed
<1>3. /\ \E d \in DataStage : /\ AllOrderly => ~d.callback /\ ~d.outBuffer
                             /\ d.remaining = 0 /\ Answers(d)
      /\ pktDis' = FALSE /\ direc' \in {"IN", "OUT"} /\ (direc' = "IN" <=> IsIn(cur))
      /\ owed' \in Int
      /\ AllOrderly /\ cur.kind \in {"appRead", "write"} => owed' = 1
      /\ AllOrderly /\ cur.kind \notin {"appRead", "write"} => owed' = 0
      /\ corrupt' \in BOOLEAN /\ (cur.kind = "write" => ~corrupt')
      /\ halted' \in BOOLEAN
      /\ NoteAddress(cur)
      /\ UNCHANGED <<cur, stage, toggle, got, intact, sent, outcome, hostAddr, halts, needZlp, lost, profile>>
  BY SetupEffects
<1>4. stage \in {"idle", "dataIn", "dataOut", "statusIn"}
  BY <1>2 DEF TypeOK
<1>5. QueueInv' /\ ReadDoneInv' /\ RefusalInv' /\ WriteDoneInv' /\ ZlpInv'
  BY <1>2, <1>3 DEF QueueInv, ReadDoneInv, RefusalInv, WriteDoneInv, ZlpInv
<1>6. HostInv'
  BY <1>2, <1>3 DEF HostInv
<1>7. AddressInv' /\ address' \in Nat /\ addrPending' \in BOOLEAN /\ addr' \in Nat
  <2>1. /\ addrPending' = (addrPending \/ cur.kind = "setAddress") /\ address' = address
        /\ addr' = IF cur.kind = "setAddress" THEN cur.addr ELSE addr
    BY <1>3 DEF NoteAddress
  <2>2. address' \in Nat /\ addrPending' \in BOOLEAN /\ addr' \in Nat
    BY <2>1, Typed DEF TypeOK
  <2>3. SUFFICES ASSUME AddressesCompleted  PROVE AddressInv'
    BY <2>2 DEF AddressInv
  <2>4. CASE cur.kind = "setAddress"
    <3>1. stage = "statusIn"
      BY <1>2, <1>4, <2>3, <2>4 DEF IsIn, IsOut
    <3>2. QED  BY <1>2, <1>3, <2>1, <2>3, <2>4, <3>1 DEF AddressInv
  <2>5. CASE cur.kind # "setAddress"
    BY <1>2, <1>3, <2>1, <2>3, <2>5 DEF AddressInv
  <2>6. QED  BY <2>2, <2>4, <2>5
<1>8. ASSUME bd' \in InBd, dts' \in {0, 1}, short' \in BOOLEAN, ds' \in DataStage
      PROVE  TypeOK'
  <2>1. owed' \in Int
    BY <1>3
  <2>2. events' \in Seq(Event) /\ Len(events') <= UstatDepth
    BY <1>2 DEF UstatDepth
  <2>3. pktDis' \in BOOLEAN
    BY <1>3
  <2>4. QED  BY <1>3, <1>7, <1>8, <2>1, <2>2, <2>3 DEF TypeOK
<1>9. PICK d \in DataStage : (AllOrderly => ~d.callback /\ ~d.outBuffer) /\ d.remaining = 0 /\ Answers(d)
  BY <1>3
<1>10. ASSUME NEW len \in Nat, NEW asked \in Nat, NEW b \in DataStage,
              AllOrderly => ~b.outBuffer /\ (b.callback <=> cur.kind = "appRead"),
              len > 0, asked > 0, Min(len, asked) = Total(cur), StartReturn(b, cur, len, asked),
              cur.kind \in Served, (len < asked) <=> (cur.kind = "read" /\ cur.len < cur.asked)
       PROVE  ControlInv'
  <2>1. IsIn(cur)
    BY <1>2, <1>10, KindCases
  <2>2. /\ bd' \in InBd /\ dts' \in {0, 1} /\ short' = (len < asked) /\ ds' \in DataStage
        /\ ds'.callback = b.callback /\ ds'.outBuffer = b.outBuffer /\ ds'.from = cur
        /\ ds'.at + ds'.remaining = Total(cur)
        /\ ds'.remaining > 0 => ds'.at = EP_0_LEN
        /\ \/ bd' = Cpu
           \/ /\ bd'.owner = "sie" /\ dts' = 1 - bd'.packet.dts /\ bd'.packet.dts = 1
              /\ bd'.packet.from = cur /\ bd'.packet.at = 0
              /\ bd'.packet.len > 0 /\ bd'.packet.len = ds'.at
              /\ bd'.packet.len < EP_0_LEN => ds'.remaining = 0
    BY <1>2, <1>10, <2>1, SetupReturns
  <2>3. stage \in {"idle", "dataIn"} /\ cur.kind \notin Refused \cup Acknowledged \cup {"write", "setAddress"}
    BY <1>2, <1>4, <1>10, <2>1, KindCases DEF Served, Refused, Acknowledged, EndpointKind
  <2>4. TypeOK'
    <3>1. short' \in BOOLEAN
      BY <2>2
    <3>2. QED  BY <1>8, <2>2, <3>1
  <2>5. ReadInv'
    <3>1. SUFFICES ASSUME stage = "dataIn"
                   PROVE  intact /\ bd'.owner # "stall" /\ (bd'.owner = "sie" => PacketInv(bd.packet)')
      BY <1>2, <1>3, <2>2 DEF ReadInv
    <3>2. toggle = 1 /\ got = 0 /\ intact
      BY <1>2, <3>1
    <3>3. CASE bd' = Cpu
      BY <3>2, <3>3, BdTypes
    <3>4. CASE bd'.owner = "sie" /\ bd' # Cpu
      <4>1. bd'.packet.at + bd'.packet.len = ds'.at
        BY <2>2, <3>4 DEF DataStage
      <4>2. PacketInv(bd.packet)'
        BY <1>3, <2>2, <3>2, <3>4, <4>1 DEF PacketInv
      <4>3. QED  BY <3>2, <3>4, <4>2
    <3>5. QED  BY <2>2, <3>3, <3>4
  <2>6. AnswerInv' /\ WriteInv' /\ FillInv'
    BY <1>2, <1>3, <2>3 DEF AnswerInv, WriteInv, FillInv
  <2>7. CallbackInv'
    <3>1. CASE cur.kind = "appRead"
      <4>1. HasCallbacks(profile) /\ (AllOrderly => stage = "dataIn")
        BY <1>2, <2>3, <3>1 DEF HasCallbacks, NoRequest
      <4>2. QED  BY <1>2, <1>3, <1>10, <2>2, <3>1, <4>1 DEF CallbackInv, Reading
    <3>2. CASE cur.kind # "appRead"
      BY <1>3, <1>10, <2>2, <2>3, <3>2 DEF CallbackInv
    <3>3. QED  BY <3>1, <3>2
  <2>8. SendInv'
    <3>1. cur \in profile.requests
      BY <1>2, <1>10 DEF Served, NoRequest
    <3>2. cur.kind \notin profile.givesUp => stage = "dataIn"
      BY <1>2, <2>3
    <3>3. short' = (cur.kind = "read" /\ cur.len < cur.asked)
      BY <1>10, <2>2
    <3>4. QED  BY <1>2, <1>3, <1>10, <2>2, <3>1, <3>2, <3>3, NextWholePacket DEF SendInv
  <2>9. QED  BY <1>5, <1>6, <1>7, <2>4, <2>5, <2>6, <2>7, <2>8
<1>11. CASE ReturnData(cur, d)
  <2>1. cur.kind = "read" /\ StartReturn(d, cur, cur.len, cur.asked)
    BY <1>11 DEF ReturnData
  <2>2. cur.len > 0 /\ cur.asked > 0
    BY <1>2, <2>1, RequestTypes DEF IsIn
  <2>3. QED  BY <1>9, <1>10, <2>1, <2>2, Typed DEF Served, Total
<1>12. CASE Acknowledge(cur, d)
  <2>1. cur.kind \in Acknowledged /\ bd' = Status /\ ds' = d /\ UNCHANGED <<short, dts>>
    BY <1>12 DEF Acknowledge, SendStatus, Status
  <2>2. cur.kind \notin Refused \cup Served \cup {"write", "appRead"}
    BY <2>1 DEF Refused, Served, Acknowledged, EndpointKind
  <2>3. TypeOK'
    BY <1>8, <1>9, <2>1, BdTypes, Typed
  <2>4. ReadInv' /\ AnswerInv' /\ WriteInv' /\ FillInv'
    BY <1>2, <1>3, <2>1, <2>2 DEF ReadInv, AnswerInv, WriteInv, FillInv
  <2>5. CallbackInv' /\ SendInv'
    BY <1>3, <1>9, <2>1, <2>2 DEF CallbackInv, SendInv
  <2>6. QED  BY <1>5, <1>6, <1>7, <2>3, <2>4, <2>5
<1>13. CASE AnswerClass(cur, d)
  <2>1. CASE cur.kind \in {"classRead", "appRead"}
    <3> DEFINE n == Min(cur.len, cur.asked)
               b == [d EXCEPT !.callback = (cur.kind = "appRead")]
    <3>1. StartReturn(b, cur, n, n)
      BY <1>13, <2>1 DEF AnswerClass
    <3>2. cur.len > 0 /\ cur.asked > 0
      BY <1>2, <2>1, RequestTypes DEF IsIn
    <3>3. n \in Nat /\ n > 0 /\ Min(n, n) = Total(cur)
      BY <3>2, Typed DEF Min, Total
    <3>4. b \in DataStage /\ (AllOrderly => ~b.outBuffer /\ (b.callback <=> cur.kind = "appRead"))
      BY <1>9 DEF DataStage
    <3> HIDE DEF n, b
    <3>5. ~(n < n) /\ cur.kind # "read" /\ cur.kind \in Served
      BY <2>1, <3>3 DEF Served
    <3>6. QED  BY <1>10, <3>1, <3>3, <3>4, <3>5
  <2>2. CASE cur.kind = "write"
    <3>1. /\ ds' = [callback |-> TRUE, outBuffer |-> TRUE, from |-> d.from, at |-> 0, remaining |-> cur.len]
          /\ bd' = Cpu /\ UNCHANGED <<short, dts>>
      BY <1>13, <2>2 DEF AnswerClass
    <3>2. ds' \in DataStage
      BY <1>9, <3>1, Typed DEF DataStage
    <3>3. TypeOK'
      BY <1>8, <3>1, <3>2, BdTypes, Typed
    <3>4. stage \in {"idle", "dataOut"} /\ IsOut(cur) /\ ~IsIn(cur)
      BY <1>2, <1>4, <2>2, KindCases DEF Served
    <3>5. ReadInv' /\ AnswerInv'
      BY <1>2, <1>3, <2>2, <3>1, <3>4 DEF ReadInv, AnswerInv, Refused, Acknowledged, EndpointKind
    <3>6. WriteInv' /\ FillInv'
      <4>1. /\ ds'.outBuffer /\ ds'.at + ds'.remaining = cur.len
            /\ stage # "idle" => ds'.at = sent /\ ds'.at >= sent
        BY <1>2, <3>1, Typed
      <4>2. QED  BY <1>2, <1>3, <2>2, <3>1, <4>1 DEF WriteInv, Accepting, FillInv
    <3>7. CallbackInv'
      <4>1. HasCallbacks(profile)
        BY <1>2, <2>2 DEF HasCallbacks, NoRequest
      <4>2. direc' = "OUT" /\ (AllOrderly => stage = "dataOut")
        BY <1>2, <1>3, <2>2, <3>4
      <4>3. QED  BY <1>2, <1>3, <2>2, <3>1, <4>1, <4>2 DEF CallbackInv, Writing
    <3>8. SendInv'
      BY <3>1 DEF SendInv
    <3>9. QED  BY <1>5, <1>6, <1>7, <3>3, <3>5, <3>6, <3>7, <3>8
  <2>3. QED  BY <1>13, <2>1, <2>2 DEF AnswerClass
<1>14. CASE Refuse(cur, d)
  <2>1. cur.kind \in Refused /\ bd' = Stall /\ ds' = d /\ UNCHANGED <<short, dts>>
    BY <1>14 DEF Refuse, StallEp0, Refused
  <2>2. cur.kind \notin Acknowledged \cup Served \cup {"write", "appRead"}
    BY <2>1 DEF Refused, Served, Acknowledged, EndpointKind
  <2>3. TypeOK'
    BY <1>8, <1>9, <2>1, BdTypes, Typed
  <2>4. ReadInv' /\ AnswerInv' /\ WriteInv' /\ FillInv'
    BY <1>2, <1>3, <1>9, <2>1, <2>2 DEF ReadInv, AnswerInv, WriteInv, FillInv
  <2>5. CallbackInv' /\ SendInv'
    BY <1>3, <1>9, <2>1, <2>2 DEF CallbackInv, SendInv
  <2>6. QED  BY <1>5, <1>6, <1>7, <2>3, <2>4, <2>5
<1>15. QED  BY <1>9, <1>11, <1>12, <1>13, <1>14 DEF Answers

-----------------------------------------------------------------------------
(* The wire.                                                                *)

LEMMA HearsFacts ==
  ASSUME ControlInv, Hears
  PROVE  ~HasSetup /\ Known /\ address = hostAddr /\ Len(events) < UstatDepth
<1>1. ~HasSetup
  BY DEF ControlInv, QueueInv, Hears
<1>2. QED  BY <1>1 DEF Hears, Known

LEMMA OutArmedFacts ==
  ASSUME OutArmed
  PROVE  ~HasOut
BY DEF OutArmed, HasOut, Waiting

LEMMA EventTypes ==
  /\ [type |-> "IN"] \in Event /\ [type |-> "IN"].type = "IN"
  /\ \A r \in Requests : LET e == [type |-> "SETUP", req |-> r]
                         IN  e \in Event /\ e.type = "SETUP" /\ e.req = r
  /\ \A way \in {"in", "out"} : LET e == [type |-> "data", dir |-> way]
                                IN  e \in Event /\ e.type = "data"
BY DEF Event

LEMMA HostSetupInv ==
  ASSUME ControlInv, NEW r \in profile.requests, Setup(r)
  PROVE  ControlInv'
<1> USE DEF ControlInv
<1> DEFINE e == [type |-> "SETUP", req |-> r]
<1>1. /\ stage = "idle" /\ events' = Append(events, e) /\ pktDis' = TRUE
      /\ cur' = r /\ toggle' = 1 /\ got' = 0 /\ intact' = TRUE /\ sent' = 0 /\ outcome' = "none"
      /\ stage' = IF IsIn(r) THEN "dataIn" ELSE IF IsOut(r) THEN "dataOut" ELSE "statusIn"
      /\ UNCHANGED <<address, addrPending, addr, needZlp, short, direc, ds, dts, halted, bd, hostAddr>>
      /\ UNCHANGED <<owed, lost, corrupt, profile>>
      /\ halts' = (halts \/ r.kind = "haltEp0")
  BY DEF Setup, appVars
<1>2. ~HasSetup /\ Known /\ ~HasOut /\ address = hostAddr /\ Len(events) < UstatDepth
  BY HearsFacts, OutArmedFacts DEF Setup
<1>3. r \in Requests /\ e \in Event /\ e.type = "SETUP" /\ e.req = r
  BY Typed, EventTypes
<1>4. /\ events' \in Seq(Event) /\ Len(events') <= UstatDepth /\ OneOfAKind'
      /\ Waiting' = Waiting \cup {e}
      /\ HasSetup' /\ (HasIn' <=> HasIn) /\ ~HasOut' /\ ~Known'
  <2> HIDE DEF e
  <2>1. events' = Append(events, e)
    BY <1>1
  <2>2. /\ events' \in Seq(Event) /\ Len(events') <= UstatDepth
        /\ Waiting' = Waiting \cup {e}
        /\ HasSetup' /\ (HasIn' <=> HasIn) /\ ~HasOut'
    BY <1>2, <1>3, <2>1, Typed, Enqueued
  <2>3. OneOfAKind'
    BY <1>2, <1>3, <2>1, Typed, EnqueuedInOrder
  <2>4. QED  BY <2>2, <2>3 DEF Known
<1> HIDE DEF e
<1>5. TypeOK'
  <2>1. stage' \in {"dataIn", "dataOut", "statusIn"}
    BY <1>1
  <2>2. pktDis' \in BOOLEAN /\ intact' \in BOOLEAN
    BY <1>1
  <2>3. halts' \in BOOLEAN
    BY <1>1
  <2>4. QED  BY <1>1, <1>3, <1>4, <2>1, <2>2, <2>3 DEF TypeOK
<1>6. QueueInv'
  <2>1. \A o \in Waiting : o.type \notin {"SETUP", "OUT"}
    BY <1>2 DEF HasSetup, HasOut
  <2>2. QED  BY <1>1, <1>3, <1>4, <2>1 DEF QueueInv
<1>7. HostInv'
  <2>1. IsOut(r) => 0 < r.asked
    BY <1>3, RequestTypes
  <2>2. IsOut(r) => ~IsIn(r)
    BY DEF IsIn, IsOut
  <2>3. QED  BY <1>1, <1>4, <2>1, <2>2, NextWholePacket DEF HostInv
<1>8. ReadInv' /\ ReadDoneInv' /\ AnswerInv' /\ WriteInv' /\ RefusalInv' /\ WriteDoneInv' /\ FillInv'
  BY <1>1, <1>4 DEF ReadInv, ReadDoneInv, AnswerInv, WriteInv, RefusalInv, WriteDoneInv, FillInv
<1>9. CallbackInv'
  BY <1>1, <1>2, <1>4 DEF CallbackInv, Reading, Writing, Written
<1>10. AddressInv'
  BY <1>1, <1>2, <1>4 DEF AddressInv
<1>11. SendInv' /\ ZlpInv'
  BY <1>1 DEF SendInv, ZlpInv
<1>12. QED  BY <1>5, <1>6, <1>7, <1>8, <1>9, <1>10, <1>11

(* What the host makes of a packet of a read: it has now all that was sent. *)
LEMMA Reads ==
  ASSUME ControlInv, stage = "dataIn", Hears, bd.owner = "sie", HostTakes(bd.packet), UNCHANGED cur
  PROVE  /\ cur.kind \in Served /\ ~HasIn /\ ~HasOut /\ PacketInv(bd.packet) /\ ds.from = cur
         /\ ds.at + ds.remaining = Total(cur)
         /\ intact /\ intact' /\ intact' \in BOOLEAN
         /\ outcome' = outcome /\ hostAddr' = hostAddr /\ halts' = halts
         /\ got' = ds.at /\ toggle' = dts
         /\ stage' \in {"dataIn", "statusOut"}
         /\ stage' = "statusOut" => ds.remaining = 0
         /\ bd.packet.len = EP_0_LEN /\ ds.remaining = 0 /\ cur.len < cur.asked => stage' = "dataIn"
         /\ stage' = "dataIn" => bd.packet.len > 0
<1> USE DEF ControlInv
<1> DEFINE p == bd.packet
<1>1. Known
  BY HearsFacts
<1>2. p \in Packet /\ bd # Cpu /\ bd # Stall
  BY Typed, BdCases, BdTypes
<1>3. IsIn(cur) /\ cur.kind \in Served
  BY <1>1, <1>2, Typed, KindCases DEF HostInv, AnswerInv, Refused
<1>4. ~HasIn /\ ~HasOut
  BY <1>1, <1>2, <1>3, Typed, KindCases DEF QueueInv, HostInv, Served
<1>5. /\ ds.from = cur /\ ds.at + ds.remaining = Total(cur) /\ intact
      /\ PacketInv(p)
  BY <1>1, <1>3 DEF ReadInv
<1>6. p.dts \in {0, 1} /\ p.len \in 0 .. EP_0_LEN /\ p.at \in Nat
  BY <1>2 DEF Packet
<1>7. Total(cur) <= cur.asked /\ (cur.len < cur.asked => Total(cur) < cur.asked)
  BY Typed DEF Total, Min
<1>8. CASE p.dts # toggle
  <2>1. UNCHANGED <<toggle, got, intact, stage, outcome, hostAddr, halts>>
    BY <1>8 DEF HostTakes
  <2>2. p.len > 0 /\ got = ds.at
    BY <1>5, <1>8 DEF PacketInv
  <2>3. toggle = dts
    BY <1>5, <1>6, <1>8, Typed DEF PacketInv
  <2>4. intact' \in BOOLEAN
    BY <2>1 DEF TypeOK
  <2>5. QED  BY <1>3, <1>4, <1>5, <2>1, <2>2, <2>3, <2>4
<1>9. CASE p.dts = toggle
  <2>1. /\ toggle' = 1 - toggle /\ got' = got + p.len
        /\ intact' = (intact /\ (p.len > 0 => p.from = cur /\ p.at = got))
        /\ stage' = IF p.len < EP_0_LEN \/ got' >= cur.asked THEN "statusOut" ELSE "dataIn"
        /\ UNCHANGED <<outcome, hostAddr, halts>>
    BY <1>9 DEF HostTakes
  <2>2. got' = ds.at
    BY <1>5, <1>6, <1>9, <2>1, Typed DEF PacketInv
  <2>3. intact'
    <3>1. p.len > 0 => p.from = cur /\ p.at = got
      BY <1>5, <1>6, <1>9 DEF PacketInv
    <3>2. QED  BY <1>5, <2>1, <3>1, Zenon
  <2>4. intact' \in BOOLEAN
    BY <2>3
  <2>5. toggle' = dts
    BY <1>5, <1>9, <2>1 DEF PacketInv
  <2>6. p.len < EP_0_LEN => ds.remaining = 0
    BY <1>5 DEF PacketInv
  <2>7. got' >= cur.asked => ds.remaining = 0
    <3>1. Total(cur) \in Nat
      BY <1>5, Typed
    <3>2. QED  BY <1>5, <1>7, <2>2, <3>1, Typed
  <2>8. stage' \in {"dataIn", "statusOut"} /\ (stage' = "statusOut" => ds.remaining = 0)
    BY <2>1, <2>6, <2>7
  <2>9. stage' = "dataIn" => p.len > 0
    BY <1>6, <2>1, Typed
  <2>10. p.len = EP_0_LEN /\ ds.remaining = 0 /\ cur.len < cur.asked => stage' = "dataIn"
    <3>1. ds.remaining = 0 /\ cur.len < cur.asked => got' < cur.asked
      BY <1>5, <1>7, <2>2, Typed
    <3>2. QED  BY <2>1, <2>2, <3>1, Typed
  <2>11. QED  BY <1>3, <1>4, <1>5, <2>1, <2>2, <2>3, <2>4, <2>5, <2>8, <2>9, <2>10
<1>10. QED  BY <1>8, <1>9

(* An IN transaction of a read, whether or not the ACK of it arrives.       *)
LEMMA ReadGoesOn ==
  ASSUME ControlInv, stage = "dataIn", Hears, bd.owner = "sie", HostTakes(bd.packet),
         UNCHANGED <<cur, sent, pktDis, address, addrPending, addr, needZlp, short, direc, ds, dts, halted>>,
         UNCHANGED <<owed, lost, corrupt, profile>>,
         bd' \in InBd, events' \in Seq(Event), Len(events') <= UstatDepth, OneOfAKind',
         \A e \in Waiting' : e \in Waiting \/ e.type = "IN",
         bd' = Cpu \/ (bd' = bd /\ ~HasIn')
  PROVE  ControlInv'
<1> USE DEF ControlInv
<1>1. /\ cur.kind \in Served /\ ~HasIn /\ ~HasOut /\ PacketInv(bd.packet) /\ ds.from = cur
      /\ ds.at + ds.remaining = Total(cur)
      /\ intact /\ intact' /\ intact' \in BOOLEAN
      /\ outcome' = outcome /\ hostAddr' = hostAddr /\ halts' = halts
      /\ got' = ds.at /\ toggle' = dts
      /\ stage' \in {"dataIn", "statusOut"}
      /\ stage' = "statusOut" => ds.remaining = 0
      /\ bd.packet.len = EP_0_LEN /\ ds.remaining = 0 /\ cur.len < cur.asked => stage' = "dataIn"
      /\ stage' = "dataIn" => bd.packet.len > 0
  BY Reads
<1>2. ~HasSetup /\ Known /\ address = hostAddr
  BY HearsFacts
<1>3. ~HasSetup' /\ ~HasOut' /\ Known'
  BY <1>1, <1>2 DEF HasSetup, HasOut, Known
<1>4. IsIn(cur) /\ ~IsOut(cur) /\ cur.kind \notin Refused \cup Acknowledged \cup {"write"}
  BY <1>1 DEF IsIn, IsOut, Served, Refused, Acknowledged, EndpointKind
<1>5. outcome = "none" /\ direc = "IN"
  BY <1>2, <1>4 DEF HostInv
<1>6. TypeOK'
  <2>1. stage' \in {"idle", "dataIn", "statusOut", "dataOut", "statusIn"} /\ got' \in Nat /\ toggle' \in {0, 1}
    BY <1>1, Typed
  <2>2. /\ outcome' = outcome /\ hostAddr' = hostAddr /\ halts' = halts /\ intact' \in BOOLEAN
    BY <1>1
  <2>3. QED  BY <2>1, <2>2 DEF TypeOK
<1>7. QueueInv'
  <2>1. \A e \in Waiting' : e.type \notin {"SETUP", "OUT"}
    BY <1>3 DEF HasSetup, HasOut
  <2>2. HasIn' => bd' = Cpu
    OBVIOUS
  <2>3. QED  BY <1>1, <1>2, <1>3, <2>1, <2>2 DEF QueueInv
<1>8. HostInv'
  BY <1>1, <1>3, <1>4, <1>5 DEF HostInv
<1>9. ReadInv'
  <2>1. SUFFICES ASSUME stage' = "dataIn"
                 PROVE  bd'.owner # "stall" /\ (bd'.owner = "sie" => PacketInv(bd.packet)')
    BY <1>1, <1>3 DEF ReadInv
  <2>2. CASE bd' = Cpu
    BY <2>2, BdTypes
  <2>3. CASE bd' = bd
    <3>1. bd.packet.dts \in {0, 1} /\ bd.packet.dts # toggle'
      <4>1. bd.packet \in Packet
        BY Typed, BdCases, BdTypes
      <4>2. bd.packet.dts \in {0, 1}
        BY <4>1 DEF Packet
      <4>3. QED  BY <1>1, <4>2 DEF PacketInv
    <3>2. PacketInv(bd.packet)'
      BY <1>1, <2>1, <2>3, <3>1 DEF PacketInv
    <3>3. QED  BY <2>3, <3>2
  <2>4. QED  BY <2>2, <2>3
<1>10. ReadDoneInv'
  <2>1. stage' = "statusOut" => got' = Total(cur)
    BY <1>1, Typed
  <2>2. QED  BY <1>1, <1>5, <2>1 DEF ReadDoneInv, Total
<1>11. AnswerInv' /\ WriteInv' /\ RefusalInv' /\ WriteDoneInv' /\ FillInv'
  BY <1>1, <1>4 DEF AnswerInv, WriteInv, RefusalInv, WriteDoneInv, FillInv, Refused
<1>12. CallbackInv'
  BY <1>1, <1>3 DEF CallbackInv, Reading, Writing, Written
<1>13. AddressInv'
  BY <1>1, <1>2, <1>4 DEF AddressInv, Acknowledged
<1>14. SendInv'
  BY <1>1, <1>3 DEF SendInv
<1>15. ZlpInv'
  <2>1. SUFFICES ASSUME AllOrderly, needZlp, HasCallbacks(profile)
                 PROVE  stage' = "dataIn" /\ (bd'.owner = "sie" => bd'.packet.len = EP_0_LEN)
    BY <1>3, <2>1 DEF ZlpInv
  <2>2. bd.packet.len = EP_0_LEN /\ ds.remaining = 0 /\ cur.len < cur.asked
    BY <2>1 DEF ZlpInv
  <2>3. bd'.owner = "sie" => bd' = bd
    BY BdTypes
  <2>4. QED  BY <1>1, <2>2, <2>3
<1>16. QED  BY <1>6, <1>7, <1>8, <1>9, <1>10, <1>11, <1>12, <1>13, <1>14, <1>15

(* The status stage of a write: the device has taken all that it can, and   *)
(* where writes fit, all of it.                                             *)
LEMMA WriteTaken ==
  ASSUME ControlInv, Known, stage = "statusIn", cur.kind = "write", bd.owner = "sie"
  PROVE  /\ bd = Status
         /\ AllOrderly /\ ds.outBuffer => ds.remaining = 0
         /\ AllWritesFit => ~corrupt /\ ~HasOut /\ ds.at = cur.asked /\ ds.remaining = 0
<1> USE DEF ControlInv
<1>1. bd # Cpu /\ bd # Stall /\ bd = Status
  BY BdTypes DEF AnswerInv
<1>2. AllOrderly /\ ds.outBuffer => ds.remaining = 0
  BY <1>1 DEF FillInv
<1>3. ASSUME AllWritesFit
      PROVE  ~corrupt /\ ~HasOut /\ ds.at = cur.asked /\ ds.remaining = 0
  <2>1. NoWriteLost
    BY <1>3 DEF AllWritesFit, NoWriteLost, WritesFit
  <2>2. Accepting /\ sent = cur.asked
    BY <1>1, <2>1 DEF WriteInv, HostInv, IsOut
  <2>3. Fits(cur)
    <3>1. cur \in profile.requests /\ profile \in Profiles
      BY Typed DEF HostInv, NoRequest
    <3>2. QED  BY <1>3, <3>1 DEF AllWritesFit, WritesFit
  <2>4. ds.at + ds.remaining = cur.len /\ ~corrupt
    BY <2>2 DEF Accepting
  <2>5. ds.at = cur.asked /\ ~HasOut
    <3>1. SUFFICES ASSUME ds.remaining = 0, WholePackets(cur.len), ~(ds.at = cur.asked /\ ~HasOut)
                   PROVE  FALSE
      BY <1>1, <2>2 DEF Accepting
    <3>2. HasOut
      BY <2>2, <3>1 DEF Accepting
    <3>3. PICK e \in Waiting : e.type = "OUT"
      BY <3>2 DEF HasOut
    <3>4. e.at = ds.at /\ e.at + e.len = sent /\ e.len > 0
      BY <2>2, <3>3 DEF Accepting, OutIs
    <3>5. e.len \in 0 .. EP_0_LEN
      BY <3>3, WaitingTypes, Typed
    <3>6. ds.at = cur.len /\ cur.len < cur.asked
      BY <2>2, <2>4, <3>1, <3>4, <3>5, Typed
    <3>7. cur.len + EP_0_LEN < cur.asked
      BY <2>3, <3>1, <3>6 DEF Fits
    <3>8. QED  BY <2>2, <3>4, <3>5, <3>6, <3>7, Typed
  <2>6. ds.remaining = 0
    BY <2>3, <2>4, <2>5, Typed DEF Fits
  <2>7. QED  BY <2>4, <2>5, <2>6
<1>4. QED  BY <1>1, <1>2, <1>3

LEMMA InTokenInv ==
  ASSUME ControlInv, InToken
  PROVE  ControlInv'
<1> USE DEF ControlInv
<1> DEFINE e == [type |-> "IN"]
<1>1. /\ stage \in {"dataIn", "statusIn"} /\ Hears /\ bd.owner = "sie" /\ HostTakes(bd.packet)
      /\ bd' = Cpu /\ events' = Append(events, e)
      /\ UNCHANGED <<cur, sent, pktDis, address, addrPending, addr, needZlp, short, direc, ds, dts, halted>>
      /\ UNCHANGED <<owed, lost, corrupt, profile>>
  BY DEF InToken, appVars
<1>2. ~HasSetup /\ Known /\ address = hostAddr /\ Len(events) < UstatDepth
  BY <1>1, HearsFacts
<1>3. bd # Cpu /\ bd # Stall /\ ~HasIn
  BY <1>1, <1>2, BdTypes DEF QueueInv
<1>4. e \in Event /\ e.type = "IN"
  BY EventTypes
<1>5. /\ events' \in Seq(Event) /\ Len(events') <= UstatDepth /\ OneOfAKind'
      /\ Waiting' = Waiting \cup {e}
      /\ ~HasSetup' /\ HasIn' /\ (HasOut' <=> HasOut) /\ Known'
  <2> HIDE DEF e
  <2>1. events' = Append(events, e)
    BY <1>1
  <2>2. /\ events' \in Seq(Event) /\ Len(events') <= UstatDepth
        /\ Waiting' = Waiting \cup {e}
        /\ ~HasSetup' /\ HasIn' /\ (HasOut' <=> HasOut)
    BY <1>2, <1>4, <2>1, Typed, Enqueued
  <2>3. OneOfAKind'
    BY <1>2, <1>3, <1>4, <2>1, Typed, EnqueuedInOrder
  <2>4. QED  BY <2>2, <2>3 DEF Known
<1> HIDE DEF e
<1>6. CASE stage = "dataIn"
  BY <1>1, <1>4, <1>5, <1>6, BdTypes, ReadGoesOn
<1>7. CASE stage = "statusIn"
  <2>1. ~IsIn(cur) /\ toggle = 1 /\ outcome = "none" /\ direc = "OUT"
    BY <1>2, <1>7 DEF HostInv, TypeOK
  <2>2. cur.kind \in Acknowledged \/ cur.kind = "write"
    BY <1>2, <1>3, <1>7, <2>1, Typed, KindCases DEF AnswerInv, Refused
  <2>3. cur.kind \notin Refused \cup Served
    BY <2>2 DEF Refused, Served, Acknowledged, EndpointKind
  <2>4. bd = Status
    BY <1>1, <1>2, <1>7, <2>2, WriteTaken DEF AnswerInv
  <2>5. /\ stage' = "idle" /\ outcome' = "done" /\ toggle' = 0
        /\ hostAddr' = IF cur.kind = "setAddress" THEN cur.addr ELSE hostAddr
        /\ halts' = (halts /\ cur.kind # "clearEp0")
        /\ UNCHANGED <<got, intact>>
    BY <1>1, <1>7, <2>1, <2>4, BdTypes DEF HostTakes
  <2>6. TypeOK'
    <3>1. hostAddr' \in Nat
      BY <2>5, Typed DEF TypeOK
    <3>2. halts' \in BOOLEAN
      BY <2>5
    <3>3. bd' \in InBd /\ toggle' \in {0, 1}
      BY <1>1, <2>5, BdTypes
    <3>4. QED  BY <1>1, <1>5, <2>5, <3>1, <3>2, <3>3 DEF TypeOK
  <2>7. QueueInv'
    <3>1. \A o \in Waiting' : o.type # "SETUP"
      BY <1>5 DEF HasSetup
    <3>2. \A o \in Waiting' : o.type = "OUT" => o \in Waiting
      BY <1>4, <1>5
    <3>3. QED  BY <1>1, <1>2, <1>5, <2>5, <3>1, <3>2 DEF QueueInv
  <2>8. HostInv'
    BY <1>1, <1>2, <1>5, <1>7, <2>1, <2>5 DEF HostInv
  <2>9. ReadInv' /\ ReadDoneInv' /\ AnswerInv' /\ WriteInv' /\ RefusalInv' /\ FillInv'
    BY <1>1, <2>1, <2>3, <2>5 DEF ReadInv, ReadDoneInv, AnswerInv, WriteInv, RefusalInv, FillInv, IsIn
  <2>10. WriteDoneInv'
    BY <1>1, <1>2, <1>5, <1>7, WriteTaken DEF WriteDoneInv
  <2>11. CallbackInv'
    <3>1. SUFFICES ASSUME AllOrderly, ds.callback
                   PROVE  HasCallbacks(profile) /\ Written'
      BY <1>1, <3>1 DEF CallbackInv
    <3>2. HasCallbacks(profile) /\ Writing
      BY <1>2, <1>3, <1>7, <2>3, <3>1 DEF CallbackInv, Reading, Written, Served
    <3>3. ds.remaining = 0
      BY <1>1, <1>7, <3>2, <3>1, WriteTaken DEF Writing
    <3>4. ~needZlp
      BY <1>7, <3>1, <3>2 DEF ZlpInv
    <3>5. QED  BY <1>1, <1>5, <2>1, <2>5, <3>2, <3>3, <3>4 DEF Written
  <2>12. AddressInv'
    BY <1>1, <1>2, <1>3, <1>5, <1>7, <2>5 DEF AddressInv
  <2>13. SendInv' /\ ZlpInv'
    BY <1>1, <1>7 DEF SendInv, ZlpInv
  <2>14. QED  BY <2>6, <2>7, <2>8, <2>9, <2>10, <2>11, <2>12, <2>13
<1>8. QED  BY <1>1, <1>6, <1>7

LEMMA InTokenLostInv ==
  ASSUME ControlInv, InTokenLost
  PROVE  ControlInv'
<1>1. /\ stage = "dataIn" /\ Hears /\ bd.owner = "sie" /\ HostTakes(bd.packet)
      /\ UNCHANGED <<cur, sent, pktDis, address, addrPending, addr, needZlp, short, direc, ds, dts, halted>>
      /\ UNCHANGED <<owed, lost, corrupt, profile>> /\ UNCHANGED <<bd, events>>
  BY DEF InTokenLost, deviceVars, appVars
<1>2. ~HasIn
  BY <1>1, HearsFacts, BdTypes DEF ControlInv, QueueInv
<1>3. /\ events' \in Seq(Event) /\ Len(events') <= UstatDepth /\ OneOfAKind' /\ bd' \in InBd
      /\ Waiting' = Waiting /\ ~HasIn'
  BY <1>1, <1>2, Typed DEF OneOfAKind, Waiting, HasIn
<1>4. QED  BY <1>1, <1>3, ReadGoesOn

LEMMA InStalledInv ==
  ASSUME ControlInv, InStalled
  PROVE  ControlInv'
<1> USE DEF ControlInv
<1>1. /\ stage \in {"dataIn", "statusIn"} /\ Hears /\ bd.owner = "stall"
      /\ stage' = "idle" /\ outcome' = "stalled"
      /\ UNCHANGED <<events, pktDis, address, addrPending, addr, needZlp, short, direc, ds, dts, halted, bd>>
      /\ UNCHANGED <<cur, toggle, got, intact, sent, hostAddr, halts>>
      /\ UNCHANGED <<owed, lost, corrupt, profile>>
  BY DEF InStalled, deviceVars, appVars
<1>2. ~HasSetup /\ Known /\ address = hostAddr
  BY <1>1, HearsFacts
<1>3. bd = Stall /\ bd # Cpu /\ bd # Status /\ ~HasIn
  BY <1>1, <1>2, Typed, BdCases, BdTypes DEF QueueInv
<1>4. /\ Waiting' = Waiting /\ (HasSetup' <=> HasSetup) /\ (HasIn' <=> HasIn) /\ (HasOut' <=> HasOut)
      /\ (OneOfAKind' <=> OneOfAKind) /\ Known'
  BY <1>1, <1>2 DEF Waiting, HasSetup, HasIn, HasOut, OneOfAKind, Known
<1>5. ~(stage = "dataIn" /\ cur.kind \in Served)
  BY <1>1, <1>2 DEF ReadInv
<1>6. TypeOK' /\ QueueInv'
  BY <1>1, <1>4 DEF TypeOK, QueueInv
<1>7. HostInv'
  BY <1>1, <1>2, <1>4 DEF HostInv
<1>8. ReadInv' /\ ReadDoneInv' /\ AnswerInv' /\ WriteInv' /\ WriteDoneInv' /\ FillInv'
  BY <1>1 DEF ReadInv, ReadDoneInv, AnswerInv, WriteInv, WriteDoneInv, FillInv
<1>13. RefusalInv'
  <2>1. cur.kind \in Refused \cup {"write"}
    BY <1>1, <1>2, <1>3, <1>5, Typed, KindCases DEF HostInv, AnswerInv, Refused
  <2>2. NoWriteLost /\ cur.kind = "write" => cur.asked > cur.len
    BY <1>1, <1>2, <1>3, Typed, KindCases DEF HostInv, WriteInv, Accepting, IsIn
  <2>3. QED  BY <1>1, <2>1, <2>2 DEF RefusalInv
<1>9. CallbackInv'
  <2>1. ~Reading
    BY <1>1, <1>5, Typed, KindCases DEF HostInv, Reading, Served
  <2>2. ~(AllOrderly /\ Writing)
    BY <1>1, <1>3 DEF FillInv, Writing
  <2>3. QED  BY <1>1, <1>3, <2>1, <2>2 DEF CallbackInv, Written
<1>10. AddressInv'
  BY <1>1, <1>2, <1>3, <1>4 DEF AddressInv, AnswerInv, Acknowledged
<1>11. SendInv' /\ ZlpInv'
  BY <1>1, <1>2, <1>5 DEF SendInv, ZlpInv, Served
<1>12. QED  BY <1>6, <1>7, <1>8, <1>9, <1>10, <1>11, <1>13

(* An OUT packet reaches the FIFO.                                          *)
LEMMA OutEnqueued ==
  ASSUME ControlInv, stage \in {"dataOut", "statusOut"}, Hears, OutArmed, events' = Append(events, OutPacket)
  PROVE  /\ events' \in Seq(Event) /\ Len(events') <= UstatDepth /\ OneOfAKind'
         /\ Waiting' = Waiting \cup {OutPacket}
         /\ ~HasSetup /\ ~HasSetup' /\ (HasIn' <=> HasIn) /\ ~HasOut /\ HasOut' /\ Known /\ Known'
         /\ OutPacket.type = "OUT" /\ OutPacket.at = sent /\ OutPacket.len \in Nat
         /\ stage = "statusOut" => OutPacket.len = 0
         /\ stage = "dataOut" =>
              /\ OutPacket.len = Min(EP_0_LEN, cur.asked - sent) /\ OutPacket.len > 0
              /\ sent + OutPacket.len <= cur.asked
              /\ sent + OutPacket.len < cur.asked => WholePackets(sent + OutPacket.len)
<1> DEFINE e == OutPacket
<1>1. ~HasSetup /\ Known /\ ~HasOut /\ Len(events) < UstatDepth
  BY HearsFacts, OutArmedFacts
<1>2. stage = "dataOut" => sent < cur.asked /\ WholePackets(sent)
  BY DEF ControlInv, HostInv
<1>3. e.type = "OUT" /\ e.at = sent
  BY DEF OutPacket
<1>4. /\ e.len \in 0 .. EP_0_LEN /\ (stage = "statusOut" => e.len = 0)
      /\ stage = "dataOut" =>
           e.len = Min(EP_0_LEN, cur.asked - sent) /\ e.len > 0 /\ sent + e.len <= cur.asked
  BY <1>2, Typed DEF OutPacket, Min
<1>5. stage = "dataOut" /\ sent + e.len < cur.asked => WholePackets(sent + e.len)
  <2>1. stage = "dataOut" /\ sent + e.len < cur.asked => e.len = EP_0_LEN
    BY <1>2, Typed DEF OutPacket, Min
  <2>2. QED  BY <1>2, <2>1, NextWholePacket, Typed
<1>6. e \in Event
  <2>1. e = [type |-> "OUT", at |-> e.at, len |-> e.len]
    BY DEF OutPacket
  <2>2. QED  BY <1>3, <1>4, <2>1, Typed DEF Event
<1> HIDE DEF e
<1>7. events' = Append(events, e)
  BY DEF e
<1>8. /\ events' \in Seq(Event) /\ Len(events') <= UstatDepth
      /\ Waiting' = Waiting \cup {e}
      /\ ~HasSetup' /\ (HasIn' <=> HasIn) /\ HasOut'
  BY <1>1, <1>3, <1>6, <1>7, Typed, Enqueued
<1>9. OneOfAKind'
  BY <1>1, <1>3, <1>6, <1>7, Typed, EnqueuedInOrder
<1>10. QED  BY <1>1, <1>3, <1>4, <1>5, <1>8, <1>9 DEF e, Known

LEMMA OutTokenInv ==
  ASSUME ControlInv, OutToken
  PROVE  ControlInv'
<1> USE DEF ControlInv
<1> DEFINE e == OutPacket
<1>1. /\ stage \in {"dataOut", "statusOut"} /\ Hears /\ OutArmed /\ events' = Append(events, OutPacket)
      /\ sent' = sent + e.len
      /\ stage' = IF stage = "statusOut" THEN "idle" ELSE IF sent' = cur.asked THEN "statusIn" ELSE "dataOut"
      /\ outcome' = IF stage = "statusOut" THEN "done" ELSE outcome
      /\ UNCHANGED <<pktDis, address, addrPending, addr, needZlp, short, direc, ds, dts, halted, bd>>
      /\ UNCHANGED <<cur, toggle, got, intact, hostAddr, halts>>
      /\ UNCHANGED <<owed, lost, corrupt, profile>>
  BY DEF OutToken, appVars
<1>2. /\ events' \in Seq(Event) /\ Len(events') <= UstatDepth /\ OneOfAKind'
      /\ Waiting' = Waiting \cup {e}
      /\ ~HasSetup /\ ~HasSetup' /\ (HasIn' <=> HasIn) /\ ~HasOut /\ HasOut' /\ Known /\ Known'
      /\ e.type = "OUT" /\ e.at = sent /\ e.len \in Nat
      /\ stage = "statusOut" => e.len = 0
      /\ stage = "dataOut" =>
           /\ e.len = Min(EP_0_LEN, cur.asked - sent) /\ e.len > 0
           /\ sent + e.len <= cur.asked
           /\ sent + e.len < cur.asked => WholePackets(sent + e.len)
  BY <1>1, OutEnqueued
<1> HIDE DEF e
<1>3. outcome = "none" /\ address = hostAddr
  BY <1>1, HearsFacts DEF HostInv
<1>4. TypeOK'
  <2>1. sent' \in Nat
    BY <1>1, <1>2, Typed
  <2>2. stage' \in {"idle", "statusIn", "dataOut"} /\ outcome' \in {"none", "done"}
    BY <1>1, <1>3
  <2>3. QED  BY <1>1, <1>2, <2>1, <2>2 DEF TypeOK
<1>5. QueueInv'
  <2>1. \A o \in Waiting' : o.type # "SETUP"
    BY <1>2 DEF HasSetup
  <2>2. HasIn => stage = "statusOut"
    BY <1>1, <1>2 DEF QueueInv
  <2>3. stage = "statusOut" => ~IsOut(cur) /\ stage' = "idle"
    BY <1>1 DEF HostInv, IsIn, IsOut
  <2>4. \A o \in Waiting' : o.type = "OUT" /\ IsOut(cur) => o.len > 0
    BY <1>1, <1>2, <2>3 DEF HasOut
  <2>5. QED  BY <1>1, <1>2, <2>1, <2>2, <2>3, <2>4 DEF QueueInv
<1>6. SendInv' /\ ZlpInv'
  BY <1>1 DEF SendInv, ZlpInv
<1>7. CASE stage = "dataOut"
  <2>1. IsOut(cur) /\ ~IsIn(cur) /\ cur.kind \notin Acknowledged \cup {"appRead", "setAddress"}
    BY <1>7 DEF HostInv, IsOut, IsIn, Acknowledged, EndpointKind
  <2>2. stage' \in {"dataOut", "statusIn"} /\ outcome' = "none" /\ sent' <= cur.asked
    BY <1>1, <1>2, <1>3, <1>7
  <2>3. HostInv'
    <3>1. stage' = "dataOut" => sent' < cur.asked /\ WholePackets(sent')
      <4>1. stage' = "dataOut" => sent' # cur.asked
        BY <1>1, <1>7
      <4>2. stage' = "dataOut" => sent' < cur.asked
        <5>1. sent' \in Nat /\ cur.asked \in Nat
          BY <1>1, <1>2, Typed
        <5>2. QED  BY <2>2, <4>1, <5>1
      <4>3. QED  BY <1>1, <1>2, <1>7, <4>2
    <3>2. stage' = "statusIn" => sent' = cur.asked
      BY <1>1, <1>7
    <3>3. QED  BY <1>1, <1>2, <1>7, <2>1, <2>2, <3>1, <3>2 DEF HostInv
  <2>4. ReadInv' /\ ReadDoneInv' /\ WriteDoneInv'
    BY <2>2 DEF ReadInv, ReadDoneInv, WriteDoneInv
  <2>5. AnswerInv' /\ RefusalInv'
    BY <1>1, <1>2, <1>7, <2>1, <2>2 DEF AnswerInv, RefusalInv
  <2>6. WriteInv'
    <3>1. SUFFICES ASSUME NoWriteLost, cur.kind = "write", Accepting
                   PROVE  Accepting'
      BY <1>1, <1>2, <1>7 DEF WriteInv
    <3>2. ds.at = sent
      BY <1>2, <3>1 DEF Accepting
    <3>3. \A o \in Waiting' : o.type = "OUT" => o = e
      BY <1>2 DEF HasOut
    <3>4. WholePackets(sent)
      BY <1>7 DEF HostInv
    <3>5. ASSUME NEW o \in Waiting', o.type = "OUT"
          PROVE  OutIs(o)'
      BY <1>1, <1>2, <1>7, <3>2, <3>3, <3>4, <3>5 DEF OutIs
    <3>6. ds.at # cur.asked
      BY <1>7, <3>2, Typed DEF HostInv
    <3>7. QED  BY <1>1, <1>2, <3>1, <3>5, <3>6 DEF Accepting
  <2>7. CallbackInv'
    BY <1>1, <1>2, <1>7, <2>1, <2>2 DEF CallbackInv, Reading, Writing, Written
  <2>8. AddressInv'
    BY <1>1, <1>2, <1>3, <1>7, <2>1 DEF AddressInv
  <2>9. FillInv'
    <3>1. SUFFICES ASSUME AllOrderly, cur.kind = "write", ds.outBuffer
                   PROVE  /\ ds.at + ds.remaining = cur.len /\ (bd = Cpu \/ (bd = Status /\ ds.remaining = 0))
                          /\ \A o \in Waiting' : o.type = "OUT" => Reaches(o)'
      BY <1>1, <1>2 DEF FillInv
    <3>2. ds.at + ds.remaining = cur.len /\ ds.at >= sent /\ (bd = Cpu \/ (bd = Status /\ ds.remaining = 0))
      BY <1>2, <1>7, <3>1 DEF FillInv
    <3>3. \A o \in Waiting' : o.type = "OUT" => o = e
      BY <1>2 DEF HasOut
    <3>4. e.len < EP_0_LEN => sent + e.len = cur.asked
      BY <1>2, <1>7, Typed DEF Min
    <3>5. ASSUME NEW o \in Waiting', o.type = "OUT"
          PROVE  Reaches(o)'
      BY <1>1, <1>2, <1>7, <3>2, <3>3, <3>4, <3>5, Typed DEF Reaches
    <3>6. QED  BY <3>2, <3>5
  <2>10. QED  BY <1>4, <1>5, <1>6, <2>3, <2>4, <2>5, <2>6, <2>7, <2>8, <2>9
<1>8. CASE stage = "statusOut"
  <2>1. IsIn(cur) /\ ~IsOut(cur) /\ stage' = "idle" /\ outcome' = "done" /\ sent' = sent
    BY <1>1, <1>2, <1>8, Typed DEF HostInv, IsIn, IsOut
  <2>2. cur.kind \in Served /\ cur.kind # "write"
    BY <1>8, <2>1 DEF ReadDoneInv, Served
  <2>3. HostInv'
    BY <1>1, <1>2, <1>8, <2>1 DEF HostInv
  <2>4. ReadDoneInv'
    BY <1>1, <1>8, <2>1 DEF ReadDoneInv
  <2>5. ReadInv' /\ AnswerInv' /\ WriteInv' /\ RefusalInv' /\ WriteDoneInv' /\ FillInv'
    BY <1>1, <2>1, <2>2 DEF ReadInv, AnswerInv, WriteInv, RefusalInv, WriteDoneInv, FillInv, Served, Refused
  <2>6. CallbackInv'
    BY <1>1, <1>2, <1>8 DEF CallbackInv, Reading, Writing, Written
  <2>7. AddressInv'
    BY <1>1, <1>2, <1>3, <1>8, <2>1 DEF AddressInv
  <2>8. QED  BY <1>4, <1>5, <1>6, <2>3, <2>4, <2>5, <2>6, <2>7
<1>9. QED  BY <1>1, <1>7, <1>8

LEMMA OutTokenLostInv ==
  ASSUME ControlInv, OutTokenLost
  PROVE  ControlInv'
<1> USE DEF ControlInv
<1> DEFINE e == OutPacket
<1>1. /\ cur.kind \in profile.loses /\ stage = "dataOut" /\ Hears /\ OutArmed
      /\ events' = Append(events, OutPacket)
      /\ UNCHANGED <<pktDis, address, addrPending, addr, needZlp, short, direc, ds, dts, halted, bd>>
      /\ UNCHANGED <<cur, stage, toggle, got, intact, sent, outcome, hostAddr, halts>>
      /\ UNCHANGED <<owed, lost, corrupt, profile>>
  BY DEF OutTokenLost, hostVars, appVars
<1>2. /\ events' \in Seq(Event) /\ Len(events') <= UstatDepth /\ OneOfAKind'
      /\ Waiting' = Waiting \cup {e}
      /\ ~HasSetup /\ ~HasSetup' /\ (HasIn' <=> HasIn) /\ ~HasOut /\ HasOut' /\ Known /\ Known'
      /\ e.type = "OUT" /\ e.at = sent /\ e.len \in Nat
      /\ e.len = Min(EP_0_LEN, cur.asked - sent) /\ e.len > 0 /\ sent + e.len <= cur.asked
  BY <1>1, OutEnqueued
<1> HIDE DEF e
<1>3. IsOut(cur) /\ ~IsIn(cur) /\ cur.kind # "appRead" /\ outcome = "none" /\ ~HasIn
  BY <1>1, <1>2 DEF HostInv, QueueInv, IsIn, IsOut
<1>4. NoWriteLost => cur.kind # "write"
  BY <1>1, Typed DEF NoWriteLost, LosesNoWrite
<1>5. \A o \in Waiting' : o.type = "OUT" => o = e
  BY <1>2 DEF HasOut
<1>6. TypeOK'
  BY <1>1, <1>2 DEF TypeOK
<1>7. QueueInv'
  <2>1. \A o \in Waiting' : o.type # "SETUP"
    BY <1>2 DEF HasSetup
  <2>2. QED  BY <1>1, <1>2, <1>3, <1>5, <2>1 DEF QueueInv
<1>8. HostInv'
  BY <1>1, <1>2, <1>3 DEF HostInv
<1>9. ReadInv' /\ ReadDoneInv' /\ AnswerInv' /\ WriteInv' /\ RefusalInv' /\ WriteDoneInv'
  BY <1>1, <1>2, <1>3, <1>4 DEF ReadInv, ReadDoneInv, AnswerInv, WriteInv, RefusalInv, WriteDoneInv
<1>10. FillInv'
  <2>1. SUFFICES ASSUME AllOrderly, cur.kind = "write", ds.outBuffer
                 PROVE  /\ ds.at + ds.remaining = cur.len /\ (bd = Cpu \/ (bd = Status /\ ds.remaining = 0))
                        /\ \A o \in Waiting' : o.type = "OUT" => Reaches(o)'
    BY <1>1, <1>2 DEF FillInv
  <2>2. ds.at + ds.remaining = cur.len /\ ds.at >= sent /\ (bd = Cpu \/ (bd = Status /\ ds.remaining = 0))
    BY <1>1, <1>2, <2>1 DEF FillInv
  <2>3. e.len < EP_0_LEN => sent + e.len = cur.asked
    BY <1>2, Typed DEF Min
  <2>4. ASSUME NEW o \in Waiting', o.type = "OUT"
        PROVE  Reaches(o)'
    BY <1>1, <1>2, <1>5, <2>2, <2>3, <2>4, Typed DEF Reaches
  <2>5. QED  BY <2>2, <2>4
<1>11. CallbackInv'
  BY <1>1, <1>2, <1>3 DEF CallbackInv, Reading, Writing, Written
<1>12. AddressInv' /\ SendInv' /\ ZlpInv'
  BY <1>1, <1>2 DEF AddressInv, SendInv, ZlpInv
<1>13. QED  BY <1>6, <1>7, <1>8, <1>9, <1>10, <1>11, <1>12

LEMMA GiveUpInv ==
  ASSUME ControlInv, GiveUp
  PROVE  ControlInv'
<1> USE DEF ControlInv
<1>1. /\ stage # "idle" /\ cur.kind \in profile.givesUp /\ stage' = "idle" /\ outcome' = "none"
      /\ UNCHANGED <<events, pktDis, address, addrPending, addr, needZlp, short, direc, ds, dts, halted, bd>>
      /\ UNCHANGED <<cur, toggle, got, intact, sent, hostAddr, halts>>
      /\ UNCHANGED <<owed, lost, corrupt, profile>>
  BY DEF GiveUp, deviceVars, appVars
<1>2. /\ AllOrderly => cur.kind \notin {"appRead", "write"}
      /\ AddressesCompleted => cur.kind # "setAddress"
  BY <1>1, Typed DEF AllOrderly, Orderly, AddressesCompleted, CompletesAddress
<1>3. /\ Waiting' = Waiting /\ (HasSetup' <=> HasSetup) /\ (HasIn' <=> HasIn) /\ (HasOut' <=> HasOut)
      /\ (OneOfAKind' <=> OneOfAKind) /\ (Known' <=> Known)
  BY <1>1 DEF Waiting, HasSetup, HasIn, HasOut, OneOfAKind, Known
<1>4. TypeOK' /\ QueueInv'
  BY <1>1, <1>3 DEF TypeOK, QueueInv
<1>5. HostInv'
  BY <1>1, <1>3 DEF HostInv
<1>6. ReadInv' /\ ReadDoneInv' /\ AnswerInv' /\ WriteInv' /\ RefusalInv' /\ WriteDoneInv' /\ FillInv'
  BY <1>1 DEF ReadInv, ReadDoneInv, AnswerInv, WriteInv, RefusalInv, WriteDoneInv, FillInv
<1>7. CallbackInv'
  BY <1>1, <1>2, <1>3 DEF CallbackInv, Reading, Writing, Written
<1>8. AddressInv'
  BY <1>1, <1>2, <1>3 DEF AddressInv, HostInv
<1>9. SendInv' /\ ZlpInv'
  BY <1>1, <1>3 DEF SendInv, ZlpInv
<1>10. QED  BY <1>4, <1>5, <1>6, <1>7, <1>8, <1>9

LEMMA BusResetInv ==
  ASSUME ControlInv, BusReset
  PROVE  ControlInv'
<1> USE DEF ControlInv
<1>1. /\ profile.resets
      /\ events' = <<>> /\ pktDis' = FALSE /\ address' = 0 /\ addrPending' = FALSE /\ addr' = addr
      /\ dts' = 0 /\ halted' = FALSE /\ bd' = Cpu
      /\ stage' = "idle" /\ outcome' = "none" /\ hostAddr' = 0 /\ halts' = FALSE
      /\ owed' = owed - (IF ds.callback THEN 1 ELSE 0) /\ lost' = IF ds.callback THEN 1 ELSE lost
      /\ UNCHANGED <<needZlp, short, direc, cur, toggle, got, intact, sent, corrupt, profile>>
  BY DEF BusReset
<1>2. ds' \in DataStage /\ ~ds'.callback /\ ~ds'.outBuffer /\ ds'.remaining = 0
  BY Typed, ResetFacts DEF BusReset
<1>3. /\ events' \in Seq(Event) /\ Len(events') <= UstatDepth
      /\ Waiting' = {} /\ ~HasSetup' /\ ~HasIn' /\ ~HasOut' /\ OneOfAKind'
  BY <1>1 DEF Waiting, HasSetup, HasIn, HasOut, OneOfAKind, UstatDepth
<1>4. TypeOK'
  <2>1. /\ pktDis' \in BOOLEAN /\ addrPending' \in BOOLEAN /\ halted' \in BOOLEAN /\ halts' \in BOOLEAN
    BY <1>1
  <2>2. address' \in Nat /\ hostAddr' \in Nat /\ dts' \in {0, 1}
    BY <1>1
  <2>5. owed' \in Int /\ lost' \in {0, 1}
    BY <1>1, Typed DEF TypeOK
  <2>3. bd' \in InBd
    BY <1>1, BdTypes
  <2>4. QED  BY <1>1, <1>2, <1>3, <2>1, <2>2, <2>3, <2>5 DEF TypeOK
<1>5. QueueInv' /\ HostInv'
  BY <1>1, <1>3 DEF QueueInv, HostInv
<1>6. ReadInv' /\ ReadDoneInv' /\ AnswerInv' /\ WriteInv' /\ RefusalInv' /\ WriteDoneInv' /\ FillInv'
  BY <1>1 DEF ReadInv, ReadDoneInv, AnswerInv, WriteInv, RefusalInv, WriteDoneInv, FillInv
<1>7. CallbackInv' /\ AddressInv'
  BY <1>1, <1>2, Typed DEF CallbackInv, AddressInv
<1>8. SendInv' /\ ZlpInv'
  BY <1>1, <1>2 DEF SendInv, ZlpInv
<1>9. QED  BY <1>4, <1>5, <1>6, <1>7, <1>8

-----------------------------------------------------------------------------
(* Events of the data endpoint come and go between the others.              *)

LEMMA UnmovedInv ==
  ASSUME ControlInv,
         UNCHANGED <<pktDis, address, addrPending, addr, needZlp, short, direc, ds, dts, halted, bd, hostVars, appVars>>,
         events' \in Seq(Event), Len(events') <= UstatDepth, OneOfAKind',
         \A e \in Waiting' : e \in Waiting \/ e.type = "data",
         HasSetup' <=> HasSetup, HasIn' <=> HasIn, HasOut' <=> HasOut
  PROVE  ControlInv'
<1> USE DEF ControlInv
<1>1. /\ UNCHANGED <<pktDis, address, addrPending, addr, needZlp, short, direc, ds, dts, halted, bd>>
      /\ UNCHANGED <<cur, stage, toggle, got, intact, sent, outcome, hostAddr, halts>>
      /\ UNCHANGED <<owed, lost, corrupt, profile>>
  BY DEF hostVars, appVars
<1>2. Known' <=> Known
  BY DEF Known
<1>3. TypeOK'
  BY <1>1 DEF TypeOK
<1>4. QueueInv'
  BY <1>1, <1>2 DEF QueueInv
<1>5. HostInv'
  BY <1>1, <1>2 DEF HostInv
<1>6. ReadInv'
  BY <1>1, <1>2 DEF ReadInv, PacketInv
<1>7. ReadDoneInv' /\ AnswerInv' /\ RefusalInv' /\ WriteDoneInv'
  BY <1>1, <1>2 DEF ReadDoneInv, AnswerInv, RefusalInv, WriteDoneInv
<1>8. WriteInv'
  <2>1. SUFFICES ASSUME Accepting  PROVE Accepting'
    BY <1>1, <1>2 DEF WriteInv
  <2>2. ASSUME NEW e \in Waiting', e.type = "OUT"
        PROVE  OutIs(e)'
    <3>1. e \in Waiting
      BY <2>2
    <3>2. OutIs(e)
      BY <2>1, <2>2, <3>1 DEF Accepting
    <3>3. QED  BY <1>1, <3>2 DEF OutIs
  <2>3. QED  BY <1>1, <2>1, <2>2 DEF Accepting
<1>13. FillInv'
  BY <1>1, <1>2 DEF FillInv, Reaches
<1>9. CallbackInv'
  BY <1>1, <1>2 DEF CallbackInv, Reading, Writing, Written
<1>10. AddressInv'
  BY <1>1, <1>2 DEF AddressInv
<1>11. SendInv' /\ ZlpInv'
  BY <1>1, <1>2 DEF SendInv, ZlpInv
<1>12. QED  BY <1>3, <1>4, <1>5, <1>6, <1>7, <1>8, <1>9, <1>10, <1>11, <1>13

LEMMA DataInv ==
  ASSUME ControlInv, HandleData \/ DataEvent \/ UNCHANGED vars
  PROVE  ControlInv'
<1>1. CASE HandleData
  <2>1. /\ events' \in Seq(Event) /\ Len(events') <= UstatDepth /\ Waiting' \subseteq Waiting /\ OneOfAKind'
        /\ (HasSetup' <=> HasSetup) /\ (HasIn' <=> HasIn) /\ (HasOut' <=> HasOut)
    BY <1>1, Typed, Dequeued DEF HandleData
  <2>2. UNCHANGED <<pktDis, address, addrPending, addr, needZlp, short, direc, ds, dts, halted, bd, hostVars, appVars>>
    BY <1>1 DEF HandleData
  <2>3. QED  BY <2>1, <2>2, UnmovedInv
<1>2. CASE DataEvent
  <2>1. PICK way \in {"in", "out"} : events' = Append(events, [type |-> "data", dir |-> way])
    BY <1>2 DEF DataEvent
  <2> DEFINE e == [type |-> "data", dir |-> way]
  <2>2. e \in Event /\ e.type = "data"
    BY EventTypes
  <2>3. Known /\ Len(events) < UstatDepth
    BY <1>2, HearsFacts DEF DataEvent
  <2> HIDE DEF e
  <2>4. events' = Append(events, e)
    BY <2>1 DEF e
  <2>5. /\ events' \in Seq(Event) /\ Len(events') <= UstatDepth /\ Waiting' = Waiting \cup {e}
        /\ (HasSetup' <=> HasSetup) /\ (HasIn' <=> HasIn) /\ (HasOut' <=> HasOut)
    BY <2>2, <2>3, <2>4, Typed, Enqueued
  <2>6. OneOfAKind'
    BY <2>2, <2>3, <2>4, Typed, EnqueuedInOrder
  <2>7. \A o \in Waiting' : o \in Waiting \/ o.type = "data"
    BY <2>2, <2>5
  <2>8. UNCHANGED <<pktDis, address, addrPending, addr, needZlp, short, direc, ds, dts, halted, bd, hostVars, appVars>>
    BY <1>2 DEF DataEvent
  <2>9. QED  BY <2>5, <2>6, <2>7, <2>8, UnmovedInv
<1>3. CASE UNCHANGED vars
  <2>1. /\ UNCHANGED events
        /\ UNCHANGED <<pktDis, address, addrPending, addr, needZlp, short, direc, ds, dts, halted, bd, hostVars, appVars>>
    BY <1>3 DEF vars, deviceVars
  <2>2. /\ events' \in Seq(Event) /\ Len(events') <= UstatDepth /\ Waiting' = Waiting /\ OneOfAKind'
        /\ (HasSetup' <=> HasSetup) /\ (HasIn' <=> HasIn) /\ (HasOut' <=> HasOut)
    BY <2>1, Typed DEF Waiting, OneOfAKind, HasSetup, HasIn, HasOut
  <2>3. QED  BY <2>1, <2>2, UnmovedInv
<1>4. QED  BY <1>1, <1>2, <1>3

-----------------------------------------------------------------------------
(* All of it.                                                               *)

LEMMA InitInv ==
  ASSUME Init
  PROVE  ControlInv
<1>1. /\ events = <<>> /\ pktDis = FALSE /\ address = 0 /\ addrPending = FALSE /\ addr = 0
      /\ needZlp = FALSE /\ short = FALSE /\ direc = "OUT" /\ dts = 0 /\ halted = FALSE /\ bd = Cpu
      /\ ds = [callback |-> FALSE, outBuffer |-> FALSE, from |-> NoRequest, at |-> 0, remaining |-> 0]
      /\ cur = NoRequest /\ stage = "idle" /\ toggle = 1 /\ got = 0 /\ intact = TRUE /\ sent = 0
      /\ outcome = "none" /\ hostAddr = 0 /\ halts = FALSE
      /\ owed = 0 /\ lost = 0 /\ corrupt = FALSE /\ profile \in Profiles
  BY DEF Init
<1>2. Waiting = {} /\ ~HasSetup /\ ~HasIn /\ ~HasOut /\ OneOfAKind
  BY <1>1 DEF Waiting, HasSetup, HasIn, HasOut, OneOfAKind
<1>3. ds \in DataStage /\ ds.callback = FALSE /\ ds.outBuffer = FALSE /\ ds.remaining = 0
  BY <1>1 DEF DataStage
<1>4. TypeOK
  <2>1. events \in Seq(Event) /\ Len(events) <= UstatDepth
    BY <1>1 DEF UstatDepth
  <2>2. pktDis \in BOOLEAN /\ addrPending \in BOOLEAN /\ needZlp \in BOOLEAN /\ short \in BOOLEAN
    BY <1>1
  <2>3. halted \in BOOLEAN /\ intact \in BOOLEAN /\ halts \in BOOLEAN /\ corrupt \in BOOLEAN
    BY <1>1
  <2>4. bd \in InBd
    BY <1>1, BdTypes
  <2>5. QED  BY <1>1, <1>3, <2>1, <2>2, <2>3, <2>4 DEF TypeOK
<1>5. QueueInv /\ HostInv
  BY <1>1, <1>2 DEF QueueInv, HostInv
<1>6. ReadInv /\ ReadDoneInv /\ AnswerInv /\ WriteInv /\ RefusalInv /\ WriteDoneInv /\ FillInv
  BY <1>1 DEF ReadInv, ReadDoneInv, AnswerInv, WriteInv, RefusalInv, WriteDoneInv, FillInv
<1>7. CallbackInv /\ AddressInv
  BY <1>1, <1>3 DEF CallbackInv, AddressInv
<1>8. SendInv /\ ZlpInv
  BY <1>1, <1>3 DEF SendInv, ZlpInv
<1>9. QED  BY <1>4, <1>5, <1>6, <1>7, <1>8 DEF ControlInv

LEMMA StepInv ==
  ASSUME ControlInv, [Step]_vars
  PROVE  ControlInv'
<1>1. CASE HandleSetup
  BY <1>1, SetupInv
<1>2. CASE HandleEp0
  <2>1. CASE HandleStatusOut
    BY <2>1, StatusOutInv
  <2>2. CASE HandleDataOut
    BY <2>2, DataOutInv
  <2>3. CASE HandleInMore
    BY <2>3, InMoreInv
  <2>4. CASE HandleInZlp
    BY <2>4, InZlpInv
  <2>5. CASE HandleInDone
    BY <2>5, InDoneInv
  <2>6. QED  BY <1>2, <2>1, <2>2, <2>3, <2>4, <2>5 DEF HandleEp0
<1>3. CASE \E r \in profile.requests : Setup(r)
  BY <1>3, HostSetupInv
<1>4. CASE InToken
  BY <1>4, InTokenInv
<1>5. CASE InTokenLost
  BY <1>5, InTokenLostInv
<1>6. CASE InStalled
  BY <1>6, InStalledInv
<1>7. CASE OutToken
  BY <1>7, OutTokenInv
<1>8. CASE OutTokenLost
  BY <1>8, OutTokenLostInv
<1>9. CASE GiveUp
  BY <1>9, GiveUpInv
<1>10. CASE BusReset
  BY <1>10, BusResetInv
<1>11. CASE HandleData \/ DataEvent \/ UNCHANGED vars
  BY <1>11, DataInv
<1>12. QED
  BY <1>1, <1>2, <1>3, <1>4, <1>5, <1>6, <1>7, <1>8, <1>9, <1>10, <1>11 DEF Step, Next, Service

(* What is checked of a state follows, each from what it asks for.          *)
LEMMA ControlFacts ==
  ASSUME ControlInv
  PROVE  /\ ReadsIntact
         /\ AddressesCompleted => AddressesAgree
         /\ NoWriteLost => StallsMatch
         /\ AllWritesFit => WritesIntact
         /\ AllOrderly => OneCallbackEach
<1> USE DEF ControlInv
<1>1. ReadsIntact
  BY DEF ReadDoneInv, ReadsIntact, Total, Served
<1>2. AddressesCompleted => AddressesAgree
  BY DEF AddressInv, AddressesAgree, HasIn, Waiting
<1>3. NoWriteLost => StallsMatch
  BY DEF AnswerInv, RefusalInv, StallsMatch, Refused
<1>4. AllWritesFit => WritesIntact
  BY DEF WriteDoneInv, WritesIntact
<1>5. AllOrderly => OneCallbackEach
  BY Typed DEF CallbackInv, OneCallbackEach
<1>6. QED  BY <1>1, <1>2, <1>3, <1>4, <1>5

LEMMA ControlInvariant == Spec => []ControlInv
<1>1. Init => ControlInv
  BY InitInv
<1>2. ControlInv /\ [Next]_vars => ControlInv'
  <2>1. SUFFICES ASSUME ControlInv, [Next]_vars
                 PROVE  ControlInv'
    OBVIOUS
  <2>2. [Step]_vars
    BY <2>1 DEF Step
  <2>3. QED  BY <2>1, <2>2, StepInv
<1>3. QED  BY <1>1, <1>2, PTL DEF Spec

(* A callback is lost only where a profile with callbacks has bus resets.   *)
LostInv == AllOrderly /\ lost # 0 => HasCallbacks(profile) /\ profile.resets

LEMMA LostStep ==
  ASSUME ControlInv, LostInv, [Step]_vars
  PROVE  LostInv'
<1>1. CASE BusReset
  <2>1. profile.resets /\ profile' = profile /\ (ds.callback \/ lost' = lost)
    BY <1>1 DEF BusReset
  <2>2. AllOrderly /\ ds.callback => HasCallbacks(profile)
    BY DEF ControlInv, CallbackInv
  <2>3. QED  BY <2>1, <2>2 DEF LostInv
<1>2. CASE ~BusReset
  <2>1. HandleSetup \/ HandleEp0 => UNCHANGED <<lost, profile>>
    BY DEF HandleSetup, HandleEp0, HandleStatusOut, HandleDataOut, HandleInMore, HandleInZlp, HandleInDone, appVars
  <2>2. (\E r \in profile.requests : Setup(r)) => UNCHANGED <<lost, profile>>
    BY DEF Setup, appVars
  <2>3. InToken \/ InTokenLost \/ InStalled => UNCHANGED <<lost, profile>>
    BY DEF InToken, InTokenLost, InStalled, appVars
  <2>4. OutToken \/ OutTokenLost \/ GiveUp => UNCHANGED <<lost, profile>>
    BY DEF OutToken, OutTokenLost, GiveUp, appVars
  <2>5. HandleData \/ DataEvent \/ UNCHANGED vars => UNCHANGED <<lost, profile>>
    BY DEF HandleData, DataEvent, vars, appVars
  <2>6. UNCHANGED <<lost, profile>>
    BY <1>2, <2>1, <2>2, <2>3, <2>4, <2>5 DEF Step, Next, Service
  <2>7. QED  BY <2>6 DEF LostInv
<1>3. QED  BY <1>1, <1>2

LEMMA NothingLost ==
  ASSUME ControlInv, LostInv, AllOrderly, \A p \in Profiles : Uninterrupted(p)
  PROVE  CalledBackFirst
<1>1. lost = 0
  BY Typed DEF LostInv, Uninterrupted
<1>2. QED  BY <1>1, ControlFacts, Typed DEF OneCallbackEach, CalledBackFirst

-----------------------------------------------------------------------------

(* The types of endpoint 0's variables are kept by every step of            *)
(* usb_service(), of the wire and of the host.                              *)
THEOREM ControlTypeCorrect == Spec => []TypeOK
<1>1. ControlInv => TypeOK
  BY DEF ControlInv
<1>2. QED  BY <1>1, ControlInvariant, PTL

(* A read that usb_service() answered over any number of transactions,      *)
(* repeated, given up or overtaken by the host, brought exactly what it     *)
(* should, whatever hosts do.                                               *)
THEOREM ControlReads == Spec => []ReadsIntact
<1>1. ControlInv => ReadsIntact
  BY ControlFacts
<1>2. QED  BY <1>1, ControlInvariant, PTL

(* Where no host gives up a SET_ADDRESS, the device answers to the host's   *)
(* address.                                                                 *)
THEOREM ControlAddresses ==
  ASSUME \A p \in Profiles : CompletesAddress(p)
  PROVE  Spec => []AddressesAgree
<1>1. ControlInv => AddressesAgree
  BY ControlFacts DEF AddressesCompleted
<1>2. QED  BY <1>1, ControlInvariant, PTL

(* Where no ACK of a write is lost, a stall, and a success, is that of the  *)
(* request it ends.                                                         *)
THEOREM ControlStalls ==
  ASSUME \A p \in Profiles : LosesNoWrite(p)
  PROVE  Spec => []StallsMatch
<1>1. ControlInv => StallsMatch
  BY ControlFacts DEF NoWriteLost
<1>2. QED  BY <1>1, ControlInvariant, PTL

(* Where writes, besides, fit the buffer, what a host has written and seen  *)
(* acknowledged is in it.                                                   *)
THEOREM ControlWrites ==
  ASSUME \A p \in Profiles : WritesFit(p)
  PROVE  Spec => []WritesIntact
<1>1. ControlInv => WritesIntact
  BY ControlFacts DEF AllWritesFit
<1>2. QED  BY <1>1, ControlInvariant, PTL

(* Where hosts are orderly, each transfer of an application is called back  *)
(* for once, by its own end, or loses its callback to a bus reset, and that *)
(* before the next one.                                                     *)
THEOREM ControlCallbacks ==
  ASSUME \A p \in Profiles : Orderly(p)
  PROVE  Spec => []OneCallbackEach
<1>1. ControlInv => OneCallbackEach
  BY ControlFacts DEF AllOrderly
<1>2. QED  BY <1>1, ControlInvariant, PTL

(* What usb.h:275 promises holds where, besides, no bus reset meets a       *)
(* firmware with callbacks.                                                 *)
THEOREM ControlCalledBackFirst ==
  ASSUME \A p \in Profiles : Orderly(p) /\ Uninterrupted(p)
  PROVE  Spec => []CalledBackFirst
<1>1. AllOrderly /\ \A p \in Profiles : Uninterrupted(p)
  BY DEF AllOrderly
<1>2. Init => LostInv
  BY DEF Init, LostInv
<1>3. ControlInv /\ LostInv /\ [Next]_vars => LostInv'
  BY LostStep DEF Step
<1>4. ControlInv /\ LostInv => CalledBackFirst
  BY <1>1, NothingLost
<1>5. QED  BY <1>2, <1>3, <1>4, ControlInvariant, PTL DEF Spec

=============================================================================
