--------------------------- MODULE ExamplesTheorems ---------------------------
(***************************************************************************)
(* Proofs about the example applications, for tables, thresholds and        *)
(* numbers of breaks of any size.                                           *)
(***************************************************************************)
EXTENDS Examples, DataEndpointTheorems, FiniteSetTheorems

(* Which application there is does not change, and a step is one of its.    *)
LEMMA ExampleSteps ==
  ASSUME [Next]_vars
  PROVE  \/ Mouse /\ MouseNext
         \/ Fob /\ FobNext
         \/ Lock /\ LockNext
         \/ Play /\ PlayNext
         \/ Hid /\ HidNext
         \/ Cdc /\ CdcNext
         \/ UNCHANGED vars
BY DEF Next, AppNext

(* No step changes the application or its copy of usb.c; breaks are counted.*)
LEMMA NothingElseMoves ==
  ASSUME [Next]_vars
  PROVE  app' = app /\ newer' = newer /\ (broken' = broken \/ broken' = broken + 1)
<1>1. broken' = broken \/ broken' = broken + 1
  <2>1. CASE MouseNext
    BY <2>1 DEF MouseNext, Test, TestHalted, TestBusy, Goes, Fill, Enter, EnterHalted, Latch, Arm,
       Flip, Count, InTransaction, InTransactionAckLost, ServiceIn, UsbReset, Configure, Halt, Clear, ClearStalled, MouseBreaks,
       Breaks, Moves, exampleVars
  <2>2. CASE FobNext
    BY <2>2 DEF FobNext, FobTurn, FobFrame, FobIn, FobInAckLost, FobReset, FobConfigure, FobHalt,
       FobClear, FobClearAgain, Breaks, exampleVars
  <2>3. CASE LockNext
    BY <2>3 DEF LockNext, LockFrame, HostSetsLeds, exampleVars
  <2>4. CASE PlayNext
    BY <2>4 DEF PlayNext, PlayTurn, PlayFrame, PlayIn, PlayInAckLost, PlayReset, PlayConfigure,
       PlayHalt, PlayClear, PlayClearAgain, Breaks, exampleVars
  <2>5. CASE HidNext
    BY <2>5 DEF HidNext, HidTurn, TestOpens, TestReadsFirst, TestWrites, TestPrints, TestKilled,
       HidIn, HidInAckLost, HidOut, HidOutAckLost, HidReset, HidConfigure, HidHalt, HidClears,
       HidBroken, Breaks, exampleVars
  <2>6. CASE CdcNext
    BY <2>6 DEF CdcNext, CdcTurn, LineByte, LineShifted, PcWrites, CdcIn, CdcInAckLost, CdcOut,
       CdcOutAckLost, CdcReset, CdcConfigure, CdcHalt, CdcClears, CdcBroken, Breaks, exampleVars
  <2>7. CASE UNCHANGED vars
    BY <2>7 DEF vars, allMoving, appVars
  <2>8. QED  BY <2>1, <2>2, <2>3, <2>4, <2>5, <2>6, <2>7, ExampleSteps
<1>2. app' = app
  <2>1. CASE MouseNext
    BY <2>1 DEF MouseNext, Test, TestHalted, TestBusy, Goes, Fill, Enter, EnterHalted, Latch, Arm,
       Flip, Count, InTransaction, InTransactionAckLost, ServiceIn, UsbReset, Configure, Halt, Clear, ClearStalled, Moves, exampleVars
  <2>2. CASE FobNext
    BY <2>2 DEF FobNext, FobTurn, FobFrame, FobIn, FobInAckLost, FobReset, FobConfigure, FobHalt,
       FobClear, FobClearAgain, exampleVars
  <2>3. CASE LockNext
    BY <2>3 DEF LockNext, LockFrame, HostSetsLeds, exampleVars
  <2>4. CASE PlayNext
    BY <2>4 DEF PlayNext, PlayTurn, PlayFrame, PlayIn, PlayInAckLost, PlayReset, PlayConfigure,
       PlayHalt, PlayClear, PlayClearAgain, exampleVars
  <2>5. CASE HidNext
    BY <2>5 DEF HidNext, HidTurn, TestOpens, TestReadsFirst, TestWrites, TestPrints, TestKilled,
       HidIn, HidInAckLost, HidOut, HidOutAckLost, HidReset, HidConfigure, HidHalt, HidClears,
       HidBroken, exampleVars
  <2>6. CASE CdcNext
    BY <2>6 DEF CdcNext, CdcTurn, LineByte, LineShifted, PcWrites, CdcIn, CdcInAckLost, CdcOut,
       CdcOutAckLost, CdcReset, CdcConfigure, CdcHalt, CdcClears, CdcBroken, exampleVars
  <2>7. CASE UNCHANGED vars
    BY <2>7 DEF vars, allMoving, appVars
  <2>8. QED  BY <2>1, <2>2, <2>3, <2>4, <2>5, <2>6, <2>7, ExampleSteps
<1>3. newer' = newer
  BY DEF Next, vars
<1>4. QED  BY <1>1, <1>2, <1>3

-----------------------------------------------------------------------------
(* passfob, the way back to the boot loader.                                *)

(* Both ends agree on the lamps and on how long Scroll Lock's has been lit. *)
LockInv ==
  /\ leds \in Leds /\ lastState = leds /\ watchdog \in BOOLEAN
  /\ litFor \in Nat /\ lockTicks = litFor
  /\ ~Lit(leds) => litFor = 0

LEMMA OneLamp ==
  ASSUME OtherLeds = {}, NEW a \in Leds, NEW b \in Leds, Lit(a) <=> Lit(b)
  PROVE  a = b
<1>1. a \subseteq {"scroll"} /\ b \subseteq {"scroll"}
  BY DEF Leds
<1>2. "scroll" \in a <=> "scroll" \in b
  BY DEF Lit
<1>3. \A x : x \in a <=> x \in b
  BY <1>1, <1>2
<1>4. QED  BY <1>3

LEMMA LockStep ==
  ASSUME LockInv, OtherLeds = {}, [Next]_vars
  PROVE  /\ LockInv'
         /\ watchdog' = (watchdog \/ (Lit(leds) /\ ~Lit(leds') /\ litFor \in TooSoon + 1 .. TooLate - 1))
<1>1. TooSoon \in Nat /\ TooLate \in Nat /\ TickLimit \in Nat
  BY LockAssumption
<1>2. CASE LockFrame
  <2>1. leds' = leds /\ lastState' = lastState /\ watchdog' = watchdog
    BY <1>2 DEF LockFrame
  <2>2. LockInv'
    BY <1>2, <2>1 DEF LockFrame, LockInv
  <2>3. QED  BY <2>1, <2>2 DEF LockInv
<1>3. ASSUME NEW report \in Leds, HostSetsLeds(report)
      PROVE  /\ LockInv'
             /\ watchdog' = (watchdog \/ (Lit(leds) /\ ~Lit(leds') /\ litFor \in TooSoon + 1 .. TooLate - 1))
  <2>1. CASE report = leds
    BY <1>3, <2>1 DEF HostSetsLeds, SetReportCallback, LockInv
  <2>2. CASE report # leds
    <3>1. Lit(report) <=> ~Lit(leds)
      BY <2>2, OneLamp DEF LockInv
    <3>2. /\ leds' = report /\ lastState' = report /\ lockTicks' = 0 /\ litFor' = 0
          /\ watchdog' = (watchdog \/ (litFor > TooSoon /\ litFor < TooLate))
      BY <1>3, <2>2, <3>1 DEF HostSetsLeds, SetReportCallback, LockInv
    <3>3. litFor > TooSoon /\ litFor < TooLate
            <=> Lit(leds) /\ ~Lit(leds') /\ litFor \in TooSoon + 1 .. TooLate - 1
      BY <1>1, <3>1, <3>2 DEF LockInv
    <3>4. LockInv'
      BY <3>2 DEF LockInv
    <3>5. QED  BY <3>2, <3>3, <3>4
  <2>3. QED  BY <2>1, <2>2
<1>4. ASSUME UNCHANGED lockVars
      PROVE  /\ LockInv'
             /\ watchdog' = (watchdog \/ (Lit(leds) /\ ~Lit(leds') /\ litFor \in TooSoon + 1 .. TooLate - 1))
  BY <1>4 DEF lockVars, LockInv
<1>5. LockFrame \/ (\E report \in Leds : HostSetsLeds(report)) \/ UNCHANGED lockVars
  BY ExampleSteps DEF Mouse, Fob, Play, Hid, Cdc, LockNext, vars, allMoving, appVars
<1>6. QED  BY <1>2, <1>3, <1>4, <1>5

(* The watchdog is armed when Scroll Lock goes off that was lit for the     *)
(* time between, and at no other time, whatever the times are and however   *)
(* often the host repeats itself, on a keyboard without another lamp.       *)
THEOREM RebootsCorrect ==
  ASSUME OtherLeds = {}
  PROVE  Spec => RebootsWhenAsked
<1>1. Init => LockInv
  <2>1. {} \in Leds
    BY DEF Leds
  <2>2. Init => LockInit
    BY Zenon DEF Init
  <2>3. ASSUME LockInit  PROVE LockInv
    <3>1. watchdog \in BOOLEAN
      BY <2>3 DEF LockInit
    <3>2. leds \in Leds /\ lastState = leds /\ litFor \in Nat /\ lockTicks = litFor /\ litFor = 0
      BY <2>1, <2>3 DEF LockInit
    <3>3. QED  BY <3>1, <3>2 DEF LockInv
  <2>4. QED  BY <2>2, <2>3
<1>2. LockInv /\ [Next]_vars => LockInv'
  BY LockStep
<1>3. LockInv /\ [Next]_vars =>
        [watchdog' = (watchdog \/ (Lit(leds) /\ ~Lit(leds') /\ litFor \in TooSoon + 1 .. TooLate - 1))
          ]_<<leds, watchdog, litFor>>
  BY LockStep
<1>4. QED  BY <1>1, <1>2, <1>3, PTL DEF Spec, RebootsWhenAsked

-----------------------------------------------------------------------------
(* passfob, the button.                                                     *)

(* What is left of count are frames the button has yet to be up; what there *)
(* is of it since are frames it was down.                                   *)
ButtonInv ==
  /\ fobState \in {"cooldown", "armed", "transmitting"}
  /\ count \in 0 .. Trigger /\ ticksUp \in 0 .. Trigger + 1 /\ ticksDown \in 0 .. Trigger + 1
  /\ tableIndex \in 0 .. Len(Keys)
  /\ fobState = "cooldown" => ticksUp + count >= Trigger
  /\ fobState = "armed" => ticksUp > Trigger /\ count <= ticksDown
  /\ fobState = "transmitting" => count = Trigger

LEMMA CountedType ==
  ASSUME NEW n \in 0 .. Trigger + 1
  PROVE  Counted(n) \in 0 .. Trigger + 1 /\ Counted(n) >= n /\ (n <= Trigger => Counted(n) = n + 1)
BY FobAssumption DEF Counted

LEMMA ButtonTurn ==
  ASSUME ButtonInv, NEW up \in BOOLEAN, FobTurn(up)
  PROVE  /\ ButtonInv'
         /\ fobState # "transmitting" /\ fobState' = "transmitting" =>
              ticksUp > Trigger /\ ticksDown >= Trigger
<1> DEFINE s == Debounced(up)
<1>1. /\ Trigger \in Nat \ {0} /\ Len(Keys) \in Nat \ {0}
      /\ count \in 0 .. Trigger /\ ticksUp \in 0 .. Trigger + 1 /\ ticksDown \in 0 .. Trigger + 1
  BY FobAssumption DEF ButtonInv
<1>2. /\ count' = s.count
      /\ \/ fobState' = s.state /\ tableIndex' = s.index
         \/ fobState' = s.state /\ s.state = "transmitting" /\ s.index # Len(Keys) /\ tableIndex' = s.index + 1
         \/ fobState' = "cooldown" /\ s.state = "transmitting" /\ s.index = Len(Keys) /\ tableIndex' = s.index
      /\ ticksUp' = IF fobState = "transmitting" THEN 0
                    ELSE IF msTick /\ up THEN Counted(ticksUp) ELSE ticksUp
      /\ ticksDown' = IF fobState = "cooldown" THEN 0
                      ELSE IF msTick /\ ~up THEN Counted(ticksDown) ELSE ticksDown
  BY DEF FobTurn, Watches
<1>3. ticksUp' \in 0 .. Trigger + 1 /\ ticksDown' \in 0 .. Trigger + 1
  BY <1>1, <1>2, CountedType
<1>4. CASE ~msTick \/ fobState = "transmitting"
  <2>1. s.state = fobState /\ s.count = count /\ s.index = tableIndex
    BY <1>4 DEF Debounced, State
  <2>2. tableIndex' \in 0 .. Len(Keys)
    BY <1>1, <1>2, <2>1 DEF ButtonInv
  <2>3. QED  BY <1>1, <1>2, <1>3, <1>4, <2>1, <2>2 DEF ButtonInv
<1>5. CASE msTick /\ fobState # "transmitting" /\ up
  <2>1. ticksUp' = Counted(ticksUp) /\ (fobState = "armed" => ticksDown' = ticksDown)
    BY <1>2, <1>5
  <2>2. ticksUp' >= ticksUp /\ (ticksUp <= Trigger => ticksUp' = ticksUp + 1)
    BY <2>1, <1>1, CountedType
  <2>3. CASE count > 0
    <3>1. s.state = fobState /\ s.count = count - 1 /\ s.index = tableIndex
      BY <1>1, <1>5, <2>3 DEF Debounced, Released, State
    <3>2. fobState' = fobState /\ count' = count - 1 /\ tableIndex' = tableIndex
      BY <1>2, <1>5, <3>1
    <3>3. QED  BY <1>1, <1>3, <1>5, <2>1, <2>2, <2>3, <3>2 DEF ButtonInv
  <2>4. CASE count = 0
    <3>1. s.state = "armed" /\ s.count = 0 /\ s.index = tableIndex
      BY <1>1, <1>5, <2>4 DEF Debounced, Released, State
    <3>2. fobState' = "armed" /\ count' = 0 /\ tableIndex' = tableIndex
      BY <1>2, <3>1
    <3>3. QED  BY <1>1, <1>3, <1>5, <2>1, <2>2, <2>4, <3>2 DEF ButtonInv
  <2>5. QED  BY <1>1, <2>3, <2>4
<1>6. CASE msTick /\ fobState # "transmitting" /\ ~up
  <2>1. /\ count < Trigger => s.state = fobState /\ s.count = count + 1 /\ s.index = tableIndex
        /\ count = Trigger /\ fobState = "armed" => s.state = "transmitting" /\ s.count = count /\ s.index = 0
        /\ count = Trigger /\ fobState # "armed" => s.state = fobState /\ s.count = count /\ s.index = tableIndex
    BY <1>1, <1>6 DEF Debounced, Pressed, State
  <2>2. ticksUp' = ticksUp
    BY <1>2, <1>6
  <2>3. fobState = "armed" => ticksDown' = Counted(ticksDown)
    BY <1>2, <1>6
  <2>4. fobState = "armed" => ticksDown' >= ticksDown /\ (ticksDown <= Trigger => ticksDown' = ticksDown + 1)
    BY <2>3, <1>1, CountedType
  <2>5. tableIndex' \in 0 .. Len(Keys) /\ s.count \in 0 .. Trigger
    BY <1>1, <1>2, <1>6, <2>1 DEF ButtonInv
  <2>6. CASE count < Trigger
    BY <1>1, <1>2, <1>3, <1>6, <2>1, <2>2, <2>4, <2>5, <2>6 DEF ButtonInv
  <2>7. CASE count = Trigger /\ fobState = "armed"
    BY <1>1, <1>2, <1>3, <1>6, <2>1, <2>2, <2>4, <2>5, <2>7 DEF ButtonInv
  <2>8. CASE count = Trigger /\ fobState # "armed"
    BY <1>1, <1>2, <1>3, <1>6, <2>1, <2>2, <2>4, <2>5, <2>8 DEF ButtonInv
  <2>9. QED  BY <1>1, <2>6, <2>7, <2>8
<1>7. QED  BY <1>4, <1>5, <1>6

LEMMA ButtonStep ==
  ASSUME ButtonInv, [Next]_vars
  PROVE  /\ ButtonInv'
         /\ fobState # "transmitting" /\ fobState' = "transmitting" =>
              ticksUp > Trigger /\ ticksDown >= Trigger
<1>1. ASSUME UNCHANGED <<fobState, count, tableIndex, ticksUp, ticksDown>>
      PROVE  /\ ButtonInv'
             /\ ~(fobState # "transmitting" /\ fobState' = "transmitting")
  BY <1>1 DEF ButtonInv
<1>2. CASE Fob /\ FobNext
  <2>1. ASSUME NEW up \in BOOLEAN, ~FobTurn(up), ~(\E u \in BOOLEAN : FobTurn(u))
        PROVE  UNCHANGED <<fobState, count, tableIndex, ticksUp, ticksDown>>
    BY <1>2, <2>1 DEF FobNext, FobFrame, FobIn, FobInAckLost, FobReset, FobConfigure, FobHalt, FobClear,
          FobClearAgain, fobVars, fobMain
  <2>2. QED  BY <2>1, <1>1, ButtonTurn
<1>3. CASE ~Fob
  BY <1>1, <1>3, ExampleSteps DEF Mouse, Lock, Play, Hid, Cdc, vars, allMoving, appVars, fobVars, fobMain
<1>4. CASE UNCHANGED vars
  BY <1>1, <1>4 DEF vars, allMoving, appVars, fobVars, fobMain
<1>5. CASE Fob /\ ~FobNext
  BY <1>1, <1>4, <1>5, ExampleSteps DEF Fob, Mouse, Lock, Play, Hid, Cdc
<1>6. QED  BY <1>2, <1>3, <1>5

(* Nothing is typed before the button was up, and then down, for as long as *)
(* the table of keys is guarded by, however it bounces in between.          *)
THEOREM MeantCorrect == Spec => TypesWhenMeant
<1>1. Init => ButtonInv
  BY FobAssumption DEF Init, FobInit, ButtonInv
<1>2. ButtonInv /\ [Next]_vars => ButtonInv'
  BY ButtonStep
<1>3. ButtonInv /\ [Next]_vars =>
        [fobState # "transmitting" /\ fobState' # fobState /\ fobState' \in {"transmitting"} =>
           ticksUp > Trigger /\ ticksDown >= Trigger]_fobState
  BY ButtonStep
<1>4. QED  BY <1>1, <1>2, <1>3, PTL DEF Spec, TypesWhenMeant


-----------------------------------------------------------------------------
(* Counting modulo M.                                                       *)

LEMMA ModIn ==
  ASSUME NEW M \in Nat \ {0}, NEW x \in Int
  PROVE  x % M \in 0 .. M - 1
OBVIOUS

LEMMA ModSmall ==
  ASSUME NEW M \in Nat \ {0}, NEW x \in 0 .. M - 1
  PROVE  x % M = x
OBVIOUS

LEMMA ModPeriod ==
  ASSUME NEW M \in Nat \ {0}, NEW x \in Int, NEW k \in Int
  PROVE  (x + k * M) % M = x % M
<1> DEFINE q == x \div M
           r == x % M
<1>1. q \in Int /\ r \in 0 .. M - 1
  OBVIOUS
<1>2. x = q * M + r
  OBVIOUS
<1> HIDE DEF q, r
<1>3. r \in Int /\ q + k \in Int
  BY <1>1
<1>4. x + k * M = (q + k) * M + r
  BY <1>1, <1>2, <1>3
<1>5. \A p \in Int, t \in 0 .. M - 1 : (p * M + t) % M = t
  OBVIOUS
<1>6. QED  BY <1>1, <1>3, <1>4, <1>5 DEF r

LEMMA ModTurn ==
  ASSUME NEW M \in Nat \ {0}, NEW x \in Int
  PROVE  (x + M) % M = x % M
<1>1. \A k \in Int : k = 1 => (x + k * M) % M = x % M
  BY ModPeriod
<1>2. \E k \in Int : k = 1 /\ x + k * M = x + M
  OBVIOUS
<1>3. QED  BY <1>1, <1>2

LEMMA ModSum ==
  ASSUME NEW M \in Nat \ {0}, NEW x \in Int, NEW y \in Int
  PROVE  ((x % M) + y) % M = (x + y) % M
<1> DEFINE q == x \div M
           r == x % M
<1>1. q \in Int /\ r \in Int
  OBVIOUS
<1>2. x = q * M + r
  OBVIOUS
<1> HIDE DEF q, r
<1>3. x + y = (r + y) + q * M /\ r + y \in Int
  BY <1>1, <1>2
<1>4. (r + y) % M = (x + y) % M
  BY <1>1, <1>3, ModPeriod
<1>5. QED  BY <1>4 DEF r

-----------------------------------------------------------------------------
(* A firmware's turn on its endpoint.                                       *)

(* One that answers what it reads: the two buffers do not touch each other. *)
LEMMA AnswersInv ==
  ASSUME EndpointInv, MaySend, HasData, NEW r \in Report,
         bdIn' = Armed(flags.txDts, r), hasIt' = FALSE,
         bdOut' = Armed(flags.rxDts, NoReport),
         flags' = [flags EXCEPT !.txDts = 1 - @, !.rxDts = 1 - @],
         read' = Arrives(bdOut.data, read),
         UNCHANGED <<newer, configured, hostVars, stored, breaks>>
  PROVE  EndpointInv'
<1> USE DEF EndpointInv
<1>1. /\ flags.txDts \in {0, 1} /\ flags.rxDts \in {0, 1}
      /\ flags.inHalt \in BOOLEAN /\ flags.outHalt \in BOOLEAN
      /\ DOMAIN flags = {"rxDts", "txDts", "inHalt", "outHalt"}
  BY DEF EndpointTypeOK, Flags, Toggle
<1>2. /\ bdIn'.own = "sie" /\ bdIn'.dts = flags.txDts
      /\ bdOut'.own = "sie" /\ bdOut'.dts = flags.rxDts
  BY DEF Armed
<1>3. /\ flags'.txDts = 1 - flags.txDts /\ flags'.rxDts = 1 - flags.rxDts
      /\ flags'.inHalt = flags.inHalt /\ flags'.outHalt = flags.outHalt
  BY <1>1
<1>4. EndpointTypeOK'
  <2>1. flags.txDts \in Toggle /\ flags.rxDts \in Toggle /\ bdOut.data \in Report \cup {NoReport}
    BY DEF EndpointTypeOK, Flags, Bd
  <2>2. bdIn' \in Bd /\ bdOut' \in Bd /\ read' \in Arrival
    BY <2>1, BdTypes, ArrivesType DEF EndpointTypeOK
  <2>3. flags' \in Flags
    <3>1. flags \in Flags /\ 1 - flags.txDts \in Toggle /\ 1 - flags.rxDts \in Toggle
      BY <2>1, FlipType DEF EndpointTypeOK
    <3>2. QED  BY <3>1 DEF Flags
  <2>4. QED  BY <2>2, <2>3 DEF EndpointTypeOK, hostVars
<1>5. HaltedMeansStalled'
  BY <1>2, <1>3 DEF HaltedMeansStalled, MaySend, HasData
<1>6. ConfiguredInv'
  BY DEF ConfiguredInv, MaySend, hostVars
<1>7. InInv'
  BY <1>1, <1>2, <1>3 DEF InInv, MaySend, hostVars
<1>8. OutInv'
  BY <1>1, <1>2, <1>3 DEF OutInv, Repeating, HasData, hostVars, EndpointTypeOK, Toggle
<1>9. QED  BY <1>4, <1>5, <1>6, <1>7, <1>8

-----------------------------------------------------------------------------
(* passfob, its keys.                                                       *)

(* The place in the table of the report main() sends next, and of the one   *)
(* the host sees next.                                                      *)
Upcoming == IF fobState = "transmitting" THEN tableIndex + 1 ELSE 1
Unseen == bdIn.own = "sie" /\ ~hasIt
Awaited == IF Unseen THEN PlaceOf(bdIn.data[1]) ELSE Upcoming

Places == 1 .. Len(Keys) + 1
Succ(p) == (p % (Len(Keys) + 1)) + 1

(* The reports it has lost by now and will notice with the next.            *)
LagFrom(p, d) == (p - d + Len(Keys) + 1) % (Len(Keys) + 1)
Lag == LagFrom(Awaited, due)

KeysInv ==
  /\ due \in Places /\ Upcoming \in Places /\ Awaited \in Places
  /\ Unseen => Upcoming = Succ(Awaited)
  /\ missed \in Nat /\ broken \in Nat /\ missed + Lag <= broken

(* The examples but minimalCDC are built with an older copy of usb.c.       *)
OlderCopyInv == EndpointInv /\ ~newer

LEMMA FobEndpointStep ==
  ASSUME OlderCopyInv, ButtonInv, ~ConfiguresAgain, FobNext, newer' = newer
  PROVE  OlderCopyInv'
<1>1. [EndpointNext]_endpointVars
  <2>1. ASSUME NEW up \in BOOLEAN, FobTurn(up)  PROVE [EndpointNext]_endpointVars
    <3> DEFINE s == Debounced(up)
    <3>1. CASE s.state = "transmitting" /\ MaySend
      <4>1. s.index \in 0 .. Len(Keys)
        BY FobAssumption DEF ButtonInv, Debounced, Released, Pressed, State
      <4>2. <<NextReport(s)>> \in Report
        BY <4>1, FobAssumption DEF NextReport
      <4>3. FirmwareSends(<<NextReport(s)>>)
        BY <2>1, <3>1 DEF FobTurn, FirmwareSends
      <4>4. QED  BY <4>2, <4>3 DEF EndpointNext, EndpointStep
    <3>2. CASE ~(s.state = "transmitting" /\ MaySend)
      BY <2>1, <3>2 DEF FobTurn, endpointVars, movingVars
    <3>3. QED  BY <3>1, <3>2
  <2>2. FobFrame => UNCHANGED endpointVars
    BY DEF FobFrame, exampleVars
  <2>3. FobIn \/ FobInAckLost \/ FobReset \/ FobConfigure \/ FobHalt \/ FobClear \/ FobClearAgain => EndpointNext
    BY DEF FobIn, FobInAckLost, FobReset, FobConfigure, FobHalt, FobClear, FobClearAgain,
           EndpointNext, EndpointStep
  <2>4. QED  BY <2>1, <2>2, <2>3 DEF FobNext
<1>2. QED  BY <1>1, EndpointInvNext DEF ConfiguresOnce, OlderCopyInv

LEMMA KeyPlaces ==
  ASSUME \A i, j \in DOMAIN Keys : Keys[i] = Keys[j] => i = j
  PROVE  /\ PlaceOf(0) = Len(Keys) + 1
         /\ \A i \in 1 .. Len(Keys) : PlaceOf(Keys[i]) = i
<1>1. Keys \in Seq(Nat \ {0})
  BY FobAssumption
<1>2. ASSUME NEW i \in 1 .. Len(Keys)  PROVE PlaceOf(Keys[i]) = i
  <2>1. i \in DOMAIN Keys /\ Keys[i] # 0
    BY <1>1
  <2>2. \A j \in DOMAIN Keys : Keys[j] = Keys[i] => j = i
    BY <2>1
  <2>3. QED  BY <2>1, <2>2 DEF PlaceOf
<1>3. QED  BY <1>2 DEF PlaceOf

LEMMA LagArithmetic ==
  ASSUME NEW a \in Places, NEW d \in Places
  PROVE  /\ Succ(a) \in Places
         /\ LagFrom(a, d) \in Nat
         /\ LagFrom(a, a) = 0
         /\ LagFrom(Succ(a), d) <= LagFrom(a, d) + 1
<1> DEFINE M == Len(Keys) + 1
<1>1. Len(Keys) \in Nat /\ M \in Nat \ {0}
  BY FobAssumption
<1>2. a \in 1 .. M /\ d \in 1 .. M
  BY DEF Places
<1>3. Succ(a) = IF a = M THEN 1 ELSE a + 1
  <2>1. a < M => a % M = a
    BY <1>1, <1>2, ModSmall
  <2>2. a = M => a % M = 0
    BY <1>1
  <2>3. QED  BY <1>1, <1>2, <2>1, <2>2 DEF Succ
<1> HIDE DEF M
<1>4. ASSUME NEW b \in 1 .. M, NEW c \in 1 .. M
      PROVE  LagFrom(b, c) = IF b < c THEN b - c + M ELSE b - c
  <2>1. LagFrom(b, c) = (b - c + M) % M
    BY <1>1 DEF LagFrom, M
  <2>2. CASE b < c
    <3>1. b - c + M \in 0 .. M - 1
      BY <1>1, <2>2
    <3>2. (b - c + M) % M = b - c + M
      BY <1>1, <3>1, ModSmall
    <3>3. QED  BY <2>1, <2>2, <3>2
  <2>3. CASE b >= c
    <3>1. b - c \in 0 .. M - 1
      BY <1>1, <2>3
    <3>2. PICK x \in 0 .. M - 1 : x = b - c
      BY <3>1
    <3>3. (x + M) % M = x
      <4>1. x \in Int
        BY <1>1
      <4>2. (x + M) % M = x % M
        BY <1>1, <4>1, ModTurn, Zenon
      <4>3. x % M = x
        BY <1>1, ModSmall
      <4>4. QED  BY <4>2, <4>3
    <3>4. QED  BY <1>1, <2>1, <2>3, <3>2, <3>3
  <2>4. QED  BY <1>1, <2>2, <2>3
<1>5. Succ(a) \in 1 .. M
  BY <1>1, <1>2, <1>3
<1>6. LagFrom(a, d) \in Nat /\ LagFrom(a, a) = 0
  BY <1>1, <1>2, <1>4
<1>7. LagFrom(Succ(a), d) <= LagFrom(a, d) + 1
  <2>1. LagFrom(Succ(a), d) = IF Succ(a) < d THEN Succ(a) - d + M ELSE Succ(a) - d
    BY <1>2, <1>4, <1>5
  <2>2. LagFrom(a, d) = IF a < d THEN a - d + M ELSE a - d
    BY <1>2, <1>4
  <2>3. QED  BY <1>1, <1>2, <1>3, <2>1, <2>2
<1>8. QED  BY <1>5, <1>6, <1>7 DEF M, Places

(* The host sees what it waits for, and so do we.                           *)
LEMMA KeysKept ==
  ASSUME KeysInv, Awaited' = Awaited, Upcoming' = Upcoming, Unseen' => Unseen,
         due' = due, missed' = missed, broken' = broken
  PROVE  KeysInv'
<1>1. Lag' = Lag
  BY DEF Lag
<1>2. QED  BY <1>1 DEF KeysInv, Places, Succ

LEMMA KeysBroken ==
  ASSUME KeysInv, ~Unseen', Upcoming' = Upcoming, due' = due, missed' = missed, broken' = broken + 1
  PROVE  KeysInv'
<1>1. Awaited' = Upcoming /\ (Upcoming = Awaited \/ Upcoming = Succ(Awaited))
  BY DEF KeysInv, Awaited
<1>2. Lag \in Nat /\ Lag' \in Nat /\ Lag' <= Lag + 1
  <2>1. Awaited \in Places /\ due \in Places
    BY DEF KeysInv
  <2>2. Lag = LagFrom(Awaited, due) /\ Lag' = LagFrom(Upcoming, due)
    BY <1>1 DEF Lag, LagFrom
  <2>3. Upcoming \in Places
    BY DEF KeysInv
  <2>4. QED  BY <1>1, <2>1, <2>2, <2>3, LagArithmetic
<1>3. missed \in Nat /\ broken \in Nat /\ missed + Lag <= broken
  BY DEF KeysInv
<1>4. missed' + Lag' <= broken'
  <2>1. \A l, k \in Nat : k <= l + 1 /\ missed + l <= broken => missed + k <= broken + 1
    BY <1>3
  <2>2. missed + Lag' <= broken + 1
    BY <1>2, <1>3, <2>1
  <2>3. QED  BY <2>2
<1>5. QED  BY <1>1, <1>3, <1>4 DEF KeysInv, Places, Succ

LEMMA KeysTyped ==
  ASSUME KeysInv, Unseen, ~Unseen', Upcoming' = Upcoming, broken' = broken,
         due' = Succ(Awaited), missed' = missed + Lag
  PROVE  KeysInv'
<1>1. Awaited' = due' /\ Upcoming = Succ(Awaited)
  BY DEF KeysInv, Awaited
<1>2. Lag \in Nat /\ Lag' = 0 /\ due' \in Places
  <2>1. Awaited \in Places /\ due \in Places /\ Upcoming \in Places
    BY DEF KeysInv
  <2>2. Lag' = LagFrom(Upcoming, Upcoming) /\ due' = Upcoming
    BY <1>1 DEF Lag, LagFrom
  <2>3. QED  BY <2>1, <2>2, LagArithmetic DEF Lag, Places
<1>3. missed' \in Nat /\ missed' + Lag' <= broken'
  BY <1>2 DEF KeysInv
<1>4. QED  BY <1>1, <1>2, <1>3 DEF KeysInv, Places, Succ

LEMMA KeysSent ==
  ASSUME KeysInv, ~Unseen, Awaited' = Upcoming, Upcoming' = Succ(Upcoming),
         due' = due, missed' = missed, broken' = broken
  PROVE  KeysInv'
<1>1. Awaited' = Awaited
  BY DEF Awaited
<1>2. Lag' = Lag
  BY <1>1 DEF Lag
<1>3. Upcoming' \in Places
  BY LagArithmetic DEF KeysInv
<1>4. QED  BY <1>1, <1>2, <1>3 DEF KeysInv, Places, Succ

(* A turn of main() sends the upcoming report or none.                      *)
LEMMA KeysTurn ==
  ASSUME KeysInv, ButtonInv, NEW up \in BOOLEAN, FobTurn(up),
         \A i, j \in DOMAIN Keys : Keys[i] = Keys[j] => i = j
  PROVE  KeysInv'
<1> DEFINE s == Debounced(up)
           next == IF s.state = "transmitting" THEN s.index + 1 ELSE 1
<1>1. Len(Keys) \in Nat \ {0} /\ tableIndex \in 0 .. Len(Keys)
  BY FobAssumption DEF ButtonInv
<1>2. next = Upcoming /\ s.index \in 0 .. Len(Keys) /\ s.state \in {"cooldown", "armed", "transmitting"}
  <2>1. CASE s = State(fobState, count, tableIndex) \/ s = State(fobState, count - 1, tableIndex)
               \/ s = State(fobState, count + 1, tableIndex)
    <3>1. s.state = fobState /\ s.index = tableIndex
      BY <2>1 DEF State
    <3>2. QED  BY <1>1, <3>1 DEF Upcoming, ButtonInv
  <2>2. CASE fobState # "transmitting" /\ s = State("armed", 0, tableIndex)
    <3>1. s.state = "armed" /\ s.index = tableIndex
      BY <2>2 DEF State
    <3>2. QED  BY <1>1, <2>2, <3>1 DEF Upcoming
  <2>3. CASE fobState = "armed" /\ s = State("transmitting", count, 0)
    <3>1. s.state = "transmitting" /\ s.index = 0
      BY <2>3 DEF State
    <3>2. QED  BY <1>1, <2>3, <3>1 DEF Upcoming
  <2>4. QED  BY <2>1, <2>2, <2>3 DEF Debounced, Released, Pressed
<1>3. due' = due /\ missed' = missed /\ broken' = broken
  BY DEF FobTurn, fobHost
<1>4. CASE s.state = "transmitting" /\ MaySend
  <2>1. bdIn'.own = "sie" /\ hasIt' = FALSE /\ bdIn'.data = <<NextReport(s)>>
    BY <1>4 DEF FobTurn, SendInBuffer, Armed
  <2>2. Unseen' /\ ~Unseen
    BY <1>4, <2>1 DEF Unseen, MaySend
  <2>3. NextReport(s) = IF s.index < Len(Keys) THEN Keys[s.index + 1] ELSE 0
    BY DEF NextReport
  <2>4. PlaceOf(NextReport(s)) = s.index + 1
    <3>1. CASE s.index < Len(Keys)
      <4>1. s.index + 1 \in 1 .. Len(Keys)
        BY <1>1, <1>2, <3>1
      <4>2. QED  BY <2>3, <3>1, <4>1, KeyPlaces
    <3>2. CASE s.index = Len(Keys)
      BY <1>1, <2>3, <3>2, KeyPlaces
    <3>3. QED  BY <1>1, <1>2, <3>1, <3>2
  <2>5. Awaited' = Upcoming
    <3>1. bdIn'.data[1] = NextReport(s)
      BY <2>1
    <3>2. QED  BY <1>2, <1>4, <2>2, <2>4, <3>1 DEF Awaited, PlaceOf
  <2>6. Upcoming' = Succ(Upcoming)
    <3>1. CASE s.index = Len(Keys)
      <4>1. fobState' = "cooldown"
        BY <1>4, <3>1 DEF FobTurn
      <4>2. Upcoming = Len(Keys) + 1
        BY <1>2, <1>4, <3>1
      <4>3. (Len(Keys) + 1) % (Len(Keys) + 1) = 0
        BY <1>1
      <4>4. QED  BY <4>1, <4>2, <4>3 DEF Upcoming, Succ
    <3>2. CASE s.index < Len(Keys)
      <4>1. fobState' = "transmitting" /\ tableIndex' = s.index + 1
        BY <1>1, <1>2, <1>4, <3>2 DEF FobTurn
      <4>2. Upcoming = s.index + 1
        BY <1>2, <1>4
      <4>3. Upcoming \in 0 .. (Len(Keys) + 1) - 1
        BY <1>1, <1>2, <3>2, <4>2
      <4>4. Upcoming % (Len(Keys) + 1) = Upcoming
        BY <1>1, <4>3, ModSmall
      <4>5. QED  BY <4>1, <4>2, <4>4 DEF Upcoming, Succ
    <3>3. QED  BY <1>1, <1>2, <3>1, <3>2
  <2>7. QED  BY <1>3, <2>2, <2>5, <2>6, KeysSent
<1>5. CASE ~(s.state = "transmitting" /\ MaySend)
  <2>1. UNCHANGED <<bdIn, hasIt>> /\ fobState' = s.state /\ tableIndex' = s.index
    BY <1>5 DEF FobTurn, deviceVars
  <2>2. Upcoming' = Upcoming
    BY <1>2, <2>1 DEF Upcoming
  <2>3. (Unseen' <=> Unseen) /\ Awaited' = Awaited
    BY <2>1, <2>2 DEF Unseen, Awaited, PlaceOf
  <2>4. QED  BY <1>3, <2>2, <2>3, KeysKept
<1>6. QED  BY <1>4, <1>5

LEMMA KeysStep ==
  ASSUME OlderCopyInv, KeysInv, ButtonInv, ~ConfiguresAgain, FobNext,
         \A i, j \in DOMAIN Keys : Keys[i] = Keys[j] => i = j
  PROVE  KeysInv'
<1>1. ASSUME NEW up \in BOOLEAN, FobTurn(up)  PROVE KeysInv'
  BY <1>1, KeysTurn
<1>2. ASSUME ~(\E up \in BOOLEAN : FobTurn(up))  PROVE Upcoming' = Upcoming
  BY <1>2 DEF FobNext, FobFrame, FobIn, FobInAckLost, FobReset, FobConfigure, FobHalt, FobClear,
     FobClearAgain, fobVars, fobMain, Upcoming
<1> SUFFICES ASSUME Upcoming' = Upcoming  PROVE KeysInv'
  BY <1>1, <1>2
<1>3. /\ bdIn.dts \in {0, 1} /\ inToggle \in {0, 1} /\ hasIt \in BOOLEAN
  BY DEF OlderCopyInv, EndpointInv, EndpointTypeOK, Bd, Toggle
<1>4. CASE FobFrame
  <2>1. UNCHANGED <<bdIn, hasIt, due, missed, broken>>
    BY <1>4 DEF FobFrame, exampleVars, endpointVars, movingVars, deviceVars, fobHost
  <2>2. (Unseen' <=> Unseen) /\ Awaited' = Awaited
    BY <2>1 DEF Unseen, Awaited, PlaceOf
  <2>3. QED  BY <2>1, <2>2, KeysKept
<1>5. CASE FobIn \/ FobInAckLost
  <2>1. bdIn.own = "sie" /\ Types /\ broken' = broken
    BY <1>5 DEF FobIn, FobInAckLost, InToken, InTokenAckLost
  <2>2. HostIsDue <=> ~hasIt
    BY <1>3, <2>1 DEF HostIsDue, OlderCopyInv, EndpointInv, InInv
  <2>3. CASE HostIsDue
    <3>1. Unseen /\ ~Unseen'
      <4>1. FobIn => ~Unseen'
        BY DEF Unseen, FobIn, InToken, Idle
      <4>2. FobInAckLost => hasIt'
        BY <2>3 DEF FobInAckLost, InTokenAckLost
      <4>3. QED  BY <1>5, <2>1, <2>2, <2>3, <4>1, <4>2 DEF Unseen
    <3>2. due' = Succ(Awaited) /\ missed' = missed + Lag
      BY <2>1, <2>3, <3>1 DEF Types, Awaited, Succ, Lag, LagFrom
    <3>3. QED  BY <2>1, <3>1, <3>2, KeysTyped
  <2>4. CASE ~HostIsDue
    <3>1. ~Unseen /\ ~Unseen'
      BY <1>5, <2>2, <2>4 DEF Unseen, FobIn, FobInAckLost, InToken, Idle
    <3>2. Awaited' = Awaited
      BY <3>1 DEF Awaited
    <3>3. due' = due /\ missed' = missed
      BY <2>1, <2>4 DEF Types, fobHost
    <3>4. QED  BY <2>1, <3>1, <3>2, <3>3, KeysKept
  <2>5. QED  BY <2>3, <2>4
<1>6. CASE FobReset \/ FobHalt \/ FobClearAgain
  <2>1. due' = due /\ missed' = missed /\ broken' = broken + 1
    BY <1>6 DEF FobReset, FobHalt, FobClearAgain, Breaks, fobVars, fobHost
  <2>2. ~Unseen'
    BY <1>6 DEF FobReset, FobHalt, FobClearAgain, BusReset, HostHaltsIn, HostClearsIn, Unseen,
       UsbInit, InitEndpoints, HaltIn, ClearIn, Idle, Stalled
  <2>3. QED  BY <2>1, <2>2, KeysBroken
<1>7. CASE FobClear \/ FobConfigure
  <2>1. due' = due /\ missed' = missed /\ broken' = broken
    BY <1>7 DEF FobClear, FobConfigure, fobVars, fobHost
  <2>2. ~Unseen
    <3>1. CASE FobClear
      BY <3>1 DEF FobClear, OlderCopyInv, EndpointInv, HaltedMeansStalled, Unseen
    <3>2. CASE FobConfigure
      BY <3>2 DEF FobConfigure, HostConfigures, OlderCopyInv, EndpointInv, ConfiguredInv, Fresh,
         Idle, Unseen
    <3>3. QED  BY <1>7, <3>1, <3>2
  <2>3. ~Unseen'
    <3>1. CASE FobClear
      BY <3>1 DEF FobClear, HostClearsIn, ClearIn, Idle, Unseen
    <3>2. CASE FobConfigure
      BY <2>2, <3>2 DEF FobConfigure, HostConfigures, SetConfiguration, OlderCopyInv, Unseen
    <3>3. QED  BY <1>7, <3>1, <3>2
  <2>4. Awaited' = Awaited
    BY <2>2, <2>3 DEF Awaited
  <2>5. QED  BY <2>1, <2>3, <2>4, KeysKept
<1>8. ASSUME NEW up \in BOOLEAN, FobTurn(up)  PROVE KeysInv'
  BY <1>1, <1>8
<1>9. QED  BY <1>4, <1>5, <1>6, <1>7, <1>8 DEF FobNext

(* Only passfob has keys, and it is built with an older copy of usb.c.      *)
FobInv ==
  /\ ButtonInv /\ missed \in Nat /\ broken \in Nat
  /\ IF app = "passfob" THEN OlderCopyInv /\ KeysInv ELSE missed = 0

LEMMA FobInitInv == Init => FobInv
<1> SUFFICES ASSUME Init PROVE FobInv
  OBVIOUS
<1>1. EndpointInit /\ broken = 0 /\ FobInit
  BY Zenon DEF Init, ExampleInit
<1>2. app = "passfob" => ~newer
  BY DEF Init
<1>3. EndpointInv
  BY <1>1, EndpointInitInv
<1>4. ButtonInv
  BY <1>1, FobAssumption DEF FobInit, ButtonInv
<1>5. ~Unseen /\ Upcoming = 1 /\ Awaited = 1 /\ due = 1 /\ missed = 0
  BY <1>1 DEF EndpointInit, Idle, FobInit, Unseen, Upcoming, Awaited
<1>6. 1 \in Places
  BY FobAssumption DEF Places
<1>7. KeysInv
  BY <1>1, <1>5, <1>6, LagArithmetic DEF KeysInv, Lag
<1>8. QED  BY <1>1, <1>2, <1>3, <1>4, <1>5, <1>7 DEF FobInv, OlderCopyInv

LEMMA FobNextInv ==
  ASSUME FobInv, ~ConfiguresAgain, [Next]_vars,
         \A i, j \in DOMAIN Keys : Keys[i] = Keys[j] => i = j
  PROVE  FobInv'
<1>1. ButtonInv' /\ broken' \in Nat /\ app' = app /\ newer' = newer
  BY ButtonStep, NothingElseMoves DEF FobInv
<1>2. CASE app = "passfob" /\ FobNext
  <2>1. OlderCopyInv' /\ KeysInv'
    BY <1>1, <1>2, FobEndpointStep, KeysStep DEF FobInv
  <2>2. QED  BY <1>1, <1>2, <2>1 DEF FobInv, KeysInv
<1>3. CASE UNCHANGED vars
  <2>1. UNCHANGED endpointVars
    BY <1>3 DEF vars, allMoving, endpointVars
  <2>2. UNCHANGED <<bdIn, hasIt, broken, fobState, tableIndex, due, missed>>
    BY <1>3 DEF vars, allMoving, movingVars, deviceVars, appVars, fobVars, fobMain, fobHost
  <2>3. app = "passfob" => OlderCopyInv'
    BY <1>1, <2>1, EndpointInvNext DEF ConfiguresOnce, FobInv, OlderCopyInv
  <2>4. app = "passfob" => KeysInv'
    BY <2>2, KeysKept DEF FobInv, Unseen, Upcoming, Awaited, PlaceOf
  <2>5. QED  BY <1>1, <2>2, <2>3, <2>4 DEF FobInv
<1>4. CASE app # "passfob"
  <2>1. missed' = missed
    BY <1>3, <1>4, ExampleSteps DEF Mouse, Fob, Lock, Play, Hid, Cdc, fobVars, fobHost, vars,
       allMoving, appVars
  <2>2. QED  BY <1>1, <1>4, <2>1 DEF FobInv
<1>5. QED  BY <1>2, <1>3, <1>4, ExampleSteps DEF Mouse, Fob, Lock, Play, Hid, Cdc

(* The host sees the keys of a table of any length in its order and the     *)
(* last one released; each break of the pipe costs one report at most.      *)
THEOREM TypesCorrect ==
  ASSUME ~ConfiguresAgain, \A i, j \in DOMAIN Keys : Keys[i] = Keys[j] => i = j
  PROVE  Spec => []TypesInOrder
<1>1. FobInv /\ [Next]_vars => FobInv'
  BY FobNextInv
<1>2. FobInv => TypesInOrder
  <2>1. FobInv /\ app = "passfob" => TypesInOrder
    <3>1. KeysInv => Lag \in Nat
      BY LagArithmetic DEF KeysInv, Lag
    <3>2. QED  BY <3>1 DEF FobInv, KeysInv, TypesInOrder
  <2>2. FobInv /\ app # "passfob" => TypesInOrder
    BY DEF FobInv, TypesInOrder
  <2>3. QED  BY <2>1, <2>2
<1>3. QED  BY FobInitInv, <1>1, <1>2, PTL DEF Spec


-----------------------------------------------------------------------------
(* customHID.                                                               *)

(* How many commands are stored by the device and not yet counted, and how  *)
(* many of those were not yet acknowledged, or are counted already.         *)
Held == One(HoldsBump)
Unconfirmed == One(BumpUnconfirmed)

Balanced == (counter + Held) % CounterWrap = (bumps + Unconfirmed) % CounterWrap


HidCountInv ==
  /\ counter \in Counter /\ bumps \in Counter
  /\ app = "customHID" => OlderCopyInv /\ Balanced

LEMMA HeldType == Held \in {0, 1} /\ Unconfirmed \in {0, 1}
BY DEF Held, Unconfirmed, One

LEMMA IncrementedType ==
  ASSUME NEW n \in Counter
  PROVE  Incremented(n) \in Counter
<1>1. CounterWrap \in Nat \ {0} /\ n + 1 \in Int
  BY HidAssumption DEF Counter
<1>2. (n + 1) % CounterWrap \in 0 .. CounterWrap - 1
  BY <1>1, ModIn
<1>3. QED  BY <1>2 DEF Incremented, Counter

(* Equal counts stay equal when both are incremented.                       *)
LEMMA CountsAgree ==
  ASSUME NEW a \in Counter, NEW b \in Counter, a % CounterWrap = b % CounterWrap
  PROVE  a = b
<1>1. CounterWrap \in Nat \ {0} /\ a \in 0 .. CounterWrap - 1 /\ b \in 0 .. CounterWrap - 1
  BY HidAssumption DEF Counter
<1>2. a % CounterWrap = a /\ b % CounterWrap = b
  BY <1>1, ModSmall
<1>3. QED  BY <1>2

LEMMA HidEndpointStep ==
  ASSUME OlderCopyInv, counter \in Counter, ~ConfiguresAgain, HidNext, newer' = newer
  PROVE  OlderCopyInv'
<1> SUFFICES EndpointInv'
  BY DEF OlderCopyInv
<1>1. CASE HidTurn
  <2>1. HasData
    BY <1>1 DEF HidTurn, HasData, MaySend
  <2>2. CASE bdOut.data = Bump /\ flags' = [flags EXCEPT !.rxDts = 1 - @] /\ UNCHANGED <<bdIn, hasIt>>
    <3>1. FirmwareReads
      BY <1>1, <2>1, <2>2 DEF HidTurn, FirmwareReads, ArmOut
    <3>2. EndpointNext
      BY <3>1 DEF EndpointNext, EndpointStep
    <3>3. QED  BY <3>2, EndpointInvNext DEF ConfiguresOnce, OlderCopyInv
  <2>3. CASE /\ bdIn' = Armed(flags.txDts, Answer(counter)) /\ hasIt' = FALSE
             /\ flags' = [flags EXCEPT !.txDts = 1 - @, !.rxDts = 1 - @]
    <3>1. Answer(counter) \in Report
      BY HidAssumption DEF Counter
    <3>2. /\ MaySend /\ bdOut' = Armed(flags.rxDts, NoReport) /\ read' = Arrives(bdOut.data, read)
          /\ UNCHANGED <<newer, configured, hostVars, stored, breaks>>
      BY <1>1 DEF HidTurn
    <3>3. QED  BY <2>1, <2>3, <3>1, <3>2, AnswersInv DEF OlderCopyInv
  <2>4. QED  BY <1>1, <2>2, <2>3 DEF HidTurn
<1>2. TestOpens \/ TestReadsFirst \/ TestPrints \/ TestKilled => UNCHANGED endpointVars
  BY DEF TestOpens, TestReadsFirst, TestPrints, TestKilled, exampleVars
<1>3. ASSUME NEW r \in {Bump, Query}, TestWrites(r)  PROVE EndpointNext
  <2>1. r \in Report
    BY HidAssumption
  <2>2. QED  BY <1>3, <2>1 DEF TestWrites, EndpointNext, EndpointStep
<1>4. HidIn \/ HidInAckLost \/ HidOut \/ HidOutAckLost \/ HidReset \/ HidConfigure \/ HidHalt \/ HidClears
        => EndpointNext
  BY DEF HidIn, HidInAckLost, HidOut, HidOutAckLost, HidReset, HidConfigure, HidHalt, HidClears, HidClear,
         EndpointNext, EndpointStep
<1>5. CASE ~HidTurn
  <2>1. [EndpointNext]_endpointVars
    BY <1>2, <1>3, <1>4, <1>5 DEF HidNext
  <2>2. QED  BY <2>1, EndpointInvNext DEF ConfiguresOnce, OlderCopyInv
<1>6. QED  BY <1>1, <1>5

LEMMA BalanceKept ==
  ASSUME Balanced, counter' = counter, bumps' = bumps, Held' = Held, Unconfirmed' = Unconfirmed
  PROVE  Balanced'
BY DEF Balanced

LEMMA BalanceStep ==
  ASSUME OlderCopyInv, counter \in Counter, bumps \in Counter, Balanced, ~ConfiguresAgain, HidNext
  PROVE  counter' \in Counter /\ bumps' \in Counter /\ Balanced'
<1>1. /\ CounterWrap \in Nat \ {0} /\ NoReport # Bump /\ Bump # Query
      /\ counter \in Int /\ bumps \in Int
  BY HidAssumption, EndpointAssumption DEF Counter, Bump, Query
<1>2. CASE HidTurn
  <2>1. /\ bumps' = bumps /\ offer' = offer /\ stored' = stored
        /\ bdOut.own = "cpu" /\ bdOut'.own = "sie"
    BY <1>2 DEF HidTurn, testVars, hostVars, Armed
  <2>2. Unconfirmed' = Unconfirmed /\ Held' = 0
    BY <2>1 DEF Unconfirmed, BumpUnconfirmed, Held, HoldsBump, One
  <2>3. CASE bdOut.data = Bump /\ counter' = Incremented(counter)
    <3>1. Held = 1
      BY <2>1, <2>3 DEF Held, HoldsBump, One
    <3>2. counter' = (counter + 1) % CounterWrap /\ counter' \in Counter
      BY <2>3, IncrementedType DEF Incremented
    <3>3. counter' % CounterWrap = (counter + 1) % CounterWrap
      <4>1. counter' \in 0 .. CounterWrap - 1
        BY <3>2 DEF Counter
      <4>2. counter' % CounterWrap = counter'
        BY <1>1, <4>1, ModSmall
      <4>3. QED  BY <3>2, <4>2
    <3>4. counter' + 0 = counter'
      BY <3>2 DEF Counter
    <3>5. QED  BY <2>1, <2>2, <3>1, <3>2, <3>3, <3>4 DEF Balanced
  <2>4. CASE bdOut.data = Query /\ counter' = counter
    <3>1. Held = 0
      BY <1>1, <2>4 DEF Held, HoldsBump, One
    <3>2. QED  BY <2>1, <2>2, <2>4, <3>1, BalanceKept
  <2>5. QED  BY <1>2, <2>3, <2>4 DEF HidTurn
<1>3. ASSUME UNCHANGED <<counter, bumps, bdOut, offer, stored>>
      PROVE  counter' \in Counter /\ bumps' \in Counter /\ Balanced'
  <2>1. Held' = Held /\ Unconfirmed' = Unconfirmed
    BY <1>3 DEF Held, HoldsBump, Unconfirmed, BumpUnconfirmed, One, Bump
  <2>2. QED  BY <1>3, <2>1, BalanceKept
<1>4. CASE TestOpens \/ TestReadsFirst \/ TestPrints \/ TestKilled
  BY <1>3, <1>4 DEF TestOpens, TestReadsFirst, TestPrints, TestKilled, exampleVars, endpointVars,
     movingVars, deviceVars, hostVars
<1>5. CASE HidIn \/ HidInAckLost
  BY <1>3, <1>5 DEF HidIn, HidInAckLost, InToken, InTokenAckLost, deviceVars
<1>6. ASSUME NEW r \in {Bump, Query}, TestWrites(r)
      PROVE  counter' \in Counter /\ bumps' \in Counter /\ Balanced'
  <2>1. UNCHANGED <<counter, bumps, bdOut>> /\ offer = NoReport /\ stored' = FALSE
    BY <1>6 DEF TestWrites, HostOffers, hidVars, deviceVars
  <2>2. Held' = Held
    BY <2>1 DEF Held, HoldsBump, One, Bump
  <2>3. Unconfirmed = 0 /\ Unconfirmed' = 0
    BY <1>1, <2>1 DEF Unconfirmed, BumpUnconfirmed, One
  <2>4. QED  BY <2>1, <2>2, <2>3, BalanceKept
<1>7. ASSUME bdOut.own = "sie", offer # NoReport
      PROVE  EngineIsDue <=> ~stored
  <2>1. bdOut.dts \in {0, 1} /\ outToggle \in {0, 1}
    BY DEF OlderCopyInv, EndpointInv, EndpointTypeOK, Bd, Toggle
  <2>2. QED  BY <1>7, <2>1 DEF OlderCopyInv, EndpointInv, OutInv, Repeating, EngineIsDue
<1>8. CASE HidOut
  <2>1. /\ bdOut.own = "sie" /\ offer # NoReport /\ EngineTakesOut /\ stored' = FALSE
        /\ counter' = counter /\ bumps' = IF offer = Bump THEN Incremented(bumps) ELSE bumps
    BY <1>8 DEF HidOut, OutToken
  <2>2. Held = 0 /\ Unconfirmed' = 0
    BY <2>1 DEF Held, HoldsBump, Unconfirmed, BumpUnconfirmed, One
  <2>3. Held' + Unconfirmed = IF offer = Bump THEN 1 ELSE 0
    <3>1. CASE stored
      <4>1. bdOut' = bdOut
        BY <1>7, <2>1, <3>1 DEF EngineTakesOut
      <4>2. Held' = 0
        BY <2>1, <4>1 DEF Held, HoldsBump, One
      <4>3. QED  BY <3>1, <4>2 DEF Unconfirmed, BumpUnconfirmed, One
    <3>2. CASE ~stored
      <4>1. bdOut'.own = "cpu" /\ bdOut'.data = offer
        BY <1>7, <2>1, <3>2 DEF EngineTakesOut
      <4>2. Held' = IF offer = Bump THEN 1 ELSE 0
        BY <4>1 DEF Held, HoldsBump, One, Bump
      <4>3. QED  BY <3>2, <4>2 DEF Unconfirmed, BumpUnconfirmed, One
    <3>3. QED  BY <3>1, <3>2
  <2>4. CASE offer # Bump
    <3>1. Held' = 0 /\ Unconfirmed = 0
      BY <2>3, <2>4, HeldType DEF Held, One, HoldsBump, Unconfirmed
    <3>2. QED  BY <2>1, <2>2, <2>4, <3>1, BalanceKept
  <2>5. CASE offer = Bump
    <3>1. bumps' = (bumps + 1) % CounterWrap /\ bumps' \in Counter
      BY <2>1, <2>5, IncrementedType DEF Incremented
    <3>2. bumps' % CounterWrap = (bumps + 1) % CounterWrap
      <4>1. bumps' \in 0 .. CounterWrap - 1
        BY <3>1 DEF Counter
      <4>2. QED  BY <1>1, <3>1, <4>1, ModSmall
    <3>3. bumps' + 0 = bumps' /\ bumps + 0 = bumps /\ counter + 0 = counter
      BY <1>1, <3>1 DEF Counter
    <3>4. CASE Unconfirmed = 1
      <4>1. Held' = 0
        BY <2>3, <2>5, <3>4, HeldType DEF Held, One, HoldsBump
      <4>2. QED  BY <2>1, <2>2, <3>1, <3>2, <3>3, <3>4, <4>1 DEF Balanced
    <3>5. CASE Unconfirmed = 0
      <4>1. Held' = 1
        BY <2>3, <2>5, <3>5, HeldType DEF Held, One, HoldsBump
      <4>2. counter = bumps
        BY <2>2, <3>3, <3>5, CountsAgree DEF Balanced
      <4>3. QED  BY <2>1, <2>2, <3>1, <3>2, <3>3, <4>1, <4>2 DEF Balanced
    <3>6. QED  BY <3>4, <3>5, HeldType
  <2>6. QED  BY <2>4, <2>5
<1>9. CASE HidOutAckLost
  <2>1. /\ bdOut.own = "sie" /\ offer # NoReport /\ EngineIsDue /\ EngineTakesOut
        /\ stored' = (stored \/ EngineIsDue) /\ UNCHANGED <<counter, bumps, offer>>
    BY <1>9 DEF HidOutAckLost, OutTokenAckLost, hidVars, hostVars, EngineIsDue
  <2>2. ~stored /\ stored' = TRUE
    BY <1>7, <2>1
  <2>3. bdOut'.own = "cpu" /\ bdOut'.data = offer
    BY <2>1 DEF EngineTakesOut
  <2>4. Held = 0 /\ Unconfirmed = 0 /\ Held' = Unconfirmed'
    BY <2>1, <2>2, <2>3 DEF Held, HoldsBump, Unconfirmed, BumpUnconfirmed, One, Bump
  <2>5. counter + 0 = counter /\ bumps + 0 = bumps
    BY <1>1
  <2>6. counter = bumps
    BY <2>4, <2>5, CountsAgree DEF Balanced
  <2>7. QED  BY <2>1, <2>4, <2>6 DEF Balanced
<1>10. CASE HidReset \/ HidHalt \/ HidClears
  <2>1. counter' = counter /\ bumps' = (counter + Held' - Unconfirmed') % CounterWrap
    BY <1>10 DEF HidReset, HidHalt, HidClears, HidBroken, Held, Unconfirmed
  <2>2. Held' \in {0, 1} /\ Unconfirmed' \in {0, 1}
    BY DEF Held, Unconfirmed, One
  <2>3. PICK h, u \in {0, 1} : h = Held' /\ u = Unconfirmed'
    BY <2>2
  <2>4. bumps' \in Counter
    <3>1. counter + h - u \in Int
      BY <1>1
    <3>2. (counter + h - u) % CounterWrap \in 0 .. CounterWrap - 1
      BY <1>1, <3>1, ModIn
    <3>3. QED  BY <2>1, <2>3, <3>2 DEF Counter
  <2>5. (bumps' + u) % CounterWrap = (counter + h) % CounterWrap
    <3>1. PICK x \in Int : x = counter + h - u
      BY <1>1
    <3>2. ((x % CounterWrap) + u) % CounterWrap = (x + u) % CounterWrap
      <4>1. u \in Int
        OBVIOUS
      <4>2. QED  BY <1>1, <4>1, ModSum, Zenon
    <3>3. x + u = counter + h
      BY <1>1, <3>1
    <3>4. QED  BY <2>1, <2>3, <3>1, <3>2, <3>3
  <2>6. QED  BY <2>1, <2>3, <2>4, <2>5 DEF Balanced
<1>11. CASE HidConfigure
  <2>1. UNCHANGED <<counter, bumps, bdOut>> /\ offer = NoReport /\ offer' = NoReport
    BY <1>11 DEF HidConfigure, HostConfigures, SetConfiguration, OlderCopyInv, hidVars,
       EndpointInv, ConfiguredInv, Fresh
  <2>2. Held' = Held
    BY <2>1 DEF Held, HoldsBump, One, Bump
  <2>3. Unconfirmed = 0 /\ Unconfirmed' = 0
    BY <1>1, <2>1 DEF Unconfirmed, BumpUnconfirmed, One, Bump
  <2>4. QED  BY <2>1, <2>2, <2>3, BalanceKept
<1>12. QED  BY <1>2, <1>4, <1>5, <1>6, <1>8, <1>9, <1>10, <1>11 DEF HidNext

LEMMA HidCountInit == Init => HidCountInv
<1> SUFFICES ASSUME Init PROVE HidCountInv
  OBVIOUS
<1>1. EndpointInit /\ HidInit
  BY Zenon DEF Init, ExampleInit
<1>2. app = "customHID" => ~newer
  BY DEF Init
<1>3. EndpointInv
  BY <1>1, EndpointInitInv
<1>4. counter \in Counter /\ bumps \in Counter /\ counter = bumps
  BY <1>1, HidAssumption DEF HidInit, Counter
<1>5. Held = 0 /\ Unconfirmed = 0
  BY <1>1 DEF EndpointInit, Held, HoldsBump, Unconfirmed, BumpUnconfirmed, One, Armed
<1>6. QED  BY <1>2, <1>3, <1>4, <1>5 DEF HidCountInv, OlderCopyInv, Balanced

LEMMA HidCountNext ==
  ASSUME HidCountInv, ~ConfiguresAgain, [Next]_vars
  PROVE  HidCountInv'
<1>1. app' = app /\ newer' = newer
  BY NothingElseMoves
<1>2. CASE app = "customHID" /\ HidNext
  <2>1. OlderCopyInv' /\ counter' \in Counter /\ bumps' \in Counter /\ Balanced'
    BY <1>1, <1>2, HidEndpointStep, BalanceStep DEF HidCountInv
  <2>2. QED  BY <2>1 DEF HidCountInv, Counter
<1>3. CASE UNCHANGED vars
  <2>1. UNCHANGED endpointVars
    BY <1>3 DEF vars, allMoving, endpointVars
  <2>2. UNCHANGED <<counter, bumps, bdOut, offer, stored>>
    BY <1>3 DEF vars, allMoving, movingVars, deviceVars, hostVars, appVars, hidVars
  <2>3. app = "customHID" => OlderCopyInv'
    BY <1>1, <2>1, EndpointInvNext DEF ConfiguresOnce, HidCountInv, OlderCopyInv
  <2>4. Held' = Held /\ Unconfirmed' = Unconfirmed
    BY <2>2 DEF Held, HoldsBump, Unconfirmed, BumpUnconfirmed, One, Bump
  <2>5. app = "customHID" => Balanced'
    BY <2>2, <2>4, BalanceKept DEF HidCountInv
  <2>6. QED  BY <1>1, <2>2, <2>3, <2>5 DEF HidCountInv, Counter
<1>4. CASE app # "customHID"
  <2>1. counter' = counter /\ bumps' = bumps
    BY <1>3, <1>4, ExampleSteps DEF Mouse, Fob, Lock, Play, Hid, Cdc, hidVars, vars, allMoving, appVars
  <2>2. QED  BY <1>1, <1>4, <2>1 DEF HidCountInv, Counter
<1>5. QED  BY <1>2, <1>3, <1>4, ExampleSteps DEF Mouse, Fob, Lock, Play, Hid, Cdc

(* Every increment that was acknowledged is counted once, for a counter of  *)
(* any width: it does not matter that an ACK is lost, that the command is   *)
(* sent again, or that main() reads nothing while a reply waits.            *)
THEOREM CountsCorrect ==
  ASSUME ~ConfiguresAgain
  PROVE  Spec => []CountsOnce
<1>1. HidCountInv /\ [Next]_vars => HidCountInv'
  BY HidCountNext
<1>2. HidCountInv => CountsOnce
  BY DEF HidCountInv, Balanced, Held, Unconfirmed, CountsOnce
<1>3. QED  BY HidCountInit, <1>1, <1>2, PTL DEF Spec


-----------------------------------------------------------------------------
(* minimalCDC.                                                              *)

(* Bytes with consecutive numbers.                                          *)
Run(first, s) == \A i \in 1 .. Len(s) : s[i] = After(first, i - 1)

(* The same in three buffers one behind the other; next is the number of    *)
(* the byte that comes after them.                                          *)
Chain(first, s, t, u, next) ==
  /\ first \in Byte /\ s \in Seq(Byte) /\ t \in Seq(Byte) /\ u \in Seq(Byte)
  /\ Run(first, s)
  /\ Run(After(first, Len(s)), t)
  /\ Run(After(After(first, Len(s)), Len(t)), u)
  /\ next = After(After(After(first, Len(s)), Len(t)), Len(u))

LEMMA AfterFacts ==
  ASSUME NEW f \in Byte, NEW j \in Int, NEW k \in Int
  PROVE  /\ After(f, j) \in Byte /\ After(f, 0) = f
         /\ After(After(f, j), k) = After(f, j + k)
<1>1. Bytes \in Nat \ {0} /\ f \in Int /\ f \in 0 .. Bytes - 1
  BY CdcAssumption DEF Byte
<1>2. f + j \in Int
  BY <1>1
<1>3. (f + j) % Bytes \in 0 .. Bytes - 1
  BY <1>1, <1>2, ModIn
<1>4. f % Bytes = f /\ f + 0 = f
  BY <1>1, ModSmall
<1>5. (((f + j) % Bytes) + k) % Bytes = (f + j + k) % Bytes
  BY <1>1, <1>2, ModSum
<1>6. f + j + k = f + (j + k)
  BY <1>1
<1>7. QED  BY <1>3, <1>4, <1>5, <1>6 DEF After, Byte

LEMMA RunTail ==
  ASSUME NEW f \in Byte, NEW s \in Seq(Byte), s # <<>>, Run(f, s)
  PROVE  /\ Head(s) = f /\ Tail(s) \in Seq(Byte) /\ Run(After(f, 1), Tail(s))
         /\ After(After(f, 1), Len(Tail(s))) = After(f, Len(s))
<1>1. Len(s) \in Nat \ {0} /\ Len(Tail(s)) = Len(s) - 1 /\ Tail(s) \in Seq(Byte) /\ Head(s) = s[1]
  OBVIOUS
<1>2. s[1] = After(f, 0)
  BY <1>1 DEF Run
<1>3. ASSUME NEW i \in 1 .. Len(Tail(s))  PROVE Tail(s)[i] = After(After(f, 1), i - 1)
  <2>1. Tail(s)[i] = s[i + 1] /\ i + 1 \in 1 .. Len(s)
    BY <1>1
  <2>2. s[i + 1] = After(f, (i + 1) - 1)
    BY <2>1 DEF Run
  <2>3. After(After(f, 1), i - 1) = After(f, 1 + (i - 1))
    BY AfterFacts
  <2>4. (i + 1) - 1 = 1 + (i - 1)
    OBVIOUS
  <2>5. QED  BY <2>1, <2>2, <2>3, <2>4
<1>4. After(After(f, 1), Len(s) - 1) = After(f, 1 + (Len(s) - 1))
  BY <1>1, AfterFacts
<1>5. 1 + (Len(s) - 1) = Len(s)
  BY <1>1
<1>6. QED  BY <1>1, <1>2, <1>3, <1>4, <1>5, AfterFacts DEF Run

LEMMA RunAppend ==
  ASSUME NEW f \in Byte, NEW s \in Seq(Byte), Run(f, s)
  PROVE  /\ Append(s, After(f, Len(s))) \in Seq(Byte)
         /\ Run(f, Append(s, After(f, Len(s))))
         /\ After(f, Len(Append(s, After(f, Len(s))))) = After(After(f, Len(s)), 1)
<1>1. Len(s) \in Nat /\ After(f, Len(s)) \in Byte
  BY AfterFacts
<1> DEFINE b == After(f, Len(s))
<1>2. After(b, 1) = After(f, Len(s) + 1)
  BY <1>1, AfterFacts
<1> HIDE DEF b
<1>3. b \in Byte
  BY <1>1 DEF b
<1>4. Append(s, b) \in Seq(Byte) /\ Len(Append(s, b)) = Len(s) + 1
  BY <1>3
<1>5. ASSUME NEW i \in 1 .. Len(Append(s, b))  PROVE Append(s, b)[i] = After(f, i - 1)
  <2>1. CASE i \in 1 .. Len(s)
    BY <1>3, <2>1 DEF Run
  <2>2. CASE i = Len(s) + 1
    <3>1. Append(s, b)[i] = b /\ i - 1 = Len(s)
      BY <1>1, <1>3, <2>2
    <3>2. QED  BY <3>1 DEF b
  <2>3. QED  BY <1>1, <1>4, <2>1, <2>2
<1>6. QED  BY <1>2, <1>4, <1>5 DEF Run, b

LEMMA RunNumbered ==
  ASSUME NEW f \in Byte, NEW n \in Nat
  PROVE  /\ Numbered(f, n) \in Seq(Byte) /\ Numbered(f, n) \in [1 .. n -> Byte]
         /\ Len(Numbered(f, n)) = n /\ Run(f, Numbered(f, n))
<1>1. \A i \in 1 .. n : After(f, i - 1) \in Byte
  BY AfterFacts
<1>2. Numbered(f, n) \in [1 .. n -> Byte]
  BY <1>1 DEF Numbered
<1>3. Numbered(f, n) \in Seq(Byte) /\ Len(Numbered(f, n)) = n
  BY <1>2
<1>4. \A i \in 1 .. n : Numbered(f, n)[i] = After(f, i - 1)
  BY DEF Numbered
<1>5. QED  BY <1>2, <1>3, <1>4 DEF Run

LEMMA RunEmpty == <<>> \in Seq(Byte) /\ \A f : Run(f, <<>>)
BY DEF Run

LEMMA RunJoin ==
  ASSUME NEW f \in Byte, NEW s \in Seq(Byte), NEW t \in Seq(Byte), Run(f, s), Run(After(f, Len(s)), t)
  PROVE  /\ s \o t \in Seq(Byte) /\ Run(f, s \o t)
         /\ After(f, Len(s \o t)) = After(After(f, Len(s)), Len(t))
<1>1. Len(s) \in Nat /\ Len(t) \in Nat /\ s \o t \in Seq(Byte) /\ Len(s \o t) = Len(s) + Len(t)
  OBVIOUS
<1>2. ASSUME NEW i \in 1 .. Len(s \o t)  PROVE (s \o t)[i] = After(f, i - 1)
  <2>1. CASE i <= Len(s)
    <3>1. (s \o t)[i] = s[i] /\ i \in 1 .. Len(s)
      BY <1>1, <2>1
    <3>2. QED  BY <3>1 DEF Run
  <2>2. CASE i > Len(s)
    <3>1. (s \o t)[i] = t[i - Len(s)] /\ i - Len(s) \in 1 .. Len(t)
      BY <1>1, <2>2
    <3>2. t[i - Len(s)] = After(After(f, Len(s)), (i - Len(s)) - 1)
      BY <3>1 DEF Run
    <3>3. After(After(f, Len(s)), (i - Len(s)) - 1) = After(f, Len(s) + ((i - Len(s)) - 1))
      BY <1>1, AfterFacts
    <3>4. Len(s) + ((i - Len(s)) - 1) = i - 1
      BY <1>1
    <3>5. QED  BY <3>1, <3>2, <3>3, <3>4
  <2>3. QED  BY <1>1, <2>1, <2>2
<1>3. After(After(f, Len(s)), Len(t)) = After(f, Len(s) + Len(t))
  BY <1>1, AfterFacts
<1>4. QED  BY <1>1, <1>2, <1>3 DEF Run

(* What may happen to such buffers.                                         *)
LEMMA ChainTypes ==
  ASSUME NEW f, NEW s, NEW t, NEW u, NEW n, Chain(f, s, t, u, n)
  PROVE  /\ f \in Byte /\ s \in Seq(Byte) /\ t \in Seq(Byte) /\ u \in Seq(Byte) /\ n \in Byte
         /\ Len(s) \in Nat /\ Len(t) \in Nat /\ Len(u) \in Nat
         /\ After(f, Len(s)) \in Byte /\ After(After(f, Len(s)), Len(t)) \in Byte
<1>1. f \in Byte /\ Len(s) \in Int /\ Len(t) \in Int /\ Len(u) \in Int
  BY DEF Chain
<1>2. After(f, Len(s)) \in Byte
  BY <1>1, AfterFacts
<1>3. After(After(f, Len(s)), Len(t)) \in Byte
  BY <1>1, <1>2, AfterFacts
<1>4. n \in Byte
  BY <1>1, <1>3, AfterFacts DEF Chain
<1>5. QED  BY <1>1, <1>2, <1>3, <1>4 DEF Chain

LEMMA ChainSum ==
  ASSUME NEW f, NEW s, NEW t, NEW u, NEW n, Chain(f, s, t, u, n)
  PROVE  /\ n = After(f, Len(s) + Len(t) + Len(u))
         /\ After(After(f, Len(s)), Len(t)) = After(f, Len(s) + Len(t))
<1>1. f \in Byte /\ Len(s) \in Int /\ Len(t) \in Int /\ Len(u) \in Int
  BY ChainTypes
<1>2. After(After(f, Len(s)), Len(t)) = After(f, Len(s) + Len(t))
  BY <1>1, AfterFacts
<1>3. Len(s) + Len(t) \in Int
  BY <1>1
<1>4. After(After(f, Len(s) + Len(t)), Len(u)) = After(f, (Len(s) + Len(t)) + Len(u))
  BY <1>1, <1>3, AfterFacts
<1>5. QED  BY <1>2, <1>4 DEF Chain

(* The first buffer moves on to where no number counts, or is discarded.    *)
LEMMA ChainLeaves ==
  ASSUME NEW f, NEW s, NEW t, NEW u, NEW n, Chain(f, s, t, u, n)
  PROVE  Chain(After(f, Len(s)), <<>>, t, u, n)
<1>1. After(f, Len(s)) \in Byte /\ After(After(f, Len(s)), 0) = After(f, Len(s))
  BY ChainTypes, AfterFacts
<1>2. Len(<<>>) = 0
  OBVIOUS
<1>3. QED  BY <1>1, <1>2, RunEmpty DEF Chain

(* One buffer is emptied into the next.                                     *)
LEMMA ChainFirst ==
  ASSUME NEW f, NEW t, NEW u, NEW n, Chain(f, <<>>, t, u, n)
  PROVE  Chain(f, t, <<>>, u, n)
<1>1. f \in Byte /\ After(f, Len(<<>>)) = f /\ Len(<<>>) = 0
  BY ChainTypes, AfterFacts
<1>2. After(After(f, Len(t)), 0) = After(f, Len(t))
  <2>1. Len(t) \in Int /\ After(f, Len(t)) \in Byte
    BY <1>1, ChainTypes
  <2>2. QED  BY <2>1, AfterFacts
<1>3. QED  BY <1>1, <1>2, RunEmpty DEF Chain

LEMMA ChainSecond ==
  ASSUME NEW f, NEW s, NEW u, NEW n, Chain(f, s, <<>>, u, n)
  PROVE  Chain(f, s, u, <<>>, n)
<1>1. After(f, Len(s)) \in Byte /\ Len(<<>>) = 0
  BY ChainTypes
<1>2. After(After(f, Len(s)), Len(<<>>)) = After(f, Len(s))
  BY <1>1, AfterFacts
<1>3. After(After(f, Len(s)), Len(u)) \in Byte
  <2>1. Len(u) \in Int
    BY ChainTypes
  <2>2. QED  BY <1>1, <2>1, AfterFacts
<1>4. After(After(After(f, Len(s)), Len(u)), Len(<<>>)) = After(After(f, Len(s)), Len(u))
  BY <1>1, <1>3, AfterFacts
<1>5. QED  BY <1>2, <1>4, RunEmpty DEF Chain

(* A byte goes over from the third to the second.                           *)
LEMMA ChainOver ==
  ASSUME NEW f, NEW s, NEW t, NEW u, NEW n, Chain(f, s, t, u, n), u # <<>>
  PROVE  Chain(f, s, Append(t, Head(u)), Tail(u), n)
<1> DEFINE g == After(f, Len(s))
           h == After(g, Len(t))
<1>1. g \in Byte /\ h \in Byte /\ t \in Seq(Byte) /\ u \in Seq(Byte) /\ Run(g, t) /\ Run(h, u) /\ n = After(h, Len(u))
  BY ChainTypes DEF Chain
<1> HIDE DEF g, h
<1>2. /\ Head(u) = h /\ Tail(u) \in Seq(Byte) /\ Run(After(h, 1), Tail(u))
      /\ After(After(h, 1), Len(Tail(u))) = After(h, Len(u))
  BY <1>1, RunTail
<1>3. /\ Append(t, h) \in Seq(Byte) /\ Run(g, Append(t, h))
      /\ After(g, Len(Append(t, h))) = After(h, 1)
  BY <1>1, RunAppend DEF h
<1>4. QED  BY <1>1, <1>2, <1>3 DEF Chain, g

(* A byte leaves.                                                           *)
LEMMA ChainGives ==
  ASSUME NEW f, NEW s, NEW t, NEW u, NEW n, Chain(f, s, t, u, n), s # <<>>
  PROVE  Chain(After(f, 1), Tail(s), t, u, n)
<1>1. f \in Byte /\ s \in Seq(Byte) /\ Run(f, s)
  BY DEF Chain
<1>2. After(f, 1) \in Byte
  BY <1>1, AfterFacts
<1>3. /\ Tail(s) \in Seq(Byte) /\ Run(After(f, 1), Tail(s))
      /\ After(After(f, 1), Len(Tail(s))) = After(f, Len(s))
  BY <1>1, RunTail
<1>4. QED  BY <1>2, <1>3 DEF Chain

(* A byte arrives, or a packet.                                             *)
LEMMA ChainByte ==
  ASSUME NEW f, NEW s, NEW t, NEW u, NEW n, Chain(f, s, t, u, n)
  PROVE  Chain(f, s, t, Append(u, n), After(n, 1))
<1> DEFINE h == After(After(f, Len(s)), Len(t))
<1>1. h \in Byte /\ u \in Seq(Byte) /\ Run(h, u) /\ n = After(h, Len(u))
  BY ChainTypes DEF Chain
<1> HIDE DEF h
<1>2. Append(u, n) \in Seq(Byte) /\ Run(h, Append(u, n)) /\ After(h, Len(Append(u, n))) = After(n, 1)
  BY <1>1, RunAppend
<1>3. QED  BY <1>2 DEF Chain, h

LEMMA ChainPacket ==
  ASSUME NEW f, NEW s, NEW t, NEW n, Chain(f, s, t, <<>>, n), NEW k \in Nat
  PROVE  Chain(f, s, t, Numbered(n, k), After(n, k))
<1> DEFINE h == After(After(f, Len(s)), Len(t))
<1>1. h \in Byte /\ n = After(h, Len(<<>>)) /\ Len(<<>>) = 0
  BY ChainTypes DEF Chain
<1> HIDE DEF h
<1>2. n = h
  BY <1>1, AfterFacts
<1>3. Numbered(h, k) \in Seq(Byte) /\ Len(Numbered(h, k)) = k /\ Run(h, Numbered(h, k))
  BY <1>1, RunNumbered
<1>4. QED  BY <1>2, <1>3 DEF Chain, h

(* The ends of the buffers are discarded.                                   *)
LEMMA ChainCutLast ==
  ASSUME NEW f, NEW s, NEW t, NEW u, NEW n, Chain(f, s, t, u, n)
  PROVE  Chain(f, s, t, <<>>, After(f, Len(s) + Len(t) + 0))
<1> DEFINE h == After(After(f, Len(s)), Len(t))
<1>1. h \in Byte /\ Len(<<>>) = 0 /\ h = After(f, Len(s) + Len(t))
  BY ChainTypes, ChainSum
<1>2. Len(s) + Len(t) + 0 = Len(s) + Len(t)
  BY ChainTypes
<1> HIDE DEF h
<1>3. After(h, 0) = h
  BY <1>1, AfterFacts
<1>4. QED  BY <1>1, <1>2, <1>3, RunEmpty DEF Chain, h

LEMMA ChainCutBoth ==
  ASSUME NEW f, NEW s, NEW t, NEW u, NEW n, Chain(f, s, t, u, n)
  PROVE  Chain(f, s, <<>>, <<>>, After(f, Len(s) + 0 + 0))
<1> DEFINE g == After(f, Len(s))
<1>1. g \in Byte /\ Len(<<>>) = 0
  BY ChainTypes
<1>2. Len(s) + 0 + 0 = Len(s)
  BY ChainTypes
<1> HIDE DEF g
<1>3. After(g, 0) = g
  BY <1>1, AfterFacts
<1>4. QED  BY <1>1, <1>2, <1>3, RunEmpty DEF Chain, g

(* What is in the three is in order.                                        *)
LEMMA ChainOrder ==
  ASSUME NEW f, NEW s, NEW t, NEW u, NEW n, Chain(f, s, t, u, n)
  PROVE  /\ s \o t \o u = Numbered(f, Len(s \o t \o u))
         /\ n = After(f, Len(s \o t \o u))
<1>1. /\ f \in Byte /\ s \in Seq(Byte) /\ t \in Seq(Byte) /\ u \in Seq(Byte)
      /\ Run(f, s) /\ Run(After(f, Len(s)), t) /\ Run(After(After(f, Len(s)), Len(t)), u)
      /\ n = After(After(After(f, Len(s)), Len(t)), Len(u))
  BY DEF Chain
<1>2. /\ s \o t \in Seq(Byte) /\ Run(f, s \o t)
      /\ After(f, Len(s \o t)) = After(After(f, Len(s)), Len(t))
  BY <1>1, RunJoin
<1>3. /\ s \o t \o u \in Seq(Byte) /\ Run(f, s \o t \o u)
      /\ After(f, Len(s \o t \o u)) = n
  <2> DEFINE v == s \o t
  <2>1. After(After(f, Len(s)), Len(t)) = After(f, Len(v))
    BY <1>2
  <2> HIDE DEF v
  <2>2. v \in Seq(Byte) /\ Run(f, v) /\ Run(After(f, Len(v)), u)
    BY <1>1, <1>2, <2>1 DEF v
  <2>3. /\ v \o u \in Seq(Byte) /\ Run(f, v \o u)
        /\ After(f, Len(v \o u)) = After(After(f, Len(v)), Len(u))
    BY <1>1, <2>2, RunJoin
  <2>4. QED  BY <1>1, <2>1, <2>3 DEF v
<1> DEFINE w == s \o t \o u
<1> HIDE DEF w
<1>4. w \in Seq(Byte) /\ Run(f, w) /\ After(f, Len(w)) = n
  BY <1>3 DEF w
<1>5. w = Numbered(f, Len(w))
  <2>1. Len(w) \in Nat
    BY <1>4
  <2>2. /\ Numbered(f, Len(w)) \in Seq(Byte) /\ Len(Numbered(f, Len(w))) = Len(w)
        /\ Run(f, Numbered(f, Len(w)))
    BY <1>1, <2>1, RunNumbered
  <2>3. PICK v \in Seq(Byte) : v = Numbered(f, Len(w))
    BY <2>2
  <2>4. Len(v) = Len(w) /\ \A i \in 1 .. Len(w) : v[i] = w[i]
    BY <1>4, <2>2, <2>3 DEF Run
  <2>5. v = w
    BY <1>4, <2>4
  <2>6. QED  BY <2>3, <2>5
<1>6. QED  BY <1>4, <1>5 DEF w

CdcInv ==
  app = "minimalCDC" =>
    /\ EndpointInv /\ newer
    /\ Len(pic2pc) < EP_2_LEN
    /\ Chain(heard, Underway, pic2pc, rcFifo, lineNext)
    /\ Chain(spoken, pc2pic, Fetchable, Unstored, pcNext)

LEMMA PacketType ==
  ASSUME NEW s \in Seq(Byte), Len(s) <= EP_2_LEN
  PROVE  s \in Report
<1>1. Len(s) \in 0 .. EP_2_LEN
  BY CdcAssumption
<1>2. s \in [1 .. Len(s) -> Byte]
  OBVIOUS
<1>3. QED  BY <1>1, <1>2, CdcAssumption DEF Byte

(* What a turn makes of the bytes from the line,                            *)
LEMMA CdcTurnLine ==
  ASSUME Len(pic2pc) < EP_2_LEN, Chain(heard, Underway, pic2pc, rcFifo, lineNext), CdcTurn
  PROVE  /\ Len(pic2pc') < EP_2_LEN
         /\ WithByte \in Report
         /\ Chain(heard', Underway', pic2pc', rcFifo', lineNext')
<1>1. EP_2_LEN \in Nat \ {0, 1} /\ pic2pc \in Seq(Byte) /\ rcFifo \in Seq(Byte) /\ heard' = heard /\ lineNext' = lineNext
  BY CdcAssumption, ChainTypes DEF CdcTurn
<1>2. Chain(heard, Underway, WithByte, rcFifo', lineNext) /\ Len(WithByte) < EP_2_LEN
  <2>1. CASE TakesByte
    <3>1. rcFifo # <<>> /\ rcFifo' = Tail(rcFifo) /\ WithByte = Append(pic2pc, Head(rcFifo)) /\ Len(pic2pc) < EP_2_LEN - 1
      BY <2>1 DEF CdcTurn, Receives, TakesByte, WithByte
    <3>2. Head(rcFifo) \in Byte
      BY <1>1, <3>1
    <3>3. Len(WithByte) = Len(pic2pc) + 1
      BY <1>1, <3>1, <3>2
    <3>4. Chain(heard, Underway, WithByte, rcFifo', lineNext)
      BY <3>1, ChainOver
    <3>5. QED  BY <1>1, <3>1, <3>3, <3>4
  <2>2. CASE ~TakesByte
    BY <2>2 DEF CdcTurn, Receives, WithByte
  <2>3. QED  BY <2>1, <2>2
<1>3. WithByte \in Report
  <2>1. WithByte \in Seq(Byte)
    BY <1>2, ChainTypes
  <2>2. Len(WithByte) <= EP_2_LEN
    BY <1>1, <1>2, <2>1
  <2>3. QED  BY <2>1, <2>2, PacketType
<1>4. CASE MaySend /\ WithByte # <<>>
  <2>1. bdIn.own = "cpu" /\ bdIn' = Armed(flags.txDts, WithByte) /\ hasIt' = FALSE /\ pic2pc' = <<>>
    BY <1>4 DEF CdcTurn, MaySend
  <2>2. Underway = <<>> /\ Underway' = WithByte
    BY <2>1 DEF Underway, Armed
  <2>3. Chain(heard, WithByte, <<>>, rcFifo', lineNext)
    BY <1>2, <2>2, ChainFirst
  <2>4. Len(pic2pc') = 0
    BY <2>1
  <2>5. QED  BY <1>1, <1>3, <2>1, <2>2, <2>3, <2>4
<1>5. CASE ~(MaySend /\ WithByte # <<>>)
  <2>1. bdIn' = bdIn /\ pic2pc' = WithByte
    BY <1>5 DEF CdcTurn
  <2>2. hasIt' <=> hasIt
    BY <1>5 DEF CdcTurn
  <2>3. Underway' = Underway
    BY <2>1, <2>2 DEF Underway
  <2>4. QED  BY <1>1, <1>2, <1>3, <2>1, <2>3
<1>6. QED  BY <1>4, <1>5

(* and of those from the PC.                                                *)
LEMMA CdcTurnPc ==
  ASSUME Chain(spoken, pc2pic, Fetchable, Unstored, pcNext), CdcTurn
  PROVE  Chain(spoken', pc2pic', Fetchable', Unstored', pcNext')
<1>1. Unstored' = Unstored /\ pcNext' = pcNext
  BY DEF CdcTurn, hostVars, Unstored
<1>2. Chain(spoken', Remaining, Fetchable, Unstored, pcNext)
  <2>1. CASE GivesByte
    BY <2>1, ChainGives DEF CdcTurn, GivesByte, Remaining
  <2>2. CASE ~GivesByte
    BY <2>2 DEF CdcTurn, Remaining
  <2>3. QED  BY <2>1, <2>2
<1>3. CASE MaySend /\ Fetches
  <2>1. pc2pic' = bdOut.data /\ bdOut' = Armed(flags.rxDts, NoReport) /\ Remaining = <<>> /\ bdOut.own = "cpu"
    BY <1>3 DEF CdcTurn, Fetches
  <2>2. Fetchable = bdOut.data /\ Fetchable' = <<>>
    BY <2>1 DEF Fetchable, Armed
  <2>3. Chain(spoken', Fetchable, <<>>, Unstored, pcNext)
    BY <1>2, <2>1, ChainFirst
  <2>4. QED  BY <1>1, <2>1, <2>2, <2>3
<1>4. CASE ~(MaySend /\ Fetches)
  <2>1. pc2pic' = Remaining /\ bdOut' = bdOut
    BY <1>4 DEF CdcTurn
  <2>2. QED  BY <1>1, <1>2, <2>1 DEF Fetchable
<1>5. QED  BY <1>3, <1>4

(* main() may send, fetch, or do both in a turn.                            *)
LEMMA CdcTurnEndpoint ==
  ASSUME EndpointInv, newer, newer' = newer, WithByte \in Report, CdcTurn
  PROVE  EndpointInv'
<1> DEFINE sends == MaySend /\ WithByte # <<>>
           fetches == MaySend /\ Fetches
<1>1. /\ bdIn' = IF sends THEN Armed(flags.txDts, WithByte) ELSE bdIn
      /\ bdOut' = IF fetches THEN Armed(flags.rxDts, NoReport) ELSE bdOut
      /\ flags' = [flags EXCEPT !.txDts = IF sends THEN 1 - @ ELSE @,
                                !.rxDts = IF fetches THEN 1 - @ ELSE @]
      /\ configured' = configured
  BY DEF CdcTurn
<1>2. hasIt' = (hasIt /\ ~sends) /\ UNCHANGED <<hostVars, stored, breaks>>
  BY DEF CdcTurn
<1>3. read' = IF fetches THEN Arrives(bdOut.data, read) ELSE read
  BY DEF CdcTurn
<1>4. fetches => HasData
  BY DEF Fetches, MaySend, HasData
<1>5. DOMAIN flags = {"rxDts", "txDts", "inHalt", "outHalt"} /\ hasIt \in BOOLEAN
  BY DEF EndpointInv, EndpointTypeOK, Flags
<1>6. (sends => MaySend) /\ (fetches => MaySend)
  OBVIOUS
<1> HIDE DEF sends, fetches
<1>7. CASE sends /\ fetches
  <2>1. flags' = [flags EXCEPT !.txDts = 1 - @, !.rxDts = 1 - @]
    BY <1>1, <1>5, <1>7
  <2>2. MaySend /\ HasData /\ hasIt' = FALSE
    BY <1>2, <1>4, <1>6, <1>7
  <2>3. /\ bdIn' = Armed(flags.txDts, WithByte) /\ bdOut' = Armed(flags.rxDts, NoReport)
        /\ read' = Arrives(bdOut.data, read) /\ UNCHANGED <<newer, configured, hostVars, stored, breaks>>
    BY <1>1, <1>2, <1>3, <1>7
  <2>4. QED  BY <2>1, <2>2, <2>3, AnswersInv
<1>8. CASE sends /\ ~fetches
  <2>1. FirmwareSends(WithByte)
    <3>1. flags' = [flags EXCEPT !.txDts = 1 - @]
      BY <1>1, <1>5, <1>8
    <3>2. hasIt' = FALSE
      BY <1>2, <1>8
    <3>3. MaySend /\ bdIn' = Armed(flags.txDts, WithByte) /\ bdOut' = bdOut /\ read' = read
      BY <1>1, <1>3, <1>6, <1>8
    <3>4. QED  BY <1>1, <1>2, <3>1, <3>2, <3>3 DEF FirmwareSends, SendInBuffer
  <2>2. EndpointNext
    BY <2>1 DEF EndpointNext, EndpointStep
  <2>3. QED  BY <2>2, EndpointInvNext DEF ConfiguresOnce
<1>9. CASE ~sends /\ fetches
  <2>1. FirmwareReads
    <3>1. flags' = [flags EXCEPT !.rxDts = 1 - @]
      BY <1>1, <1>5, <1>9
    <3>2. hasIt' = hasIt
      BY <1>2, <1>5, <1>9
    <3>3. HasData /\ bdOut' = Armed(flags.rxDts, NoReport) /\ bdIn' = bdIn /\ read' = Arrives(bdOut.data, read)
      BY <1>1, <1>3, <1>4, <1>9
    <3>4. QED  BY <1>1, <1>2, <3>1, <3>2, <3>3 DEF FirmwareReads, ArmOut
  <2>2. EndpointNext
    BY <2>1 DEF EndpointNext, EndpointStep
  <2>3. QED  BY <2>2, EndpointInvNext DEF ConfiguresOnce
<1>10. CASE ~sends /\ ~fetches
  <2>1. flags' = flags /\ hasIt' = hasIt /\ bdIn' = bdIn /\ bdOut' = bdOut /\ read' = read
    <3>1. flags' = flags
      BY <1>1, <1>5, <1>10 DEF EndpointInv, EndpointTypeOK, Flags
    <3>2. hasIt' = hasIt
      BY <1>2, <1>5, <1>10
    <3>3. QED  BY <1>1, <1>3, <1>10, <3>1, <3>2
  <2>2. UNCHANGED endpointVars
    BY <1>1, <1>2, <2>1 DEF endpointVars, movingVars, deviceVars
  <2>3. QED  BY <2>2, EndpointInvNext DEF ConfiguresOnce
<1>11. QED  BY <1>7, <1>8, <1>9, <1>10

LEMMA CdcEndpointStep ==
  ASSUME EndpointInv, newer, newer' = newer, WithByte \in Report, pcNext \in Byte, CdcNext
  PROVE  EndpointInv'
<1>1. ASSUME NEW n \in 0 .. EP_2_LEN, PcWrites(n)  PROVE EndpointNext
  <2>1. n \in Nat
    BY CdcAssumption
  <2>2. Numbered(pcNext, n) \in [1 .. n -> Byte]
    BY <2>1, RunNumbered
  <2>3. Numbered(pcNext, n) \in Report
    BY <2>2, CdcAssumption DEF Byte
  <2>4. QED  BY <1>1, <2>3 DEF PcWrites, EndpointNext, EndpointStep
<1>2. LineByte \/ LineShifted => UNCHANGED endpointVars
  BY DEF LineByte, LineShifted, exampleVars
<1>3. CdcIn \/ CdcInAckLost \/ CdcOut \/ CdcOutAckLost \/ CdcReset \/ CdcConfigure \/ CdcHalt \/ CdcClears
        => EndpointNext
  BY DEF CdcIn, CdcInAckLost, CdcOut, CdcOutAckLost, CdcReset, CdcConfigure, CdcHalt, CdcClears, CdcClear,
         EndpointNext, EndpointStep
<1>4. CASE CdcTurn
  BY <1>4, CdcTurnEndpoint
<1>5. CASE ~CdcTurn
  <2>1. [EndpointNext]_endpointVars
    BY <1>1, <1>2, <1>3, <1>5 DEF CdcNext
  <2>2. QED  BY <2>1, EndpointInvNext DEF ConfiguresOnce
<1>6. QED  BY <1>4, <1>5

(* A break discards what is in an endpoint's buffer, or leaves it there; it *)
(* does not discard what a PC's write was before, and leave the write.      *)
LEMMA CdcBreaks ==
  ASSUME newer,
         BusReset \/ HostConfigures(TRUE) \/ HostHaltsIn \/ HostHaltsOut \/ HostClearsIn \/ HostClearsOut
  PROVE  /\ Underway' = Underway \/ Underway' = <<>>
         /\ \/ Fetchable' = Fetchable /\ Unstored' = Unstored
            \/ Fetchable' = Fetchable /\ Unstored' = <<>>
            \/ Fetchable' = <<>> /\ Unstored' = <<>>
<1> USE DEF Underway, Fetchable, Unstored
<1>1. CASE BusReset
  BY <1>1 DEF BusReset, UsbInit, InitEndpoints, Idle, Armed
<1>2. CASE HostConfigures(TRUE)
  BY <1>2 DEF HostConfigures, SetConfiguration, InitEndpoints, Idle, Armed
<1>3. CASE HostHaltsIn
  BY <1>3 DEF HostHaltsIn, HaltIn, Stalled, hostVars
<1>4. CASE HostHaltsOut
  BY <1>4 DEF HostHaltsOut, HaltOut, Stalled
<1>5. CASE HostClearsIn
  BY <1>5 DEF HostClearsIn, ClearIn, Idle
<1>6. CASE HostClearsOut
  BY <1>6 DEF HostClearsOut, ClearOut, Armed
<1>7. QED  BY <1>1, <1>2, <1>3, <1>4, <1>5, <1>6

LEMMA CdcBrokenStep ==
  ASSUME newer, CdcBroken,
         BusReset \/ HostConfigures(TRUE) \/ HostHaltsIn \/ HostHaltsOut \/ HostClearsIn \/ HostClearsOut,
         Chain(heard, Underway, pic2pc, rcFifo, lineNext),
         Chain(spoken, pc2pic, Fetchable, Unstored, pcNext)
  PROVE  /\ Chain(heard', Underway', pic2pc', rcFifo', lineNext')
         /\ Chain(spoken', pc2pic', Fetchable', Unstored', pcNext')
<1>1. /\ UNCHANGED <<pic2pc, rcFifo, lineNext, pc2pic, spoken>>
      /\ heard' = After(heard, Len(Underway) - Len(Underway'))
      /\ pcNext' = After(spoken, Len(pc2pic) + Len(Fetchable') + Len(Unstored'))
  BY DEF CdcBroken, cdcMain
<1>2. Len(<<>>) = 0
  OBVIOUS
<1>3. Chain(heard', Underway', pic2pc, rcFifo, lineNext)
  <2>1. CASE Underway' = Underway
    <3>1. heard \in Byte /\ Len(Underway) - Len(Underway) = 0
      BY ChainTypes
    <3>2. heard' = heard
      BY <1>1, <2>1, <3>1, AfterFacts
    <3>3. QED  BY <2>1, <3>2
  <2>2. CASE Underway' = <<>>
    <3>1. Len(Underway) - 0 = Len(Underway)
      BY ChainTypes
    <3>2. heard' = After(heard, Len(Underway))
      BY <1>1, <1>2, <2>2, <3>1
    <3>3. QED  BY <2>2, <3>2, ChainLeaves
  <2>3. QED  BY <2>1, <2>2, CdcBreaks
<1>4. Chain(spoken, pc2pic, Fetchable', Unstored', pcNext')
  <2>1. CASE Fetchable' = Fetchable /\ Unstored' = Unstored
    <3>1. pcNext' = pcNext
      BY <1>1, <2>1, ChainSum
    <3>2. QED  BY <2>1, <3>1
  <2>2. CASE Fetchable' = Fetchable /\ Unstored' = <<>>
    BY <1>1, <1>2, <2>2, ChainCutLast
  <2>3. CASE Fetchable' = <<>> /\ Unstored' = <<>>
    BY <1>1, <1>2, <2>3, ChainCutBoth
  <2>4. QED  BY <2>1, <2>2, <2>3, CdcBreaks
<1>5. QED  BY <1>1, <1>3, <1>4

LEMMA CdcStep ==
  ASSUME EndpointInv, newer, Len(pic2pc) < EP_2_LEN, CdcNext,
         Chain(heard, Underway, pic2pc, rcFifo, lineNext),
         Chain(spoken, pc2pic, Fetchable, Unstored, pcNext)
  PROVE  /\ Len(pic2pc') < EP_2_LEN
         /\ Chain(heard', Underway', pic2pc', rcFifo', lineNext')
         /\ Chain(spoken', pc2pic', Fetchable', Unstored', pcNext')
<1>1. /\ bdIn.dts \in {0, 1} /\ inToggle \in {0, 1} /\ bdOut.dts \in {0, 1} /\ outToggle \in {0, 1}
  BY DEF EndpointInv, EndpointTypeOK, Bd, Toggle
<1>2. CASE CdcTurn
  BY <1>2, CdcTurnLine, CdcTurnPc
<1>3. CASE ~CdcTurn
  <2>1. pic2pc' = pic2pc /\ pc2pic' = pc2pic /\ spoken' = spoken
    BY <1>3 DEF CdcNext, LineByte, LineShifted, PcWrites, CdcIn, CdcInAckLost, CdcOut, CdcOutAckLost,
       CdcReset, CdcConfigure, CdcHalt, CdcClears, CdcBroken, cdcVars, cdcMain, cdcEnds
  <2>2. CASE LineByte
    <3>1. UNCHANGED <<heard, pcNext, bdIn, hasIt, bdOut, offer, stored>>
      BY <2>2 DEF LineByte, exampleVars, endpointVars, movingVars, deviceVars, hostVars
    <3>2. Underway' = Underway /\ Fetchable' = Fetchable /\ Unstored' = Unstored
      BY <3>1 DEF Underway, Fetchable, Unstored
    <3>3. Chain(heard, Underway, pic2pc, rcFifo', lineNext')
      BY <2>2, ChainByte DEF LineByte
    <3>4. QED  BY <2>1, <3>1, <3>2, <3>3
  <2>3. CASE LineShifted
    <3>1. UNCHANGED <<heard, rcFifo, lineNext, pcNext, bdIn, hasIt, bdOut, offer, stored>>
      BY <2>3 DEF LineShifted, exampleVars, endpointVars, movingVars, deviceVars, hostVars, cdcEnds
    <3>2. Underway' = Underway /\ Fetchable' = Fetchable /\ Unstored' = Unstored
      BY <3>1 DEF Underway, Fetchable, Unstored
    <3>3. QED  BY <2>1, <3>1, <3>2
  <2>4. ASSUME NEW n \in 0 .. EP_2_LEN, PcWrites(n)
        PROVE  /\ Chain(heard', Underway', pic2pc', rcFifo', lineNext')
               /\ Chain(spoken', pc2pic', Fetchable', Unstored', pcNext')
    <3>1. /\ UNCHANGED <<heard, rcFifo, lineNext, bdIn, hasIt, bdOut>>
          /\ offer = NoReport /\ offer' = Numbered(pcNext, n) /\ stored' = FALSE
          /\ pcNext' = After(pcNext, n)
      BY <2>4 DEF PcWrites, HostOffers, deviceVars, cdcMain
    <3>2. n \in Nat /\ pcNext \in Byte
      BY CdcAssumption, ChainTypes
    <3>3. Numbered(pcNext, n) # NoReport
      <4>1. Numbered(pcNext, n) \in [1 .. n -> 0 .. Bytes - 1]
        BY <3>2, RunNumbered DEF Byte
      <4>2. QED  BY <4>1, CdcAssumption, EndpointAssumption
    <3>4. /\ Underway' = Underway /\ Fetchable' = Fetchable
          /\ Unstored = <<>> /\ Unstored' = Numbered(pcNext, n)
      BY <3>1, <3>3 DEF Underway, Fetchable, Unstored
    <3>5. Chain(spoken, pc2pic, Fetchable, Numbered(pcNext, n), After(pcNext, n))
      BY <3>2, <3>4, ChainPacket
    <3>6. QED  BY <2>1, <3>1, <3>4, <3>5
  <2>5. CASE CdcIn \/ CdcInAckLost
    <3>1. /\ UNCHANGED <<rcFifo, lineNext, pcNext, bdOut, offer, stored>>
          /\ bdIn.own = "sie" /\ Hears
      BY <2>5 DEF CdcIn, CdcInAckLost, InToken, InTokenAckLost, deviceVars, cdcMain
    <3>2. Fetchable' = Fetchable /\ Unstored' = Unstored
      BY <3>1 DEF Fetchable, Unstored
    <3>3. HostIsDue <=> ~hasIt
      BY <1>1, <3>1 DEF HostIsDue, EndpointInv, InInv
    <3>4. Underway' = <<>>
      <4>1. CASE CdcIn
        BY <4>1 DEF CdcIn, InToken, Idle, Underway
      <4>2. CASE CdcInAckLost
        <5>1. hasIt'
          BY <4>2 DEF CdcInAckLost, InTokenAckLost
        <5>2. QED  BY <5>1 DEF Underway
      <4>3. QED  BY <2>5, <4>1, <4>2
    <3>5. heard' = After(heard, Len(Underway))
      <4>1. CASE HostIsDue
        BY <3>1, <3>3, <4>1 DEF Hears, Underway
      <4>2. CASE ~HostIsDue
        <5>1. Underway = <<>> /\ heard' = heard /\ Len(<<>>) = 0
          BY <3>1, <3>3, <4>2 DEF Hears, Underway
        <5>2. heard \in Byte
          BY ChainTypes
        <5>3. QED  BY <5>1, <5>2, AfterFacts
      <4>3. QED  BY <4>1, <4>2
    <3>6. Chain(heard', Underway', pic2pc, rcFifo, lineNext)
      BY <3>4, <3>5, ChainLeaves
    <3>7. QED  BY <2>1, <3>1, <3>2, <3>6
  <2>6. CASE CdcOut \/ CdcOutAckLost
    <3>1. /\ UNCHANGED <<heard, rcFifo, lineNext, pcNext, bdIn, hasIt>>
          /\ bdOut.own = "sie" /\ offer # NoReport /\ EngineTakesOut
      BY <2>6 DEF CdcOut, CdcOutAckLost, OutToken, OutTokenAckLost, cdcVars, cdcMain, cdcEnds
    <3>2. Underway' = Underway
      BY <3>1 DEF Underway
    <3>3. EngineIsDue <=> ~stored
      BY <1>1, <3>1 DEF EngineIsDue, EndpointInv, OutInv, Repeating
    <3>4. Fetchable = <<>>
      BY <3>1 DEF Fetchable
    <3>5. Unstored' = <<>>
      <4>1. CASE CdcOut
        BY <4>1 DEF CdcOut, OutToken, Unstored
      <4>2. CASE CdcOutAckLost
        <5>1. stored'
          BY <4>2 DEF CdcOutAckLost, OutTokenAckLost, EngineIsDue
        <5>2. QED  BY <5>1 DEF Unstored
      <4>3. QED  BY <2>6, <4>1, <4>2
    <3>6. Fetchable' = Unstored
      <4>1. CASE stored
        BY <3>1, <3>3, <4>1 DEF EngineTakesOut, Fetchable, Unstored
      <4>2. CASE ~stored
        BY <3>1, <3>3, <4>2 DEF EngineTakesOut, Fetchable, Unstored
      <4>3. QED  BY <4>1, <4>2
    <3>7. Chain(spoken, pc2pic, Unstored, <<>>, pcNext)
      BY <3>4, ChainSecond
    <3>8. QED  BY <2>1, <3>1, <3>2, <3>5, <3>6, <3>7
  <2>7. CASE CdcReset \/ CdcConfigure \/ CdcHalt \/ CdcClears
    <3>1. /\ CdcBroken
          /\ BusReset \/ HostConfigures(TRUE) \/ HostHaltsIn \/ HostHaltsOut \/ HostClearsIn \/ HostClearsOut
      BY <2>7 DEF CdcReset, CdcConfigure, CdcHalt, CdcClears, CdcClear
    <3>2. QED  BY <2>1, <3>1, CdcBrokenStep
  <2>8. /\ Chain(heard', Underway', pic2pc', rcFifo', lineNext')
        /\ Chain(spoken', pc2pic', Fetchable', Unstored', pcNext')
    BY <1>3, <2>2, <2>3, <2>4, <2>5, <2>6, <2>7 DEF CdcNext
  <2>9. QED  BY <2>1, <2>8
<1>4. QED  BY <1>2, <1>3

LEMMA CdcInitInv == Init => CdcInv
<1> SUFFICES ASSUME Init, app = "minimalCDC" PROVE CdcInv
  BY DEF CdcInv
<1>1. EndpointInit /\ CdcInit
  BY Zenon DEF Init, ExampleInit
<1>2. newer
  BY DEF Init
<1>3. EndpointInv
  BY <1>1, EndpointInitInv
<1>4. /\ Underway = <<>> /\ Fetchable = <<>> /\ Unstored = <<>> /\ pic2pc = <<>> /\ rcFifo = <<>> /\ pc2pic = <<>>
      /\ heard = 0 /\ lineNext = 0 /\ spoken = 0 /\ pcNext = 0
  BY <1>1 DEF EndpointInit, CdcInit, Underway, Fetchable, Unstored, Idle, Armed
<1>5. 0 \in Byte /\ Len(<<>>) = 0 /\ 0 < EP_2_LEN
  BY CdcAssumption DEF Byte
<1>6. After(0, 0) = 0
  BY <1>5, AfterFacts
<1>7. Chain(0, <<>>, <<>>, <<>>, 0)
  BY <1>5, <1>6, RunEmpty DEF Chain
<1>8. QED  BY <1>2, <1>3, <1>4, <1>5, <1>7 DEF CdcInv

LEMMA CdcNextInv ==
  ASSUME CdcInv, [Next]_vars
  PROVE  CdcInv'
<1>1. app' = app /\ newer' = newer
  BY NothingElseMoves
<1> SUFFICES ASSUME app = "minimalCDC" PROVE CdcInv'
  BY <1>1 DEF CdcInv
<1>2. CASE CdcNext
  <2>1. WithByte \in Report
    <3>1. pic2pc \in Seq(Byte) /\ rcFifo \in Seq(Byte)
      BY ChainTypes DEF CdcInv
    <3>2. Len(pic2pc) < EP_2_LEN /\ EP_2_LEN \in Nat
      BY CdcAssumption DEF CdcInv
    <3>3. WithByte \in Seq(Byte) /\ Len(WithByte) <= EP_2_LEN
      <4>1. CASE TakesByte
        <5>1. Head(rcFifo) \in Byte
          BY <3>1, <4>1 DEF TakesByte
        <5>2. QED  BY <3>1, <3>2, <4>1, <5>1 DEF WithByte
      <4>2. CASE ~TakesByte
        BY <3>1, <3>2, <4>2 DEF WithByte
      <4>3. QED  BY <4>1, <4>2
    <3>4. QED  BY <3>3, PacketType
  <2>2. pcNext \in Byte
    BY ChainTypes DEF CdcInv
  <2>3. EndpointInv'
    BY <1>1, <1>2, <2>1, <2>2, CdcEndpointStep DEF CdcInv
  <2>4. QED  BY <1>1, <1>2, <2>3, CdcStep DEF CdcInv
<1>3. CASE UNCHANGED vars
  <2>1. UNCHANGED endpointVars
    BY <1>3 DEF vars, allMoving, endpointVars
  <2>2. UNCHANGED <<bdIn, hasIt, bdOut, offer, stored, heard, pic2pc, rcFifo, lineNext, spoken, pc2pic, pcNext>>
    BY <1>3 DEF vars, allMoving, movingVars, deviceVars, hostVars, appVars, cdcVars, cdcMain, cdcEnds
  <2>3. EndpointInv'
    BY <2>1, EndpointInvNext DEF CdcInv, ConfiguresOnce
  <2>4. Underway' = Underway /\ Fetchable' = Fetchable /\ Unstored' = Unstored
    BY <2>2 DEF Underway, Fetchable, Unstored
  <2>5. QED  BY <1>1, <2>2, <2>3, <2>4 DEF CdcInv
<1>4. QED  BY <1>2, <1>3, ExampleSteps DEF Mouse, Fob, Lock, Play, Hid, Cdc

(* Bytes leave minimalCDC in the order in which they came, each once, for   *)
(* packets of any size and any numbering of the bytes, however often the    *)
(* host breaks the pipe or configures the device.                           *)
THEOREM BytesCorrect == Spec => []BytesInOrder
<1>1. CdcInv /\ [Next]_vars => CdcInv'
  BY CdcNextInv
<1>2. CdcInv => BytesInOrder
  BY ChainOrder DEF CdcInv, BytesInOrder
<1>3. QED  BY CdcInitInv, <1>1, <1>2, PTL DEF Spec


-----------------------------------------------------------------------------
(* hidtest.                                                                 *)

(* The program has asked for the counter, and does not know otherwise.      *)
Asked == step = "reading" \/ (step = "toQuery" /\ offer = Query /\ stored)

(* A command or its reply is in one place, and the program is where it has  *)
(* sent the one and waits for the other.                                    *)
OfferInv ==
  offer # NoReport => (offer = Bump /\ step = "toBump") \/ (offer = Query /\ step = "toQuery")

CommandInv ==
  bdOut.own = "cpu" =>
    \/ bdOut.data = Bump /\ step = "toQuery" /\ ~Repeating
    \/ bdOut.data = Bump /\ step = "toBump" /\ Repeating
    \/ bdOut.data = Query /\ Asked

ReplyInv ==
  /\ Unseen => Asked /\ bdIn.data = Answer(counter) /\ inbox = <<>> /\ bdOut.own # "cpu"
  /\ inbox # <<>> => Asked /\ inbox = <<Answer(counter)>> /\ bdOut.own # "cpu"

TestInv == OfferInv /\ CommandInv /\ ReplyInv

LEMMA TestKept ==
  ASSUME TestInv, UNCHANGED <<step, offer, stored, inbox, counter>>,
         bdOut'.own = "cpu" => bdOut' = bdOut, Unseen' => Unseen /\ bdIn' = bdIn
  PROVE  TestInv'
<1>1. Answer(counter)' = Answer(counter) /\ Bump' = Bump /\ Query' = Query
  BY DEF Answer, Bump, Query
<1>2. (Asked' <=> Asked) /\ (Repeating' <=> Repeating)
  BY <1>1 DEF Asked, Repeating
<1>3. OfferInv'
  BY <1>1 DEF TestInv, OfferInv
<1>4. CommandInv'
  BY <1>1, <1>2 DEF TestInv, CommandInv
<1>5. ReplyInv'
  BY <1>1, <1>2 DEF TestInv, ReplyInv
<1>6. QED  BY <1>3, <1>4, <1>5 DEF TestInv

(* Nothing is on its way, and the program goes on or starts again.          *)
LEMMA TestQuiet ==
  ASSUME OfferInv', bdOut'.own # "cpu", ~Unseen', inbox' = <<>>
  PROVE  TestInv'
BY DEF TestInv, CommandInv, ReplyInv

LEMMA TestStep ==
  ASSUME OlderCopyInv, TestInv, ~ConfiguresAgain, ~KilledWaiting, HidNext
  PROVE  TestInv'
<1>1. /\ NoReport # Bump /\ NoReport # Query /\ Bump # Query
      /\ bdIn.dts \in {0, 1} /\ inToggle \in {0, 1} /\ bdOut.dts \in {0, 1} /\ outToggle \in {0, 1}
  BY HidAssumption, EndpointAssumption DEF Bump, Query, OlderCopyInv, EndpointInv, EndpointTypeOK,
     Bd, Toggle
<1>2. Bump' = Bump /\ Query' = Query
  BY DEF Bump, Query
<1>3. CASE HidTurn
  <2>1. /\ UNCHANGED <<step, offer, stored, inbox>> /\ bdOut.own = "cpu" /\ bdOut'.own = "sie"
        /\ MaySend
    BY <1>3 DEF HidTurn, testVars, hostVars, Armed
  <2>2. inbox = <<>> /\ ~Unseen
    BY <2>1 DEF TestInv, ReplyInv
  <2>3. OfferInv'
    BY <2>1, <1>2 DEF TestInv, OfferInv
  <2>4. CASE UNCHANGED <<bdIn, hasIt>>
    <3>1. ~Unseen'
      BY <2>2, <2>4 DEF Unseen
    <3>2. QED  BY <2>1, <2>2, <2>3, <3>1, TestQuiet
  <2>5. CASE bdOut.data = Query /\ bdIn' = Armed(flags.txDts, Answer(counter)) /\ counter' = counter
    <3>1. Asked
      BY <1>1, <2>1, <2>5 DEF TestInv, CommandInv
    <3>2. Asked'
      BY <2>1, <3>1, <1>2 DEF Asked
    <3>3. bdIn'.data = Answer(counter)'
      BY <2>5 DEF Armed, Answer
    <3>4. ReplyInv'
      BY <2>1, <2>2, <3>2, <3>3 DEF ReplyInv
    <3>5. CommandInv'
      BY <2>1 DEF CommandInv
    <3>6. QED  BY <2>3, <3>4, <3>5 DEF TestInv
  <2>6. QED  BY <1>3, <2>4, <2>5 DEF HidTurn
<1>4. CASE TestOpens \/ TestReadsFirst
  <2>1. /\ step \in {"closed", "opened"} /\ step' \in {"opened", "toBump"}
        /\ UNCHANGED <<bdOut, bdIn, hasIt, offer, stored, counter>>
    BY <1>4 DEF TestOpens, TestReadsFirst, exampleVars, endpointVars, movingVars, deviceVars, hostVars
  <2>2. ~Asked /\ offer = NoReport
    BY <2>1 DEF Asked, TestInv, OfferInv
  <2>3. bdOut.own # "cpu" /\ ~Unseen /\ inbox = <<>>
    BY <2>1, <2>2 DEF TestInv, CommandInv, ReplyInv
  <2>4. inbox' = <<>> /\ ~Unseen'
    BY <1>4, <2>1, <2>3 DEF TestOpens, TestReadsFirst, Unseen
  <2>5. OfferInv'
    BY <2>1, <2>2 DEF OfferInv
  <2>6. QED  BY <2>1, <2>3, <2>4, <2>5, TestQuiet
<1>5. CASE TestPrints \/ TestKilled
  <2>1. /\ UNCHANGED <<bdOut, bdIn, hasIt, offer, stored>> /\ step' = "closed" /\ inbox' = <<>>
    BY <1>5 DEF TestPrints, TestKilled, exampleVars, endpointVars, movingVars, deviceVars, hostVars
  <2>2. bdOut.own # "cpu" /\ ~Unseen /\ offer = NoReport
    <3>1. CASE TestPrints
      BY <3>1 DEF TestPrints, TestInv, ReplyInv, OfferInv
    <3>2. CASE TestKilled
      BY <3>2 DEF TestKilled, Unseen
    <3>3. QED  BY <1>5, <3>1, <3>2
  <2>3. ~Unseen' /\ OfferInv'
    BY <2>1, <2>2 DEF Unseen, OfferInv
  <2>4. QED  BY <2>1, <2>2, <2>3, TestQuiet
<1>6. ASSUME NEW r \in {Bump, Query}, TestWrites(r)  PROVE TestInv'
  <2>1. /\ UNCHANGED <<bdOut, bdIn, hasIt, step, inbox, counter>> /\ offer = NoReport /\ offer' = r /\ stored' = FALSE
        /\ (step = "toBump" /\ r = Bump) \/ (step = "toQuery" /\ r = Query)
    BY <1>6 DEF TestWrites, HostOffers, deviceVars, hidVars, testVars
  <2>2. ~Asked /\ ~Repeating /\ ~Repeating'
    BY <1>1, <2>1 DEF Asked, Repeating
  <2>3. inbox = <<>> /\ ~Unseen /\ ~Unseen'
    <3>1. inbox = <<>> /\ ~Unseen
      BY <2>2 DEF TestInv, ReplyInv
    <3>2. QED  BY <2>1, <3>1 DEF Unseen
  <2>4. OfferInv'
    BY <2>1, <1>2 DEF OfferInv
  <2>5. CommandInv'
    BY <2>1, <2>2, <1>2 DEF TestInv, CommandInv
  <2>6. ReplyInv'
    BY <2>1, <2>3 DEF ReplyInv
  <2>7. QED  BY <2>4, <2>5, <2>6 DEF TestInv
<1>7. CASE HidIn \/ HidInAckLost
  <2>1. UNCHANGED <<step, offer, stored, counter, bdOut>> /\ bdIn.own = "sie" /\ Queued
    BY <1>7 DEF HidIn, HidInAckLost, InToken, InTokenAckLost, deviceVars
  <2>2. HostIsDue <=> ~hasIt
    BY <1>1, <2>1 DEF HostIsDue, OlderCopyInv, EndpointInv, InInv
  <2>3. ~Unseen'
    <3>1. CASE HidIn
      BY <3>1 DEF HidIn, InToken, Idle, Unseen
    <3>2. CASE HidInAckLost
      <4>1. hasIt'
        BY <3>2 DEF HidInAckLost, InTokenAckLost
      <4>2. QED  BY <4>1 DEF Unseen
    <3>3. QED  BY <1>7, <3>1, <3>2
  <2>4. CASE ~HostIsDue
    BY <2>1, <2>3, <2>4, TestKept DEF Queued
  <2>5. CASE HostIsDue
    <3>1. Unseen
      BY <2>1, <2>2, <2>5 DEF Unseen
    <3>2. Asked /\ bdIn.data = Answer(counter) /\ inbox = <<>> /\ bdOut.own # "cpu"
      BY <3>1 DEF TestInv, ReplyInv
    <3>3. inbox' = <<Answer(counter)>>
      BY <2>1, <2>5, <3>2 DEF Queued
    <3>4. Asked' /\ Answer(counter)' = Answer(counter)
      BY <2>1, <3>2, <1>2 DEF Asked, Answer
    <3>5. ReplyInv'
      BY <2>1, <2>3, <3>2, <3>3, <3>4 DEF ReplyInv
    <3>6. OfferInv' /\ CommandInv'
      BY <2>1, <3>2, <1>2 DEF TestInv, OfferInv, CommandInv
    <3>7. QED  BY <3>5, <3>6 DEF TestInv
  <2>6. QED  BY <2>4, <2>5
<1>8. ASSUME bdOut.own = "sie", offer # NoReport
      PROVE  EngineIsDue <=> ~stored
  BY <1>1, <1>8 DEF OlderCopyInv, EndpointInv, OutInv, Repeating, EngineIsDue
<1>9. CASE HidOut
  <2>1. /\ bdOut.own = "sie" /\ offer # NoReport /\ EngineTakesOut /\ offer' = NoReport
        /\ UNCHANGED <<bdIn, hasIt, inbox, counter>>
    BY <1>9 DEF HidOut, OutToken
  <2>2. \/ offer = Bump /\ step = "toBump" /\ step' = "toQuery"
        \/ offer = Query /\ step = "toQuery" /\ step' = "reading"
    BY <1>9, <2>1 DEF TestInv, OfferInv, HidOut, Written
  <2>3. OfferInv' /\ ~Repeating'
    BY <2>1 DEF OfferInv, Repeating
  <2>4. CASE stored
    <3>1. bdOut' = bdOut
      BY <1>8, <2>1, <2>4 DEF EngineTakesOut
    <3>2. Asked => Asked'
      BY <1>1, <2>2 DEF Asked
    <3>3. (Unseen' <=> Unseen) /\ Answer(counter)' = Answer(counter)
      BY <2>1 DEF Unseen, Answer
    <3>4. CommandInv' /\ ReplyInv'
      BY <2>1, <3>1, <3>2, <3>3 DEF TestInv, CommandInv, ReplyInv
    <3>5. QED  BY <2>3, <3>4 DEF TestInv
  <2>5. CASE ~stored
    <3>1. bdOut'.own = "cpu" /\ bdOut'.data = offer
      BY <1>8, <2>1, <2>5 DEF EngineTakesOut
    <3>2. ~Asked
      BY <2>2, <2>5 DEF Asked
    <3>3. inbox = <<>> /\ ~Unseen
      BY <3>2 DEF TestInv, ReplyInv
    <3>4. inbox' = <<>> /\ ~Unseen'
      BY <2>1, <3>3 DEF Unseen
    <3>5. ReplyInv'
      BY <3>4 DEF ReplyInv
    <3>6. CommandInv'
      BY <2>2, <2>3, <3>1, <1>2 DEF CommandInv, Asked
    <3>7. QED  BY <2>3, <3>5, <3>6 DEF TestInv
  <2>6. QED  BY <2>4, <2>5
<1>10. CASE HidOutAckLost
  <2>1. /\ bdOut.own = "sie" /\ offer # NoReport /\ EngineTakesOut /\ EngineIsDue
        /\ UNCHANGED <<bdIn, hasIt, inbox, counter, step, offer>>
    BY <1>10 DEF HidOutAckLost, OutTokenAckLost, EngineIsDue, hostVars, hidVars, testVars
  <2>2. ~stored
    BY <1>8, <2>1
  <2>3. stored'
    BY <1>10, <2>1 DEF HidOutAckLost, OutTokenAckLost
  <2>4. bdOut'.own = "cpu" /\ bdOut'.data = offer
    BY <2>1 DEF EngineTakesOut
  <2>5. ~Asked
    BY <2>1, <2>2 DEF Asked, TestInv, OfferInv
  <2>6. inbox = <<>> /\ ~Unseen
    BY <2>5 DEF TestInv, ReplyInv
  <2>7. inbox' = <<>> /\ ~Unseen'
    BY <2>1, <2>6 DEF Unseen
  <2>8. ReplyInv'
    BY <2>7 DEF ReplyInv
  <2>9. OfferInv'
    BY <2>1, <1>2 DEF TestInv, OfferInv
  <2>10. Repeating'
    BY <2>1, <2>3 DEF Repeating
  <2>11. CommandInv'
    BY <2>1, <2>3, <2>4, <2>9, <2>10, <1>2 DEF CommandInv, Asked, OfferInv
  <2>12. QED  BY <2>8, <2>9, <2>11 DEF TestInv
<1>11. CASE HidConfigure
  <2>1. Fresh /\ UNCHANGED <<step, inbox, counter, bdIn, bdOut, offer>>
    BY <1>11 DEF HidConfigure, HostConfigures, SetConfiguration, OlderCopyInv, EndpointInv, ConfiguredInv,
       Fresh, hidVars, testVars
  <2>2. bdOut'.own = "sie" /\ bdIn'.own = "cpu" /\ offer = NoReport /\ offer' = NoReport
    BY <2>1 DEF Fresh, Idle, Armed
  <2>3. Asked => Asked'
    BY <1>1, <2>1, <2>2 DEF Asked
  <2>4. ~Unseen' /\ Answer(counter)' = Answer(counter)
    BY <2>1, <2>2 DEF Unseen, Answer
  <2>5. OfferInv' /\ CommandInv'
    BY <2>2 DEF OfferInv, CommandInv
  <2>6. ReplyInv'
    BY <2>1, <2>2, <2>3, <2>4 DEF TestInv, ReplyInv
  <2>7. QED  BY <2>5, <2>6 DEF TestInv
<1>12. CASE HidReset \/ HidHalt \/ HidClears
  <2>1. /\ inbox' = inbox /\ counter' = counter
        /\ step' = IF offer # NoReport /\ offer' = NoReport THEN Written ELSE step
    BY <1>12 DEF HidReset, HidHalt, HidClears, HidBroken
  <2>2. CASE BusReset \/ HostHaltsOut \/ (HostClearsOut /\ flags.outHalt)
    <3>1. offer' = NoReport /\ bdOut'.own # "cpu"
      BY <2>2 DEF BusReset, UsbInit, InitEndpoints, HostHaltsOut, HaltOut, Stalled, HostClearsOut,
         ClearOut, Armed
    <3>2. Asked => Asked'
      BY <1>1, <2>1, <3>1 DEF Asked, Written
    <3>3. Unseen' => Unseen /\ bdIn' = bdIn
      BY <2>2 DEF BusReset, UsbInit, InitEndpoints, HostHaltsOut, HaltOut, HostClearsOut, ClearOut,
         Idle, Unseen
    <3>4. OfferInv' /\ CommandInv'
      BY <3>1 DEF OfferInv, CommandInv
    <3>5. ReplyInv'
      <4>1. Answer(counter)' = Answer(counter)
        BY <2>1 DEF Answer
      <4>2. QED  BY <2>1, <3>1, <3>2, <3>3, <4>1 DEF TestInv, ReplyInv
    <3>6. QED  BY <3>4, <3>5 DEF TestInv
  <2>3. CASE HostHaltsIn \/ HostClearsIn
    <3>1. UNCHANGED <<offer, stored, bdOut>> /\ bdIn'.own # "sie"
      BY <2>3 DEF HostHaltsIn, HaltIn, HostClearsIn, ClearIn, Idle, Stalled, hostVars
    <3>2. ~Unseen' /\ step' = step
      BY <2>1, <3>1 DEF Unseen
    <3>3. QED  BY <2>1, <3>1, <3>2, TestKept
  <2>4. QED  BY <1>12, <2>2, <2>3 DEF HidReset, HidHalt, HidClears, HidClear
<1>13. QED  BY <1>3, <1>4, <1>5, <1>6, <1>7, <1>9, <1>10, <1>11, <1>12 DEF HidNext

HidTestInv == HidCountInv /\ (app = "customHID" => TestInv)

LEMMA HidTestInit == Init => HidTestInv
<1> SUFFICES ASSUME Init PROVE HidTestInv
  OBVIOUS
<1>1. EndpointInit /\ HidInit
  BY Zenon DEF Init, ExampleInit
<1>2. offer = NoReport /\ bdOut.own = "sie" /\ bdIn.own = "cpu" /\ inbox = <<>>
  BY <1>1 DEF EndpointInit, HidInit, Idle, Armed
<1>3. TestInv
  BY <1>2 DEF TestInv, OfferInv, CommandInv, ReplyInv, Unseen
<1>4. QED  BY <1>3, HidCountInit DEF HidTestInv

LEMMA HidTestNext ==
  ASSUME HidTestInv, ~ConfiguresAgain, ~KilledWaiting, [Next]_vars
  PROVE  HidTestInv'
<1>1. app' = app /\ HidCountInv'
  BY NothingElseMoves, HidCountNext DEF HidTestInv
<1> SUFFICES ASSUME app = "customHID" PROVE TestInv'
  BY <1>1 DEF HidTestInv
<1>2. CASE HidNext
  BY <1>2, TestStep DEF HidTestInv, HidCountInv
<1>3. CASE UNCHANGED vars
  <2>1. UNCHANGED <<step, offer, stored, inbox, counter, bdOut, bdIn, hasIt>>
    BY <1>3 DEF vars, allMoving, movingVars, deviceVars, hostVars, appVars, hidVars, testVars
  <2>2. Unseen' => Unseen
    BY <2>1 DEF Unseen
  <2>3. QED  BY <2>1, <2>2, TestKept DEF HidTestInv
<1>4. QED  BY <1>2, <1>3, ExampleSteps DEF Mouse, Fob, Lock, Play, Hid, Cdc

(* What hidtest prints counts its own increment and all before it, unless   *)
(* the program is killed while it waits (then its successor may take the    *)
(* reply that is still on its way for its own).                             *)
THEOREM PrintsCorrect ==
  ASSUME ~ConfiguresAgain, ~KilledWaiting
  PROVE  Spec => PrintsItsCount
<1>1. HidTestInv /\ [Next]_vars => HidTestInv'
  BY HidTestNext
<1>2. HidTestInv /\ [Next]_vars =>
        [step = "reading" /\ step' = "closed" /\ inbox # <<>> => Head(inbox)[2] = bumps]_step
  <2> SUFFICES ASSUME HidTestInv, [Next]_vars, step = "reading", step' = "closed", inbox # <<>>
               PROVE  Head(inbox)[2] = bumps
    OBVIOUS
  <2>1. app = "customHID"
    BY ExampleSteps DEF Mouse, Fob, Lock, Play, Hid, Cdc, hidVars, testVars, vars, allMoving, appVars
  <2>2. TestInv /\ Balanced /\ counter \in Counter /\ bumps \in Counter
    BY <2>1 DEF HidTestInv, HidCountInv
  <2>3. inbox = <<Answer(counter)>> /\ bdOut.own # "cpu"
    BY <2>2 DEF TestInv, ReplyInv
  <2>4. offer = NoReport
    BY <2>2 DEF TestInv, OfferInv
  <2>5. NoReport # Bump
    BY HidAssumption, EndpointAssumption
  <2>6. Held = 0 /\ Unconfirmed = 0
    BY <2>3, <2>4, <2>5 DEF Held, HoldsBump, Unconfirmed, BumpUnconfirmed, One
  <2>7. counter + 0 = counter /\ bumps + 0 = bumps
    BY <2>2, HidAssumption DEF Counter
  <2>8. counter = bumps
    BY <2>2, <2>6, <2>7, CountsAgree DEF Balanced
  <2>9. Head(inbox)[2] = counter
    BY <2>3 DEF Answer
  <2>10. QED  BY <2>8, <2>9
<1>3. QED  BY HidTestInit, <1>1, <1>2, PTL DEF Spec, PrintsItsCount

-----------------------------------------------------------------------------
(* hid_mouse.                                                               *)

(* main() is about to decide, or it has decided to send and has not given   *)
(* the buffer away; until latch it may still see any value of flags.        *)
Deciding == pc \in {"testHalted", "testBusy"}
Entering == pc \in {"enter", "enterHalted"}
Making   == pc \in {"fill", "latch", "arm"} \/ Entering

(* The toggle of the packet after the one in hand.                          *)
Ahead == IF pc \in {"arm", "flip"} THEN 1 - flags.txDts ELSE flags.txDts

(* What the interrupt may have done to a send that it met half way.         *)
PipeInv ==
  /\ configured = hostConfigured
  /\ ~configured => inToggle = 0 /\ ~flags.inHalt
  /\ Making => bdIn.own # "sie"
  /\ tokenDone /\ flags.inHalt => bdIn.own # "sie" /\ ~Making
  /\ bdIn.own = "sie" => IF hasIt THEN bdIn.dts # inToggle /\ Ahead = inToggle
                                  ELSE bdIn.dts = inToggle => Ahead # inToggle
  /\ pc = "arm" /\ pid = inToggle => Ahead # inToggle
  /\ ~configured /\ (Deciding \/ pc \in {"fill", "enter"}) => Ahead = inToggle /\ bdIn.own # "sie"
  /\ pc = "testBusy" /\ flags.inHalt => bdIn.own = "stall"

(* How many packets the host still drops before it takes one.               *)
ToSkip ==
  IF pc = "arm" /\ pid = inToggle THEN 0
  ELSE IF bdIn.own = "sie" /\ (bdIn.dts = inToggle \/ hasIt) THEN 0
  ELSE One(pc = "arm" \/ bdIn.own = "sie") + One(Ahead # inToggle)

SkipInv == skipped \in 0 .. 3 /\ skipped + ToSkip <= 2

WireType ==
  /\ configured \in BOOLEAN /\ hostConfigured \in BOOLEAN /\ hasIt \in BOOLEAN /\ tokenDone \in BOOLEAN
  /\ flags \in Flags /\ bdIn \in Bd
  /\ inToggle \in Toggle /\ pid \in Toggle
  /\ pc \in {"test", "testHalted", "testBusy", "fill", "enter", "enterHalted", "latch", "arm", "flip", "count"}
  /\ buf \in {-1, 0, 1} /\ xDirec \in {-1, 1}

WireInv == WireType /\ PipeInv /\ SkipInv

LEMMA ReportType == \A x \in {-1, 0, 1} : <<x>> \in Report /\ <<x>>[1] = x
BY MouseAssumption

LEMMA WireMain ==
  ASSUME WireInv, Main
  PROVE  WireInv'
<1> USE DEF Toggle, Deciding, Entering
<1>1. CASE Test
  <2>1. /\ pc = "test" /\ configured /\ pc' = "testHalted"
        /\ UNCHANGED <<configured, hostConfigured, hasIt, tokenDone, flags, bdIn, inToggle, pid,
                       skipped, buf, xDirec>>
    BY <1>1 DEF Test, Goes, exampleVars, endpointVars, movingVars, deviceVars, hostVars, countVars
  <2>2. WireType'
    BY <2>1 DEF WireInv, WireType
  <2>3. PipeInv' /\ SkipInv'
    BY <2>1 DEF WireInv, WireType, PipeInv, SkipInv, ToSkip, Making, Ahead, One
  <2>4. QED  BY <2>2, <2>3 DEF WireInv
<1>2. CASE TestHalted
  <2>1. /\ pc = "testHalted" /\ pc' = IF flags.inHalt THEN "test" ELSE "testBusy"
        /\ UNCHANGED <<configured, hostConfigured, hasIt, tokenDone, flags, bdIn, inToggle, pid,
                       skipped, buf, xDirec>>
    BY <1>2 DEF TestHalted, Goes, exampleVars, endpointVars, movingVars, deviceVars, hostVars, countVars
  <2>2. WireType'
    BY <2>1 DEF WireInv, WireType
  <2>3. PipeInv' /\ SkipInv'
    BY <2>1 DEF WireInv, WireType, PipeInv, SkipInv, ToSkip, Making, Ahead, One
  <2>4. QED  BY <2>2, <2>3 DEF WireInv
<1>3. CASE TestBusy
  <2>1. /\ pc = "testBusy" /\ pc' = IF bdIn.own = "cpu" THEN "fill" ELSE "test"
        /\ UNCHANGED <<configured, hostConfigured, hasIt, tokenDone, flags, bdIn, inToggle, pid,
                       skipped, buf, xDirec>>
    BY <1>3 DEF TestBusy, Goes, exampleVars, endpointVars, movingVars, deviceVars, hostVars, countVars
  <2>2. WireType'
    BY <2>1 DEF WireInv, WireType
  <2>3. PipeInv' /\ SkipInv'
    BY <2>1 DEF WireInv, WireType, PipeInv, SkipInv, ToSkip, Making, Ahead, One
  <2>4. QED  BY <2>2, <2>3 DEF WireInv
<1>4. CASE Fill
  <2>1. /\ pc = "fill" /\ pc' = "enter" /\ buf' \in {0, xDirec}
        /\ UNCHANGED <<configured, hostConfigured, hasIt, tokenDone, flags, bdIn, inToggle, pid,
                       skipped, xDirec>>
    BY <1>4 DEF Fill, exampleVars, endpointVars, movingVars, deviceVars, hostVars, countVars
  <2>2. WireType'
    BY <2>1 DEF WireInv, WireType
  <2>3. PipeInv' /\ SkipInv'
    BY <2>1 DEF WireInv, WireType, PipeInv, SkipInv, ToSkip, Making, Ahead, One
  <2>4. QED  BY <2>2, <2>3 DEF WireInv
<1>5. CASE Enter
  <2>1. /\ pc = "enter" /\ pc' = IF configured THEN "enterHalted" ELSE "count"
        /\ UNCHANGED <<configured, hostConfigured, hasIt, tokenDone, flags, bdIn, inToggle, pid,
                       skipped, buf, xDirec>>
    BY <1>5 DEF Enter, Goes, exampleVars, endpointVars, movingVars, deviceVars, hostVars, countVars
  <2>2. WireType'
    BY <2>1 DEF WireInv, WireType
  <2>3. PipeInv' /\ SkipInv'
    BY <2>1 DEF WireInv, WireType, PipeInv, SkipInv, ToSkip, Making, Ahead, One
  <2>4. QED  BY <2>2, <2>3 DEF WireInv
<1>6. CASE EnterHalted
  <2>1. /\ pc = "enterHalted" /\ pc' = IF flags.inHalt THEN "count" ELSE "latch"
        /\ UNCHANGED <<configured, hostConfigured, hasIt, tokenDone, flags, bdIn, inToggle, pid,
                       skipped, buf, xDirec>>
    BY <1>6 DEF EnterHalted, Goes, exampleVars, endpointVars, movingVars, deviceVars, hostVars, countVars
  <2>2. WireType'
    BY <2>1 DEF WireInv, WireType
  <2>3. PipeInv' /\ SkipInv'
    BY <2>1 DEF WireInv, WireType, PipeInv, SkipInv, ToSkip, Making, Ahead, One
  <2>4. QED  BY <2>2, <2>3 DEF WireInv
<1>7. CASE Latch
  <2>1. /\ pc = "latch" /\ pc' = "arm" /\ pid' = flags.txDts /\ bdIn' = Idle
        /\ UNCHANGED <<configured, hostConfigured, hasIt, tokenDone, flags, inToggle,
                       skipped, buf, xDirec>>
    BY <1>7 DEF Latch, exampleVars, endpointVars, movingVars, deviceVars, hostVars, countVars
  <2>2. WireType'
    BY <2>1, BdTypes DEF WireInv, WireType, Flags
  <2>3. bdIn'.own = "cpu" /\ flags.txDts \in {0, 1}
    BY <2>1 DEF Idle, WireInv, WireType, Flags
  <2>4. PipeInv' /\ SkipInv'
    BY <2>1, <2>3 DEF WireInv, WireType, PipeInv, SkipInv, ToSkip, Making, Ahead, One
  <2>5. QED  BY <2>2, <2>4 DEF WireInv
<1>8. CASE Arm
  <2>1. /\ pc = "arm" /\ pc' = "flip" /\ bdIn' = Armed(pid, <<buf>>) /\ hasIt' = FALSE
        /\ UNCHANGED <<configured, hostConfigured, tokenDone, flags, inToggle, pid,
                       skipped, buf, xDirec>>
    BY <1>8 DEF Arm, exampleVars, endpointVars, movingVars, deviceVars, hostVars, countVars
  <2>2. WireType'
    BY <2>1, BdTypes, ReportType DEF WireInv, WireType
  <2>3. bdIn'.own = "sie" /\ bdIn'.dts = pid
    BY <2>1 DEF Armed
  <2>4. PipeInv' /\ SkipInv'
    BY <2>1, <2>3 DEF WireInv, WireType, PipeInv, SkipInv, ToSkip, Making, Ahead, One
  <2>5. QED  BY <2>2, <2>4 DEF WireInv
<1>9. CASE Flip
  <2>1. /\ pc = "flip" /\ pc' = "count" /\ flags' = [flags EXCEPT !.txDts = 1 - @]
        /\ UNCHANGED <<configured, hostConfigured, hasIt, tokenDone, bdIn, inToggle, pid,
                       skipped, buf, xDirec>>
    BY <1>9 DEF Flip, exampleVars, endpointVars, movingVars, deviceVars, hostVars, countVars
  <2>2. flags'.txDts = 1 - flags.txDts /\ flags'.inHalt = flags.inHalt /\ flags' \in Flags
    BY <2>1 DEF WireInv, WireType, Flags
  <2>3. WireType'
    BY <2>1, <2>2 DEF WireInv, WireType
  <2>4. flags.txDts \in {0, 1}
    BY DEF WireInv, WireType, Flags
  <2>5. PipeInv' /\ SkipInv'
    BY <2>1, <2>2, <2>4 DEF WireInv, WireType, PipeInv, SkipInv, ToSkip, Making, Ahead, One
  <2>6. QED  BY <2>3, <2>5 DEF WireInv
<1>10. CASE Count
  <2>1. /\ pc = "count" /\ pc' = "test" /\ xDirec' \in {xDirec, -xDirec}
        /\ UNCHANGED <<configured, hostConfigured, hasIt, tokenDone, flags, bdIn, inToggle, pid,
                       skipped, buf>>
    BY <1>10 DEF Count, exampleVars, endpointVars, movingVars, deviceVars, hostVars, countVars
  <2>2. WireType'
    BY <2>1 DEF WireInv, WireType
  <2>3. PipeInv' /\ SkipInv'
    BY <2>1 DEF WireInv, WireType, PipeInv, SkipInv, ToSkip, Making, Ahead, One
  <2>4. QED  BY <2>2, <2>3 DEF WireInv
<1>11. QED  BY <1>1, <1>2, <1>3, <1>4, <1>5, <1>6, <1>7, <1>8, <1>9, <1>10 DEF Main

LEMMA WireHost ==
  ASSUME WireInv, ~newer, ~ConfiguresAgain,
         \/ InTransaction \/ InTransactionAckLost \/ ServiceIn \/ UsbReset \/ Configure \/ Halt
         \/ Clear \/ ClearStalled
  PROVE  WireInv'
<1> USE DEF Toggle, Deciding, Entering
<1>1. flags.txDts \in {0, 1} /\ bdIn.dts \in {0, 1} /\ flags.inHalt \in BOOLEAN
  BY DEF WireInv, WireType, Flags, Bd
<1>2. CASE InTransaction
  <2>1. /\ ~tokenDone /\ tokenDone' /\ hostConfigured /\ bdIn.own = "sie" /\ bdIn' = Idle
        /\ hasIt' = FALSE
        /\ UNCHANGED <<pc, configured, hostConfigured, flags, pid, buf, xDirec>>
    BY <1>2 DEF InTransaction, InToken, mainVars
  <2>2. inToggle' = IF bdIn.dts = inToggle THEN 1 - inToggle ELSE inToggle
    BY <1>2 DEF InTransaction, InToken, HostTakesIn, HostIsDue
  <2>3. skipped' = IF bdIn.dts = inToggle \/ hasIt THEN 0 ELSE IF skipped = 3 THEN 3 ELSE skipped + 1
    BY <1>2 DEF InTransaction, Moves, HostIsDue
  <2>4. inToggle' \in {0, 1}
    BY <2>2 DEF WireInv, WireType
  <2>5. WireType'
    BY <2>1, <2>4, BdTypes DEF WireInv, WireType
  <2>6. bdIn'.own = "cpu"
    BY <2>1 DEF Idle
  <2>7. PipeInv'
    BY <1>1, <2>1, <2>2, <2>6 DEF WireInv, WireType, PipeInv, Making, Ahead
  <2>8. SkipInv'
    BY <1>1, <2>1, <2>2, <2>3, <2>6 DEF WireInv, WireType, PipeInv, SkipInv, ToSkip, Making, Ahead, One
  <2>9. QED  BY <2>5, <2>7, <2>8 DEF WireInv
<1>3. CASE InTransactionAckLost
  <2>1. /\ ~tokenDone /\ hostConfigured /\ bdIn.own = "sie" /\ bdIn.dts = inToggle
        /\ hasIt' = TRUE /\ inToggle' = 1 - inToggle /\ skipped' = 0
        /\ UNCHANGED <<pc, configured, hostConfigured, flags, bdIn, pid, buf, xDirec, tokenDone>>
    BY <1>3 DEF InTransactionAckLost, InTokenAckLost, HostTakesIn, HostIsDue, Moves, mainVars, deviceVars,
       WireInv, WireType
  <2>2. WireType'
    BY <2>1 DEF WireInv, WireType
  <2>3. PipeInv' /\ SkipInv'
    BY <1>1, <2>1 DEF WireInv, WireType, PipeInv, SkipInv, ToSkip, Making, Ahead, One
  <2>4. QED  BY <2>2, <2>3 DEF WireInv
<1>4. CASE ServiceIn
  <2>1. /\ tokenDone /\ tokenDone' = FALSE /\ bdIn' = IF flags.inHalt THEN Stalled ELSE bdIn
        /\ UNCHANGED <<pc, configured, hostConfigured, flags, pid, buf, xDirec, hasIt, inToggle, skipped>>
    BY <1>4 DEF ServiceIn, mainVars, countVars, hostVars
  <2>2. WireType'
    BY <2>1, BdTypes DEF WireInv, WireType
  <2>3. CASE flags.inHalt
    <3>1. bdIn'.own = "stall" /\ bdIn.own # "sie" /\ ~Making
      BY <2>1, <2>3 DEF Stalled, WireInv, PipeInv
    <3>2. PipeInv' /\ SkipInv'
      BY <1>1, <2>1, <2>3, <3>1 DEF WireInv, WireType, PipeInv, SkipInv, ToSkip, Making, Ahead, One
    <3>3. QED  BY <2>2, <3>2 DEF WireInv
  <2>4. CASE ~flags.inHalt
    <3>1. PipeInv' /\ SkipInv'
      BY <1>1, <2>1, <2>4 DEF WireInv, WireType, PipeInv, SkipInv, ToSkip, Making, Ahead, One
    <3>2. QED  BY <2>2, <3>1 DEF WireInv
  <2>5. QED  BY <2>3, <2>4
<1>5. CASE UsbReset
  <2>1. /\ configured' = FALSE /\ hostConfigured' = FALSE /\ flags' = InitFlags /\ bdIn' = Idle
        /\ inToggle' = 0 /\ hasIt' = FALSE /\ tokenDone' = FALSE /\ skipped' = 0
        /\ UNCHANGED <<pc, pid, buf, xDirec>>
    BY <1>5 DEF UsbReset, BusReset, UsbInit, InitEndpoints, MouseBreaks, mainVars
  <2>2. WireType'
    BY <2>1, BdTypes, FlagTypes DEF WireInv, WireType
  <2>3. bdIn'.own = "cpu" /\ flags'.txDts = 0 /\ ~flags'.inHalt
    BY <2>1 DEF Idle, InitFlags
  <2>4. PipeInv' /\ SkipInv'
    <3>1. configured' = hostConfigured' /\ ~tokenDone' /\ inToggle' = 0 /\ skipped' = 0
      BY <2>1
    <3>2. ~Making' \/ bdIn'.own # "sie"
      BY <2>3
    <3>3. pc' = pc /\ pid' = pid /\ Ahead' = IF pc \in {"arm", "flip"} THEN 1 ELSE 0
      BY <2>1, <2>3 DEF Ahead
    <3>4. PipeInv'
      BY <2>3, <3>1, <3>2, <3>3 DEF PipeInv
    <3>5. SkipInv'
      BY <2>3, <3>1, <3>3 DEF SkipInv, ToSkip, One
    <3>6. QED  BY <3>4, <3>5
  <2>5. QED  BY <2>2, <2>4 DEF WireInv
<1>6. CASE Configure
  <2>1. /\ ~hostConfigured /\ configured' = TRUE /\ hostConfigured' = TRUE /\ inToggle' = 0
        /\ hasIt' = hasIt
        /\ UNCHANGED <<pc, pid, buf, xDirec, tokenDone, skipped, flags, bdIn>>
    BY <1>6 DEF Configure, HostConfigures, SetConfiguration, mouseVars, mainVars, countVars,
       WireInv, WireType
  <2>2. WireType'
    BY <2>1 DEF WireInv, WireType
  <2>3. PipeInv' /\ SkipInv'
    BY <1>1, <2>1 DEF WireInv, WireType, PipeInv, SkipInv, ToSkip, Making, Ahead, One
  <2>4. QED  BY <2>2, <2>3 DEF WireInv
<1>7. CASE Halt
  <2>1. /\ ~tokenDone /\ hostConfigured /\ flags' = [flags EXCEPT !.inHalt = TRUE] /\ bdIn' = Stalled
        /\ hasIt' = FALSE /\ skipped' = 0
        /\ UNCHANGED <<pc, pid, buf, xDirec, tokenDone, configured, hostConfigured, inToggle>>
    BY <1>7 DEF Halt, HostHaltsIn, HaltIn, MouseBreaks, mainVars, hostVars
  <2>2. WireType'
    BY <2>1, BdTypes, FlagTypes DEF WireInv, WireType
  <2>3. bdIn'.own = "stall" /\ flags'.txDts = flags.txDts
    BY <2>1 DEF Stalled, WireInv, WireType, Flags
  <2>4. PipeInv' /\ SkipInv'
    BY <1>1, <2>1, <2>3 DEF WireInv, WireType, PipeInv, SkipInv, ToSkip, Making, Ahead, One
  <2>5. QED  BY <2>2, <2>4 DEF WireInv
<1>8. CASE Clear \/ ClearStalled
  <2>1. /\ ~tokenDone /\ hostConfigured /\ bdIn' = Idle
        /\ flags' = [flags EXCEPT !.inHalt = FALSE, !.txDts = 0]
        /\ inToggle' = 0 /\ hasIt' = FALSE /\ skipped' = 0
        /\ UNCHANGED <<pc, pid, buf, xDirec, tokenDone, configured, hostConfigured>>
    BY <1>8 DEF Clear, ClearStalled, HostClearsIn, ClearIn, MouseBreaks, mainVars
  <2>2. WireType'
    BY <2>1, BdTypes, FlagTypes DEF WireInv, WireType
  <2>3. bdIn'.own = "cpu" /\ flags'.txDts = 0 /\ ~flags'.inHalt
    BY <2>1 DEF Idle, WireInv, WireType, Flags
  <2>4. PipeInv' /\ SkipInv'
    BY <1>1, <2>1, <2>3 DEF WireInv, WireType, PipeInv, SkipInv, ToSkip, Making, Ahead, One
  <2>5. QED  BY <2>2, <2>4 DEF WireInv
<1>9. QED  BY <1>2, <1>3, <1>4, <1>5, <1>6, <1>7, <1>8


-----------------------------------------------------------------------------
(* The pointer.                                                             *)

(* How far main() has drawn, how much of that the report in hand carries,   *)
(* and whether that report, or else the next one, will be lost.             *)
Due == IF delay = 0 THEN xDirec ELSE 0
Line == (IF xDirec = 1 THEN Steps - xCount ELSE xCount) + Due
Carried == IF Entering \/ pc \in {"latch", "arm"} THEN buf ELSE IF Unseen THEN bdIn.data[1] ELSE 0

Its == IF pc = "arm" THEN pid ELSE flags.txDts
WillBeLost ==
  \/ Making /\ (Its # inToggle \/ flags.inHalt \/ (~configured /\ pc \in {"fill", "enter"}))
  \/ Unseen /\ (bdIn.dts # inToggle \/ flags.inHalt)
NextWillBeLost ==
  IF flags.inHalt THEN pc \in {"latch", "arm", "flip"}
  ELSE \/ ~configured /\ Deciding
       \/ /\ pc \notin {"fill", "latch"} /\ ~Entering /\ Ahead # inToggle
          /\ pc = "arm" => pid # inToggle
          /\ Unseen => bdIn.dts # inToggle

ThisMoves == IF pc = "fill" THEN delay = 1 ELSE Carried # 0
NextMoves == (IF delay = 0 THEN Pause ELSE delay) = 1
AtStake == One((WillBeLost /\ ThisMoves) \/ (NextWillBeLost /\ NextMoves))

Testing == pc = "test" \/ Deciding

DrawInv ==
  /\ xCount \in 1 .. Steps /\ delay \in 0 .. Pause /\ pointer \in Int /\ broken \in Nat
  /\ Testing \/ pc = "fill" => delay # 0
  /\ Entering \/ pc \in {"latch", "arm"} => buf = Due
  /\ Unseen => bdIn.data[1] \in {-1, 0, 1}
  /\ Unseen /\ Testing /\ bdIn.data[1] # 0 => delay = Pause
  /\ Unseen /\ ~Testing => bdIn.data[1] = Due
  /\ Line - Carried \in 0 .. Steps

Lost == Line - Carried - pointer
LostInv == Lost + AtStake <= broken /\ AtStake - Lost <= broken

LEMMA LineMain ==
  ASSUME WireInv, DrawInv, LostInv, Main, Pause >= 2
  PROVE  DrawInv' /\ LostInv'
<1> USE DEF Toggle, Testing, Deciding, Entering
<1>1. /\ flags.txDts \in {0, 1} /\ bdIn.dts \in {0, 1} /\ flags.inHalt \in BOOLEAN
      /\ Steps \in Nat \ {0} /\ Pause \in Nat \ {0}
  BY MouseAssumption DEF WireInv, WireType, Flags, Bd
<1>2. CASE Test
  <2>1. /\ pc = "test" /\ configured /\ pc' = "testHalted"
        /\ UNCHANGED <<configured, hasIt, flags, bdIn, inToggle, pid, buf, xCount, delay, xDirec,
                      pointer, broken>>
    BY <1>2 DEF Test, Goes, exampleVars, endpointVars, movingVars, deviceVars, hostVars, countVars
  <2>2. DrawInv'
    BY <1>1, <2>1 DEF DrawInv, Unseen, Line, Due, Carried
  <2>3. LostInv'
    BY <1>1, <2>1 DEF WireInv, WireType, PipeInv, DrawInv, LostInv, Lost, AtStake, One, WillBeLost,
       NextWillBeLost,
       ThisMoves, NextMoves, Making, Its, Ahead, Unseen, Line, Due, Carried
  <2>4. QED  BY <2>2, <2>3
<1>3. CASE TestHalted
  <2>1. /\ pc = "testHalted" /\ pc' = IF flags.inHalt THEN "test" ELSE "testBusy"
        /\ UNCHANGED <<configured, hasIt, flags, bdIn, inToggle, pid, buf, xCount, delay, xDirec,
                      pointer, broken>>
    BY <1>3 DEF TestHalted, Goes, exampleVars, endpointVars, movingVars, deviceVars, hostVars, countVars
  <2>2. DrawInv'
    BY <1>1, <2>1 DEF DrawInv, Unseen, Line, Due, Carried
  <2>3. LostInv'
    BY <1>1, <2>1 DEF WireInv, WireType, PipeInv, DrawInv, LostInv, Lost, AtStake, One, WillBeLost,
       NextWillBeLost,
       ThisMoves, NextMoves, Making, Its, Ahead, Unseen, Line, Due, Carried
  <2>4. QED  BY <2>2, <2>3
<1>4. CASE TestBusy
  <2>1. /\ pc = "testBusy" /\ pc' = IF bdIn.own = "cpu" THEN "fill" ELSE "test"
        /\ UNCHANGED <<configured, hasIt, flags, bdIn, inToggle, pid, buf, xCount, delay, xDirec,
                      pointer, broken>>
    BY <1>4 DEF TestBusy, Goes, exampleVars, endpointVars, movingVars, deviceVars, hostVars, countVars
  <2>2. DrawInv'
    BY <1>1, <2>1 DEF DrawInv, Unseen, Line, Due, Carried
  <2>3. LostInv'
    BY <1>1, <2>1 DEF WireInv, WireType, PipeInv, DrawInv, LostInv, Lost, AtStake, One, WillBeLost,
       NextWillBeLost,
       ThisMoves, NextMoves, Making, Its, Ahead, Unseen, Line, Due, Carried
  <2>4. QED  BY <2>2, <2>3
<1>5. CASE Fill
  <2>1. /\ pc = "fill" /\ pc' = "enter" /\ delay' = delay - 1 /\ buf' = IF delay' # 0 THEN 0 ELSE xDirec
        /\ UNCHANGED <<configured, hasIt, flags, bdIn, inToggle, pid, xCount, xDirec, pointer, broken>>
    BY <1>5 DEF Fill, exampleVars, endpointVars, movingVars, deviceVars, hostVars, countVars
  <2>2. ~Unseen
    BY <2>1 DEF WireInv, PipeInv, Making, Unseen
  <2>3. DrawInv'
    BY <1>1, <2>1, <2>2 DEF DrawInv, Unseen, Line, Due, Carried, WireInv, WireType
  <2>4. LostInv'
    BY <1>1, <2>1, <2>2 DEF WireInv, WireType, DrawInv, LostInv, Lost, AtStake, One, WillBeLost,
       NextWillBeLost,
       ThisMoves, NextMoves, Making, Its, Ahead, Unseen, Line, Due, Carried
  <2>5. QED  BY <2>3, <2>4
<1>6. CASE Enter
  <2>1. /\ pc = "enter" /\ pc' = IF configured THEN "enterHalted" ELSE "count"
        /\ UNCHANGED <<configured, hasIt, flags, bdIn, inToggle, pid, buf, xCount, delay, xDirec,
                      pointer, broken>>
    BY <1>6 DEF Enter, Goes, exampleVars, endpointVars, movingVars, deviceVars, hostVars, countVars
  <2>2. ~Unseen
    BY <2>1 DEF WireInv, PipeInv, Making, Unseen
  <2>3. DrawInv'
    BY <1>1, <2>1, <2>2 DEF DrawInv, Unseen, Line, Due, Carried, WireInv, WireType
  <2>4. LostInv'
    BY <1>1, <2>1, <2>2 DEF WireInv, WireType, PipeInv, DrawInv, LostInv, Lost, AtStake, One,
       WillBeLost, NextWillBeLost,
       ThisMoves, NextMoves, Making, Its, Ahead, Unseen, Line, Due, Carried
  <2>5. QED  BY <2>3, <2>4
<1>7. CASE EnterHalted
  <2>1. /\ pc = "enterHalted" /\ pc' = IF flags.inHalt THEN "count" ELSE "latch"
        /\ UNCHANGED <<configured, hasIt, flags, bdIn, inToggle, pid, buf, xCount, delay, xDirec,
                      pointer, broken>>
    BY <1>7 DEF EnterHalted, Goes, exampleVars, endpointVars, movingVars, deviceVars, hostVars, countVars
  <2>2. ~Unseen
    BY <2>1 DEF WireInv, PipeInv, Making, Unseen
  <2>3. DrawInv'
    BY <1>1, <2>1, <2>2 DEF DrawInv, Unseen, Line, Due, Carried, WireInv, WireType
  <2>4. LostInv'
    BY <1>1, <2>1, <2>2 DEF WireInv, WireType, PipeInv, DrawInv, LostInv, Lost, AtStake, One,
       WillBeLost, NextWillBeLost,
       ThisMoves, NextMoves, Making, Its, Ahead, Unseen, Line, Due, Carried
  <2>5. QED  BY <2>3, <2>4
<1>8. CASE Latch
  <2>1. /\ pc = "latch" /\ pc' = "arm" /\ pid' = flags.txDts /\ bdIn' = Idle
        /\ UNCHANGED <<configured, hasIt, flags, inToggle, buf, xCount, delay, xDirec, pointer, broken>>
    BY <1>8 DEF Latch, exampleVars, endpointVars, movingVars, deviceVars, hostVars, countVars
  <2>2. ~Unseen /\ ~Unseen'
    BY <2>1 DEF WireInv, PipeInv, Making, Unseen, Idle
  <2>3. DrawInv'
    BY <1>1, <2>1, <2>2 DEF DrawInv, Line, Due, Carried, WireInv, WireType
  <2>4. LostInv'
    BY <1>1, <2>1, <2>2 DEF WireInv, WireType, DrawInv, LostInv, Lost, AtStake, One, WillBeLost,
       NextWillBeLost,
       ThisMoves, NextMoves, Making, Its, Ahead, Line, Due, Carried
  <2>5. QED  BY <2>3, <2>4
<1>9. CASE Arm
  <2>1. /\ pc = "arm" /\ pc' = "flip" /\ bdIn' = Armed(pid, <<buf>>) /\ hasIt' = FALSE
        /\ UNCHANGED <<configured, flags, inToggle, pid, buf, xCount, delay, xDirec, pointer, broken>>
    BY <1>9 DEF Arm, exampleVars, endpointVars, movingVars, deviceVars, hostVars, countVars
  <2>2. ~Unseen /\ Unseen' /\ bdIn'.dts = pid /\ bdIn'.data[1] = buf
    BY <2>1 DEF WireInv, PipeInv, Making, Unseen, Armed
  <2>3. DrawInv'
    BY <1>1, <2>1, <2>2 DEF DrawInv, Line, Due, Carried, WireInv, WireType
  <2>4. LostInv'
    BY <1>1, <2>1, <2>2 DEF WireInv, WireType, DrawInv, LostInv, Lost, AtStake, One, WillBeLost,
       NextWillBeLost,
       ThisMoves, NextMoves, Making, Its, Ahead, Line, Due, Carried
  <2>5. QED  BY <2>3, <2>4
<1>10. CASE Flip
  <2>1. /\ pc = "flip" /\ pc' = "count" /\ flags' = [flags EXCEPT !.txDts = 1 - @]
        /\ UNCHANGED <<configured, hasIt, bdIn, inToggle, pid, buf, xCount, delay, xDirec, pointer, broken>>
    BY <1>10 DEF Flip, exampleVars, endpointVars, movingVars, deviceVars, hostVars, countVars
  <2>2. flags'.txDts = 1 - flags.txDts /\ flags'.inHalt = flags.inHalt
    BY <2>1 DEF WireInv, WireType, Flags
  <2>3. DrawInv'
    BY <1>1, <2>1, <2>2 DEF DrawInv, Line, Due, Carried, Unseen, WireInv, WireType
  <2>4. LostInv'
    BY <1>1, <2>1, <2>2 DEF WireInv, WireType, DrawInv, LostInv, Lost, AtStake, One, WillBeLost,
       NextWillBeLost,
       ThisMoves, NextMoves, Making, Its, Ahead, Unseen, Line, Due, Carried
  <2>5. QED  BY <2>3, <2>4
<1>11. CASE Count
  <2>1. /\ pc = "count" /\ pc' = "test"
        /\ IF delay = 0
             THEN /\ delay' = Pause
                  /\ xCount' = IF xCount = 1 THEN Steps ELSE xCount - 1
                  /\ xDirec' = IF xCount = 1 THEN -xDirec ELSE xDirec
             ELSE UNCHANGED <<delay, xCount, xDirec>>
        /\ UNCHANGED <<configured, hasIt, flags, bdIn, inToggle, pid, buf, pointer, broken>>
    BY <1>11 DEF Count, exampleVars, endpointVars, movingVars, deviceVars, hostVars, countVars
  <2>2. Line' = Line
    BY <1>1, <2>1 DEF DrawInv, Line, Due, WireInv, WireType
  <2>3. DrawInv'
    BY <1>1, <2>1, <2>2 DEF DrawInv, Due, Carried, Unseen, WireInv, WireType
  <2>4. LostInv'
    BY <1>1, <2>1, <2>2 DEF WireInv, WireType, DrawInv, LostInv, Lost, AtStake, One, WillBeLost,
       NextWillBeLost,
       ThisMoves, NextMoves, Making, Its, Ahead, Unseen, Carried
  <2>5. QED  BY <2>3, <2>4
<1>12. QED  BY <1>2, <1>3, <1>4, <1>5, <1>6, <1>7, <1>8, <1>9, <1>10, <1>11 DEF Main


LEMMA LineHost ==
  ASSUME WireInv, DrawInv, LostInv, Pause >= 2, ~newer, ~ConfiguresAgain,
         \/ InTransaction \/ InTransactionAckLost \/ ServiceIn \/ UsbReset \/ Configure \/ Halt
         \/ Clear \/ ClearStalled
  PROVE  DrawInv' /\ LostInv'
<1> USE DEF Toggle, Testing, Deciding, Entering
<1>1. /\ flags.txDts \in {0, 1} /\ bdIn.dts \in {0, 1} /\ flags.inHalt \in BOOLEAN
      /\ Steps \in Nat \ {0} /\ Pause \in Nat \ {0}
  BY MouseAssumption DEF WireInv, WireType, Flags, Bd
<1>2. CASE InTransaction
  <2>1. /\ hostConfigured /\ bdIn.own = "sie" /\ bdIn' = Idle /\ hasIt' = FALSE
        /\ UNCHANGED <<pc, configured, flags, pid, buf, xCount, delay, xDirec, broken>>
    BY <1>2 DEF InTransaction, InToken, Moves, mainVars
  <2>2. inToggle' = IF bdIn.dts = inToggle THEN 1 - inToggle ELSE inToggle
    BY <1>2 DEF InTransaction, InToken, HostTakesIn, HostIsDue
  <2>3. pointer' = IF bdIn.dts = inToggle THEN pointer + bdIn.data[1] ELSE pointer
    BY <1>2 DEF InTransaction, Moves, HostIsDue
  <2>4. ~Unseen' /\ ~Making
    BY <2>1 DEF Unseen, Idle, WireInv, PipeInv
  <2>5. Unseen \/ bdIn.dts # inToggle
    BY <2>1 DEF Unseen, WireInv, WireType, PipeInv
  <2>6. Unseen => bdIn.data[1] \in {-1, 0, 1}
    BY DEF DrawInv
  <2>7. DrawInv'
    BY <1>1, <2>1, <2>3, <2>4, <2>5, <2>6 DEF DrawInv, Line, Due, Carried, WireInv, WireType, Making
  <2>8. LostInv'
    <3>1. CASE bdIn.dts = inToggle
      <4>1. Unseen /\ inToggle' = 1 - inToggle /\ pointer' = pointer + bdIn.data[1]
        BY <2>2, <2>3, <2>5, <3>1
      <4>2. QED
        BY <1>1, <2>1, <2>4, <2>6, <3>1, <4>1 DEF WireInv, WireType, PipeInv, DrawInv, LostInv, Lost,
           AtStake, One, WillBeLost,
         NextWillBeLost, ThisMoves, NextMoves, Making, Its, Ahead, Line, Due, Carried
    <3>2. CASE bdIn.dts # inToggle /\ Unseen
      <4>1. inToggle' = inToggle /\ pointer' = pointer
        BY <2>2, <2>3, <3>2
      <4>2. QED
        BY <1>1, <2>1, <2>4, <2>6, <3>2, <4>1 DEF WireInv, WireType, PipeInv, DrawInv, LostInv, Lost,
           AtStake, One, WillBeLost,
         NextWillBeLost, ThisMoves, NextMoves, Making, Its, Ahead, Line, Due, Carried
    <3>3. CASE bdIn.dts # inToggle /\ ~Unseen
      <4>1. inToggle' = inToggle /\ pointer' = pointer
        BY <2>2, <2>3, <3>3
      <4>2. QED
        BY <1>1, <2>1, <2>4, <3>3, <4>1 DEF WireInv, WireType, PipeInv, DrawInv, LostInv, Lost,
           AtStake, One, WillBeLost,
         NextWillBeLost, ThisMoves, NextMoves, Making, Its, Ahead, Line, Due, Carried
    <3>4. QED  BY <3>1, <3>2, <3>3
  <2>9. QED  BY <2>7, <2>8
<1>3. CASE InTransactionAckLost
  <2>1. /\ bdIn.own = "sie" /\ bdIn.dts = inToggle /\ hasIt' = TRUE /\ inToggle' = 1 - inToggle
        /\ pointer' = pointer + bdIn.data[1]
        /\ UNCHANGED <<pc, configured, flags, bdIn, pid, buf, xCount, delay, xDirec, broken>>
    BY <1>3 DEF InTransactionAckLost, InTokenAckLost, HostTakesIn, HostIsDue, Moves, mainVars, deviceVars,
       WireInv, WireType
  <2>2. Unseen /\ ~Unseen' /\ ~Making
    BY <2>1 DEF Unseen, WireInv, WireType, PipeInv
  <2>3. DrawInv'
    BY <1>1, <2>1, <2>2 DEF DrawInv, Line, Due, Carried, WireInv, WireType, Making
  <2>4. LostInv'
    BY <1>1, <2>1, <2>2 DEF WireInv, WireType, PipeInv, DrawInv, LostInv, Lost, AtStake, One,
       WillBeLost, NextWillBeLost,
       ThisMoves, NextMoves, Making, Its, Ahead, Line, Due, Carried
  <2>5. QED  BY <2>3, <2>4
<1>4. CASE ServiceIn
  <2>1. /\ tokenDone /\ bdIn' = IF flags.inHalt THEN Stalled ELSE bdIn
        /\ UNCHANGED <<pc, configured, flags, pid, buf, xCount, delay, xDirec, hasIt, inToggle,
                      pointer, broken>>
    BY <1>4 DEF ServiceIn, mainVars, countVars, hostVars
  <2>2. CASE flags.inHalt
    <3>1. ~Unseen /\ ~Unseen' /\ ~Making
      BY <2>1, <2>2 DEF Unseen, Stalled, WireInv, PipeInv
    <3>2. DrawInv'
      BY <1>1, <2>1, <3>1 DEF DrawInv, Line, Due, Carried, WireInv, WireType, Making
    <3>3. LostInv'
      BY <1>1, <2>1, <3>1 DEF WireInv, WireType, PipeInv, DrawInv, LostInv, Lost, AtStake, One,
         WillBeLost, NextWillBeLost,
       ThisMoves, NextMoves, Making, Its, Ahead, Line, Due, Carried
    <3>4. QED  BY <3>2, <3>3
  <2>3. CASE ~flags.inHalt
    <3>1. bdIn' = bdIn
      BY <2>1, <2>3
    <3>2. DrawInv'
      BY <2>1, <3>1 DEF DrawInv, Line, Due, Carried, Unseen
    <3>3. LostInv'
      BY <1>1, <2>1, <3>1 DEF Unseen, DrawInv, LostInv, Lost, AtStake, One, WillBeLost, NextWillBeLost,
       ThisMoves, NextMoves, Making, Its, Ahead, Line, Due, Carried
    <3>4. QED  BY <3>2, <3>3
  <2>4. QED  BY <2>2, <2>3
<1>5. CASE UsbReset
  <2>1. /\ configured' = FALSE /\ flags' = InitFlags /\ bdIn' = Idle
        /\ inToggle' = 0 /\ hasIt' = FALSE /\ broken' = broken + 1
        /\ UNCHANGED <<pc, pid, buf, xCount, delay, xDirec, pointer>>
    BY <1>5 DEF UsbReset, BusReset, UsbInit, InitEndpoints, MouseBreaks, Breaks, mainVars
  <2>2. ~Unseen' /\ flags'.txDts = 0 /\ ~flags'.inHalt
    BY <2>1 DEF Unseen, Idle, InitFlags
  <2>3. Unseen => ~Making
    BY DEF Unseen, WireInv, PipeInv
  <2>4. DrawInv'
    BY <1>1, <2>1, <2>2, <2>3 DEF DrawInv, Line, Due, Carried, WireInv, WireType, Making
  <2>5. LostInv'
    BY <1>1, <2>1, <2>2, <2>3 DEF WireInv, WireType, PipeInv, DrawInv, LostInv, Lost, AtStake, One,
       WillBeLost, NextWillBeLost,
       ThisMoves, NextMoves, Making, Its, Ahead, Line, Due, Carried
  <2>6. QED  BY <2>4, <2>5
<1>6. CASE Configure
  <2>1. /\ ~configured /\ inToggle = 0 /\ configured' = TRUE /\ inToggle' = 0 /\ hasIt' = hasIt
        /\ UNCHANGED <<pc, pid, buf, xCount, delay, xDirec, pointer, broken, flags, bdIn>>
    BY <1>6 DEF Configure, HostConfigures, SetConfiguration, mouseVars, mainVars, countVars,
       WireInv, WireType, PipeInv
  <2>2. DrawInv'
    BY <2>1 DEF DrawInv, Line, Due, Carried, Unseen
  <2>3. LostInv'
    BY <1>1, <2>1 DEF WireInv, WireType, PipeInv, Unseen, DrawInv, LostInv, Lost, AtStake, One,
       WillBeLost, NextWillBeLost,
       ThisMoves, NextMoves, Making, Its, Ahead, Line, Due, Carried
  <2>4. QED  BY <2>2, <2>3
<1>7. CASE Halt
  <2>1. /\ ~tokenDone /\ hostConfigured /\ flags' = [flags EXCEPT !.inHalt = TRUE] /\ bdIn' = Stalled
        /\ hasIt' = FALSE /\ broken' = broken + 1
        /\ UNCHANGED <<pc, pid, buf, xCount, delay, xDirec, pointer, configured, inToggle>>
    BY <1>7 DEF Halt, HostHaltsIn, HaltIn, MouseBreaks, Breaks, mainVars, hostVars
  <2>2. ~Unseen' /\ flags'.txDts = flags.txDts /\ flags'.inHalt
    BY <2>1 DEF Stalled, Unseen, WireInv, WireType, Flags
  <2>3. Unseen => ~Making
    BY DEF Unseen, WireInv, PipeInv
  <2>4. DrawInv'
    BY <1>1, <2>1, <2>2, <2>3 DEF DrawInv, Line, Due, Carried, WireInv, WireType, Making
  <2>5. LostInv'
    BY <1>1, <2>1, <2>2, <2>3 DEF WireInv, WireType, PipeInv, DrawInv, LostInv, Lost, AtStake, One,
       WillBeLost, NextWillBeLost,
       ThisMoves, NextMoves, Making, Its, Ahead, Line, Due, Carried
  <2>6. QED  BY <2>4, <2>5
<1>8. CASE Clear \/ ClearStalled
  <2>1. /\ ~tokenDone /\ hostConfigured /\ bdIn' = Idle
        /\ flags' = [flags EXCEPT !.inHalt = FALSE, !.txDts = 0]
        /\ inToggle' = 0 /\ hasIt' = FALSE
        /\ UNCHANGED <<pc, pid, buf, xCount, delay, xDirec, pointer, configured>>
    BY <1>8 DEF Clear, ClearStalled, HostClearsIn, ClearIn, mainVars
  <2>2. broken' = broken + 1 \/ (flags.inHalt /\ broken' = broken)
    BY <1>8 DEF Clear, ClearStalled, MouseBreaks, Breaks
  <2>3. ~Unseen' /\ flags'.txDts = 0 /\ ~flags'.inHalt
    BY <2>1 DEF Idle, Unseen, WireInv, WireType, Flags
  <2>4. Unseen => ~Making
    BY DEF Unseen, WireInv, PipeInv
  <2>5. DrawInv'
    BY <1>1, <2>1, <2>2, <2>3, <2>4 DEF DrawInv, Line, Due, Carried, WireInv, WireType, Making
  <2>6. LostInv'
    BY <1>1, <2>1, <2>2, <2>3, <2>4 DEF WireInv, WireType, PipeInv, DrawInv, LostInv, Lost, AtStake,
       One, WillBeLost, NextWillBeLost,
       ThisMoves, NextMoves, Making, Its, Ahead, Line, Due, Carried
  <2>7. QED  BY <2>5, <2>6
<1>9. QED  BY <1>2, <1>3, <1>4, <1>5, <1>6, <1>7, <1>8


-----------------------------------------------------------------------------

MouseWireInv == IF app = "hid_mouse" THEN ~newer /\ WireInv ELSE skipped = 0
MouseLineInv ==
  IF app = "hid_mouse" THEN DrawInv /\ LostInv ELSE pointer = 0 /\ broken \in Nat

LEMMA MouseSteps ==
  ASSUME [Next]_vars
  PROVE  /\ app = "hid_mouse" /\ ~UNCHANGED vars =>
              \/ Main
              \/ InTransaction \/ InTransactionAckLost \/ ServiceIn \/ UsbReset \/ Configure \/ Halt
              \/ Clear \/ ClearStalled
         /\ app # "hid_mouse" => UNCHANGED <<skipped, pointer>>
<1>1. app = "hid_mouse" /\ ~UNCHANGED vars => MouseNext
  BY ExampleSteps DEF Fob, Lock, Play, Hid, Cdc
<1>2. app # "hid_mouse" => UNCHANGED mouseVars
  BY ExampleSteps DEF Mouse, Fob, Lock, Play, Hid, Cdc, vars, allMoving, appVars
<1>3. QED  BY <1>1, <1>2 DEF MouseNext, Main, mouseVars, countVars

LEMMA MouseStill ==
  ASSUME UNCHANGED vars
  PROVE  (WireInv => WireInv') /\ (DrawInv => DrawInv') /\ (LostInv => LostInv')
<1> USE DEF Testing, Deciding, Entering
<1>1. UNCHANGED <<hostConfigured, tokenDone, skipped, pc, pid, buf, xCount, delay, xDirec, hasIt, inToggle,
                  pointer, broken, configured, flags, bdIn, app, newer>>
  BY DEF vars, allMoving, movingVars, deviceVars, hostVars, appVars, mouseVars, mainVars, countVars
<1>2. WireInv => WireInv'
  BY <1>1 DEF WireInv, WireType, PipeInv, SkipInv, ToSkip, Making, Ahead, One
<1>3. DrawInv => DrawInv'
  BY <1>1 DEF DrawInv, Unseen, Line, Due, Carried
<1>4. LostInv => LostInv'
  BY <1>1 DEF LostInv, Lost, AtStake, One, WillBeLost, NextWillBeLost, ThisMoves, NextMoves, Making, Its,
     Ahead, Unseen, Line, Due, Carried
<1>5. QED  BY <1>2, <1>3, <1>4

LEMMA MouseInitInv ==
  ASSUME Init
  PROVE  MouseWireInv /\ MouseLineInv
<1> USE DEF Testing, Deciding, Entering
<1>1. EndpointInit /\ broken = 0 /\ MouseInit
  BY Zenon DEF Init, ExampleInit
<1>2. app = "hid_mouse" => ~newer
  BY DEF Init
<1>3. /\ bdIn = Idle /\ flags = InitFlags /\ ~configured /\ ~hostConfigured /\ ~hasIt /\ ~tokenDone
      /\ configured \in BOOLEAN /\ hostConfigured \in BOOLEAN /\ hasIt \in BOOLEAN /\ tokenDone \in BOOLEAN
      /\ inToggle = 0 /\ pc = "test" /\ pid = 0 /\ buf = 0 /\ skipped = 0 /\ pointer = 0
      /\ xCount = Steps /\ delay = Pause /\ xDirec = 1
  BY <1>1 DEF EndpointInit, MouseInit
<1>4. bdIn.own = "cpu" /\ flags.txDts = 0 /\ ~flags.inHalt
  BY <1>3 DEF Idle, InitFlags
<1>5. WireType
  BY <1>3, BdTypes, FlagTypes DEF WireType, Toggle
<1>6. PipeInv
  BY <1>3, <1>4 DEF PipeInv, Making
<1>7. SkipInv
  BY <1>3, <1>4 DEF SkipInv, ToSkip, Ahead, One
<1>8. DrawInv
  BY <1>1, <1>3, <1>4, MouseAssumption DEF DrawInv, Unseen, Line, Due, Carried
<1>9. LostInv
  BY <1>1, <1>3, <1>4, MouseAssumption DEF LostInv, Lost, AtStake, One, WillBeLost, NextWillBeLost, Making,
     Ahead, Unseen, Line, Due, Carried
<1>10. QED  BY <1>1, <1>2, <1>3, <1>5, <1>6, <1>7, <1>8, <1>9 DEF MouseWireInv, MouseLineInv, WireInv

LEMMA MouseWireNext ==
  ASSUME MouseWireInv, [Next]_vars, ~ConfiguresAgain
  PROVE  MouseWireInv'
<1>1. app' = app /\ newer' = newer
  BY NothingElseMoves
<1>2. CASE app = "hid_mouse"
  <2>1. WireInv'
    BY <1>2, WireMain, WireHost, MouseSteps, MouseStill DEF MouseWireInv
  <2>2. QED  BY <1>1, <1>2, <2>1 DEF MouseWireInv
<1>3. CASE app # "hid_mouse"
  BY <1>1, <1>3, MouseSteps DEF MouseWireInv
<1>4. QED  BY <1>2, <1>3

LEMMA MouseLineNext ==
  ASSUME MouseWireInv, MouseLineInv, [Next]_vars, ~ConfiguresAgain, Pause >= 2
  PROVE  MouseLineInv'
<1>1. app' = app /\ (broken' = broken \/ broken' = broken + 1)
  BY NothingElseMoves
<1>2. CASE app = "hid_mouse"
  <2>1. DrawInv' /\ LostInv'
    BY <1>2, LineMain, LineHost, MouseSteps, MouseStill DEF MouseWireInv, MouseLineInv
  <2>2. QED  BY <1>1, <1>2, <2>1 DEF MouseLineInv
<1>3. CASE app # "hid_mouse"
  BY <1>1, <1>3, MouseSteps DEF MouseLineInv
<1>4. QED  BY <1>2, <1>3

(* Wherever the interrupt hits usb_send_in_buffer(), and however often the  *)
(* host breaks the pipe, the host drops two packets at most before it takes *)
(* one.                                                                     *)
THEOREM TogglesCorrect ==
  ASSUME ~ConfiguresAgain
  PROVE  Spec => []TogglesMeetAgain
<1>1. Init => MouseWireInv
  BY MouseInitInv
<1>2. MouseWireInv /\ [Next]_vars => MouseWireInv'
  BY MouseWireNext
<1>3. MouseWireInv => TogglesMeetAgain
  <2>1. ToSkip \in Nat
    BY DEF ToSkip, One
  <2>2. QED  BY <2>1 DEF MouseWireInv, WireInv, SkipInv, TogglesMeetAgain
<1>4. QED  BY <1>1, <1>2, <1>3, PTL DEF Spec

(* A break displaces the pointer by one step at most from the line that     *)
(* main() draws, whose length is any, as long as a report that moves is     *)
(* followed by one that does not: even where a reset between the tests of   *)
(* main() takes two reports, the one in the buffer and the next.            *)
THEOREM LineCorrect ==
  ASSUME ~ConfiguresAgain, Pause >= 2
  PROVE  Spec => []StaysOnLine
<1>1. Init => MouseWireInv /\ MouseLineInv
  BY MouseInitInv
<1>2. MouseWireInv /\ MouseLineInv /\ [Next]_vars => (MouseWireInv /\ MouseLineInv)'
  BY MouseWireNext, MouseLineNext
<1>3. MouseWireInv /\ MouseLineInv => StaysOnLine
  <2> SUFFICES ASSUME MouseWireInv, MouseLineInv PROVE StaysOnLine
    OBVIOUS
  <2>1. AtStake \in Nat
    BY DEF AtStake, One
  <2>2. CASE app = "hid_mouse"
    <3>1. Line \in Int /\ Carried \in Int
      BY <2>2, MouseAssumption DEF MouseWireInv, WireInv, WireType, MouseLineInv, DrawInv, Line, Due, Carried
    <3>2. Line - Carried \in 0 .. Steps /\ pointer \in Int /\ broken \in Nat /\ LostInv /\ Steps \in Nat
      BY <2>2, MouseAssumption DEF MouseLineInv, DrawInv
    <3>3. QED  BY <2>1, <3>1, <3>2 DEF LostInv, Lost, StaysOnLine
  <2>3. CASE app # "hid_mouse"
    BY <2>3, MouseAssumption DEF MouseLineInv, StaysOnLine
  <2>4. QED  BY <2>2, <2>3
<1>4. QED  BY <1>1, <1>2, <1>3, PTL DEF Spec

-----------------------------------------------------------------------------
(* mouseplay.                                                               *)

(* What holds at 0 and is handed on from each number to the next holds at N: *)
(* otherwise adding one would map a finite set into itself without 0.       *)
LEMMA Counting ==
  ASSUME NEW N \in Nat, NEW A \in SUBSET (0 .. N), 0 \in A, \A i \in A : i < N => i + 1 \in A
  PROVE  N \in A
<1> SUFFICES ASSUME N \notin A PROVE FALSE
  OBVIOUS
<1> DEFINE next == [i \in A |-> i + 1]
<1>1. IsFiniteSet(A) /\ Cardinality(A) \in Nat
  <2>1. IsFiniteSet(0 .. N)
    BY FS_Interval
  <2>2. IsFiniteSet(A)
    BY <2>1, FS_Subset
  <2>3. QED  BY <2>2, FS_CardinalityType
<1>2. IsFiniteSet(A \ {0}) /\ Cardinality(A \ {0}) = Cardinality(A) - 1
  BY <1>1, FS_RemoveElement
<1>3. Cardinality(A \ {0}) < Cardinality(A)
  BY <1>1, <1>2
<1>4. next \in [A -> A \ {0}]
  OBVIOUS
<1>5. \E i, j \in A : i # j /\ next[i] = next[j]
  <2> HIDE DEF next
  <2> QED  BY <1>1, <1>2, <1>3, <1>4, FS_PigeonHole
<1>6. QED  BY <1>5

(* Cost is the function its equation says.                                  *)
Costs(before) == {Plus(total, move) : total \in before, move \in PlayReports}
IsCost(f, n) == f = [i \in 0 .. n |-> IF i = 0 THEN {<<0, 0>>} ELSE Costs(f[i - 1])]

LEMMA CostAt ==
  ASSUME NEW n \in Nat, NEW f, IsCost(f, n), NEW i \in 0 .. n
  PROVE  f[i] = IF i = 0 THEN {<<0, 0>>} ELSE Costs(f[i - 1])
BY Zenon DEF IsCost

LEMMA CostExists ==
  ASSUME NEW n \in Nat
  PROVE  \E f : IsCost(f, n)
<1> DEFINE A == {i \in 0 .. n : \E f : IsCost(f, i)}
<1>1. 0 \in A
  <2>1. IsCost([i \in 0 .. 0 |-> {<<0, 0>>}], 0)
    BY DEF IsCost
  <2>2. QED  BY <2>1
<1>2. ASSUME NEW i \in A, i < n PROVE i + 1 \in A
  <2>1. PICK f : IsCost(f, i)
    OBVIOUS
  <2>2. i \in Nat
    OBVIOUS
  <2> DEFINE g == [j \in 0 .. i + 1 |-> IF j = i + 1 THEN Costs(f[i]) ELSE f[j]]
  <2>3. \A j \in 0 .. i : g[j] = f[j]
    BY <2>2
  <2>4. ASSUME NEW j \in 0 .. i + 1 PROVE g[j] = IF j = 0 THEN {<<0, 0>>} ELSE Costs(g[j - 1])
    <3>1. CASE j = i + 1
      <4>1. g[j] = Costs(f[i]) /\ j - 1 = i /\ j # 0
        BY <2>2, <3>1
      <4> HIDE DEF g
      <4>2. QED  BY <2>2, <2>3, <4>1
    <3>2. CASE j # i + 1
      <4>1. j \in 0 .. i /\ (j # 0 => j - 1 \in 0 .. i)
        BY <2>2, <3>2
      <4>2. f[j] = IF j = 0 THEN {<<0, 0>>} ELSE Costs(f[j - 1])
        BY <2>1, <2>2, <4>1, CostAt
      <4> HIDE DEF g
      <4>3. QED  BY <2>3, <4>1, <4>2
    <3>3. QED  BY <3>1, <3>2
  <2>5. IsCost(g, i + 1)
    <3>1. g = [j \in 0 .. i + 1 |-> g[j]]
      OBVIOUS
    <3> HIDE DEF g
    <3>2. QED  BY <2>4, <3>1 DEF IsCost
  <2>6. i + 1 \in 0 .. n
    BY <1>2, <2>2
  <2>7. QED  BY <2>5, <2>6
<1>3. n \in A
  <2> HIDE DEF A
  <2>1. A \in SUBSET (0 .. n)
    BY DEF A
  <2>2. QED  BY <1>1, <1>2, <2>1, Counting
<1>4. QED  BY <1>3

LEMMA CostUnique ==
  ASSUME NEW n \in Nat, NEW f, IsCost(f, n), NEW k \in Nat, NEW g, IsCost(g, k), n <= k
  PROVE  f[n] = g[n]
<1> DEFINE A == {i \in 0 .. n : f[i] = g[i]}
<1>1. 0 \in A
  BY CostAt
<1>2. ASSUME NEW i \in A, i < n PROVE i + 1 \in A
  <2>1. i + 1 \in 0 .. n /\ i + 1 \in 0 .. k /\ i + 1 # 0 /\ (i + 1) - 1 = i /\ f[i] = g[i]
    BY <1>2
  <2>2. f[i + 1] = Costs(f[i]) /\ g[i + 1] = Costs(g[i])
    BY <2>1, CostAt
  <2>3. QED  BY <2>1, <2>2
<1>3. A \in SUBSET (0 .. n)
  OBVIOUS
<1>4. n \in A
  <2> HIDE DEF A
  <2> QED  BY <1>1, <1>2, <1>3, Counting
<1>5. QED  BY <1>4

LEMMA CostSteps ==
  /\ Cost[0] = {Rest}
  /\ \A n \in Nat : Cost[n + 1] = Costs(Cost[n])
<1> DEFINE upTo(n) == CHOOSE f : IsCost(f, n)
           all == [n \in Nat |-> upTo(n)[n]]
<1>1. \A n \in Nat : IsCost(upTo(n), n)
  BY CostExists
<1> HIDE DEF upTo
<1>2. all[0] = {<<0, 0>>}
  BY <1>1, CostAt
<1>3. ASSUME NEW n \in Nat \ {0} PROVE all[n] = Costs(all[n - 1])
  <2>1. n - 1 \in Nat /\ n - 1 <= n /\ n \in 0 .. n
    OBVIOUS
  <2>2. upTo(n - 1)[n - 1] = upTo(n)[n - 1]
    BY <1>1, <2>1, CostUnique
  <2>3. upTo(n)[n] = Costs(upTo(n)[n - 1])
    BY <1>1, <2>1, CostAt
  <2>4. QED  BY <2>1, <2>2, <2>3
<1>4. \A n \in Nat : all[n] = IF n = 0 THEN {<<0, 0>>} ELSE Costs(all[n - 1])
  BY <1>2, <1>3
<1>5. all = [n \in Nat |-> IF n = 0 THEN {<<0, 0>>} ELSE Costs(all[n - 1])]
  <2>1. all = [n \in Nat |-> all[n]]
    OBVIOUS
  <2> HIDE DEF all
  <2>2. QED  BY <1>4, <2>1
<1>6. Cost = [n \in Nat |-> IF n = 0 THEN {<<0, 0>>} ELSE Costs(Cost[n - 1])]
  <2> DEFINE IsAll(f) == f = [n \in Nat |-> IF n = 0 THEN {<<0, 0>>} ELSE Costs(f[n - 1])]
  <2>1. IsAll(all)
    BY <1>5
  <2>2. Cost = CHOOSE f : IsAll(f)
    BY DEF Cost, Costs
  <2> HIDE DEF IsAll
  <2>3. IsAll(Cost)
    BY <2>1, <2>2
  <2>4. QED  BY <2>3 DEF IsAll
<1>7. Cost[0] = {Rest}
  BY <1>6 DEF Rest
<1>8. ASSUME NEW n \in Nat PROVE Cost[n + 1] = Costs(Cost[n])
  <2>1. n + 1 \in Nat /\ n + 1 # 0 /\ (n + 1) - 1 = n
    OBVIOUS
  <2>2. Cost[n + 1] = Costs(Cost[(n + 1) - 1])
    BY <1>6, <2>1, Zenon
  <2>3. QED  BY <2>1, <2>2
<1>9. QED  BY <1>7, <1>8

(* Figure is the function its equation says, and closes.                    *)
Points ==
  <<<<0, 0>>, <<0, 0>>, <<6, -2>>, <<-2, 2>>, <<8, -8>>, <<-8, 0>>, <<6, -14>>, <<-14, -6>>, <<0, -16>>,
    <<-16, -12>>, <<-6, -14>>, <<-14, -14>>, <<-8, -8>>, <<-8, -12>>, <<-6, -2>>, <<-2, -6>>, <<0, 0>>>>

LEMMA PointsFollow ==
  ASSUME NEW i \in 2 .. 16
  PROVE  Points[i + 1] = Plus(Points[i - 1], <<MoveTable[i - 1], MoveTable[i]>>)
<1> USE DEF Points, MoveTable, Plus
<1>1. CASE i \in 2 .. 5
  BY <1>1
<1>2. CASE i \in 6 .. 9
  BY <1>2
<1>3. CASE i \in 10 .. 13
  BY <1>3
<1>4. CASE i \in 14 .. 16
  BY <1>4
<1>5. QED  BY <1>1, <1>2, <1>3, <1>4

LEMMA FigureIs == Figure = [i \in 0 .. 16 |-> Points[i + 1]]
<1> DEFINE IsFigure(f) ==
      f = [index \in 0 .. Len(MoveTable) |->
             IF index < 2 THEN <<0, 0>> ELSE Plus(f[index - 2], <<MoveTable[index - 1], MoveTable[index]>>)]
           points == [i \in 0 .. 16 |-> Points[i + 1]]
<1>1. Len(MoveTable) = 16
  BY DEF MoveTable
<1>2. ASSUME NEW index \in 0 .. 16
      PROVE  points[index] =
               IF index < 2 THEN <<0, 0>> ELSE Plus(points[index - 2], <<MoveTable[index - 1], MoveTable[index]>>)
  <2>1. CASE index < 2
    BY <2>1 DEF Points
  <2>2. CASE index >= 2
    <3>1. points[index] = Points[index + 1] /\ points[index - 2] = Points[(index - 2) + 1]
      BY <2>2
    <3>2. (index - 2) + 1 = index - 1 /\ ~(index < 2)
      BY <2>2
    <3>3. Points[index + 1] = Plus(Points[index - 1], <<MoveTable[index - 1], MoveTable[index]>>)
      BY <2>2, PointsFollow
    <3> HIDE DEF points
    <3>4. QED  BY <3>1, <3>2, <3>3
  <2>3. QED  BY <2>1, <2>2
<1>3. IsFigure(points)
  <2>1. points = [index \in 0 .. 16 |-> points[index]]
    OBVIOUS
  <2> HIDE DEF points
  <2>2. QED  BY <1>1, <1>2, <2>1
<1>4. Figure = CHOOSE f : IsFigure(f)
  BY DEF Figure
<1>5. IsFigure(Figure)
  <2> HIDE DEF IsFigure
  <2> QED  BY <1>3, <1>4
<1>6. \A index \in 0 .. 16 : index >= 2 => Figure[index] = Plus(Figure[index - 2], <<MoveTable[index - 1], MoveTable[index]>>)
  BY <1>1, <1>5
<1>7. Figure = [index \in 0 .. 16 |-> Figure[index]] /\ Figure[0] = <<0, 0>> /\ Figure[1] = <<0, 0>>
  BY <1>1, <1>5
<1>8. ASSUME NEW n \in 0 .. 16 PROVE Figure[n] = Points[n + 1]
  <2> DEFINE A == {k \in 0 .. n : Figure[k] = Points[k + 1] /\ (k < n => Figure[k + 1] = Points[k + 2])}
  <2>1. 0 \in A
    BY <1>7 DEF Points
  <2>2. ASSUME NEW k \in A, k < n PROVE k + 1 \in A
    <3>1. k \in Nat /\ Figure[k] = Points[k + 1] /\ Figure[k + 1] = Points[k + 2]
      BY <2>2
    <3>2. CASE k + 1 < n
      <4>1. k + 2 \in 2 .. 16 /\ k + 2 \in 0 .. 16 /\ (k + 2) - 2 = k /\ (k + 2) - 1 = k + 1 /\ (k + 2) + 1 = k + 3
        BY <3>1, <3>2
      <4>2. Points[k + 3] = Plus(Points[k + 1], <<MoveTable[k + 1], MoveTable[k + 2]>>)
        BY <4>1, PointsFollow
      <4>3. Figure[k + 2] = Plus(Figure[k], <<MoveTable[k + 1], MoveTable[k + 2]>>)
        BY <1>6, <4>1
      <4>4. Figure[(k + 1) + 1] = Points[(k + 1) + 2] /\ Figure[k + 1] = Points[(k + 1) + 1] /\ k + 1 \in 0 .. n
        BY <3>1, <3>2, <4>2, <4>3
      <4>5. QED  BY <4>4
    <3>3. CASE ~(k + 1 < n)
      <4>1. k + 1 \in 0 .. n /\ (k + 1) + 1 = k + 2
        BY <2>2, <3>1
      <4>2. QED  BY <3>1, <3>3, <4>1
    <3>4. QED  BY <3>2, <3>3
  <2>3. A \in SUBSET (0 .. n)
    OBVIOUS
  <2>4. n \in A
    <3> HIDE DEF A
    <3> QED  BY <2>1, <2>2, <2>3, Counting
  <2>5. QED  BY <2>4
<1>9. QED
  <2>1. Figure = [index \in 0 .. 16 |-> Points[index + 1]]
    BY <1>7, <1>8
  <2>2. QED  BY <2>1

(* Moves add up.                                                            *)
LEMMA PlusFacts ==
  ASSUME NEW a \in Int \X Int, NEW b \in Int \X Int, NEW c \in Int \X Int
  PROVE  /\ Plus(a, b) \in Int \X Int /\ Plus(a, Rest) = a
         /\ Plus(Plus(a, b), c) = Plus(Plus(a, c), b) /\ Plus(Plus(a, b), c) = Plus(a, Plus(c, b))
BY DEF Plus, Rest

LEMMA MovesType == PlayReports \subseteq Int \X Int /\ Rest \in PlayReports
<1>1. \A i \in DOMAIN MoveTable : i % 2 = 0 => i - 1 \in DOMAIN MoveTable
  BY DEF MoveTable
<1>2. \A i \in DOMAIN MoveTable : MoveTable[i] \in Int
  BY DEF MoveTable
<1>3. QED  BY <1>1, <1>2 DEF PlayReports, Rest

LEMMA CostType ==
  ASSUME NEW n \in Nat
  PROVE  Cost[n] \subseteq Int \X Int
<1> DEFINE A == {i \in 0 .. n : Cost[i] \subseteq Int \X Int}
<1>1. 0 \in A
  BY CostSteps DEF Rest
<1>2. ASSUME NEW i \in A, i < n PROVE i + 1 \in A
  <2>1. i \in Nat /\ i + 1 \in 0 .. n /\ Cost[i] \subseteq Int \X Int
    BY <1>2
  <2>2. Cost[i + 1] = Costs(Cost[i])
    BY <2>1, CostSteps
  <2>3. ASSUME NEW c \in Costs(Cost[i]) PROVE c \in Int \X Int
    <3>1. PICK total \in Cost[i], move \in PlayReports : c = Plus(total, move)
      BY DEF Costs
    <3>2. QED  BY <2>1, <3>1, MovesType, PlusFacts
  <2>4. QED  BY <2>1, <2>2, <2>3
<1>3. A \in SUBSET (0 .. n)
  OBVIOUS
<1>4. n \in A
  <2> HIDE DEF A
  <2> QED  BY <1>1, <1>2, <1>3, Counting
<1>5. QED  BY <1>4

(* The places in the table between two moves.                               *)
Turns == {0, 2, 4, 6, 8, 10, 12, 14, 16}
MoveAt(index) == <<MoveTable[index + 1], MoveTable[index + 2]>>

LEMMA TurnsFollow ==
  ASSUME NEW index \in Turns
  PROVE  /\ Even(index) \in Turns \ {16} /\ Figure[Even(index)] = Figure[index]
         /\ Figure[index] \in Int \X Int
         /\ Figure[0] = Rest
<1>1. Even(index) = IF index = 16 THEN 0 ELSE index
  BY DEF Turns, Even
<1>2. \A i \in 0 .. 16 : Figure[i] = Points[i + 1]
  BY FigureIs
<1>3. Figure[0] = Rest /\ Figure[16] = Rest
  BY <1>2 DEF Points, Rest
<1>4. Points[index + 1] \in Int \X Int
  BY DEF Turns, Points
<1>5. index \in 0 .. 16
  BY DEF Turns
<1>6. QED  BY <1>1, <1>2, <1>3, <1>4, <1>5 DEF Turns

LEMMA MoveFollows ==
  ASSUME NEW index \in Turns \ {16}
  PROVE  /\ index + 2 \in Turns /\ MoveAt(index) \in PlayReports
         /\ Figure[index + 2] = Plus(Figure[index], MoveAt(index))
<1>1. index + 2 \in Turns /\ index + 2 \in 2 .. 16 /\ index \in 0 .. 16
  BY DEF Turns
<1>2. PICK i \in 2 .. 16 : i = index + 2
  BY <1>1
<1>3. i - 1 = index + 1 /\ i % 2 = 0 /\ i \in DOMAIN MoveTable
  BY <1>2 DEF Turns, MoveTable
<1>4. MoveAt(index) = <<MoveTable[i - 1], MoveTable[i]>>
  BY <1>2, <1>3 DEF MoveAt
<1>5. MoveAt(index) \in PlayReports
  BY <1>3, <1>4 DEF PlayReports
<1>6. Points[i + 1] = Plus(Points[i - 1], MoveAt(index))
  BY <1>4, PointsFollow
<1>7. Figure[i] = Points[i + 1] /\ Figure[index] = Points[index + 1]
  BY <1>1, FigureIs
<1>8. QED  BY <1>1, <1>2, <1>3, <1>5, <1>6, <1>7

(* The report on its way, and where the pointer is with it.                 *)
UnderWay == IF Unseen THEN bdIn.data ELSE Rest
Reached == Plus(place, UnderWay)

PlayInv ==
  /\ place \in Int \X Int /\ broken \in Nat /\ playIndex \in Turns /\ UnderWay \in PlayReports
  /\ \E lost \in Cost[broken] : Plus(Reached, lost) = Figure[playIndex]

LEMMA ReachedKept ==
  ASSUME PlayInv, place' \in Int \X Int, broken' = broken, playIndex' \in Turns, UnderWay' \in PlayReports,
         Reached' = Reached, Figure[playIndex'] = Figure[playIndex]
  PROVE  PlayInv'
BY DEF PlayInv

LEMMA PlayTurnInv ==
  ASSUME PlayInv, PlayTurn
  PROVE  PlayInv'
<1> DEFINE index == Even(playIndex)
<1>1. /\ index \in Turns \ {16} /\ Figure[index] = Figure[playIndex] /\ Figure[index] \in Int \X Int
      /\ place \in Int \X Int /\ broken \in Nat
  BY TurnsFollow DEF PlayInv
<1>2. broken' = broken /\ place' = place /\ ~Unseen
  BY DEF PlayTurn, Unseen, MaySend
<1>3. Reached = place
  BY <1>1, <1>2, MovesType, PlusFacts DEF Reached, UnderWay
<1>4. PICK lost \in Cost[broken] : Plus(place, lost) = Figure[index]
  BY <1>1, <1>3 DEF PlayInv
<1>5. lost \in Int \X Int
  BY <1>1, <1>4, CostType
<1>6. CASE tickCount > Late /\ playIndex' = index + 2 /\ SendInBuffer(MoveAt(index)) /\ hasIt' = FALSE
  <2>1. Unseen' /\ UnderWay' = MoveAt(index)
    BY <1>6 DEF SendInBuffer, Armed, Unseen, UnderWay
  <2>2. MoveAt(index) \in PlayReports /\ MoveAt(index) \in Int \X Int
    BY <1>1, MoveFollows, MovesType
  <2>3. Reached' = Plus(place, MoveAt(index))
    BY <1>2, <2>1 DEF Reached
  <2>4. Plus(Reached', lost) = Figure[index + 2]
    <3>1. Plus(Plus(place, MoveAt(index)), lost) = Plus(Plus(place, lost), MoveAt(index))
      BY <1>1, <1>5, <2>2, PlusFacts
    <3>2. Figure[index + 2] = Plus(Figure[index], MoveAt(index))
      BY <1>1, MoveFollows
    <3>3. QED  BY <1>4, <2>3, <3>1, <3>2
  <2>5. index + 2 \in Turns
    BY <1>1, MoveFollows
  <2>6. QED  BY <1>1, <1>2, <1>4, <1>6, <2>1, <2>2, <2>4, <2>5 DEF PlayInv
<1>7. CASE playIndex' = index /\ SendInBuffer(Rest) /\ hasIt' = FALSE
  <2>1. Unseen' /\ UnderWay' = Rest
    BY <1>7 DEF SendInBuffer, Armed, Unseen, UnderWay
  <2>2. Reached' = Reached
    BY <1>1, <1>2, <1>3, <2>1, MovesType, PlusFacts DEF Reached
  <2>3. QED  BY <1>1, <1>2, <1>7, <2>1, <2>2, MovesType, ReachedKept
<1>8. QED  BY <1>6, <1>7 DEF PlayTurn, MoveAt

(* A break costs the report on its way.                                     *)
LEMMA PlayBroken ==
  ASSUME PlayInv, ~Unseen', place' = place, playIndex' = playIndex, broken' = broken + 1
  PROVE  PlayInv'
<1>1. PICK lost \in Cost[broken] : Plus(Reached, lost) = Figure[playIndex]
  BY DEF PlayInv
<1>2. /\ place \in Int \X Int /\ broken \in Nat /\ lost \in Int \X Int
      /\ UnderWay \in PlayReports /\ UnderWay \in Int \X Int
  BY <1>1, CostType, MovesType DEF PlayInv
<1>3. Plus(lost, UnderWay) \in Cost[broken + 1]
  BY <1>1, <1>2, CostSteps DEF Costs
<1>4. UnderWay' = Rest /\ Reached' = place
  BY <1>2, MovesType, PlusFacts DEF Reached, UnderWay
<1>5. Plus(Reached', Plus(lost, UnderWay)) = Figure[playIndex]
  BY <1>1, <1>2, <1>4, PlusFacts DEF Reached
<1>6. broken + 1 \in Nat
  BY <1>2
<1>7. QED  BY <1>2, <1>3, <1>4, <1>5, <1>6, MovesType DEF PlayInv

LEMMA PlayEndpointStep ==
  ASSUME OlderCopyInv, PlayInv, ~ConfiguresAgain, PlayNext, newer' = newer
  PROVE  OlderCopyInv'
<1>1. [EndpointNext]_endpointVars
  <2>1. CASE PlayTurn
    <3>1. \E r \in PlayReports : FirmwareSends(r)
      <4>1. Even(playIndex) \in Turns \ {16}
        BY TurnsFollow DEF PlayInv
      <4>2. MoveAt(Even(playIndex)) \in PlayReports
        BY <4>1, MoveFollows
      <4>3. PlayTurn => FirmwareSends(MoveAt(Even(playIndex))) \/ FirmwareSends(Rest)
        BY DEF PlayTurn, FirmwareSends, MoveAt
      <4>4. QED  BY <2>1, <4>2, <4>3, MovesType
    <3>2. QED  BY <3>1, PlayAssumption DEF EndpointNext, EndpointStep
  <2>2. PlayFrame => UNCHANGED endpointVars
    BY DEF PlayFrame, exampleVars
  <2>3. PlayIn \/ PlayInAckLost \/ PlayReset \/ PlayConfigure \/ PlayHalt \/ PlayClear \/ PlayClearAgain => EndpointNext
    BY DEF PlayIn, PlayInAckLost, PlayReset, PlayConfigure, PlayHalt, PlayClear, PlayClearAgain,
           EndpointNext, EndpointStep
  <2>4. QED  BY <2>1, <2>2, <2>3 DEF PlayNext
<1>2. QED  BY <1>1, EndpointInvNext DEF ConfiguresOnce, OlderCopyInv

LEMMA PlayStep ==
  ASSUME OlderCopyInv, PlayInv, ~ConfiguresAgain, PlayNext
  PROVE  PlayInv'
<1>1. /\ bdIn.dts \in {0, 1} /\ inToggle \in {0, 1} /\ hasIt \in BOOLEAN
      /\ place \in Int \X Int /\ UnderWay \in PlayReports /\ UnderWay \in Int \X Int /\ playIndex \in Turns
  BY MovesType DEF OlderCopyInv, EndpointInv, EndpointTypeOK, Bd, Toggle, PlayInv
<1>2. CASE PlayTurn
  BY <1>2, PlayTurnInv
<1>3. CASE PlayFrame
  <2>1. UNCHANGED <<bdIn, hasIt, place, broken, playIndex>>
    BY <1>3 DEF PlayFrame, exampleVars, endpointVars, movingVars, deviceVars
  <2>2. UnderWay' = UnderWay /\ Reached' = Reached
    BY <2>1 DEF UnderWay, Unseen, Reached
  <2>3. QED  BY <1>1, <2>1, <2>2, ReachedKept
<1>4. CASE PlayIn \/ PlayInAckLost
  <2>1. bdIn.own = "sie" /\ Draws /\ broken' = broken /\ playIndex' = playIndex
    BY <1>4 DEF PlayIn, PlayInAckLost, InToken, InTokenAckLost, playMain
  <2>2. HostIsDue <=> ~hasIt
    BY <1>1, <2>1 DEF HostIsDue, OlderCopyInv, EndpointInv, InInv
  <2>3. ~Unseen'
    <3>1. PlayIn => ~Unseen'
      BY DEF Unseen, PlayIn, InToken, Idle
    <3>2. PlayInAckLost => hasIt'
      BY DEF PlayInAckLost, InTokenAckLost
    <3>3. QED  BY <1>4, <3>1, <3>2 DEF Unseen
  <2>4. UnderWay' = Rest
    BY <2>3 DEF UnderWay
  <2>5. place' = Reached
    <3>1. CASE HostIsDue
      BY <2>1, <2>2, <3>1 DEF Draws, Reached, UnderWay, Unseen
    <3>2. CASE ~HostIsDue
      BY <1>1, <2>1, <2>2, <3>2, PlusFacts DEF Draws, Reached, UnderWay, Unseen
    <3>3. QED  BY <3>1, <3>2
  <2>6. Reached \in Int \X Int
    BY <1>1, PlusFacts DEF Reached
  <2>7. Reached' = Reached
    BY <2>4, <2>5, <2>6, PlusFacts DEF Reached
  <2>8. QED  BY <1>1, <2>1, <2>4, <2>5, <2>6, <2>7, MovesType, ReachedKept
<1>5. CASE PlayReset \/ PlayHalt \/ PlayClearAgain
  <2>1. place' = place /\ playIndex' = playIndex /\ broken' = broken + 1
    BY <1>5 DEF PlayReset, PlayHalt, PlayClearAgain, Breaks, playVars, playMain
  <2>2. ~Unseen'
    BY <1>5 DEF PlayReset, PlayHalt, PlayClearAgain, BusReset, HostHaltsIn, HostClearsIn, Unseen,
       UsbInit, InitEndpoints, HaltIn, ClearIn, Idle, Stalled
  <2>3. QED  BY <2>1, <2>2, PlayBroken
<1>6. CASE PlayClear \/ PlayConfigure
  <2>1. place' = place /\ playIndex' = playIndex /\ broken' = broken
    BY <1>6 DEF PlayClear, PlayConfigure, playVars, playMain
  <2>2. ~Unseen
    <3>1. CASE PlayClear
      BY <3>1 DEF PlayClear, OlderCopyInv, EndpointInv, HaltedMeansStalled, Unseen
    <3>2. CASE PlayConfigure
      BY <3>2 DEF PlayConfigure, HostConfigures, OlderCopyInv, EndpointInv, ConfiguredInv, Fresh,
         Idle, Unseen
    <3>3. QED  BY <1>6, <3>1, <3>2
  <2>3. ~Unseen'
    <3>1. CASE PlayClear
      BY <3>1 DEF PlayClear, HostClearsIn, ClearIn, Idle, Unseen
    <3>2. CASE PlayConfigure
      BY <2>2, <3>2 DEF PlayConfigure, HostConfigures, SetConfiguration, OlderCopyInv, Unseen
    <3>3. QED  BY <1>6, <3>1, <3>2
  <2>4. UnderWay' = UnderWay /\ Reached' = Reached
    BY <2>1, <2>2, <2>3 DEF UnderWay, Reached
  <2>5. QED  BY <1>1, <2>1, <2>4, ReachedKept
<1>7. QED  BY <1>2, <1>3, <1>4, <1>5, <1>6 DEF PlayNext

(* Only mouseplay draws, and it is built with an older copy of usb.c.       *)
FigureInv == broken \in Nat /\ (app = "mouseplay" => OlderCopyInv /\ PlayInv)

LEMMA FigureInit == Init => FigureInv
<1> SUFFICES ASSUME Init PROVE FigureInv
  OBVIOUS
<1>1. EndpointInit /\ broken = 0 /\ PlayInit
  BY Zenon DEF Init, ExampleInit
<1>2. app = "mouseplay" => ~newer
  BY DEF Init
<1>3. EndpointInv
  BY <1>1, EndpointInitInv
<1>4. ~Unseen /\ UnderWay = Rest /\ place = Rest /\ playIndex = 0
  BY <1>1 DEF EndpointInit, Idle, PlayInit, Unseen, UnderWay, Rest
<1>5. Rest \in Int \X Int /\ 0 \in Turns /\ Rest \in Cost[0] /\ Figure[0] = Rest
  BY MovesType, CostSteps, TurnsFollow DEF Turns
<1>6. Plus(Reached, Rest) = Figure[0]
  BY <1>4, <1>5, PlusFacts DEF Reached
<1>7. PlayInv
  BY <1>1, <1>4, <1>5, <1>6, MovesType DEF PlayInv
<1>8. QED  BY <1>1, <1>2, <1>3, <1>7 DEF FigureInv, OlderCopyInv

LEMMA FigureNext ==
  ASSUME FigureInv, ~ConfiguresAgain, [Next]_vars
  PROVE  FigureInv'
<1>1. broken' \in Nat /\ app' = app /\ newer' = newer
  BY NothingElseMoves DEF FigureInv
<1>2. CASE app = "mouseplay" /\ PlayNext
  BY <1>1, <1>2, PlayEndpointStep, PlayStep DEF FigureInv
<1>3. CASE UNCHANGED vars
  <2>1. UNCHANGED endpointVars
    BY <1>3 DEF vars, allMoving, endpointVars
  <2>2. UNCHANGED <<bdIn, hasIt, broken, place, playIndex>>
    BY <1>3 DEF vars, allMoving, movingVars, deviceVars, appVars, playVars, playMain
  <2>3. app = "mouseplay" => OlderCopyInv'
    BY <1>1, <2>1, EndpointInvNext DEF ConfiguresOnce, FigureInv, OlderCopyInv
  <2>4. app = "mouseplay" => PlayInv'
    BY <2>2 DEF FigureInv, PlayInv, UnderWay, Unseen, Reached
  <2>5. QED  BY <1>1, <2>3, <2>4 DEF FigureInv
<1>4. CASE app # "mouseplay"
  BY <1>1, <1>4 DEF FigureInv
<1>5. QED  BY <1>2, <1>3, <1>4, ExampleSteps DEF Mouse, Fob, Lock, Play, Hid, Cdc

(* mouseplay's pointer stays on its figure however often the pipe breaks:   *)
(* what is lost is a move of the table, or none, for each break.            *)
THEOREM FigureCorrect ==
  ASSUME ~ConfiguresAgain
  PROVE  Spec => []StaysOnFigure
<1>1. FigureInv /\ [Next]_vars => FigureInv'
  BY FigureNext
<1>2. FigureInv => StaysOnFigure
  <2> SUFFICES ASSUME FigureInv, app = "mouseplay"
               PROVE  \E lost \in Cost[broken] : Plus(Plus(place, UnderWay), lost) = Figure[playIndex]
    BY DEF StaysOnFigure, UnderWay, Unseen
  <2> QED  BY DEF FigureInv, PlayInv, Reached
<1>3. QED  BY FigureInit, <1>1, <1>2, PTL DEF Spec
===============================================================================
