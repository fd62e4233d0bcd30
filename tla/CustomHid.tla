------------------------------ MODULE CustomHid ------------------------------
(***************************************************************************)
(* The customHID example, and hidtest.cpp, the program that tries it.       *)
(* Command 0x80 increments a counter and has no reply; command 0x81 is      *)
(* answered with the counter.  hidtest sends one of each and prints the     *)
(* reply, and may be killed and started again.                              *)
(*                                                                         *)
(* A write that a break of the pipe lets fail is reported, and the program  *)
(* goes on.  It is killed between writes only; KilledWaiting says whether   *)
(* that may be while its command or the reply is on its way.                *)
(***************************************************************************)
EXTENDS Example

CONSTANTS
  CounterWrap,      \* 256
  KilledWaiting

Bump  == <<128>>
Query == <<129>>
Answer(n) == <<129, n>>

ASSUME HidAssumption ==
  /\ CounterWrap \in Nat \ {0} /\ KilledWaiting \in BOOLEAN
  /\ {Bump, Query} \cup {Answer(n) : n \in 0 .. CounterWrap - 1} \subseteq Report

VARIABLES
  counter,      \* main()
  step, inbox,  \* hidtest: what it does next, and HIDAPI's queue
  printed,      \* what it printed last
  bumps         \* history: 0x80 commands that got through, and were not discarded by a break

testVars == <<step, inbox, printed>>
hidVars == <<counter, testVars, bumps>>

Counter == 0 .. CounterWrap - 1

HidTypeOK ==
  /\ ExampleTypeOK /\ counter \in Counter /\ bumps \in Counter
  /\ step \in {"closed", "opened", "toBump", "toQuery", "reading"}
  /\ inbox \in Seq({Answer(n) : n \in Counter}) /\ printed \in Counter

-----------------------------------------------------------------------------
(* main()                                                                   *)

Incremented(n) == (n + 1) % CounterWrap

(* Mutant: the buffer is not armed again after a command without reply.     *)
HidTurnArmingReplies ==
  /\ MaySend /\ bdOut.own = "cpu"
  /\ read' = Arrives(bdOut.data, read)
  /\ \/ /\ bdOut.data = Bump
        /\ counter' = Incremented(counter)
        /\ UNCHANGED <<bdIn, bdOut, flags, hasIt>>
     \/ /\ bdOut.data = Query
        /\ bdIn' = Armed(flags.txDts, Answer(counter)) /\ hasIt' = FALSE
        /\ flags' = [flags EXCEPT !.txDts = 1 - @, !.rxDts = 1 - @]
        /\ bdOut' = Armed(flags.rxDts, NoReport)
        /\ UNCHANGED counter
  /\ UNCHANGED <<configured, hostVars, stored, breaks, app, broken, testVars, bumps>>

(* Mutant: EP_RX_DTS is not flipped.                                        *)
HidTurnKeepingToggle ==
  /\ MaySend /\ bdOut.own = "cpu"
  /\ read' = Arrives(bdOut.data, read)
  /\ bdOut' = Armed(flags.rxDts, NoReport)
  /\ \/ /\ bdOut.data = Bump
        /\ counter' = Incremented(counter)
        /\ UNCHANGED <<bdIn, flags, hasIt>>
     \/ /\ bdOut.data = Query
        /\ bdIn' = Armed(flags.txDts, Answer(counter)) /\ hasIt' = FALSE
        /\ flags' = [flags EXCEPT !.txDts = 1 - @]
        /\ UNCHANGED counter
  /\ UNCHANGED <<configured, hostVars, stored, breaks, app, broken, testVars, bumps>>

(* One turn of the loop that finds a command: usb_send_in_buffer(), if it   *)
(* is 0x81, and usb_arm_out_endpoint().                                     *)
HidTurn ==
  /\ MaySend /\ bdOut.own = "cpu"
  /\ read' = Arrives(bdOut.data, read)
  /\ bdOut' = Armed(flags.rxDts, NoReport)
  /\ \/ /\ bdOut.data = Bump
        /\ counter' = Incremented(counter)
        /\ flags' = [flags EXCEPT !.rxDts = 1 - @]
        /\ UNCHANGED <<bdIn, hasIt>>
     \/ /\ bdOut.data = Query
        /\ bdIn' = Armed(flags.txDts, Answer(counter)) /\ hasIt' = FALSE
        /\ flags' = [flags EXCEPT !.txDts = 1 - @, !.rxDts = 1 - @]
        /\ UNCHANGED counter
  /\ UNCHANGED <<configured, hostVars, stored, breaks, app, broken, testVars, bumps>>

-----------------------------------------------------------------------------
(* hidtest.cpp                                                              *)

TestOpens ==
  /\ step = "closed" /\ hostConfigured /\ step' = "opened"
  /\ UNCHANGED <<exampleVars, counter, inbox, printed, bumps>>

(* "There shoud be no data here"; if there is, it is dropped.               *)
TestReadsFirst ==
  /\ step = "opened" /\ step' = "toBump"
  /\ inbox' = IF inbox = <<>> THEN <<>> ELSE Tail(inbox)
  /\ UNCHANGED <<exampleVars, counter, printed, bumps>>

TestWrites(r) ==
  /\ \/ step = "toBump"  /\ r = Bump
     \/ step = "toQuery" /\ r = Query
  /\ HostOffers(r)
  /\ UNCHANGED <<hidVars, app, broken>>

Written == IF step = "toBump" THEN "toQuery" ELSE IF step = "toQuery" THEN "reading" ELSE step

TestPrints ==
  /\ step = "reading" /\ inbox # <<>>
  /\ printed' = Head(inbox)[2] /\ step' = "closed" /\ inbox' = <<>>
  /\ UNCHANGED <<exampleVars, counter, bumps>>

TestKilled ==
  /\ step # "closed" /\ offer = NoReport
  /\ bdOut.own = "cpu" \/ bdIn.own = "sie" => KilledWaiting
  /\ step' = "closed" /\ inbox' = <<>>
  /\ UNCHANGED <<exampleVars, counter, printed, bumps>>

-----------------------------------------------------------------------------
(* The wire: HIDAPI's read thread polls while the device is open.           *)

Queued == inbox' = IF HostIsDue THEN Append(inbox, bdIn.data) ELSE inbox

HidIn ==
  /\ step # "closed" /\ InToken /\ Queued
  /\ UNCHANGED <<app, broken, counter, step, printed, bumps>>

HidInAckLost ==
  /\ step # "closed" /\ HostIsDue /\ InTokenAckLost /\ Queued
  /\ UNCHANGED <<app, broken, counter, step, printed, bumps>>

HidOut ==
  /\ OutToken
  /\ step' = Written
  /\ bumps' = IF offer = Bump THEN Incremented(bumps) ELSE bumps
  /\ UNCHANGED <<app, broken, counter, inbox, printed>>

HidOutAckLost == bdOut.dts = outToggle /\ OutTokenAckLost /\ UNCHANGED <<app, broken, hidVars>>

HoldsBump == bdOut.own = "cpu" /\ bdOut.data = Bump
BumpUnconfirmed == offer = Bump /\ stored
One(holds) == IF holds THEN 1 ELSE 0

(* A write in progress fails, whether or not the device has the command.    *)
HidBroken ==
  /\ step' = IF offer # NoReport /\ offer' = NoReport THEN Written ELSE step
  /\ bumps' = (counter + One(HoldsBump') - One(BumpUnconfirmed')) % CounterWrap
  /\ UNCHANGED <<app, counter, inbox, printed>>

HidReset     == BusReset /\ Breaks /\ HidBroken
HidConfigure == HostConfigures(TRUE) /\ UNCHANGED <<app, broken, hidVars>>
HidHalt      == (HostHaltsIn \/ HostHaltsOut) /\ Breaks /\ HidBroken
HidClear     == (flags.inHalt /\ HostClearsIn) \/ (flags.outHalt /\ HostClearsOut)
HidClears    == HidClear /\ HidBroken /\ UNCHANGED broken

-----------------------------------------------------------------------------

HidInit == counter = 0 /\ step = "closed" /\ inbox = <<>> /\ printed = 0 /\ bumps = 0

HidNext ==
  \/ HidTurn
  \/ TestOpens \/ TestReadsFirst \/ TestWrites(Bump) \/ TestWrites(Query) \/ TestPrints \/ TestKilled
  \/ HidIn \/ HidInAckLost \/ HidOut \/ HidOutAckLost
  \/ HidReset \/ HidConfigure \/ HidHalt \/ HidClears

-----------------------------------------------------------------------------
(* Properties.                                                              *)

(* Each 0x80 that was acknowledged is counted once, though its ACK may be   *)
(* lost and the packet repeated, and main() takes nothing while a reply     *)
(* waits.                                                                   *)
CountsOnce ==
  app = "customHID" =>
    (counter + One(HoldsBump)) % CounterWrap = (bumps + One(BumpUnconfirmed)) % CounterWrap

(* "Read requested state": what hidtest prints counts its own 0x80, and all *)
(* that went before.                                                        *)
PrintsItsCount ==
  [][step = "reading" /\ step' = "closed" /\ inbox # <<>> => Head(inbox)[2] = bumps]_step
=============================================================================
