------------------------------- MODULE PassFob -------------------------------
(***************************************************************************)
(* The passfob example: a keyboard that types a stored sequence of keys     *)
(* when its button is held down.                                            *)
(*                                                                         *)
(* main() debounces the button with a counter that goes down while it is    *)
(* up, and up while it is down, once per frame.  report[2], the key, stands *)
(* for the report; a report of 0 releases the key before it.                *)
(***************************************************************************)
EXTENDS Example

CONSTANTS
  Trigger,    \* MIN_TRIGGER_MS
  Keys        \* key_table

ASSUME FobAssumption ==
  /\ Trigger \in Nat \ {0}
  /\ Keys \in Seq(Nat \ {0}) /\ Keys # <<>>
  /\ {<<0>>} \cup {<<Keys[i]>> : i \in DOMAIN Keys} \subseteq Report

VARIABLES
  fobState, count, tableIndex, msTick,   \* main()
  down,                                  \* the key the host takes to be down, or 0
  due,                                   \* history: place in Keys of the report it must see next
  missed,                                \* history: reports it did not see
  ticksUp, ticksDown                     \* history: frames with the button up since the last
                                         \* transmission, and with it down since then

fobMain == <<fobState, count, tableIndex, msTick, ticksUp, ticksDown>>
fobHost == <<down, due, missed>>
fobVars == <<fobMain, fobHost>>

FobTypeOK ==
  /\ ExampleTypeOK
  /\ fobState \in {"cooldown", "armed", "transmitting"}
  /\ count \in 0 .. Trigger /\ tableIndex \in 0 .. Len(Keys) /\ msTick \in BOOLEAN
  /\ down \in {0} \cup {Keys[i] : i \in DOMAIN Keys}
  /\ due \in 1 .. Len(Keys) + 1 /\ missed \in Nat
  /\ ticksUp \in 0 .. Trigger + 1 /\ ticksDown \in 0 .. Trigger + 1

-----------------------------------------------------------------------------
(* main()                                                                   *)

State(s, c, i) == [state |-> s, count |-> c, index |-> i]

(* Mutant: it does not wait for the button to be released.                  *)
ReleasedAtOnce ==
  IF count = Trigger THEN State("armed", Trigger - 1, tableIndex)
  ELSE IF count > 0 THEN State(fobState, count - 1, tableIndex)
  ELSE State("armed", 0, tableIndex)

Released ==
  IF count > 0 THEN State(fobState, count - 1, tableIndex) ELSE State("armed", 0, tableIndex)

Pressed ==
  IF count < Trigger THEN State(fobState, count + 1, tableIndex)
  ELSE IF fobState = "armed" THEN State("transmitting", count, 0)
  ELSE State(fobState, count, tableIndex)

Debounced(up) ==
  IF ~msTick \/ fobState = "transmitting" THEN State(fobState, count, tableIndex)
  ELSE IF up THEN Released ELSE Pressed

Counted(n) == IF n > Trigger THEN n ELSE n + 1

(* The button is up or down while a frame is counted.                       *)
Watches(up, s) ==
  /\ ticksUp' = IF fobState = "transmitting" THEN 0
                ELSE IF msTick /\ up THEN Counted(ticksUp) ELSE ticksUp
  /\ ticksDown' = IF fobState = "cooldown" THEN 0
                  ELSE IF msTick /\ ~up THEN Counted(ticksDown) ELSE ticksDown

(* Mutant: the last report repeats the last key.                            *)
NextReportUnreleased(s) == Keys[IF s.index < Len(Keys) THEN s.index + 1 ELSE s.index]

NextReport(s) == IF s.index < Len(Keys) THEN Keys[s.index + 1] ELSE 0

(* One turn of the loop.                                                    *)
FobTurn(up) ==
  LET s == Debounced(up)
      sends == s.state = "transmitting" /\ MaySend
      last  == s.index = Len(Keys)
  IN  /\ configured
      /\ msTick' = FALSE
      /\ Watches(up, s)
      /\ count' = s.count
      /\ fobState' = IF sends /\ last THEN "cooldown" ELSE s.state
      /\ tableIndex' = IF sends /\ ~last THEN s.index + 1 ELSE s.index
      /\ IF sends THEN SendInBuffer(<<NextReport(s)>>) /\ hasIt' = FALSE
                  ELSE UNCHANGED <<deviceVars, hasIt>>
      /\ UNCHANGED <<hostVars, read, stored, breaks, app, broken, fobHost>>

-----------------------------------------------------------------------------
(* The host, and usb_service().                                             *)

(* A start of frame.                                                        *)
FobFrame ==
  /\ ~msTick /\ msTick' = TRUE
  /\ UNCHANGED <<exampleVars, fobState, count, tableIndex, ticksUp, ticksDown, fobHost>>

PlaceOf(key) ==
  IF key = 0 THEN Len(Keys) + 1 ELSE CHOOSE i \in DOMAIN Keys : Keys[i] = key

(* The host takes a report: it should be the one that is due.               *)
Types ==
  IF ~HostIsDue THEN UNCHANGED fobHost
  ELSE LET place == PlaceOf(bdIn.data[1])
       IN  /\ down' = bdIn.data[1]
           /\ due' = (place % (Len(Keys) + 1)) + 1
           /\ missed' = missed + ((place - due + Len(Keys) + 1) % (Len(Keys) + 1))

FobIn        == InToken /\ Types /\ UNCHANGED <<app, broken, fobMain>>
FobInAckLost == HostIsDue /\ InTokenAckLost /\ Types /\ UNCHANGED <<app, broken, fobMain>>

(* A host that resets a keyboard takes no key to be down.                   *)
FobReset     == BusReset /\ Breaks /\ down' = 0 /\ UNCHANGED <<app, fobMain, due, missed>>
FobConfigure == HostConfigures(TRUE) /\ UNCHANGED <<app, broken, fobVars>>
FobHalt      == HostHaltsIn /\ Breaks /\ UNCHANGED <<app, fobVars>>
FobClear     == flags.inHalt /\ HostClearsIn /\ UNCHANGED <<app, broken, fobVars>>
FobClearAgain == ~flags.inHalt /\ HostClearsIn /\ Breaks /\ UNCHANGED <<app, fobVars>>

-----------------------------------------------------------------------------

FobInit ==
  /\ fobState = "cooldown" /\ count = Trigger /\ tableIndex = 0 /\ msTick = FALSE
  /\ down = 0 /\ due = 1 /\ missed = 0 /\ ticksUp = 0 /\ ticksDown = 0

FobNext ==
  \/ \E up \in BOOLEAN : FobTurn(up)
  \/ FobFrame \/ FobIn \/ FobInAckLost
  \/ FobReset \/ FobConfigure \/ FobHalt \/ FobClear \/ FobClearAgain

-----------------------------------------------------------------------------
(* Properties.                                                              *)

(* The host sees the keys in the order of the table, each once and the last *)
(* one released; a break costs one report at most, not the rest of them.    *)
TypesInOrder == missed <= broken

(* main.c:40: "how long one has to press the button for the transmit to be  *)
(* triggered", and "how long the button must be released in order to        *)
(* re-arm": however the button bounces, nothing is typed before it was up   *)
(* and then down for more than that many frames.                            *)
TypesWhenMeant ==
  [][fobState # "transmitting" /\ fobState' # fobState /\ fobState' \in {"transmitting"} =>
       ticksUp > Trigger /\ ticksDown >= Trigger]_fobState
=============================================================================
