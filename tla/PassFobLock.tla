---------------------------- MODULE PassFobLock ----------------------------
(***************************************************************************)
(* passfob again: its way back to the boot loader.  A host that switches    *)
(* Scroll Lock on for about a second and off again makes it enable the      *)
(* watchdog, which nothing ever clears.                                     *)
(*                                                                         *)
(* A SET_REPORT is one step: ControlEndpoint has its stages, and a transfer *)
(* that fails before its data leaves set_report_buf as it was, so that its  *)
(* callback changes nothing.                                                *)
(***************************************************************************)
EXTENDS Example

CONSTANTS
  TooSoon, TooLate, TickLimit,    \* 800, 1200 and 0xFFFF
  OtherLeds                       \* the lamps of a keyboard beside Scroll Lock's

ASSUME LockAssumption ==
  /\ {TooSoon, TooLate, TickLimit} \subseteq Nat
  /\ TooSoon < TooLate /\ TooLate < TickLimit /\ "scroll" \notin OtherLeds

VARIABLES
  lastState, lockTicks, watchdog,   \* last_keylock_state, keylock_tick_count, SWDTEN
  leds, litFor                      \* the lamps as the host has them; frames since it lit Scroll Lock's

lockVars == <<lastState, lockTicks, watchdog, leds, litFor>>

Leds == SUBSET ({"scroll"} \cup OtherLeds)
Lit(state) == "scroll" \in state

LockTypeOK ==
  /\ ExampleTypeOK
  /\ lastState \in Leds /\ leds \in Leds /\ watchdog \in BOOLEAN
  /\ lockTicks \in 0 .. TickLimit /\ litFor \in 0 .. TickLimit

-----------------------------------------------------------------------------

(* A start of frame.                                                        *)
LockFrame ==
  /\ lockTicks' = IF Lit(lastState) /\ lockTicks # TickLimit THEN lockTicks + 1 ELSE lockTicks
  /\ litFor' = IF Lit(leds) /\ litFor # TickLimit THEN litFor + 1 ELSE litFor
  /\ UNCHANGED <<exampleVars, lastState, watchdog, leds>>

(* Mutant: a report that changes nothing starts the count again.            *)
SetReportCallbackAlways(report) ==
  /\ watchdog' = (watchdog \/ (lockTicks > TooSoon /\ lockTicks < TooLate))
  /\ lockTicks' = 0 /\ lastState' = report

(* set_report_callback()                                                    *)
SetReportCallback(report) ==
  IF report = lastState THEN UNCHANGED <<watchdog, lockTicks, lastState>>
  ELSE /\ watchdog' = (watchdog \/ (lockTicks > TooSoon /\ lockTicks < TooLate))
       /\ lockTicks' = 0 /\ lastState' = report

(* A host sets the lamps when one changes, and again whenever it likes.     *)
HostSetsLeds(report) ==
  /\ SetReportCallback(report)
  /\ leds' = report
  /\ litFor' = IF Lit(leds) /\ Lit(report) THEN litFor ELSE 0
  /\ UNCHANGED exampleVars

LockInit == lastState = {} /\ lockTicks = 0 /\ watchdog = FALSE /\ leds = {} /\ litFor = 0

LockNext == LockFrame \/ \E report \in Leds : HostSetsLeds(report)

-----------------------------------------------------------------------------

(* "reboot to bootloader *if* KEYLOCK turns on for a second (800 to 1200    *)
(* milliseconds) and then goes back off", and otherwise not, however often  *)
(* the host says what it has said.                                          *)
RebootsWhenAsked ==
  [][watchdog' = (watchdog \/ (Lit(leds) /\ ~Lit(leds') /\ litFor \in TooSoon + 1 .. TooLate - 1))
    ]_<<leds, watchdog, litFor>>
=============================================================================
