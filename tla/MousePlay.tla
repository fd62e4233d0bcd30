------------------------------ MODULE MousePlay ------------------------------
(***************************************************************************)
(* The mouseplay example: a mouse that draws the same figure over and over. *)
(*                                                                         *)
(* tick_count, a byte that each frame increments, says when the next move   *)
(* is due.  A report is its X and its Y.                                    *)
(***************************************************************************)
EXTENDS Example

CONSTANTS
  TickWrap, Late    \* 256 and 63

MoveTable == <<6, -2, 2, -6, -2, -6, -6, -2, -6, 2, -2, 6, 2, 6, 6, 2>>

Rest == <<0, 0>>
PlayReports == {Rest} \cup {<<MoveTable[i - 1], MoveTable[i]>> : i \in {j \in DOMAIN MoveTable : j % 2 = 0}}

ASSUME PlayAssumption ==
  /\ TickWrap \in Nat /\ Late \in 0 .. TickWrap - 2
  /\ PlayReports \subseteq Report

VARIABLES
  tickCount, playIndex,    \* main(): tick_count, table_index
  place                    \* where the host's pointer is

playMain == <<tickCount, playIndex>>
playVars == <<playMain, place>>

PlayTypeOK ==
  /\ ExampleTypeOK
  /\ tickCount \in 0 .. TickWrap - 1 /\ playIndex \in 0 .. Len(MoveTable)
  /\ place \in Int \X Int

-----------------------------------------------------------------------------

(* Mutant: a figure that starts over one move early.                        *)
EvenOneEarly(index) == 2 * ((index \div 2) % 7)

(* table_index &= 0xE                                                       *)
Even(index) == 2 * ((index \div 2) % 8)

(* One turn of the loop that sends.                                         *)
PlayTurn ==
  LET index == Even(playIndex)
  IN  /\ MaySend
      /\ \/ /\ tickCount > Late
            /\ tickCount' = 0 /\ playIndex' = index + 2
            /\ SendInBuffer(<<MoveTable[index + 1], MoveTable[index + 2]>>)
         \/ /\ tickCount <= Late
            /\ playIndex' = index
            /\ SendInBuffer(Rest) /\ UNCHANGED tickCount
      /\ hasIt' = FALSE
      /\ UNCHANGED <<hostVars, read, stored, breaks, app, broken, place>>

(* A start of frame.                                                        *)
PlayFrame ==
  /\ tickCount' = (tickCount + 1) % TickWrap
  /\ UNCHANGED <<exampleVars, playIndex, place>>

Plus(a, b) == <<a[1] + b[1], a[2] + b[2]>>

Draws == place' = IF HostIsDue THEN Plus(place, bdIn.data) ELSE place

PlayIn        == InToken /\ Draws /\ UNCHANGED <<app, broken, playMain>>
PlayInAckLost == HostIsDue /\ InTokenAckLost /\ Draws /\ UNCHANGED <<app, broken, playMain>>
PlayReset     == BusReset /\ Breaks /\ UNCHANGED <<app, playVars>>
PlayConfigure == HostConfigures(TRUE) /\ UNCHANGED <<app, broken, playVars>>
PlayHalt      == HostHaltsIn /\ Breaks /\ UNCHANGED <<app, playVars>>
PlayClear     == flags.inHalt /\ HostClearsIn /\ UNCHANGED <<app, broken, playVars>>
PlayClearAgain == ~flags.inHalt /\ HostClearsIn /\ Breaks /\ UNCHANGED <<app, playVars>>

-----------------------------------------------------------------------------

PlayInit == tickCount = 0 /\ playIndex = 0 /\ place = <<0, 0>>

PlayNext ==
  \/ PlayTurn \/ PlayFrame \/ PlayIn \/ PlayInAckLost
  \/ PlayReset \/ PlayConfigure \/ PlayHalt \/ PlayClear \/ PlayClearAgain

-----------------------------------------------------------------------------
(* Properties.                                                              *)

(* Where the figure is after the moves before an index.                     *)
Figure[index \in 0 .. Len(MoveTable)] ==
  IF index < 2 THEN <<0, 0>>
  ELSE Plus(Figure[index - 2], <<MoveTable[index - 1], MoveTable[index]>>)

(* What n breaks may cost: a move each.                                     *)
Cost[n \in Nat] ==
  IF n = 0 THEN {<<0, 0>>} ELSE {Plus(total, move) : total \in Cost[n - 1], move \in PlayReports}

(* The figure closes, and the pointer stays on it: the host's pointer, with *)
(* the report on its way, is where main() is in its table, but for a move   *)
(* per break.                                                               *)
StaysOnFigure ==
  LET underWay == IF bdIn.own = "sie" /\ ~hasIt THEN bdIn.data ELSE Rest
  IN  app = "mouseplay" => \E lost \in Cost[broken] : Plus(Plus(place, underWay), lost) = Figure[playIndex]
=============================================================================
