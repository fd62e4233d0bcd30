------------------------------- MODULE Examples -------------------------------
(***************************************************************************)
(* The example applications side by side: app says which of them is there,  *)
(* and the others' variables stand still.  One specification for all, since *)
(* they rest on the same fairness of the same parts.                        *)
(***************************************************************************)
EXTENDS HidMouse, PassFob, PassFobLock, MousePlay, CustomHid, MinimalCdc

CONSTANT Apps

ASSUME AppsAssumption ==
  DOMAIN MaxBreaks = Apps /\ Apps \subseteq {"hid_mouse", "passfob", "keylock", "mouseplay", "customHID", "minimalCDC"}

appVars == <<app, broken, mouseVars, fobVars, lockVars, playVars, hidVars, cdcVars>>
allMoving == <<movingVars, appVars>>
vars == <<newer, allMoving>>

TypeOK ==
  /\ app \in Apps
  /\ MouseTypeOK /\ FobTypeOK /\ LockTypeOK /\ PlayTypeOK /\ HidTypeOK /\ CdcTypeOK

Init ==
  /\ ExampleInit /\ app \in Apps /\ newer = (app = "minimalCDC")
  /\ MouseInit /\ FobInit /\ LockInit /\ PlayInit /\ HidInit /\ CdcInit

Mouse == app = "hid_mouse" /\ UNCHANGED <<fobVars, lockVars, playVars, hidVars, cdcVars>>
Fob   == app = "passfob" /\ UNCHANGED <<mouseVars, lockVars, playVars, hidVars, cdcVars>>
Lock  == app = "keylock" /\ UNCHANGED <<mouseVars, fobVars, playVars, hidVars, cdcVars>>
Play  == app = "mouseplay" /\ UNCHANGED <<mouseVars, fobVars, lockVars, hidVars, cdcVars>>
Hid   == app = "customHID" /\ UNCHANGED <<mouseVars, fobVars, lockVars, playVars, cdcVars>>
Cdc   == app = "minimalCDC" /\ UNCHANGED <<mouseVars, fobVars, lockVars, playVars, hidVars>>

AppNext ==
  \/ Mouse /\ MouseNext
  \/ Fob /\ FobNext
  \/ Lock /\ LockNext
  \/ Play /\ PlayNext
  \/ Hid /\ HidNext
  \/ Cdc /\ CdcNext

Next == AppNext /\ UNCHANGED newer

-----------------------------------------------------------------------------
(* Fairness.  main() runs for ever, the interrupt comes, and frames go by;  *)
(* a host repeats a transaction until its handshake gets through, and       *)
(* configures and clears what has to be; a transmitter ends its byte.       *)

Turn ==
  \/ Mouse /\ Main
  \/ Fob /\ \E up \in BOOLEAN : FobTurn(up)
  \/ Play /\ PlayTurn
  \/ Hid /\ HidTurn
  \/ Cdc /\ CdcTurn

Polls == (Mouse /\ InTransaction) \/ (Fob /\ FobIn) \/ (Play /\ PlayIn) \/ (Hid /\ HidIn) \/ (Cdc /\ CdcIn)
Writes == (Hid /\ HidOut) \/ (Cdc /\ CdcOut)
Configures ==
  \/ Mouse /\ Configure
  \/ Fob /\ FobConfigure
  \/ Play /\ PlayConfigure
  \/ Hid /\ HidConfigure
  \/ Cdc /\ ~hostConfigured /\ CdcConfigure
Clears ==
  \/ Mouse /\ ClearStalled
  \/ Fob /\ FobClear
  \/ Play /\ PlayClear
  \/ Hid /\ HidClears
  \/ Cdc /\ CdcClears
Background == (Mouse /\ ServiceIn) \/ (Cdc /\ LineShifted)

Fairness ==
  /\ WF_allMoving(Turn) /\ WF_allMoving(Background)
  /\ SF_allMoving(Polls) /\ SF_allMoving(Writes)
  /\ WF_allMoving(Configures) /\ WF_allMoving(Clears)

Spec == Init /\ [][Next]_vars /\ Fairness

-----------------------------------------------------------------------------
(* Properties of the whole.                                                 *)

(* A mouse that the host goes on polling does not fall silent: no order of  *)
(* main() and the interrupt leaves the buffer with neither.                 *)
KeepsReporting ==
  app = "hid_mouse" => []<>(inToggle = 0) /\ []<>(inToggle = 1)

(* passfob's keys are not left pressed: the host sees the last one released *)
(* unless it breaks the pipe while it is typed.                             *)
ReleasesKeys == [](down # 0 => <>(down = 0 \/ broken > 0))

(* What the PC writes to minimalCDC does not wait for ever, however much    *)
(* the line sends, as long as the PC reads: main() looks at the OUT buffer  *)
(* only when the IN buffer is free.                                         *)
BytesGetThrough == [](app = "minimalCDC" /\ offer # NoReport => <>(offer = NoReport))
=============================================================================
