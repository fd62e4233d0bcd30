------------------------- MODULE HidDeviceTheorems -------------------------
(***************************************************************************)
(* Proofs about HidDevice and the ReportQueue it opens and closes, for any  *)
(* reports, any limit of the list and any number of addresses.              *)
(***************************************************************************)
EXTENDS HidDevice, TLAPS

(***************************************************************************)
(* The two threads.                                                         *)
(***************************************************************************)

(* What becomes of a queue, be it opened by Open or by hid_open().          *)
QueueStep == Running \/ Unplug \/ PlugIn \/ CreateThread \/ Free

LEMMA QueueSteps ==
  ASSUME QueueStep
  PROVE  \/ Completes \/ Unplug \/ PlugIn \/ CreateThread \/ Free
         \/ Barrier \/ (\E m \in {"blocking", "timed", "polling"} : Read(m))
         \/ ReadLocks \/ ReturnsReport \/ ReadFails \/ ReadPolls \/ ReadWaits
         \/ FallsAsleep \/ WakesUp \/ WokenLocks \/ TimesOut \/ ExpiredReturns
         \/ Close \/ CloseCancels \/ Join
         \/ Start \/ Loop \/ Reap \/ EventsTimeOut \/ EventsFail
         \/ CallbackCompleted \/ CallbackStopped \/ CallbackOther \/ Put \/ Resubmit \/ Cancel \/ Wake
BY Zenon DEF QueueStep, Running

(* The list keeps its type and its bound.                                   *)
LEMMA ListType ==
  ASSUME NEW s \in Seq(Report), Len(s) <= Limit + 2
  PROVE  /\ s # <<>> => /\ Tail(s) \in Seq(Report) /\ Len(Tail(s)) <= Limit + 2
                        /\ Head(s) \in Report
         /\ \A r \in Report : LET t == IF Len(s) - 1 > Limit THEN Append(Tail(s), r) ELSE Append(s, r)
                              IN  t \in Seq(Report) /\ Len(t) <= Limit + 2
         /\ <<>> \in Seq(Report) /\ Len(<<>>) <= Limit + 2
<1>1. Limit \in Nat /\ Len(s) \in Nat
  BY QueueAssumption
<1>2. s # <<>> => Tail(s) \in Seq(Report) /\ Len(Tail(s)) = Len(s) - 1 /\ Head(s) \in Report
  OBVIOUS
<1>3. \A r \in Report : Append(s, r) \in Seq(Report) /\ Len(Append(s, r)) = Len(s) + 1
  OBVIOUS
<1>4. ASSUME NEW r \in Report, s # <<>>
      PROVE  Append(Tail(s), r) \in Seq(Report) /\ Len(Append(Tail(s), r)) = Len(s)
  BY <1>2, <1>4
<1>5. Len(s) - 1 > Limit => s # <<>>
  BY <1>1
<1>6. <<>> \in Seq(Report) /\ Len(<<>>) <= Limit + 2
  BY <1>1
<1>7. ASSUME NEW r \in Report
      PROVE  LET t == IF Len(s) - 1 > Limit THEN Append(Tail(s), r) ELSE Append(s, r)
             IN  t \in Seq(Report) /\ Len(t) <= Limit + 2
  <2>1. CASE Len(s) - 1 > Limit
    BY <1>4, <1>5, <2>1
  <2>2. CASE ~(Len(s) - 1 > Limit)
    BY <1>1, <1>3, <2>2
  <2>3. QED  BY <2>1, <2>2
<1>8. QED  BY <1>1, <1>2, <1>6, <1>7

LEMMA InitQueue == Init => QueueInv /\ StopInv
<1> SUFFICES ASSUME Init PROVE QueueInv /\ StopInv
  OBVIOUS
<1>1. reports \in Seq(Report) /\ Len(reports) <= Limit + 2
  BY QueueAssumption DEF Init
<1>2. QED  BY <1>1 DEF Init, QueueInv, StopInv, TypeOK, Status, NoStatus

LEMMA ReportsType ==
  ASSUME QueueInv, QueueStep
  PROVE  reports' \in Seq(Report) /\ Len(reports') <= Limit + 2
<1>1. reports \in Seq(Report) /\ Len(reports) <= Limit + 2
  BY DEF QueueInv, TypeOK
<1>2. CASE Put
  BY <1>1, <1>2, ListType DEF Put, TooMany, QueueInv
<1>3. CASE ReturnsReport
  BY <1>1, <1>3, ListType DEF ReturnsReport
<1>4. CASE CreateThread \/ Free
  BY <1>1, <1>4, ListType DEF CreateThread, Free
<1>5. CASE reports' = reports
  BY <1>1, <1>5
<1>6. QueueStep => Put \/ ReturnsReport \/ CreateThread \/ Free \/ reports' = reports
  BY QueueSteps DEF Completes, Unplug, PlugIn, Barrier, Read, ReadLocks, AppSteps, ReadFails, ReadPolls,
     ReadWaits, FallsAsleep, WakesUp, WokenLocks, TimesOut, ExpiredReturns, Close, CloseCancels, Join,
     Start, Loop, Reap, EventsTimeOut, EventsFail, CallbackCompleted, CallbackStopped, CallbackOther,
     Resubmit, Cancel, Wake
<1>7. QED  BY <1>2, <1>3, <1>4, <1>5, <1>6

LEMMA ResultType ==
  ASSUME QueueInv, QueueStep
  PROVE  result' \in [what : Report \cup {"none", "failed"}, bit : {0, 1}]
<1>1. /\ result \in [what : Report \cup {"none", "failed"}, bit : {0, 1}]
      /\ reports \in Seq(Report)
  BY DEF QueueInv, TypeOK
<1>2. \A w \in Report \cup {"none", "failed"} :
        Returns(w) => result' \in [what : Report \cup {"none", "failed"}, bit : {0, 1}]
  BY <1>1 DEF Returns
<1>3. CASE ReturnsReport
  <2>1. Head(reports) \in Report
    BY <1>1, <1>3 DEF ReturnsReport
  <2>2. QED  BY <1>2, <1>3, <2>1 DEF ReturnsReport
<1>4. CASE ReadFails \/ ReadPolls \/ ExpiredReturns
  BY <1>2, <1>4 DEF ReadFails, ReadPolls, ExpiredReturns
<1>5. QueueStep => ReturnsReport \/ ReadFails \/ ReadPolls \/ ExpiredReturns \/ result' = result
  BY QueueSteps DEF Completes, Unplug, PlugIn, CreateThread, Free, Barrier, Read, ReadLocks, appVars,
     ReadWaits, FallsAsleep, WakesUp, WokenLocks, TimesOut, Close, CloseCancels, Join,
     Start, Loop, Reap, EventsTimeOut, EventsFail, CallbackCompleted, CallbackStopped, CallbackOther,
     Put, Resubmit, Cancel, Wake
<1>6. QED  BY <1>1, <1>3, <1>4, <1>5

(* The steps of the program.                                                *)
LEMMA AppQueueInv ==
  ASSUME QueueInv, StopInv,
         \/ Barrier \/ (\E m \in {"blocking", "timed", "polling"} : Read(m))
         \/ ReadLocks \/ ReturnsReport \/ ReadFails \/ ReadPolls \/ ReadWaits
         \/ FallsAsleep \/ WakesUp \/ WokenLocks \/ TimesOut \/ ExpiredReturns
         \/ Close \/ Join
  PROVE  QueueInv' /\ StopInv'
<1>1. QueueStep
  BY Zenon DEF QueueStep, Running
<1>2. /\ reports' \in Seq(Report) /\ Len(reports') <= Limit + 2
      /\ result' \in [what : Report \cup {"none", "failed"}, bit : {0, 1}]
  BY <1>1, ReportsType, ResultType
<1>3. /\ UNCHANGED <<stopping, transfer, status, plugged>>
      /\ mode' \in {"blocking", "timed", "polling"} /\ shutdown' \in BOOLEAN
  BY DEF Barrier, Read, ReadLocks, AppSteps, ReturnsReport, ReadFails, ReadPolls, ReadWaits, FallsAsleep,
     WakesUp, WokenLocks, TimesOut, ExpiredReturns, Close, Join, usbVars, threadVars, QueueInv, TypeOK
<1>4. CASE Barrier
  BY <1>2, <1>3, <1>4 DEF Barrier, QueueInv, StopInv, TypeOK
<1>5. CASE ~Barrier
  <2>1. /\ thread' = thread /\ app \notin {"closed", "opening"}
        /\ app' \in {"idle", "reading", "testing", "waiting", "asleep", "woken", "expired",
                     "cancelling", "joining", "freeing"}
        /\ app' = "freeing" => thread = "ended"
    BY <1>5 DEF Read, ReadLocks, AppSteps, ReturnsReport, ReadFails, ReadPolls, ReadWaits, FallsAsleep,
       WakesUp, WokenLocks, TimesOut, ExpiredReturns, Close, Join, threadVars
  <2>2. QED  BY <1>2, <1>3, <2>1 DEF QueueInv, StopInv, TypeOK
<1>6. QED  BY <1>4, <1>5

(* The steps of the read thread.                                            *)
LEMMA ThreadQueueInv ==
  ASSUME QueueInv, StopInv, CancelWins, "last" \notin EventErrors,
         \/ Start \/ Loop \/ Reap \/ EventsTimeOut \/ EventsFail
         \/ CallbackCompleted \/ CallbackStopped \/ CallbackOther \/ Put \/ Resubmit \/ Cancel \/ Wake
  PROVE  QueueInv' /\ StopInv'
<1>1. QueueStep
  BY Zenon DEF QueueStep, Running
<1>2. /\ reports' \in Seq(Report) /\ Len(reports') <= Limit + 2
      /\ result' \in [what : Report \cup {"none", "failed"}, bit : {0, 1}]
  BY <1>1, ReportsType, ResultType
<1>3. {"none", "failed", "other", "nodevice", "cancelled"} \cap Report = {}
  BY QueueAssumption
<1> USE DEF QueueInv, StopInv, TypeOK, appVars, usbVars, threadVars
<1>4. CASE Start
  BY <1>2, <1>4 DEF Start, Submitted
<1>5. CASE Loop
  BY <1>2, <1>5 DEF Loop
<1>6. CASE Reap
  BY <1>2, <1>6 DEF Reap
<1>7. CASE EventsTimeOut
  BY <1>2, <1>7 DEF EventsTimeOut, LeaveEvents
<1>8. CASE EventsFail
  BY <1>2, <1>8 DEF EventsFail
<1>9. CASE CallbackCompleted
  BY <1>2, <1>3, <1>9 DEF CallbackCompleted
<1>10. CASE CallbackStopped
  BY <1>2, <1>10 DEF CallbackStopped, LeaveEvents
<1>11. CASE CallbackOther
  BY <1>2, <1>11 DEF CallbackOther
<1>12. CASE Put
  BY <1>2, <1>12 DEF Put, Signal
<1>13. CASE Resubmit
  BY <1>2, <1>13 DEF Resubmit, Submitted, LeaveEvents
<1>14. CASE Cancel
  BY <1>2, <1>14 DEF Cancel, Cancelled, Cancellable, Status
<1>15. CASE Wake
  BY <1>2, <1>15 DEF Wake, Signal
<1>16. QED
  BY <1>4, <1>5, <1>6, <1>7, <1>8, <1>9, <1>10, <1>11, <1>12, <1>13, <1>14, <1>15

(* What comes from libusb and from the bus, and the two ends of a device's  *)
(* life.                                                                    *)
LEMMA BusQueueInv ==
  ASSUME QueueInv, StopInv, CancelWins,
         Completes \/ Unplug \/ PlugIn \/ CreateThread \/ CloseCancels \/ Free
  PROVE  QueueInv' /\ StopInv'
<1>1. QueueStep
  BY Zenon DEF QueueStep, Running
<1>2. /\ reports' \in Seq(Report) /\ Len(reports') <= Limit + 2
      /\ result' \in [what : Report \cup {"none", "failed"}, bit : {0, 1}]
  BY <1>1, ReportsType, ResultType
<1> USE DEF QueueInv, StopInv, TypeOK, Status, NoStatus, appVars, usbVars, threadVars
<1>3. CASE Completes
  BY <1>2, <1>3 DEF Completes
<1>4. CASE Unplug
  <2>1. UNCHANGED <<app, mode, result, thread, stopping, shutdown, reports>> /\ plugged' = FALSE
    BY <1>4 DEF Unplug
  <2>2. CASE transfer = "pending"
    <3>1. transfer' = "done" /\ status' = "nodevice"
      BY <1>4, <2>2 DEF Unplug
    <3>2. QED  BY <1>2, <2>1, <2>2, <3>1
  <2>3. CASE transfer # "pending"
    <3>1. transfer' = transfer /\ status' = status
      BY <1>4, <2>3 DEF Unplug
    <3>2. TypeOK'
      <4>1. /\ app' \in {"closed", "opening", "idle", "reading", "testing", "waiting", "asleep",
                         "woken", "expired", "cancelling", "joining", "freeing"}
            /\ mode' \in {"blocking", "timed", "polling"}
            /\ thread' \in {"none", "start", "barrier", "loop", "events", "callback", "put",
                            "resubmit", "cancel", "wake", "ended"}
        BY <2>1
      <4>2. transfer' \in {"none", "idle", "pending", "done"} /\ status' \in Status
        BY <3>1
      <4>3. stopping' \in BOOLEAN /\ shutdown' \in BOOLEAN /\ plugged' \in BOOLEAN
        BY <2>1
      <4>4. QED  BY <1>2, <4>1, <4>2, <4>3
    <3>3. QED  BY <2>1, <3>1, <3>2
  <2>4. QED  BY <2>2, <2>3
<1>5. CASE PlugIn
  BY <1>2, <1>5 DEF PlugIn
<1>6. CASE CreateThread
  BY <1>2, <1>6 DEF CreateThread
<1>7. CASE CloseCancels
  BY <1>2, <1>7 DEF CloseCancels, Cancelled, Cancellable
<1>8. CASE Free
  BY <1>2, <1>8 DEF Free
<1>9. QED  BY <1>3, <1>4, <1>5, <1>6, <1>7, <1>8

LEMMA StepQueue ==
  ASSUME QueueInv, StopInv, CancelWins, "last" \notin EventErrors, QueueStep
  PROVE  QueueInv' /\ StopInv'
BY QueueSteps, AppQueueInv, ThreadQueueInv, BusQueueInv

LEMMA StutterQueue ==
  ASSUME QueueInv, StopInv, UNCHANGED vars
  PROVE  QueueInv' /\ StopInv'
BY DEF vars, appVars, usbVars, threadVars, QueueInv, StopInv, TypeOK

(***************************************************************************)
(* Opening and closing.                                                     *)
(***************************************************************************)

(* hid_open() leaves the queue alone until it starts the thread.            *)
LEMMA HidSteps ==
  ASSUME HidNext
  PROVE  \/ Enumerates \/ OpensForStrings \/ ClosesStrings \/ Searches \/ OpensPath
         \/ Detaches \/ Claims \/ Starts \/ Closes
         \/ Unplugs \/ PlugsIn \/ OtherClaims \/ OtherReleases
         \/ Running /\ UNCHANGED hidVars
BY DEF HidNext, OpenStep

LEMMA HidQueue == HidNext => QueueStep \/ UNCHANGED vars
<1> SUFFICES ASSUME HidNext PROVE QueueStep \/ UNCHANGED vars
  OBVIOUS
<1>1. CASE Running \/ Starts \/ Closes \/ Unplugs \/ PlugsIn
  BY <1>1, Zenon DEF Starts, Closes, Unplugs, PlugsIn, QueueStep
<1>2. CASE Enumerates \/ OpensForStrings \/ ClosesStrings \/ Searches \/ OpensPath \/ Detaches \/ Claims
           \/ OtherClaims \/ OtherReleases
  BY <1>2 DEF Enumerates, OpensForStrings, ClosesStrings, Searches, OpensPath, Detaches, Claims,
     OtherClaims, OtherReleases, Opener, GivesUp, Abandons
<1>3. QED  BY <1>1, <1>2, HidSteps

(* While the device is closed nothing runs in the queue.                    *)
LEMMA RunningOpen ==
  ASSUME QueueInv, Running
  PROVE  app # "closed" /\ app' # "closed" /\ plugged' = plugged
<1>1. QueueStep
  BY Zenon DEF QueueStep
<1>2. app = "closed" => thread = "none" /\ transfer = "none"
  BY DEF QueueInv
<1>3. app # "closed"
  BY <1>2, Zenon DEF Running, Completes, Barrier, Read, ReadLocks, AppSteps, ReturnsReport, ReadFails, ReadPolls,
     ReadWaits, FallsAsleep, WakesUp, WokenLocks, TimesOut, ExpiredReturns, Close, CloseCancels,
     Join, Start, Loop, Reap, EventsTimeOut, EventsFail, CallbackCompleted, CallbackStopped,
     CallbackOther, Put, Resubmit, Cancel, Wake
<1>4. app' # "closed"
  BY <1>3 DEF Running, Completes, Barrier, Read, ReadLocks, AppSteps, ReturnsReport, ReadFails, ReadPolls,
     ReadWaits, FallsAsleep, WakesUp, WokenLocks, TimesOut, ExpiredReturns, Close, CloseCancels,
     Join, Start, Loop, Reap, EventsTimeOut, EventsFail, CallbackCompleted, CallbackStopped,
     CallbackOther, Put, Resubmit, Cancel, Wake, Signal, appVars
<1>5. plugged' = plugged
  BY DEF Running, Completes, Barrier, Read, ReadLocks, AppSteps, ReturnsReport, ReadFails, ReadPolls,
     ReadWaits, FallsAsleep, WakesUp, WokenLocks, TimesOut, ExpiredReturns, Close, CloseCancels,
     Join, Start, Loop, Reap, EventsTimeOut, EventsFail, CallbackCompleted, CallbackStopped,
     CallbackOther, Put, Resubmit, Cancel, Wake, usbVars
<1>6. QED  BY <1>3, <1>4, <1>5

LEMMA StepOpen ==
  ASSUME HidInv, HidNext, ~UnplugsAnyTime
  PROVE  HidTypeOK' /\ OpenInv' /\ OwnedInv'
<1> USE DEF HidInv, HidTypeOK, OpenInv, OwnedInv, openVars, busVars, hidVars
<1>1. CASE Enumerates
  BY <1>1 DEF Enumerates, Opener, vars, appVars, usbVars
<1>2. CASE OpensForStrings \/ ClosesStrings
  BY <1>2 DEF OpensForStrings, ClosesStrings, Opener, Present, vars, appVars, usbVars
<1>3. CASE Searches \/ OpensPath
  BY <1>3 DEF Searches, OpensPath, GivesUp, Opener, Present, vars, appVars, usbVars
<1>4. CASE Detaches
  BY <1>4 DEF Detaches, Abandons, Opener, Present, vars, appVars, usbVars
<1>5. CASE Claims
  <2>1. CASE Abandons("detached")
    BY <2>1 DEF Abandons, Opener, vars, appVars, usbVars
  <2>2. CASE ~Abandons("detached")
    <3>1. /\ Present /\ driver = "detached" /\ ~busy /\ app = "closed" /\ opener = "detached"
          /\ opener' = "claimed" /\ claimed' = TRUE /\ UNCHANGED <<vars, path, handle, busVars>>
      BY <1>5, <2>2 DEF Claims, Opener
    <3>2. UNCHANGED <<app, plugged, path, handle, address, ours, driver, busy>>
      BY <3>1 DEF vars, appVars, usbVars
    <3>3. QED  BY <3>1, <3>2 DEF Present
  <2>3. QED  BY <2>1, <2>2
<1>6. CASE Starts
  BY <1>6 DEF Starts, CreateThread, usbVars
<1>7. CASE Closes
  BY <1>7 DEF Closes, Free
<1>8. CASE Unplugs
  BY <1>8 DEF Unplugs, Unplug, appVars
<1>9. CASE PlugsIn
  BY <1>9 DEF PlugsIn, PlugIn, appVars
<1>10. CASE OtherClaims \/ OtherReleases
  <2>1. /\ UNCHANGED <<app, plugged, opener, path, handle, claimed, address, ours>>
        /\ driver' \in {"attached", "detached"} /\ busy' \in BOOLEAN
    BY <1>10 DEF OtherClaims, OtherReleases, vars, appVars, usbVars
  <2>2. plugged => ~(app # "closed" \/ opener = "claimed")
    BY <1>10 DEF OtherClaims, OtherReleases
  <2>3. QED  BY <2>1, <2>2
<1>11. CASE Running /\ UNCHANGED hidVars
  BY <1>11, RunningOpen
<1>12. QED
  BY <1>1, <1>2, <1>3, <1>4, <1>5, <1>6, <1>7, <1>8, <1>9, <1>10, <1>11, HidSteps

LEMMA InitHid == HidInit => HidInv
<1> SUFFICES ASSUME HidInit PROVE HidInv
  OBVIOUS
<1>1. QueueInv /\ StopInv
  BY InitQueue DEF HidInit
<1>2. HidTypeOK /\ OpenInv /\ OwnedInv
  BY DEF HidInit, Init, HidTypeOK, OpenInv, OwnedInv
<1>3. QED  BY <1>1, <1>2 DEF HidInv

LEMMA NextHid ==
  ASSUME CancelWins, "last" \notin EventErrors, ~UnplugsAnyTime
  PROVE  HidInv /\ [HidNext]_allVars => HidInv'
<1> SUFFICES ASSUME HidInv, [HidNext]_allVars PROVE HidInv'
  OBVIOUS
<1>1. CASE HidNext
  <2>1. QueueInv' /\ StopInv'
    BY <1>1, HidQueue, StepQueue, StutterQueue DEF HidInv
  <2>2. QED  BY <1>1, <2>1, StepOpen DEF HidInv
<1>2. CASE UNCHANGED allVars
  <2>1. QueueInv' /\ StopInv'
    BY <1>2, StutterQueue DEF HidInv, allVars
  <2>2. HidTypeOK' /\ OpenInv' /\ OwnedInv'
    BY <1>2 DEF allVars, hidVars, openVars, busVars, vars, appVars, usbVars, HidInv, HidTypeOK,
       OpenInv, OwnedInv
  <2>3. QED  BY <2>1, <2>2 DEF HidInv
<1>3. QED  BY <1>1, <1>2

(* Whatever fails in hid_open(), and whatever happens on the bus, what the  *)
(* program has open is the device it asked for, claimed and its own; what   *)
(* it has closed leaves nothing behind; and hid_close() frees the transfer  *)
(* only when nobody can use it.  This is what the code takes for granted:   *)
(* that a transfer which is complete can still be cancelled, that waiting   *)
(* for the cancellation does not fail, and that no device is unplugged      *)
(* between being claimed and its first transfer.                            *)
THEOREM OwnsCorrect ==
  ASSUME CancelWins, "last" \notin EventErrors, ~UnplugsAnyTime
  PROVE  HidSpec => []OwnsWhatItUses
<1>1. HidInv => OwnsWhatItUses
  <2> SUFFICES ASSUME HidInv PROVE OwnsWhatItUses
    OBVIOUS
  <2>1. app = "closed" => thread = "none" /\ transfer = "none"
    BY DEF HidInv, QueueInv
  <2>2. ClosesSafely
    BY DEF HidInv, QueueInv, StopInv, ClosesSafely
  <2>3. QED  BY <2>1, <2>2 DEF HidInv, OpenInv, OwnedInv, OwnsWhatItUses
<1>2. QED  BY <1>1, InitHid, NextHid, PTL DEF HidSpec

(***************************************************************************)
(* The reports.  Here nothing is assumed of libusb.                         *)
(***************************************************************************)

(* What reading needs: the callback goes by a status nobody changes.        *)
ReadInv ==
  /\ reports \in Seq(Report) /\ Len(reports) <= Limit + 2
  /\ thread \in {"callback", "put", "resubmit"} => transfer = "idle"
  /\ thread = "put" => status \in Report

LEMMA StepRead ==
  ASSUME ReadInv, QueueStep
  PROVE  ReadInv' /\ [Input!InputNext]_(Input!inputVars)
<1> USE DEF ReadInv
<1>1. CASE Put
  <2>1. status \in Report
    BY <1>1 DEF Put
  <2>2. TooMany <=> Len(reports) = Limit + 2
    <3>1. Limit \in Nat /\ Len(reports) \in Nat
      BY QueueAssumption
    <3>2. QED  BY <3>1 DEF TooMany
  <2>3. reports' \in Seq(Report) /\ Len(reports') <= Limit + 2
    BY <1>1, <2>1, ListType DEF Put, TooMany
  <2>4. ReadInv'
    BY <1>1, <2>3 DEF Put, usbVars
  <2>5. Input!Arrive
    BY <1>1, <2>1, <2>2 DEF Put, Input!Arrive
  <2>6. QED  BY <2>4, <2>5 DEF Input!InputNext
<1>2. CASE ReturnsReport
  <2>1. reports' \in Seq(Report) /\ Len(reports') <= Limit + 2
    BY <1>2, ListType DEF ReturnsReport
  <2>2. QED
    BY <1>2, <2>1 DEF ReturnsReport, AppSteps, threadVars, usbVars, Returns, Input!InputNext,
       Input!ReturnReport, Input!Returns
<1>3. CASE ReadFails \/ ReadPolls \/ ExpiredReturns
  BY <1>3 DEF ReadFails, ReadPolls, ExpiredReturns, AppSteps, threadVars, usbVars, Returns,
     Input!InputNext, Input!ReturnNone, Input!Fail, Input!Returns
<1>4. CASE CreateThread \/ Free
  <2>1. reports' \in Seq(Report) /\ Len(reports') <= Limit + 2
    BY <1>4, ListType DEF CreateThread, Free
  <2>2. QED
    BY <1>4, <2>1 DEF CreateThread, Free, usbVars, Input!InputNext, Input!Forget
<1>5. CASE CloseCancels \/ Cancel
  BY <1>5 DEF CloseCancels, Cancel, Cancelled, Cancellable, appVars, threadVars, Input!inputVars
<1>6. CASE Completes \/ Unplug \/ PlugIn
  BY <1>6 DEF Completes, Unplug, PlugIn, appVars, threadVars, Input!inputVars
<1>7. CASE Barrier \/ (\E m \in {"blocking", "timed", "polling"} : Read(m)) \/ Close
           \/ ReadLocks \/ ReadWaits \/ FallsAsleep \/ WakesUp \/ WokenLocks \/ TimesOut \/ Join
  <2>1. UNCHANGED <<result, reports, transfer, status>> /\ (thread' = thread \/ thread' = "loop")
    BY <1>7 DEF Barrier, Read, Close, ReadLocks, ReadWaits, FallsAsleep, WakesUp, WokenLocks,
       TimesOut, Join, AppSteps, usbVars, threadVars
  <2>2. QED  BY <2>1 DEF Input!inputVars
<1>8. CASE Start \/ Loop \/ Reap \/ EventsTimeOut \/ EventsFail \/ CallbackCompleted
           \/ CallbackStopped \/ CallbackOther \/ Resubmit \/ Wake
  BY <1>8 DEF Start, Loop, Reap, EventsTimeOut, EventsFail, CallbackCompleted, CallbackStopped,
     CallbackOther, Resubmit, Wake, LeaveEvents, Submitted, appVars, usbVars, Input!inputVars
<1>9. QED
  BY <1>1, <1>2, <1>3, <1>4, <1>5, <1>6, <1>7, <1>8, QueueSteps

LEMMA StutterRead ==
  ASSUME ReadInv, UNCHANGED vars
  PROVE  ReadInv' /\ [Input!InputNext]_(Input!inputVars)
BY DEF vars, appVars, threadVars, usbVars, ReadInv, Input!inputVars

LEMMA InitRead == Init => ReadInv /\ Input!InputInit
<1> SUFFICES ASSUME Init PROVE ReadInv /\ Input!InputInit
  OBVIOUS
<1>1. reports \in Seq(Report) /\ Len(reports) <= Limit + 2
  BY QueueAssumption DEF Init
<1>2. QED  BY <1>1 DEF Init, ReadInv, Input!InputInit

(* Reads return the reports that came in, in order and each at most once,   *)
(* and fail only with none left, however the two threads meet, whichever    *)
(* calls of libusb fail and whenever the device is unplugged.               *)
THEOREM ReturnsCorrect == HidSpec => ReturnsInOrder
<1>1. HidInit => ReadInv /\ Input!InputInit
  BY InitRead DEF HidInit
<1>2. ReadInv /\ [HidNext]_allVars => ReadInv' /\ [Input!InputNext]_(Input!inputVars)
  <2> SUFFICES ASSUME ReadInv, [HidNext]_allVars
               PROVE  ReadInv' /\ [Input!InputNext]_(Input!inputVars)
    OBVIOUS
  <2>1. QueueStep \/ UNCHANGED vars
    BY HidQueue DEF allVars
  <2>2. QED  BY <2>1, StepRead, StutterRead
<1>3. QED  BY <1>1, <1>2, PTL DEF HidSpec, ReturnsInOrder, Input!InputSpec

(* The same of a ReportQueue by itself.                                     *)
THEOREM QueueReturnsCorrect == Spec => ReturnsInOrder
<1>1. ReadInv /\ [Next]_vars => ReadInv' /\ [Input!InputNext]_(Input!inputVars)
  <2> SUFFICES ASSUME ReadInv, [Next]_vars
               PROVE  ReadInv' /\ [Input!InputNext]_(Input!inputVars)
    OBVIOUS
  <2>1. QueueStep \/ UNCHANGED vars
    BY Zenon DEF Next, Open, QueueStep
  <2>2. QED  BY <2>1, StepRead, StutterRead
<1>2. QED  BY InitRead, <1>1, PTL DEF Spec, ReturnsInOrder, Input!InputSpec

=============================================================================
