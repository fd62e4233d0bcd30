---------------------------- MODULE ReportQueue ----------------------------
(***************************************************************************)
(* The read side of hid-libusb.c: the program's thread, in hid_open_path(), *)
(* hid_read_timeout() or hid_close(), against read_thread(), which runs     *)
(* read_callback() from inside of libusb_handle_events().                   *)
(*                                                                         *)
(* The mutex is held across steps only by the program, between its tests    *)
(* and pthread_cond_wait(); what read_thread() does under it is one step.   *)
(* shutdown_thread is not protected by it.                                  *)
(*                                                                         *)
(* libusb: a transfer is idle, pending, or done and not yet handed to its   *)
(* callback.  Its documentation says that a cancellation fails when the     *)
(* transfer is already complete or already cancelled.  CancelWins is what   *)
(* the code takes for granted: it succeeds as long as the callback has not  *)
(* run, which will then say LIBUSB_TRANSFER_CANCELLED.                      *)
(***************************************************************************)
EXTENDS Integers, Sequences

CONSTANTS
  Report,
  Limit,            \* 30 in read_callback()
  CancelWins,
  EventErrors,      \* where libusb_handle_events() may fail: "loop", "last"
  UnplugsAnyTime    \* also when no transfer is pending

ASSUME QueueAssumption ==
  /\ Limit \in Nat /\ Report \cap {"none", "failed", "other", "nodevice", "cancelled"} = {}
  /\ EventErrors \subseteq {"loop", "last"} /\ {CancelWins, UnplugsAnyTime} \subseteq BOOLEAN

VARIABLES
  app, mode,        \* the program, and the timeout of its read
  result,           \* what its last read returned, and a bit that flips with each
  thread,           \* read_thread(), and read_callback() in it
  stopping,         \* it has left its loop
  transfer, status, \* dev->transfer, and what the callback is told
  shutdown,         \* dev->shutdown_thread
  reports,          \* dev->input_reports
  plugged

appVars == <<app, mode, result>>
threadVars == <<thread, stopping>>
usbVars == <<transfer, status, plugged>>
vars == <<appVars, threadVars, usbVars, shutdown, reports>>

NoStatus == "none"
Status == Report \cup {"other", "nodevice", "cancelled", NoStatus}

TypeOK ==
  /\ app \in {"closed", "opening", "idle", "reading", "testing", "waiting", "asleep",
              "woken", "expired", "cancelling", "joining", "freeing"}
  /\ mode \in {"blocking", "timed", "polling"}
  /\ result \in [what : Report \cup {"none", "failed"}, bit : {0, 1}]
  /\ thread \in {"none", "start", "barrier", "loop", "events", "callback", "put", "resubmit",
                 "cancel", "wake", "ended"}
  /\ stopping \in BOOLEAN
  /\ transfer \in {"none", "idle", "pending", "done"} /\ status \in Status
  /\ shutdown \in BOOLEAN /\ plugged \in BOOLEAN
  /\ reports \in Seq(Report) /\ Len(reports) <= Limit + 2

-----------------------------------------------------------------------------
(* libusb                                                                   *)

Submitted == transfer' = IF plugged THEN "pending" ELSE "idle"

Cancellable == transfer = "pending" \/ (CancelWins /\ transfer = "done")

Cancelled ==
  IF Cancellable THEN transfer' = "done" /\ status' = "cancelled" ELSE UNCHANGED <<transfer, status>>

Completes ==
  /\ transfer = "pending" /\ plugged
  /\ transfer' = "done" /\ status' \in Report \cup {"other"}
  /\ UNCHANGED <<appVars, threadVars, shutdown, reports, plugged>>

Unplug ==
  /\ plugged /\ plugged' = FALSE
  /\ UnplugsAnyTime \/ transfer = "pending" \/ app = "closed"
  /\ IF transfer = "pending" THEN transfer' = "done" /\ status' = "nodevice"
                             ELSE UNCHANGED <<transfer, status>>
  /\ UNCHANGED <<appVars, threadVars, shutdown, reports>>

PlugIn ==
  /\ ~plugged /\ app = "closed" /\ plugged' = TRUE
  /\ UNCHANGED <<appVars, threadVars, transfer, status, shutdown, reports>>

-----------------------------------------------------------------------------
(* The program.                                                             *)

Locked == app \in {"testing", "waiting"}

(* The end of hid_open_path(); HidDevice has the rest of it.                *)
CreateThread ==
  /\ app = "closed"
  /\ app' = "opening" /\ thread' = "start" /\ stopping' = FALSE
  /\ shutdown' = FALSE /\ reports' = <<>>
  /\ UNCHANGED <<mode, result, usbVars>>

Open == plugged /\ CreateThread

(* pthread_barrier_wait() in both threads                                   *)
Barrier ==
  /\ app = "opening" /\ thread = "barrier"
  /\ app' = "idle" /\ thread' = "loop"
  /\ UNCHANGED <<mode, result, stopping, usbVars, shutdown, reports>>

AppSteps(from, to) ==
  app = from /\ app' = to /\ UNCHANGED <<mode, threadVars, usbVars, shutdown>>

Read(m) ==
  /\ app = "idle" /\ app' = "reading" /\ mode' = m
  /\ UNCHANGED <<result, threadVars, usbVars, shutdown, reports>>

ReadLocks == AppSteps("reading", "testing") /\ UNCHANGED <<result, reports>>

Returns(what) == result' = [what |-> what, bit |-> 1 - result.bit]

(* return_data()                                                            *)
ReturnsReport ==
  /\ reports # <<>> /\ AppSteps("testing", "idle")
  /\ Returns(Head(reports)) /\ reports' = Tail(reports)

(* Mutant: the disconnection is looked at first.                            *)
ReadFailsEarly == shutdown /\ AppSteps("testing", "idle") /\ Returns("failed") /\ UNCHANGED reports

ReadFails ==
  /\ reports = <<>> /\ shutdown /\ AppSteps("testing", "idle")
  /\ Returns("failed") /\ UNCHANGED reports

ReadPolls ==
  /\ reports = <<>> /\ ~shutdown /\ mode = "polling" /\ AppSteps("testing", "idle")
  /\ Returns("none") /\ UNCHANGED reports

ReadWaits ==
  /\ reports = <<>> /\ ~shutdown /\ mode # "polling" /\ AppSteps("testing", "waiting")
  /\ UNCHANGED <<result, reports>>

(* pthread_cond_wait() releases the mutex.                                  *)
FallsAsleep == AppSteps("waiting", "asleep") /\ UNCHANGED <<result, reports>>

WakesUp == AppSteps("asleep", "woken") /\ UNCHANGED <<result, reports>>

WokenLocks == AppSteps("woken", "testing") /\ UNCHANGED <<result, reports>>

TimesOut == mode = "timed" /\ AppSteps("asleep", "expired") /\ UNCHANGED <<result, reports>>

(* It has the mutex again and returns 0, whatever has come in by now.       *)
ExpiredReturns == AppSteps("expired", "idle") /\ Returns("none") /\ UNCHANGED reports

(* Mutant: only the transfer is cancelled.                                  *)
CloseUnflagged ==
  /\ app = "idle" /\ app' = "cancelling"
  /\ UNCHANGED <<mode, result, threadVars, usbVars, shutdown, reports>>

Close ==
  /\ app = "idle" /\ app' = "cancelling" /\ shutdown' = TRUE
  /\ UNCHANGED <<mode, result, threadVars, usbVars, reports>>

CloseCancels ==
  /\ app = "cancelling" /\ app' = "joining" /\ Cancelled
  /\ UNCHANGED <<mode, result, threadVars, plugged, shutdown, reports>>

Join == thread = "ended" /\ AppSteps("joining", "freeing") /\ UNCHANGED <<result, reports>>

(* The transfer, the handle and the device are freed.                       *)
Free ==
  /\ app = "freeing" /\ app' = "closed"
  /\ thread' = "none" /\ transfer' = "none" /\ status' = NoStatus /\ reports' = <<>>
  /\ UNCHANGED <<mode, result, stopping, plugged, shutdown>>

-----------------------------------------------------------------------------
(* read_thread() and read_callback()                                        *)

Start ==
  /\ thread = "start" /\ thread' = "barrier" /\ Submitted
  /\ UNCHANGED <<appVars, stopping, status, plugged, shutdown, reports>>

Loop ==
  /\ thread = "loop" /\ thread' = IF shutdown THEN "cancel" ELSE "events"
  /\ UNCHANGED <<appVars, stopping, usbVars, shutdown, reports>>

LeaveEvents == thread' = IF stopping THEN "wake" ELSE "loop"

(* libusb_handle_events() calls read_callback().                            *)
Reap ==
  /\ thread = "events" /\ transfer = "done"
  /\ thread' = "callback" /\ transfer' = "idle"
  /\ UNCHANGED <<appVars, stopping, status, plugged, shutdown, reports>>

(* It returns after a while without an event.                               *)
EventsTimeOut ==
  /\ thread = "events" /\ transfer # "done" /\ LeaveEvents
  /\ UNCHANGED <<appVars, stopping, usbVars, shutdown, reports>>

EventsFail ==
  /\ thread = "events" /\ (IF stopping THEN "last" ELSE "loop") \in EventErrors
  /\ thread' = IF stopping THEN "wake" ELSE "cancel"
  /\ UNCHANGED <<appVars, stopping, usbVars, shutdown, reports>>

CallbackCompleted ==
  /\ thread = "callback" /\ status \in Report /\ thread' = "put"
  /\ UNCHANGED <<appVars, stopping, usbVars, shutdown, reports>>

CallbackStopped ==
  /\ thread = "callback" /\ status \in {"cancelled", "nodevice"}
  /\ shutdown' = TRUE /\ LeaveEvents
  /\ UNCHANGED <<appVars, stopping, usbVars, reports>>

CallbackOther ==
  /\ thread = "callback" /\ status = "other" /\ thread' = "resubmit"
  /\ UNCHANGED <<appVars, stopping, usbVars, shutdown, reports>>

(* num_queued is one less than what was in the list.                        *)
TooMany == Len(reports) - 1 > Limit

Signal == app' = IF app = "asleep" THEN "woken" ELSE app

(* Under the mutex: attach the report; signal if the list was empty, or     *)
(* drop the oldest.                                                         *)
Put ==
  /\ thread = "put" /\ ~Locked
  /\ reports' = IF TooMany THEN Append(Tail(reports), status) ELSE Append(reports, status)
  /\ IF reports = <<>> THEN Signal ELSE UNCHANGED app
  /\ thread' = "resubmit"
  /\ UNCHANGED <<mode, result, stopping, usbVars, shutdown>>

(* Whether libusb_submit_transfer() succeeds is not looked at.              *)
Resubmit ==
  /\ thread = "resubmit" /\ Submitted /\ LeaveEvents
  /\ UNCHANGED <<appVars, stopping, status, plugged, shutdown, reports>>

Cancel ==
  /\ thread = "cancel" /\ Cancelled
  /\ stopping' = TRUE /\ thread' = IF Cancellable THEN "events" ELSE "wake"
  /\ UNCHANGED <<appVars, plugged, shutdown, reports>>

(* Mutant: without the mutex.                                               *)
WakeUnlocked ==
  /\ thread = "wake" /\ Signal /\ thread' = "ended"
  /\ UNCHANGED <<mode, result, stopping, usbVars, shutdown, reports>>

(* Broadcast under the mutex.                                               *)
Wake ==
  /\ thread = "wake" /\ ~Locked /\ Signal /\ thread' = "ended"
  /\ UNCHANGED <<mode, result, stopping, usbVars, shutdown, reports>>

-----------------------------------------------------------------------------

Init ==
  /\ app = "closed" /\ mode = "blocking" /\ result = [what |-> "none", bit |-> 0]
  /\ thread = "none" /\ stopping = FALSE
  /\ transfer = "none" /\ status = NoStatus
  /\ shutdown = FALSE /\ reports = <<>> /\ plugged = TRUE

(* What happens to a device that is open.                                   *)
Running ==
  \/ Completes
  \/ Barrier \/ (\E m \in {"blocking", "timed", "polling"} : Read(m))
  \/ ReadLocks \/ ReturnsReport \/ ReadFails \/ ReadPolls \/ ReadWaits
  \/ FallsAsleep \/ WakesUp \/ WokenLocks \/ TimesOut \/ ExpiredReturns
  \/ Close \/ CloseCancels \/ Join
  \/ Start \/ Loop \/ Reap \/ EventsTimeOut \/ EventsFail
  \/ CallbackCompleted \/ CallbackStopped \/ CallbackOther \/ Put \/ Resubmit \/ Cancel \/ Wake

Next == Running \/ Unplug \/ PlugIn \/ Open \/ Free

(* Both threads run on; a timeout passes; libusb calls back; and a mutex    *)
(* that is free again and again is obtained in the end.                     *)
AppStep ==
  \/ Barrier \/ ReadLocks \/ ReturnsReport \/ ReadFails \/ ReadPolls \/ ReadWaits
  \/ FallsAsleep \/ WokenLocks \/ TimesOut \/ ExpiredReturns \/ CloseCancels \/ Join
ThreadStep ==
  \/ Start \/ Loop \/ Reap \/ EventsTimeOut \/ CallbackCompleted \/ CallbackStopped
  \/ CallbackOther \/ Put \/ Resubmit \/ Cancel \/ Wake

Fairness == WF_vars(AppStep \/ Free) /\ WF_vars(ThreadStep) /\ SF_vars(Put) /\ SF_vars(Wake)

Spec == Init /\ [][Next]_vars /\ Fairness

-----------------------------------------------------------------------------
(* Properties.                                                              *)

Input == INSTANCE InputReports WITH Most <- Limit + 2

(* Whatever the threads do, reads return the reports in order, each once,   *)
(* and fail only when the ones that came before the disconnection have been *)
(* returned.                                                                *)
ReturnsInOrder == Input!InputSpec

(* hid_close() cancels a transfer that has been allocated, and frees it     *)
(* when libusb is done with it and no thread can look at it any more.       *)
ClosesSafely ==
  /\ app = "cancelling" => transfer # "none"
  /\ app = "freeing" => transfer = "idle" /\ thread = "ended"

Reading == app \in {"reading", "testing", "waiting", "asleep", "woken", "expired"}

(* A reader is not left asleep over a report, a disconnection, or the end   *)
(* of the read thread, even though shutdown_thread is set without the mutex.*)
ReadEnds == Reading /\ (reports # <<>> \/ ~plugged \/ thread = "ended") ~> ~Reading

(* pthread_join() returns, whatever the thread was doing when hid_close()   *)
(* set shutdown_thread and cancelled the transfer.                          *)
CloseEnds == app = "cancelling" ~> app = "closed"

-----------------------------------------------------------------------------
(* Why they hold: an inductive invariant.                                   *)

(* How far the two threads are apart, and where the transfer is.  In the    *)
(* callback the transfer is the thread's, so that no cancellation and no    *)
(* completion changes the status it goes by.                                *)
QueueInv ==
  /\ TypeOK
  /\ thread = "none" <=> app = "closed"
  /\ thread \in {"start", "barrier"} <=> app = "opening"
  /\ transfer = "none" <=> thread \in {"none", "start"}
  /\ thread \in {"callback", "put", "resubmit"} => transfer = "idle"
  /\ thread = "put" => status \in Report

(* A thread that has left its loop with the transfer cancelled waits for    *)
(* that cancellation, and for nothing else, and submits no more.            *)
StopInv ==
  /\ stopping => thread \in {"none", "events", "callback", "wake", "ended"}
  /\ stopping /\ thread = "events" => transfer = "done"
  /\ stopping /\ thread \in {"events", "callback"} => status = "cancelled"
  /\ thread \in {"wake", "ended"} => stopping /\ transfer = "idle"
  /\ app = "freeing" => thread = "ended"
=============================================================================
