----------------------------- MODULE ReportPipe -----------------------------
(***************************************************************************)
(* What the two ends of a data endpoint number may rely on.  Each direction *)
(* holds at most one report.  A report the device hands over reaches the    *)
(* host once; a report the host sees acknowledged is read by the device     *)
(* once; and nothing gets lost unless the host breaks the pipe: it resets   *)
(* the bus, sets a configuration, or halts or clears the endpoint.          *)
(* A bit beside a received report flips with each arrival, so that the same *)
(* report arriving twice is seen to do so.                                  *)
(***************************************************************************)
EXTENDS Integers, Sequences

CONSTANTS Report, NoReport

VARIABLES
  toHost, received,             \* device to host: in transit, last arrived
  offer, taken, toDevice, read, \* host to device: offered, in the device, read
  breaks                        \* flips whenever the host breaks the pipe

pipeVars == <<toHost, received, offer, taken, toDevice, read, breaks>>

Arrives(r, before) == [data |-> r, bit |-> 1 - before.bit]

PipeInit ==
  /\ toHost = <<>> /\ received = [data |-> NoReport, bit |-> 0]
  /\ offer = NoReport /\ taken = FALSE
  /\ toDevice = <<>> /\ read = [data |-> NoReport, bit |-> 0]
  /\ breaks = 0

Send ==
  /\ toHost = <<>> /\ \E r \in Report : toHost' = <<r>>
  /\ UNCHANGED <<received, offer, taken, toDevice, read, breaks>>

Receive ==
  /\ toHost # <<>> /\ toHost' = <<>>
  /\ received' = Arrives(Head(toHost), received)
  /\ UNCHANGED <<offer, taken, toDevice, read, breaks>>

Offer ==
  /\ offer = NoReport /\ ~taken
  /\ \E r \in Report : offer' = r
  /\ UNCHANGED <<toHost, received, taken, toDevice, read, breaks>>

Take ==
  /\ offer # NoReport /\ ~taken /\ toDevice = <<>>
  /\ toDevice' = <<offer>> /\ taken' = TRUE
  /\ UNCHANGED <<toHost, received, offer, read, breaks>>

Confirm ==
  /\ taken /\ taken' = FALSE /\ offer' = NoReport
  /\ UNCHANGED <<toHost, received, toDevice, read, breaks>>

Read ==
  /\ toDevice # <<>> /\ toDevice' = <<>>
  /\ read' = Arrives(Head(toDevice), read)
  /\ UNCHANGED <<toHost, received, offer, taken, breaks>>

Break ==
  /\ breaks' = 1 - breaks
  /\ toHost' \in {toHost, <<>>} /\ toDevice' \in {toDevice, <<>>}
  /\ UNCHANGED <<offer, taken>> \/ (offer' = NoReport /\ taken' = FALSE)
  /\ UNCHANGED <<received, read>>

(* The device takes an offer in the transaction that confirms it.           *)
TakeAndConfirm ==
  /\ offer # NoReport /\ ~taken /\ toDevice = <<>>
  /\ toDevice' = <<offer>> /\ offer' = NoReport
  /\ UNCHANGED <<toHost, received, taken, read, breaks>>

PipeNext ==
  Send \/ Receive \/ Offer \/ Take \/ Confirm \/ TakeAndConfirm \/ Read \/ Break

PipeSpec == PipeInit /\ [][PipeNext]_pipeVars
=============================================================================
