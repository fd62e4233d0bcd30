------------------------------ MODULE HidDevice ------------------------------
(***************************************************************************)
(* hid-libusb.c from hid_open() to hid_close(): hid_enumerate() looks for   *)
(* the device, hid_open_path() looks for its path once more, opens it,      *)
(* takes it from the kernel driver and claims it, and starts the threads of *)
(* ReportQueue.  Any libusb call on the way may fail; and between two of    *)
(* them the device may be unplugged, another one plugged in, or another     *)
(* program may take the interface or give it back to the kernel.            *)
(*                                                                         *)
(* One port of the bus is modelled, and devices of one HID interface with   *)
(* one setting, as all the firmwares here are.  A path is the address that  *)
(* the device got when it was plugged in; it is taken not to be given to    *)
(* another device while hid_open() runs.                                    *)
(***************************************************************************)
EXTENDS ReportQueue

CONSTANT Addresses

ASSUME AddressesAssumption == Addresses # {}

VARIABLES
  opener,     \* where hid_open() is
  path,       \* the path it goes for
  handle,     \* the address of the device that is open
  claimed,    \* its interface is claimed through the handle
  address,    \* of the device that is, or was, plugged in
  ours,       \* that device has the vendor and product asked for
  driver,     \* "attached" to the interface is the kernel's, or "detached"
  busy        \* another program has claimed the interface

openVars == <<opener, path, handle, claimed>>
busVars  == <<address, ours, driver, busy>>
hidVars  == <<openVars, busVars>>
allVars  == <<vars, hidVars>>

None == "none"

HidTypeOK ==
  /\ opener \in {"idle", "listed", "strings", "named", "found", "opened", "detached", "claimed"}
  /\ {path, handle} \subseteq Addresses \cup {None} /\ claimed \in BOOLEAN
  /\ address \in Addresses /\ ours \in BOOLEAN
  /\ driver \in {"attached", "detached"} /\ busy \in BOOLEAN

-----------------------------------------------------------------------------
(* hid_open() with hid_enumerate()                                          *)

Opener(from, to) == app = "closed" /\ opener = from /\ opener' = to /\ UNCHANGED <<vars, busVars>>

(* It returns NULL.                                                         *)
GivesUp(from) == Opener(from, "idle") /\ path' = None /\ UNCHANGED <<handle, claimed>>

Enumerates ==
  /\ plugged /\ ours
  /\ Opener("idle", "listed") /\ path' = address
  /\ UNCHANGED <<handle, claimed>>

(* libusb_open() works on what is there.                                    *)
Present == plugged /\ address = path

OpensForStrings ==
  \/ Present /\ Opener("listed", "strings") /\ handle' = path /\ UNCHANGED <<path, claimed>>
  \/ Opener("listed", "named") /\ UNCHANGED <<path, handle, claimed>>

ClosesStrings == Opener("strings", "named") /\ handle' = None /\ UNCHANGED <<path, claimed>>

-----------------------------------------------------------------------------
(* hid_open_path()                                                          *)

Searches ==
  \/ Present /\ Opener("named", "found") /\ UNCHANGED <<path, handle, claimed>>
  \/ GivesUp("named")

OpensPath ==
  \/ Present /\ Opener("found", "opened") /\ handle' = path /\ UNCHANGED <<path, claimed>>
  \/ GivesUp("found")

(* libusb_close() and NULL.                                                 *)
Abandons(from) == Opener(from, "idle") /\ path' = None /\ handle' = None /\ UNCHANGED claimed

(* A driver that is not active, or not seen to be, is left alone.           *)
Detaches ==
  \/ /\ app = "closed" /\ opener = "opened" /\ opener' = "detached"
     /\ Present /\ driver = "attached" /\ driver' = "detached"
     /\ UNCHANGED <<vars, path, handle, claimed, address, ours, busy>>
  \/ Opener("opened", "detached") /\ UNCHANGED <<path, handle, claimed>>
  \/ driver = "attached" /\ Abandons("opened")

(* Mutant: the handle stays open.                                           *)
ClaimsOrLeaves ==
  \/ /\ Present /\ driver = "detached" /\ ~busy
     /\ Opener("detached", "claimed") /\ claimed' = TRUE /\ UNCHANGED <<path, handle>>
  \/ GivesUp("detached")

Claims ==
  \/ /\ Present /\ driver = "detached" /\ ~busy
     /\ Opener("detached", "claimed") /\ claimed' = TRUE /\ UNCHANGED <<path, handle>>
  \/ Abandons("detached")

Starts ==
  /\ opener = "claimed" /\ CreateThread /\ opener' = "idle"
  /\ UNCHANGED <<path, handle, claimed, busVars>>

(* The end of hid_close()                                                   *)
Closes ==
  /\ Free /\ handle' = None /\ claimed' = FALSE /\ path' = None
  /\ UNCHANGED <<opener, busVars>>

-----------------------------------------------------------------------------
(* The bus, and other programs.                                             *)

(* Between the claim and the first transfer lies the race of UnplugRace.    *)
Unplugs ==
  /\ Unplug /\ (UnplugsAnyTime \/ opener # "claimed")
  /\ busy' = FALSE /\ UNCHANGED <<openVars, address, ours, driver>>

PlugsIn ==
  /\ PlugIn /\ address' \in Addresses \ {path} /\ ours' \in BOOLEAN
  /\ driver' = "attached" /\ busy' = FALSE
  /\ UNCHANGED openVars

(* Another program does as this one does; the kernel may get its driver     *)
(* back when it ends.                                                       *)
OtherClaims ==
  /\ plugged /\ ~claimed /\ ~busy
  /\ busy' = TRUE /\ driver' = "detached"
  /\ UNCHANGED <<vars, openVars, address, ours>>

OtherReleases ==
  /\ busy /\ busy' = FALSE /\ driver' \in {"attached", "detached"}
  /\ UNCHANGED <<vars, openVars, address, ours>>

-----------------------------------------------------------------------------

HidInit ==
  /\ Init
  /\ opener = "idle" /\ path = None /\ handle = None /\ claimed = FALSE
  /\ address \in Addresses /\ ours = TRUE /\ driver = "attached" /\ busy = FALSE

OpenStep ==
  \/ OpensForStrings \/ ClosesStrings \/ Searches \/ OpensPath \/ Detaches \/ Claims \/ Starts

HidNext ==
  \/ Running /\ UNCHANGED hidVars
  \/ Enumerates \/ OpenStep \/ Closes
  \/ Unplugs \/ PlugsIn \/ OtherClaims \/ OtherReleases

(* As in ReportQueue.                                                       *)
HidFairness ==
  /\ WF_allVars((AppStep /\ UNCHANGED hidVars) \/ OpenStep \/ Closes)
  /\ WF_allVars(ThreadStep /\ UNCHANGED hidVars)
  /\ SF_allVars(Put /\ UNCHANGED hidVars) /\ SF_allVars(Wake /\ UNCHANGED hidVars)

HidSpec == HidInit /\ [][HidNext]_allVars /\ HidFairness

-----------------------------------------------------------------------------
(* Properties.                                                              *)

(* Wherever hid_open() fails, and when hid_close() is through, nothing is   *)
(* left open, claimed or running; and as long as the program or the read    *)
(* thread have the device, it is the one that was asked for, its interface  *)
(* is claimed, and neither the kernel nor another program has it too.  The  *)
(* transfer is there when hid_close() cancels it, and freed when neither    *)
(* libusb nor a thread can look at it any more.                             *)
OwnsWhatItUses ==
  /\ app = "closed" /\ opener = "idle" => handle = None /\ ~claimed /\ thread = "none" /\ transfer = "none"
  /\ app # "closed" =>
       /\ handle = address /\ handle = path /\ claimed /\ ours
       /\ plugged => driver = "detached" /\ ~busy
  /\ ClosesSafely

-----------------------------------------------------------------------------
(* Why it holds: an inductive invariant.                                    *)

(* What hid_open() has open or claimed at each of its steps.                *)
OpenInv ==
  /\ opener # "idle" => app = "closed"
  /\ app = "closed" /\ opener \in {"idle", "listed", "named", "found"} => handle = None
  /\ opener \in {"strings", "opened", "detached", "claimed"} => handle = path
  /\ claimed <=> app # "closed" \/ opener = "claimed"

(* A path that still leads somewhere leads to the device asked for; and     *)
(* from the claim on that device is there, or was until it was unplugged.   *)
OwnedInv ==
  /\ (app # "closed" \/ opener # "idle") /\ path = address => ours
  /\ opener = "claimed" => plugged
  /\ app # "closed" \/ opener = "claimed" =>
       /\ handle = path /\ path = address
       /\ plugged => driver = "detached" /\ ~busy

HidInv == QueueInv /\ StopInv /\ HidTypeOK /\ OpenInv /\ OwnedInv
=============================================================================
