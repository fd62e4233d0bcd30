----------------------------- MODULE MCHidDevice -----------------------------
(***************************************************************************)
(* HidDevice with two reports, a short list and two addresses: one that     *)
(* hid_open() has found, and one that the next device gets.                 *)
(***************************************************************************)
EXTENDS HidDevice
CONSTANTS r1, r2, a1, a2
MCReport == {r1, r2}
MCAddresses == {a1, a2}
=============================================================================
