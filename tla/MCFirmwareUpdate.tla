-------------------------- MODULE MCFirmwareUpdate --------------------------
(***************************************************************************)
(* FirmwareUpdate on two rows and two images.  Image i1 carries a CRC at    *)
(* the first location too; image i2 shares a unit with it and leaves one    *)
(* blank, and a unit of i1 happens to look like a Device ID.                *)
(***************************************************************************)
EXTENDS FirmwareUpdate, TLC

CONSTANTS i1, i2, e, g, a0, a1, a2, a3, b0, b3, cfg

MCContent == {e, g, a0, a1, a2, a3, b0, b3}
MCImage ==
  i1 :> (0 :> a0 @@ 1 :> a1 @@ 2 :> a2 @@ 3 :> a3) @@
  i2 :> (0 :> b0 @@ 1 :> e  @@ 2 :> a2 @@ 3 :> b3)

MCCommands == [op : Op, unit : Unit, data : MCContent]

\* An erase may leave the lower half of its row unerased.
LowerHalfFaults == {{}, {0}}
=============================================================================
