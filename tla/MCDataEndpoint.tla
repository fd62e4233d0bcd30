--------------------------- MODULE MCDataEndpoint ---------------------------
(***************************************************************************)
(* DataEndpoint with two reports, enough to tell a lost or repeated one     *)
(* from its successor.                                                      *)
(***************************************************************************)
EXTENDS DataEndpoint
CONSTANTS r1, r2
MCReport == {r1, r2}
=============================================================================
