--------------------------- MODULE MCReportQueue ---------------------------
(***************************************************************************)
(* ReportQueue with two reports and a short list.                           *)
(***************************************************************************)
EXTENDS ReportQueue
CONSTANTS r1, r2
MCReport == {r1, r2}
=============================================================================
