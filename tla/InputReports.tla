---------------------------- MODULE InputReports ----------------------------
(***************************************************************************)
(* What HIDAPI promises a program that reads a device: the reports that     *)
(* came in are returned in order, each at most once; when there are more    *)
(* than Most the oldest goes; and a read fails only with none left to       *)
(* return.                                                                  *)
(***************************************************************************)
EXTENDS Integers, Sequences

CONSTANTS Report, Most

VARIABLES reports, result

inputVars == <<reports, result>>

(* What the last read returned, and a bit that flips with each.             *)
Returns(what) == result' = [what |-> what, bit |-> 1 - result.bit]

InputInit == reports = <<>> /\ result = [what |-> "none", bit |-> 0]

Arrive ==
  /\ \E r \in Report :
       reports' = IF Len(reports) = Most THEN Append(Tail(reports), r) ELSE Append(reports, r)
  /\ UNCHANGED result

ReturnReport == reports # <<>> /\ Returns(Head(reports)) /\ reports' = Tail(reports)

ReturnNone == Returns("none") /\ UNCHANGED reports

Fail == reports = <<>> /\ Returns("failed") /\ UNCHANGED reports

Forget == reports' = <<>> /\ UNCHANGED result

InputNext == Arrive \/ ReturnReport \/ ReturnNone \/ Fail \/ Forget

InputSpec == InputInit /\ [][InputNext]_inputVars
=============================================================================
