------------------------------ MODULE MCExamples ------------------------------
(***************************************************************************)
(* The examples with small counters.  hid_mouse: a line of two steps, where *)
(* of three reports one moves; a break costs up to two in a row.            *)
(* minimalCDC: packets of up to two bytes; numbered modulo two, the loss or *)
(* repetition of any odd number of bytes shows.                             *)
(***************************************************************************)
EXTENDS Examples

MCKeys == <<1, 2>>
MCReport ==
  {<<n>> : n \in -1 .. 2} \cup PlayReports \cup {Bump, Query} \cup {Answer(n) : n \in 0 .. CounterWrap - 1}
    \cup UNION {[1 .. n -> 0 .. Bytes - 1] : n \in 0 .. EP_2_LEN}
MCBreaks ==
  [a \in Apps |-> IF a \in {"hid_mouse", "passfob", "customHID"} THEN 2 ELSE 1]
AllApps == {"hid_mouse", "passfob", "keylock", "mouseplay", "customHID", "minimalCDC"}
=============================================================================
