------------------------------- MODULE Example -------------------------------
(***************************************************************************)
(* What the modules of the example applications have in common: each is a   *)
(* firmware on top of DataEndpoint, built with its own copy of usb.c, and   *)
(* meets a host that may break the pipe MaxBreaks[app] times.  A report is  *)
(* the sequence of its bytes, less those that never change.                 *)
(***************************************************************************)
EXTENDS DataEndpoint

CONSTANT MaxBreaks    \* for each application

ASSUME BreaksAssumption == \A a \in DOMAIN MaxBreaks : MaxBreaks[a] \in Nat

VARIABLES
  app,      \* the application; never changes
  broken    \* history: how often the host has broken the pipe

exampleVars == <<endpointVars, app, broken>>

ExampleTypeOK == EndpointTypeOK /\ broken \in 0 .. MaxBreaks[app]

Breaks == broken < MaxBreaks[app] /\ broken' = broken + 1

ExampleInit == EndpointInit /\ broken = 0
=============================================================================
