-------------------------- MODULE MCCommandServer --------------------------
(***************************************************************************)
(* CommandServer on two rows with one image, for hosts that send any        *)
(* command, well chosen or not.                                             *)
(***************************************************************************)
EXTENDS CommandServer, TLC

CONSTANTS i1, e, g, a, s, cfg

MCContent == {e, g, a, s}
MCImage   == i1 :> (0 :> a @@ 1 :> e @@ 2 :> e @@ 3 :> s)

(* Every operation, at a lower and at an upper half.                        *)
MCCommands ==
  [op : Op \ {"programMemory", "programConfig", "eraseConfig"}, unit : {0, 3}, data : {e}]
    \cup [op : {"programMemory", "programConfig"}, unit : {0, 3}, data : {a, s}]
    \cup [op : {"eraseConfig"}, unit : {0}, data : {e}]

MCEraseFaults == {{}, {1}}
=============================================================================
