---------------------------- MODULE CommandPipe ----------------------------
(***************************************************************************)
(* What a host may rely on when it sends commands to the bootloader: they   *)
(* wait in a queue of one, are carried out one at a time in the order they  *)
(* were accepted, each exactly once, and each leaves one answer, which no   *)
(* later command touches until the host has taken it.  The answer names its *)
(* command; the answer to a read shows memory as the earlier commands left  *)
(* it.  Only a reset of the bus or of the device makes the queue forget.    *)
(***************************************************************************)
EXTENDS Sequences

CONSTANTS
  Command, Key(_),      \* commands, and what of a command its answer repeats
  Result(_, _),         \* the memories a command may leave behind
  Shown(_, _),          \* what the answer to a command shows of the memory
  Torn(_, _)            \* the memories left by a reset in the middle of a command

VARIABLES waiting, answers, memory

pipeVars == <<waiting, answers, memory>>

PipeInit == waiting = <<>> /\ answers = <<>>

Accept ==
  /\ waiting = <<>>
  /\ \E c \in Command : waiting' = <<c>>
  /\ UNCHANGED <<answers, memory>>

Serve ==
  /\ waiting # <<>> /\ answers = <<>>
  /\ memory' \in Result(Head(waiting), memory)
  /\ answers' = <<[key |-> Key(Head(waiting)), shown |-> Shown(Head(waiting), memory)]>>
  /\ waiting' = <<>>

Take == answers # <<>> /\ answers' = <<>> /\ UNCHANGED <<waiting, memory>>

Forget ==
  /\ waiting' = <<>> /\ answers' = <<>>
  /\ \/ memory' = memory
     \/ waiting # <<>> /\ answers = <<>> /\ memory' \in Torn(Head(waiting), memory)

PipeNext == Accept \/ Serve \/ Take \/ Forget

PipeSpec == PipeInit /\ [][PipeNext]_pipeVars
=============================================================================
