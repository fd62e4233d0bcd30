--------------------------- MODULE AtomicUpdate ---------------------------
(***************************************************************************)
(* A firmware update as its user sees it.  The device starts user code only *)
(* if it holds a whole image that somebody set out to install: never a      *)
(* blend of two, never part of one.  An update that is reported successful  *)
(* has put the chosen image in place, and it stays there until the next     *)
(* update begins.  In between, and after a failure, the device may hold any *)
(* such image or none.                                                      *)
(***************************************************************************)
CONSTANT Images

VARIABLES
  runnable,   \* the images on whose behalf the device would start user code
  offered,    \* the images somebody has set out to install
  goal,       \* the image the user has chosen
  busy,       \* an update is going on
  result,     \* what the user was told about the last one
  mode        \* "user" when user code runs, "boot" when the bootloader does

atomicVars == <<runnable, offered, goal, busy, result, mode>>

AtomicInit ==
  /\ offered \subseteq Images /\ runnable \subseteq offered
  /\ goal \in Images /\ ~busy /\ result = "none"
  /\ mode = "user" => runnable # {}

Choose == ~busy /\ goal' \in Images /\ UNCHANGED <<runnable, offered, busy, result, mode>>

Begin ==
  /\ ~busy /\ mode = "boot"
  /\ busy' = TRUE /\ result' = "none" /\ offered' = offered \cup {goal}
  /\ UNCHANGED <<runnable, goal, mode>>

Succeed ==
  /\ busy /\ goal \in runnable
  /\ busy' = FALSE /\ result' = "ok"
  /\ UNCHANGED <<runnable, offered, goal, mode>>

(* An update fails, cannot begin, or its tool goes away without a word.     *)
Fail ==
  /\ busy' = FALSE /\ result' \in {"failed", "none"}
  /\ UNCHANGED <<runnable, offered, goal, mode>>

(* The device erases, programs, loses power or starts.                      *)
Device ==
  /\ runnable' \subseteq offered
  /\ mode = "user" \/ result = "ok" => runnable' = runnable
  /\ mode' \in {"boot", "user"} /\ (mode' = "user" => runnable' # {})
  /\ UNCHANGED <<offered, goal, busy, result>>

AtomicNext == Choose \/ Begin \/ Succeed \/ Fail \/ Device

AtomicSpec == AtomicInit /\ [][AtomicNext]_atomicVars
=============================================================================
