------------------------------ MODULE Download ------------------------------
(***************************************************************************)
(* What the serial download of a second-stage image promises, with no     *)
(* bytes, interrupts or timers: the blocks of the image reach the board's  *)
(* RAM one after the other, the board starts the image only when all of    *)
(* them are there, and the host reports success only when all of them are  *)
(* there.  The host may give up at any time.                               *)
(***************************************************************************)
EXTENDS Naturals

CONSTANT ImageBlocks  \* the number of blocks of the image, at least one

VARIABLES
  stored,  \* how many blocks, from the first, are in RAM
  board,   \* "loading" or "starting"
  host     \* "sending", "success" or "failure"

vars == <<stored, board, host>>

TypeOK ==
  /\ stored \in 0..ImageBlocks
  /\ board \in {"loading", "starting"}
  /\ host \in {"sending", "success", "failure"}

Init == stored = 0 /\ board = "loading" /\ host = "sending"

Store ==
  /\ board = "loading" /\ stored < ImageBlocks
  /\ stored' = stored + 1
  /\ UNCHANGED <<board, host>>

Start ==
  /\ board = "loading" /\ stored = ImageBlocks
  /\ board' = "starting"
  /\ UNCHANGED <<stored, host>>

Report ==
  /\ host = "sending" /\ stored = ImageBlocks
  /\ host' = "success"
  /\ UNCHANGED <<stored, board>>

GiveUp ==
  /\ host = "sending"
  /\ host' = "failure"
  /\ UNCHANGED <<stored, board>>

Next == Store \/ Start \/ Report \/ GiveUp

Spec == Init /\ [][Next]_vars
=============================================================================
