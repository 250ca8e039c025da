----------------------------- MODULE BdiCommand -----------------------------
(***************************************************************************)
(* What BDI_Transaction promises its caller: a command is carried out at   *)
(* most as often as it may be sent, even by a BDI that is late, and the    *)
(* answer that is returned is an answer to this command, which has then    *)
(* been carried out, unless another frame was in the way.                  *)
(***************************************************************************)
EXTENDS Naturals

CONSTANTS
  Commands,   \* the commands of the caller
  NoCommand,  \* none of them
  Repeats     \* how often a command may be sent

VARIABLES
  asked,      \* the command of the current transaction, or the last one
  ran,        \* how often it has been carried out since it was asked
  state,      \* "none", "busy", "answered" or "failed"
  clear       \* no frame but an answer to this command can reach the caller

Init == asked = NoCommand /\ ran = 0 /\ state = "none" /\ clear = TRUE

Ask ==
  /\ state # "busy"
  /\ asked' \in Commands /\ ran' = 0 /\ state' = "busy" /\ UNCHANGED clear

\* Each time it is sent the way may be clear or not; it may cease to be clear later.
Send ==
  /\ state = "busy" /\ clear' \in BOOLEAN /\ UNCHANGED <<asked, ran, state>>

CarryOut ==
  /\ state # "none" /\ ran < Repeats
  /\ ran' = ran + 1 /\ UNCHANGED <<asked, state, clear>>

Answer ==
  /\ state = "busy" /\ (clear => ran > 0)
  /\ state' = "answered" /\ UNCHANGED <<asked, ran, clear>>

Fail ==
  /\ state = "busy" /\ state' = "failed" /\ UNCHANGED <<asked, ran, clear>>

\* The caller may stop, and the connection may be closed, at any time.
Forget ==
  /\ state' = "none" /\ UNCHANGED clear
  /\ UNCHANGED <<asked, ran>> \/ (asked' = NoCommand /\ ran' = 0)

Next == Ask \/ Send \/ CarryOut \/ Answer \/ Fail \/ Forget

Spec == Init /\ [][Next]_<<asked, ran, state, clear>>
=============================================================================
