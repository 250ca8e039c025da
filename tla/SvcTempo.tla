------------------------------ MODULE SvcTempo ------------------------------
(***************************************************************************)
(* One software timer of the ROM services (obj_svctempo.c): enabled or     *)
(* not, the ticks left, the value it reloads itself with, and the callback *)
(* it runs.  NoCallback stands for the null pointer.                       *)
(***************************************************************************)
LOCAL INSTANCE Naturals

NoCallback == "none"

\* A timer as CtlTempoCreate leaves it; the callback it keeps from before is
\* not run until SvcTempoStart has set another.
Created == [flag |-> "DIS", tick |-> 0, reload |-> 0, callback |-> NoCallback]

\* SvcTempoStart and SvcTempoStop.
Started(timeout, reload, callback) ==
  [flag |-> "EN", tick |-> timeout, reload |-> reload, callback |-> callback]

Stopped(t) == [t EXCEPT !.flag = "DIS"]

\* Mutation: the count is not held at zero.
CountedBelow(t) == t.tick - 1

\* A tick of the system timer counts an enabled timer down, never below zero.
Counted(t) == IF t.tick > 0 THEN t.tick - 1 ELSE 0

\* Mutation: the count is tested before it is moved.
FiresLate(t) == t.flag = "EN" /\ t.tick = 0 /\ t.callback # NoCallback

\* On this tick the timer runs its callback.
Fires(t) == t.flag = "EN" /\ Counted(t) = 0 /\ t.callback # NoCallback

\* Mutation: a timer that fires without reload value stays enabled.
TickedAgain(t) ==
  IF t.flag = "DIS" THEN t
  ELSE [t EXCEPT !.tick = IF Fires(t) THEN t.reload ELSE Counted(t)]

\* The timer after the tick, before its callback runs.
Ticked(t) ==
  IF t.flag = "DIS" THEN t
  ELSE IF ~Fires(t) THEN [t EXCEPT !.tick = Counted(t)]
  ELSE IF t.reload > 0 THEN [t EXCEPT !.tick = t.reload]
  ELSE [t EXCEPT !.tick = 0, !.flag = "DIS"]
=============================================================================
