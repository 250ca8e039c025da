---------------------------- MODULE MCTempoList ----------------------------
(***************************************************************************)
(* TempoList with three timers, which start at once or after one or two    *)
(* ticks, once or with a period.                                           *)
(***************************************************************************)
EXTENDS TempoList, TLC

CONSTANTS t1, t2, t3

MCTimers == {t1, t2, t3}
MCStarts ==
  (t1 :> {<<0, 2>>, <<2, 0>>, <<1, 1>>}) @@ (t2 :> {<<1, 1>>, <<2, 0>>}) @@ (t3 :> {<<1, 0>>})
=============================================================================
