--------------------------- MODULE LatencyProofs ---------------------------
(***************************************************************************)
(* Proofs about the latency measurement, for every period of the timer and *)
(* every length of a line.  The inductive invariant says where each of the *)
(* ticks since the start of the timer is accounted for: in the counter, in *)
(* the overflows counted, or in an overflow on its way to be counted.      *)
(***************************************************************************)
EXTENDS Latency, TLAPS

\* The timer runs, its interrupt is enabled.
Running  == pc \in {"level", "wait", "ack", "disable", "stop"}
Enabled  == pc \in {"start", "level", "wait", "ack", "disable"}

\* An overflow has not been counted yet.
Uncounted == COVFS \/ tcHandler = "count"

\* The interrupt controller and the handler follow the flag.
OverflowFits ==
  /\ CLKEN <=> Running
  /\ IMR <=> Enabled
  /\ ~Enabled => ~tcPending /\ tcHandler = "no"
  /\ tcPending => COVFS /\ tcHandler = "no"
  /\ tcHandler = "ack" => COVFS
  /\ tcHandler = "count" => ~COVFS
  /\ Enabled /\ COVFS => tcPending \/ tcHandler = "ack"

\* A flag that is up while its interrupt is disabled has come too late, in this
\* measurement or in the one before.
FlagFits ==
  /\ COVFS /\ ~Enabled /\ pc \notin {"reset", "enable"} => late = 2
  /\ COVFS /\ pc \in {"reset", "enable", "start"} => late > 0

\* Every tick is accounted for.
TicksCounted ==
  late = 0 =>
    /\ pc \in {"enable", "start"} => TimerOverflowCnt = 0
    /\ pc = "start" => tcHandler = "no"
    /\ Running /\ Uncounted => elapsed = (TimerOverflowCnt + 1) * Wrap + TC_CV
    /\ (Running /\ ~Uncounted) \/ pc = "read" => elapsed = TimerOverflowCnt * Wrap + TC_CV
    /\ Measured => ticks = elapsed

IInv == TypeOK /\ OverflowFits /\ FlagFits /\ TicksCounted /\ InputRearmed

\* One overflow more, in ticks.
LEMMA OneMore ==
  ASSUME NEW n \in Nat, NEW w \in Nat
  PROVE  (n + 1) * w = n * w + w /\ n * w \in Nat
<1>1. (n + 1) * w = n * w + w
  BY SMT
<1>2. n * w \in Nat
  BY SMT
<1>3. QED
  BY <1>1, <1>2

LEMMA Initially == Init => IInv
<1>1. ASSUME Init PROVE TypeOK
  <2>1. measurements \in 0..MaxMeasurements /\ elapsed \in 0..MaxTicks /\ late \in 0..2
    BY <1>1, LatencyAssumption DEF Init
  <2>2. TC_CV \in 0..(Wrap - 1) /\ TimerOverflowCnt \in Nat /\ ticks \in Nat
    BY <1>1, LatencyAssumption DEF Init
  <2>3. current \in Transfers /\ next \in Transfers
    BY <1>1, LatencyAssumption DEF Init, Transfers, Line, Nothing
  <2>4. buffer \in [Pieces -> Nat]
    BY <1>1 DEF Init
  <2>5. QED
    BY <1>1, <2>1, <2>2, <2>3, <2>4 DEF Init, TypeOK, Places
<1>2. Init => OverflowFits /\ FlagFits /\ TicksCounted /\ InputRearmed
  BY DEF Init, OverflowFits, FlagFits, TicksCounted, InputRearmed, Enabled, Running,
         Uncounted, Measured
<1>3. QED
  BY <1>1, <1>2 DEF IInv

\* The steps of the measured routine keep the types.
LEMMA RoutineTypes == TypeOK /\ MeasuredInterrupt => TypeOK'
<1> SUFFICES ASSUME TypeOK, MeasuredInterrupt PROVE TypeOK'
  OBVIOUS
<1> USE LatencyAssumption DEF TypeOK, Places, Goes, counter, aic, input, pdc, report
<1>1. CASE Enter
  <2>1. measurements' \in 0..MaxMeasurements /\ late' \in 0..2
    BY <1>1 DEF Enter
  <2>2. QED
    BY <1>1, <2>1 DEF Enter
<1>2. CASE ResetCount
  BY <1>2 DEF ResetCount
<1>3. CASE EnableOverflow
  BY <1>3 DEF EnableOverflow
<1>4. CASE StartClock
  BY <1>4 DEF StartClock
<1>5. CASE ReadLevel \/ WaitLow
  BY <1>5 DEF ReadLevel, WaitLow
<1>6. CASE Acknowledge
  BY <1>6 DEF Acknowledge, ReadStatus
<1>7. CASE DisableOverflow \/ StopClock
  BY <1>7 DEF DisableOverflow, StopClock
<1>8. CASE ReadTimer
  <2>1. getTimerValue \in Nat
    BY OneMore DEF getTimerValue
  <2>2. QED
    BY <1>8, <2>1 DEF ReadTimer
<1>9. CASE PutDateAndTimeStamp
  BY <1>9 DEF PutDateAndTimeStamp
<1>10. CASE Dec2ASCII_Ticks
  <2>1. buffer \in [Pieces -> Nat] /\ measurements \in Nat
    OBVIOUS
  <2>2. buffer' = [buffer EXCEPT ![Chunks] = measurements]
    BY <1>10 DEF Dec2ASCII_Ticks
  <2>3. buffer' \in [Pieces -> Nat]
    BY <2>1, <2>2, Zenon
  <2>4. QED
    BY <1>10, <2>3 DEF Dec2ASCII_Ticks
<1>11. CASE SendFrame
  <2>1. Line(TRUE) \in Transfers /\ Nothing \in Transfers
    BY DEF Transfers, Line, Nothing
  <2>2. current' \in Transfers /\ next' \in Transfers
    BY <1>11, <2>1 DEF SendFrame, Queued
  <2>3. QED
    BY <1>11, <2>2 DEF SendFrame
<1>12. QED
  BY <1>1, <1>2, <1>3, <1>4, <1>5, <1>6, <1>7, <1>8, <1>9, <1>10, <1>11
     DEF MeasuredInterrupt

\* So do the overflow interrupt, the timer, the input and the PDC.
LEMMA OtherTypes ==
  TypeOK /\ (TcEnter \/ TcAcknowledge \/ TcCount \/ Tick \/ Toggle \/ PdcSends) => TypeOK'
<1> SUFFICES ASSUME TypeOK, TcEnter \/ TcAcknowledge \/ TcCount \/ Tick \/ Toggle \/ PdcSends
             PROVE TypeOK'
  OBVIOUS
<1> USE LatencyAssumption DEF TypeOK, Places, counter, aic, input, pdc, report
<1>1. CASE TcEnter \/ TcAcknowledge \/ TcCount
  <2>1. TimerOverflowCnt' \in Nat
    BY <1>1 DEF TcEnter, TcAcknowledge, TcCount
  <2>2. tcHandler' \in {"no", "ack", "count"}
    BY <1>1 DEF TcEnter, TcAcknowledge, TcCount, TcHandler
  <2>3. COVFS' \in BOOLEAN /\ tcPending' \in BOOLEAN
    BY <1>1 DEF TcEnter, TcAcknowledge, TcCount
  <2>4. UNCHANGED <<pc, IMR, input, pdc, measurements, ticks, buffer, TC_CV, CLKEN,
                    elapsed, late>>
    BY <1>1 DEF TcEnter, TcAcknowledge, TcCount, TcHandler
  <2>5. QED
    BY <2>1, <2>2, <2>3, <2>4
<1>2. CASE Tick
  <2>1. TC_CV' \in 0..(Wrap - 1) /\ elapsed' \in 0..MaxTicks /\ late' \in 0..2
    BY <1>2 DEF Tick
  <2>2. COVFS' \in BOOLEAN /\ tcPending' \in BOOLEAN
    BY <1>2 DEF Tick
  <2>3. QED
    BY <1>2, <2>1, <2>2 DEF Tick
<1>3. CASE Toggle
  BY <1>3 DEF Toggle
<1>4. CASE PdcSends
  <2>1. Nothing \in Transfers
    BY DEF Nothing, Transfers
  <2>2. current.left > 1 => [current EXCEPT !.left = @ - 1] \in Transfers
    BY DEF Transfers
  <2>3. current' \in Transfers /\ next' \in Transfers
    BY <1>4, <2>1, <2>2 DEF PdcSends
  <2>4. QED
    BY <1>4, <2>3 DEF PdcSends
<1>5. QED
  BY <1>1, <1>2, <1>3, <1>4

-----------------------------------------------------------------------------
\* The steps of the measured routine keep the accounts; it goes on only while no
\* overflow interrupt is pending or served.
LEMMA RoutineAccounts ==
  IInv /\ MeasuredInterrupt => OverflowFits' /\ FlagFits' /\ TicksCounted'
<1> SUFFICES ASSUME IInv, MeasuredInterrupt
             PROVE OverflowFits' /\ FlagFits' /\ TicksCounted'
  OBVIOUS
<1> USE DEF OverflowFits, FlagFits, TicksCounted, Enabled, Running, Uncounted, Measured,
            Goes, counter, aic, input, pdc, report
<1> TypeOK /\ OverflowFits /\ FlagFits /\ TicksCounted
  BY DEF IInv
<1>1. late \in 0..2 /\ TimerOverflowCnt \in Nat /\ TC_CV \in Nat /\ Wrap \in Nat
  BY LatencyAssumption DEF TypeOK
<1>2. CASE Enter
  BY <1>1, <1>2 DEF Enter
<1>3. CASE ResetCount
  BY <1>1, <1>3 DEF ResetCount
<1>4. CASE EnableOverflow
  BY <1>1, <1>4 DEF EnableOverflow
<1>5. CASE StartClock
  <2>1. 0 * Wrap + 0 = 0
    BY <1>1
  <2>2. late = 0 => ~COVFS /\ tcHandler = "no" /\ TimerOverflowCnt = 0
    BY <1>1, <1>5 DEF StartClock
  <2>3. TicksCounted'
    BY <1>5, <2>1, <2>2 DEF StartClock
  <2>4. QED
    BY <1>1, <1>5, <2>3 DEF StartClock
<1>6. CASE ReadLevel \/ WaitLow \/ Acknowledge
  BY <1>1, <1>6 DEF ReadLevel, WaitLow, Acknowledge
<1>7. CASE DisableOverflow
  BY <1>1, <1>7 DEF DisableOverflow
<1>8. CASE StopClock
  BY <1>1, <1>8 DEF StopClock
<1>9. CASE ReadTimer
  BY <1>1, <1>9 DEF ReadTimer, getTimerValue
<1>10. CASE PutDateAndTimeStamp
  BY <1>1, <1>10 DEF PutDateAndTimeStamp
<1>11. CASE Dec2ASCII_Ticks \/ SendFrame
  BY <1>1, <1>11 DEF Dec2ASCII_Ticks, SendFrame
<1>12. QED
  BY <1>2, <1>3, <1>4, <1>5, <1>6, <1>7, <1>8, <1>9, <1>10, <1>11 DEF MeasuredInterrupt

\* The overflow interrupt moves an overflow from the flag to the count.
LEMMA OverflowAccounts ==
  IInv /\ (TcEnter \/ TcAcknowledge \/ TcCount) => OverflowFits' /\ FlagFits' /\ TicksCounted'
<1> SUFFICES ASSUME IInv, TcEnter \/ TcAcknowledge \/ TcCount
             PROVE OverflowFits' /\ FlagFits' /\ TicksCounted'
  OBVIOUS
<1> USE DEF OverflowFits, FlagFits, TicksCounted, Enabled, Running, Uncounted, Measured,
            TcHandler, counter, aic, input, pdc, report
<1> TypeOK /\ OverflowFits /\ FlagFits /\ TicksCounted
  BY DEF IInv
<1>1. late \in 0..2 /\ TimerOverflowCnt \in Nat /\ TC_CV \in Nat /\ Wrap \in Nat
  BY LatencyAssumption DEF TypeOK
<1>2. CASE TcEnter
  BY <1>1, <1>2 DEF TcEnter
<1>3. CASE TcAcknowledge
  BY <1>1, <1>3 DEF TcAcknowledge
<1>4. CASE TcCount
  BY <1>1, <1>4 DEF TcCount
<1>5. QED
  BY <1>2, <1>3, <1>4

\* A tick is accounted for in the counter, or in the flag if the counter overflows;
\* after the interrupt was disabled, such an overflow is late.
LEMMA TickAccounts ==
  IInv /\ Tick => OverflowFits' /\ FlagFits' /\ TicksCounted'
<1> SUFFICES ASSUME IInv, Tick PROVE OverflowFits' /\ FlagFits' /\ TicksCounted'
  OBVIOUS
<1> USE DEF OverflowFits, FlagFits, TicksCounted, Enabled, Running, Uncounted, Measured,
            input, pdc, report
<1> TypeOK /\ OverflowFits /\ FlagFits /\ TicksCounted
  BY DEF IInv
<1>1. /\ late \in 0..2 /\ TimerOverflowCnt \in Nat /\ TC_CV \in Nat /\ Wrap \in Nat
      /\ elapsed \in Nat
  BY LatencyAssumption DEF TypeOK
<1>2. Running
  BY DEF Tick
<1>3. CASE TC_CV + 1 = Wrap
  <2>1. ~COVFS /\ tcHandler = "no" /\ COVFS' /\ TC_CV' = 0 /\ elapsed' = elapsed + 1
    BY <1>3 DEF Tick
  <2>2. UNCHANGED <<pc, CLKEN, IMR, tcHandler, TimerOverflowCnt, ticks>>
    BY DEF Tick
  <2>3. tcPending' = IMR /\ late' = IF IMR THEN late ELSE 2
    BY <1>3 DEF Tick
  <2>4. (TimerOverflowCnt + 1) * Wrap = TimerOverflowCnt * Wrap + Wrap
        /\ TimerOverflowCnt * Wrap \in Nat
    BY <1>1, OneMore
  <2>5. late = 0 => elapsed + 1 = (TimerOverflowCnt + 1) * Wrap + 0
    BY <1>1, <1>2, <1>3, <2>1, <2>4
  <2>6. TicksCounted'
    BY <1>2, <2>1, <2>2, <2>3, <2>5
  <2>7. OverflowFits' /\ FlagFits'
    BY <1>2, <2>1, <2>2, <2>3
  <2>8. QED
    BY <2>6, <2>7
<1>4. CASE TC_CV + 1 # Wrap
  <2>1. TC_CV' = TC_CV + 1 /\ elapsed' = elapsed + 1
    BY <1>4 DEF Tick
  <2>2. UNCHANGED <<COVFS, tcPending, late, pc, CLKEN, IMR, tcHandler, TimerOverflowCnt, ticks>>
    BY <1>4 DEF Tick
  <2>3. TimerOverflowCnt * Wrap \in Nat /\ (TimerOverflowCnt + 1) * Wrap \in Nat
    BY <1>1, OneMore
  <2>4. QED
    BY <1>1, <1>2, <2>1, <2>2, <2>3
<1>5. QED
  BY <1>3, <1>4

\* The input and the PDC do not touch the accounts.
LEMMA OtherAccounts ==
  IInv /\ (Toggle \/ PdcSends \/ UNCHANGED vars) => OverflowFits' /\ FlagFits' /\ TicksCounted'
<1> SUFFICES ASSUME IInv, Toggle \/ PdcSends \/ UNCHANGED vars
             PROVE OverflowFits' /\ FlagFits' /\ TicksCounted'
  OBVIOUS
<1>1. UNCHANGED <<pc, counter, aic, TimerOverflowCnt, ticks>>
  BY DEF Toggle, PdcSends, vars, report, aic
<1>2. QED
  BY <1>1 DEF IInv, OverflowFits, FlagFits, TicksCounted, Enabled, Running, Uncounted,
              Measured, counter, aic

\* A change of the input that is noted leads to another reading of the status.
LEMMA StepRearms == IInv /\ [Next]_vars => InputRearmed'
<1> SUFFICES ASSUME IInv, [Next]_vars PROVE InputRearmed'
  OBVIOUS
<1> USE DEF IInv, InputRearmed, Goes, input
<1>1. CASE Enter \/ ResetCount \/ EnableOverflow \/ StartClock
  BY <1>1 DEF Enter, ResetCount, EnableOverflow, StartClock
<1>2. CASE ReadLevel \/ WaitLow \/ Acknowledge
  BY <1>2 DEF ReadLevel, WaitLow, Acknowledge, ReadStatus
<1>3. CASE DisableOverflow \/ StopClock \/ ReadTimer
  BY <1>3 DEF DisableOverflow, StopClock, ReadTimer
<1>4. CASE PutDateAndTimeStamp \/ Dec2ASCII_Ticks \/ SendFrame
  BY <1>4 DEF PutDateAndTimeStamp, Dec2ASCII_Ticks, SendFrame
<1>5. CASE TcEnter \/ TcAcknowledge \/ TcCount
  BY <1>5 DEF TcEnter, TcAcknowledge, TcCount, TcHandler
<1>6. CASE Tick \/ PdcSends \/ UNCHANGED vars
  BY <1>6 DEF Tick, PdcSends, vars
<1>7. CASE Toggle
  BY <1>7 DEF Toggle, TypeOK
<1>8. QED
  BY <1>1, <1>2, <1>3, <1>4, <1>5, <1>6, <1>7 DEF Next, MeasuredInterrupt

LEMMA TypesKept == TypeOK /\ [Next]_vars => TypeOK'
<1>1. TypeOK /\ UNCHANGED vars => TypeOK'
  BY DEF TypeOK, vars, counter, aic, input, pdc, report
<1>2. QED
  BY <1>1, RoutineTypes, OtherTypes DEF Next

\* The inductive invariant of the measurement.
THEOREM Invariance == Spec => []IInv
<1>1. IInv /\ [Next]_vars => IInv'
  <2> SUFFICES ASSUME IInv, [Next]_vars PROVE IInv'
    OBVIOUS
  <2>1. TypeOK' /\ InputRearmed'
    BY TypesKept, StepRearms DEF IInv
  <2>2. OverflowFits' /\ FlagFits' /\ TicksCounted'
    BY RoutineAccounts, OverflowAccounts, TickAccounts, OtherAccounts DEF Next
  <2>3. QED
    BY <2>1, <2>2 DEF IInv
<1>2. QED
  BY <1>1, Initially, PTL DEF Spec

\* Every variable of the measurement stays in its type.
THEOREM TypeCorrect == Spec => []TypeOK
<1>1. IInv => TypeOK
  BY DEF IInv
<1>2. QED
  BY <1>1, Invariance, PTL

\* The ticks that Stop_Latency_Measurement computes are those between the start and
\* the stop of the timer, wherever its overflows fall, except those the interrupt
\* was disabled for.
THEOREM Measures == Spec => []MeasuredRight
<1>1. IInv => MeasuredRight
  BY DEF IInv, TicksCounted, MeasuredRight
<1>2. QED
  BY <1>1, Invariance, PTL

\* The edge of the input is never left disabled.
THEOREM StaysArmed == Spec => []InputRearmed
<1>1. IInv => InputRearmed
  BY DEF IInv
<1>2. QED
  BY <1>1, Invariance, PTL
-----------------------------------------------------------------------------
(* The lines.                                                              *)

\* The queue of the PDC: a waiting line is whole and waits behind another.
QueueFits ==
  /\ next.left \in {0, Chunks}
  /\ next.left > 0 => current.left > 0 /\ next.report
  /\ current.left = 0 => line = <<>>

\* What the routine has written to the buffer.
BufferFits ==
  /\ pc = "value" => \A i \in Pieces : i < Chunks => buffer[i] = measurements
  /\ pc = "send" \/ (pc = "main" /\ measurements > 0) =>
       \A i \in Pieces : buffer[i] = measurements

\* Between two measurements the last line in the queue is one that is not begun, or
\* one that carries the last measurement alone so far; if there is none, that line is out.
LatestFits ==
  pc = "main" /\ measurements > 0 =>
    \/ next.left > 0
    \/ /\ current.left > 0 /\ current.report
       /\ line = [i \in 1..(Chunks - current.left) |-> measurements]
    \/ current.left = 0 /\ lastLine = [i \in Pieces |-> measurements]

LineInv == QueueFits /\ BufferFits /\ LatestFits

\* A line of equal pieces grows piece by piece.
LEMMA SamePieces ==
  ASSUME NEW n \in Nat, NEW m
  PROVE  /\ <<>> = [i \in 1..0 |-> m]
         /\ Append([i \in 1..n |-> m], m) = [i \in 1..(n + 1) |-> m]
OBVIOUS

LEMMA LinesInitially == Init => LineInv
BY LatencyAssumption DEF Init, LineInv, QueueFits, BufferFits, LatestFits, Line, Nothing

\* A measurement that ends puts its line into the queue, or leaves it to one that waits.
LEMMA SendLines == TypeOK /\ LineInv /\ SendFrame => LineInv'
<1> SUFFICES ASSUME TypeOK, LineInv, SendFrame PROVE LineInv'
  OBVIOUS
<1>1. /\ pc = "send" /\ pc' = "main" /\ UNCHANGED <<line, lastLine, measurements, buffer>>
      /\ \A i \in Pieces : buffer[i] = measurements
  BY DEF SendFrame, Goes, LineInv, BufferFits, report
<1>2. BufferFits'
  BY <1>1 DEF BufferFits
<1>3. current \in Transfers /\ next \in Transfers /\ Chunks \in Nat \ {0}
  BY LatencyAssumption DEF TypeOK
<1>4. CASE current.left = 0
  <2>1. current' = [left |-> Chunks, report |-> TRUE] /\ next' = Nothing /\ line' = <<>>
    BY <1>1, <1>3, <1>4 DEF SendFrame, Queued, Line, LineInv, QueueFits
  <2>2. current'.left = Chunks /\ current'.report /\ next'.left = 0 /\ Chunks - Chunks = 0
    BY <1>3, <2>1 DEF Nothing
  <2>3. QueueFits'
    BY <1>3, <2>2 DEF QueueFits
  <2>4. line' = [i \in 1..(Chunks - current'.left) |-> measurements']
    BY <2>1, <2>2, SamePieces
  <2>5. LatestFits'
    BY <1>3, <2>2, <2>4 DEF LatestFits
  <2>6. QED
    BY <1>2, <2>3, <2>5 DEF LineInv
<1>5. CASE current.left > 0
  <2>1. next'.left = Chunks /\ next'.report /\ current' = current
    BY <1>3, <1>5 DEF SendFrame, Queued, Line, LineInv, QueueFits, Transfers
  <2>2. QED
    BY <1>1, <1>2, <1>3, <1>5, <2>1 DEF LineInv, QueueFits, LatestFits
<1>6. QED
  BY <1>3, <1>4, <1>5 DEF Transfers

\* A piece that is sent after the end of a measurement is that measurement's.
LEMMA PdcLines == TypeOK /\ LineInv /\ PdcSends => LineInv'
<1> SUFFICES ASSUME TypeOK, LineInv, PdcSends PROVE LineInv'
  OBVIOUS
<1> DEFINE piece == IF current.report THEN buffer[Chunks - current.left + 1] ELSE 0
<1>1. UNCHANGED <<pc, measurements, buffer>> /\ current.left > 0
  BY DEF PdcSends, report
<1>2. BufferFits'
  BY <1>1 DEF LineInv, BufferFits
<1>3. current \in Transfers /\ next \in Transfers /\ Chunks \in Nat \ {0}
  BY LatencyAssumption DEF TypeOK
<1>4. Chunks - current.left + 1 \in Pieces /\ Chunks - current.left \in Nat
  BY <1>1, <1>3 DEF Transfers, Pieces
<1>5. pc = "main" /\ measurements > 0 /\ current.report => piece = measurements
  BY <1>4 DEF LineInv, BufferFits
<1>6. CASE current.left > 1
  <2>1. /\ current' = [current EXCEPT !.left = @ - 1] /\ line' = Append(line, piece)
        /\ UNCHANGED next
    BY <1>6 DEF PdcSends
  <2>2. current'.left = current.left - 1 /\ current'.report = current.report
    BY <1>3, <2>1 DEF Transfers
  <2>3. QueueFits'
    BY <1>3, <1>6, <2>1, <2>2 DEF LineInv, QueueFits, Transfers
  <2>4. ASSUME pc = "main", measurements > 0, next.left = 0
        PROVE  /\ current'.left > 0 /\ current'.report
               /\ line' = [i \in 1..(Chunks - current'.left) |-> measurements]
    <3>1. current.report /\ line = [i \in 1..(Chunks - current.left) |-> measurements]
      BY <1>1, <1>3, <2>4 DEF LineInv, LatestFits, Transfers
    <3>2. line' = [i \in 1..(Chunks - current.left + 1) |-> measurements]
      BY <1>4, <1>5, <2>1, <2>4, <3>1, SamePieces
    <3>3. Chunks - current.left + 1 = Chunks - current'.left
      BY <1>3, <2>2 DEF Transfers
    <3>4. QED
      BY <1>3, <1>6, <2>2, <3>1, <3>2, <3>3 DEF Transfers
  <2>5. LatestFits'
    BY <1>1, <1>3, <2>1, <2>4 DEF LatestFits, Transfers
  <2>6. QED
    BY <1>2, <2>3, <2>5 DEF LineInv
<1>7. CASE current.left = 1
  <2>1. current' = next /\ next' = Nothing /\ line' = <<>> /\ lastLine' = Append(line, piece)
    BY <1>7 DEF PdcSends
  <2>2. QueueFits'
    BY <1>3, <2>1 DEF QueueFits, Nothing
  <2>3. CASE next.left > 0
    <3>1. next.left = Chunks /\ next.report /\ Chunks - Chunks = 0
      BY <1>3, <2>3 DEF LineInv, QueueFits
    <3>2. line' = [i \in 1..(Chunks - current'.left) |-> measurements']
      BY <2>1, <3>1, SamePieces
    <3>3. QED
      BY <1>2, <1>3, <2>1, <2>2, <3>1, <3>2 DEF LineInv, LatestFits
  <2>4. CASE next.left = 0
    <3>1. ASSUME pc = "main", measurements > 0
          PROVE  lastLine' = [i \in Pieces |-> measurements]
      <4>1. current.report /\ line = [i \in 1..(Chunks - current.left) |-> measurements]
        BY <1>1, <1>3, <2>4, <3>1 DEF LineInv, LatestFits, Transfers
      <4>2. lastLine' = [i \in 1..(Chunks - current.left + 1) |-> measurements]
        BY <1>4, <1>5, <2>1, <3>1, <4>1, SamePieces
      <4>3. Chunks - current.left + 1 = Chunks
        BY <1>3, <1>7
      <4>4. QED
        BY <4>2, <4>3 DEF Pieces
    <3>2. QED
      BY <1>1, <1>2, <2>1, <2>2, <2>4, <3>1 DEF LineInv, LatestFits
  <2>5. QED
    BY <1>3, <2>3, <2>4 DEF Transfers
<1>8. QED
  BY <1>1, <1>3, <1>6, <1>7 DEF Transfers

\* Nothing else touches the queue; the buffer is only written in a measurement.
LEMMA OtherLines ==
  TypeOK /\ LineInv /\ [Next]_vars /\ ~SendFrame /\ ~PdcSends => LineInv'
<1> SUFFICES ASSUME TypeOK, LineInv, [Next]_vars, ~SendFrame, ~PdcSends PROVE LineInv'
  OBVIOUS
<1> USE DEF LineInv, QueueFits, BufferFits, LatestFits, Goes, pdc, report
<1>1. CASE Enter \/ ResetCount \/ EnableOverflow \/ StartClock
  BY <1>1 DEF Enter, ResetCount, EnableOverflow, StartClock
<1>2. CASE ReadLevel \/ WaitLow \/ Acknowledge \/ DisableOverflow \/ StopClock \/ ReadTimer
  BY <1>2 DEF ReadLevel, WaitLow, Acknowledge, DisableOverflow, StopClock, ReadTimer
<1>3. CASE PutDateAndTimeStamp
  BY <1>3, LatencyAssumption DEF PutDateAndTimeStamp, TypeOK, Pieces
<1>4. CASE Dec2ASCII_Ticks
  <2>1. \A i \in Pieces : i = Chunks \/ i < Chunks
    BY LatencyAssumption DEF Pieces
  <2>2. \A i \in Pieces : buffer'[i] = measurements
    BY <1>4, <2>1 DEF Dec2ASCII_Ticks, TypeOK
  <2>3. QED
    BY <1>4, <2>2 DEF Dec2ASCII_Ticks
<1>5. CASE TcEnter \/ TcAcknowledge \/ TcCount
  BY <1>5 DEF TcEnter, TcAcknowledge, TcCount, TcHandler
<1>6. CASE Tick \/ Toggle \/ UNCHANGED vars
  BY <1>6 DEF Tick, Toggle, vars
<1>7. QED
  BY <1>1, <1>2, <1>3, <1>4, <1>5, <1>6 DEF Next, MeasuredInterrupt

\* Once all is sent, the last line on the terminal is that of the last measurement,
\* whole, however long a line is and whichever lines were refused.
THEOREM LatestIsOut == Spec => []LastLineIsLatest
<1>1. Init => TypeOK /\ LineInv
  BY Initially, LinesInitially DEF IInv
<1>2. TypeOK /\ LineInv /\ [Next]_vars => TypeOK' /\ LineInv'
  BY TypesKept, SendLines, PdcLines, OtherLines
<1>3. TypeOK /\ LineInv => LastLineIsLatest
  <2> SUFFICES ASSUME TypeOK, LineInv, pc = "main", measurements > 0, current.left = 0
               PROVE  lastLine = [i \in Pieces |-> measurements]
    BY DEF LastLineIsLatest
  <2>1. next.left = 0
    BY LatencyAssumption DEF LineInv, QueueFits, TypeOK, Transfers
  <2>2. QED
    BY <2>1 DEF LineInv, LatestFits
<1>4. QED
  BY <1>1, <1>2, <1>3, PTL DEF Spec
=============================================================================
