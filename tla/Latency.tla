------------------------------ MODULE Latency ------------------------------
(***************************************************************************)
(* The latency measurement of the application: the interrupt of an input   *)
(* pin is entered through Start_Latency_Measurement and left through       *)
(* Stop_Latency_Measurement, which stop the time with timer TC0, count its *)
(* overflows in a second, nested interrupt, and send the result over the   *)
(* UART by DMA (PDC) from the one buffer all results are written to.       *)
(*                                                                         *)
(* Each step of the interrupt routine is one access to a register or to a  *)
(* variable shared with the nested interrupt, except SendFrame; the timer, *)
(* the pin and the PDC go on between any two of them.                      *)
(***************************************************************************)
EXTENDS Naturals, Sequences

CONSTANTS
  Wrap,           \* ticks of the counter per overflow (65536)
  MaxTicks,       \* bound on the ticks of one measurement
  MaxMeasurements,\* bound on their number
  Chunks          \* pieces of a line the PDC sends one after the other

ASSUME LatencyAssumption ==
  Wrap \in Nat \ {0} /\ MaxTicks \in Nat /\ MaxMeasurements \in Nat
  /\ Chunks \in Nat \ {0}

VARIABLES
  pc,               \* where the measured interrupt routine is, see Places
  measurements,     \* their number
  TimerOverflowCnt, \* the overflows counted
  ticks,            \* what getTimerValue returned last
  TC_CV,            \* the counter
  CLKEN,            \* it is running
  COVFS,            \* its overflow flag, TC_SR
  IMR,              \* the overflow interrupt is enabled
  tcPending,        \* the interrupt controller holds an overflow interrupt
  tcHandler,        \* where its handler is: "no", "ack" or "count"
  pin,              \* the level of the input
  PIO_ISR,          \* the input has changed
  pinPending,       \* the interrupt controller holds an interrupt of the input
  buffer,           \* ASCII_UART_Buffer: which measurement each piece is of
  current, next,    \* the PDC's transfers: pieces left, and whose they are
  line,             \* the pieces of the current line that are out
  lastLine,         \* the last line that is out
  elapsed,          \* history: ticks from the start of the timer to its stop
  late              \* history: 2, 1 if in this, in the last measurement the counter
                    \* overflowed after its interrupt was disabled; else 0

counter == <<TC_CV, CLKEN, COVFS, elapsed, late>>
aic     == <<IMR, tcPending, tcHandler>>
input   == <<pin, PIO_ISR, pinPending>>
pdc     == <<current, next, line, lastLine>>
report  == <<measurements, TimerOverflowCnt, ticks, buffer>>
vars    == <<pc, counter, aic, input, pdc, report>>

Places ==
  {"main", "reset", "enable", "start", "level", "wait", "ack", "disable", "stop",
   "read", "stamp", "value", "send"}

Pieces == 1..Chunks
Nothing == [left |-> 0, report |-> FALSE]
Line(isReport) == [left |-> Chunks, report |-> isReport]

Init ==
  /\ pc = "main" /\ measurements = 0 /\ TimerOverflowCnt = 0 /\ ticks = 0
  /\ TC_CV = 0 /\ CLKEN = FALSE /\ COVFS = FALSE /\ IMR = FALSE
  /\ tcPending = FALSE /\ tcHandler = "no"
  /\ pin \in BOOLEAN /\ PIO_ISR = FALSE /\ pinPending = FALSE
  /\ buffer = [i \in Pieces |-> 0]
  \* the welcome message is on its way
  /\ current = Line(FALSE) /\ next = Nothing /\ line = <<>> /\ lastLine = <<>>
  /\ elapsed = 0 /\ late = 0
-----------------------------------------------------------------------------
(* The measured interrupt routine.                                         *)

\* The overflow interrupt has the higher priority: while it is there the
\* measured routine does not go on.
Goes(from, to) == pc = from /\ pc' = to /\ ~tcPending /\ tcHandler = "no"

Enter ==
  /\ Goes("main", "reset") /\ pinPending /\ measurements < MaxMeasurements
  /\ pinPending' = FALSE /\ measurements' = measurements + 1
  /\ late' = IF late > 0 THEN late - 1 ELSE 0
  /\ UNCHANGED <<TC_CV, CLKEN, COVFS, elapsed, aic, pin, PIO_ISR, pdc,
                 TimerOverflowCnt, ticks, buffer>>

ResetCount ==
  /\ Goes("reset", "enable") /\ TimerOverflowCnt' = 0
  /\ UNCHANGED <<counter, aic, input, pdc, measurements, ticks, buffer>>

\* Enabling the interrupt while the flag is up raises it.
EnableOverflow ==
  /\ Goes("enable", "start") /\ IMR' = TRUE /\ tcPending' = COVFS
  /\ UNCHANGED <<counter, tcHandler, input, pdc, report>>

StartClock ==
  /\ Goes("start", "level") /\ CLKEN' = TRUE /\ TC_CV' = 0 /\ elapsed' = 0
  /\ UNCHANGED <<COVFS, late, aic, input, pdc, report>>

\* Measured_Interrupt_Highlevel.
ReadLevel ==
  /\ Goes("level", IF pin THEN "wait" ELSE "ack")
  /\ UNCHANGED <<counter, aic, input, pdc, report>>

WaitLow ==
  /\ Goes("wait", "ack") /\ ~pin
  /\ UNCHANGED <<counter, aic, input, pdc, report>>

\* Mutation: the status of the input is not read.
ReadStatusNot == PIO_ISR' = PIO_ISR

ReadStatus == PIO_ISR' = FALSE

Acknowledge ==
  /\ Goes("ack", "disable") /\ ReadStatus
  /\ UNCHANGED <<counter, aic, pin, pinPending, pdc, report>>

\* StopTimer.  An interrupt that is pending stays pending.
DisableOverflow ==
  /\ Goes("disable", "stop") /\ IMR' = FALSE
  /\ UNCHANGED <<counter, tcPending, tcHandler, input, pdc, report>>

StopClock ==
  /\ Goes("stop", "read") /\ CLKEN' = FALSE
  /\ UNCHANGED <<TC_CV, COVFS, elapsed, late, aic, input, pdc, report>>

\* Mutation: the overflows are not taken into account.
getTimerValueShort == TC_CV

getTimerValue == TimerOverflowCnt * Wrap + TC_CV

ReadTimer ==
  /\ Goes("read", "stamp") /\ ticks' = getTimerValue
  /\ UNCHANGED <<counter, aic, input, pdc, measurements, TimerOverflowCnt, buffer>>

\* The time stamp is all of a line but its last piece.
PutDateAndTimeStamp ==
  /\ Goes("stamp", "value")
  /\ buffer' = [i \in Pieces |-> IF i < Chunks THEN measurements ELSE buffer[i]]
  /\ UNCHANGED <<counter, aic, input, pdc, measurements, TimerOverflowCnt, ticks>>

Dec2ASCII_Ticks ==
  /\ Goes("value", "send") /\ buffer' = [buffer EXCEPT ![Chunks] = measurements]
  /\ UNCHANGED <<counter, aic, input, pdc, measurements, TimerOverflowCnt, ticks>>

\* Mutation: a line is sent only when no other is on its way.
QueuedAlone ==
  \/ current.left = 0 /\ current' = Line(TRUE) /\ next' = Nothing
  \/ current.left > 0 /\ UNCHANGED <<current, next>>

\* Mutation: one piece too many is sent.
QueuedLong ==
  /\ current' = IF current.left = 0 THEN [left |-> Chunks + 1, report |-> TRUE] ELSE current
  /\ UNCHANGED next

\* AT91F_PDC_SendFrame: a third line is refused.  It reads TCR and TNCR before it writes
\* them.  One step stands for it, because a transmitter that is done in between loads
\* the next transfer when it is written.
Queued ==
  \/ current.left = 0 /\ current' = Line(TRUE) /\ next' = Nothing
  \/ current.left > 0 /\ next.left = 0 /\ next' = Line(TRUE) /\ UNCHANGED current
  \/ current.left > 0 /\ next.left > 0 /\ UNCHANGED <<current, next>>

\* What it returns is not looked at.
SendFrame ==
  /\ Goes("send", "main") /\ Queued
  /\ UNCHANGED <<line, lastLine, counter, aic, input, report>>

MeasuredInterrupt ==
  \/ Enter \/ ResetCount \/ EnableOverflow \/ StartClock \/ ReadLevel \/ WaitLow
  \/ Acknowledge \/ DisableOverflow \/ StopClock \/ ReadTimer
  \/ PutDateAndTimeStamp \/ Dec2ASCII_Ticks \/ SendFrame
-----------------------------------------------------------------------------
(* The overflow interrupt.                                                 *)

TcHandler(from, to) ==
  tcHandler = from /\ tcHandler' = to /\ UNCHANGED <<pc, IMR, input, pdc>>

TcEnter ==
  /\ TcHandler("no", "ack") /\ tcPending /\ tcPending' = FALSE
  /\ UNCHANGED <<counter, report>>

TcAcknowledge ==
  /\ TcHandler("ack", "count") /\ COVFS' = FALSE
  /\ UNCHANGED <<tcPending, TC_CV, CLKEN, elapsed, late, report>>

TcCount ==
  /\ TcHandler("count", "no") /\ TimerOverflowCnt' = TimerOverflowCnt + 1
  /\ UNCHANGED <<tcPending, counter, measurements, ticks, buffer>>
-----------------------------------------------------------------------------
(* The timer, the input and the UART.                                      *)

\* An overflow is served before the next one.
Tick ==
  /\ CLKEN /\ elapsed < MaxTicks /\ (TC_CV + 1 = Wrap => ~COVFS /\ tcHandler = "no")
  /\ elapsed' = elapsed + 1
  /\ IF TC_CV + 1 = Wrap
     THEN /\ TC_CV' = 0 /\ COVFS' = TRUE /\ tcPending' = IMR
          /\ late' = IF IMR THEN late ELSE 2
     ELSE TC_CV' = TC_CV + 1 /\ UNCHANGED <<COVFS, tcPending, late>>
  /\ UNCHANGED <<pc, CLKEN, IMR, tcHandler, input, pdc, report>>

\* The interrupt controller sees an edge when the first change is noted.
Toggle ==
  /\ pin' = ~pin /\ PIO_ISR' = TRUE /\ pinPending' = (pinPending \/ ~PIO_ISR)
  /\ UNCHANGED <<pc, counter, aic, pdc, report>>

PdcSends ==
  /\ current.left > 0
  /\ LET piece == IF current.report THEN buffer[Chunks - current.left + 1] ELSE 0 IN
     IF current.left > 1
     THEN /\ current' = [current EXCEPT !.left = @ - 1] /\ line' = Append(line, piece)
          /\ UNCHANGED <<next, lastLine>>
     ELSE current' = next /\ next' = Nothing /\ line' = <<>> /\ lastLine' = Append(line, piece)
  /\ UNCHANGED <<pc, counter, aic, input, report>>

Next ==
  \/ MeasuredInterrupt \/ TcEnter \/ TcAcknowledge \/ TcCount
  \/ Tick \/ Toggle \/ PdcSends

Spec == Init /\ [][Next]_vars
-----------------------------------------------------------------------------
Transfers == [left : 0..Chunks, report : BOOLEAN]

TypeOK ==
  /\ pc \in Places /\ measurements \in 0..MaxMeasurements
  /\ TimerOverflowCnt \in Nat /\ ticks \in Nat
  /\ TC_CV \in 0..(Wrap - 1) /\ CLKEN \in BOOLEAN /\ COVFS \in BOOLEAN
  /\ IMR \in BOOLEAN /\ tcPending \in BOOLEAN /\ tcHandler \in {"no", "ack", "count"}
  /\ pin \in BOOLEAN /\ PIO_ISR \in BOOLEAN /\ pinPending \in BOOLEAN
  /\ buffer \in [Pieces -> Nat] /\ current \in Transfers /\ next \in Transfers
  /\ elapsed \in 0..MaxTicks /\ late \in 0..2

Measured == pc \in {"stamp", "value", "send"}

\* "Get the time used" (InterruptMeasurmentService.c:65): the measured time is the
\* time from the start of the timer to its stop, although the counter may have
\* overflowed at any point of the routine.
EveryMeasurementRight == Measured => ticks = elapsed

\* The same, unless the counter overflowed between the two stores of StopTimer
\* (Timer.c:58), in this measurement or in the last.
MeasuredRight == (Measured /\ late = 0) => ticks = elapsed

\* Reading the status enables the edge again (main.c:39): a change of the input that
\* is noted has raised the interrupt, or the routine will still read the status.
InputRearmed ==
  PIO_ISR => pinPending \/ pc \in {"reset", "enable", "start", "level", "wait", "ack"}

\* All results are written to one buffer and lines may be refused
\* (InterruptMeasurmentService.c:84), but once all is sent the last line on the
\* terminal is that of the last measurement, whole.
LastLineIsLatest ==
  (pc = "main" /\ measurements > 0 /\ current.left = 0) =>
    lastLine = [i \in Pieces |-> measurements]
=============================================================================
