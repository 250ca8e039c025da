----------------------------- MODULE DataFlash -----------------------------
(***************************************************************************)
(* The DataFlash service of the ROM: each operation hands one command, and *)
(* for some of them a data buffer, to the PDC of the SPI, returns at once, *)
(* and the interrupt handler notes the end.  AbortCommand gives up the     *)
(* transfer that is running; it can be interrupted between its steps.      *)
(*                                                                         *)
(* Operations that differ in their opcode and address only are one action. *)
(* A call with an illegal command, address or size returns before it       *)
(* touches anything and is left out.  The transmitter sends commands and   *)
(* data piece by piece, the receiver stores what comes back for each.      *)
(***************************************************************************)
EXTENDS Naturals, Sequences

CONSTANTS
  MaxCalls,  \* bound on the calls of operations
  MaxSize    \* bound on the size of their data, in pieces

ASSUME DataFlashAssumption == MaxCalls \in Nat /\ MaxSize \in Nat \ {0}

VARIABLES
  calls,            \* calls so far; each call's number names its buffer too
  state,            \* DataFlashDesc.state
  DataFlash_state,  \* the same: GET_STATUS, or what was received for it
  data,             \* the same: rx_data_pt, tx_data_pt and their sizes
  transmit,         \* TPR, TCR and TNPR, TNCR: two runs of pieces
  receive,          \* RPR, RCR and RNPR, RNCR
  enabled,          \* transmitter and receiver, PTCR
  RDR,              \* the piece that came back and is not stored yet
  IMR,              \* the RXBUFF interrupt is enabled
  abort,            \* where AbortCommand is: "no", "read", "idle" or "off"
  status,           \* what it has read
  asked,            \* history: the transfer the last accepted call asks for
  stored,           \* history: what was received since, and where it was stored
  clean,            \* history: no aborted command left a piece or a counter before it
  marked,           \* history: GET_STATUS was there before it, for an earlier command
  cut               \* history: it was aborted

client  == <<calls, data>>
spi     == <<transmit, receive, RDR>>
aborter == <<abort, status>>
history == <<asked, stored, clean, marked, cut>>
vars    == <<client, state, DataFlash_state, spi, enabled, IMR, aborter, history>>

\* No piece, and the mark that a status is to be received: 0x0F, which is also what the
\* status may be.
Nobody == [of |-> 0, part |-> "none"]

GET_STATUS == [of |-> 0, part |-> "GET_STATUS"]

Piece  == [of : 1..MaxCalls, part : {"status", "command", "data"}]

\* Mutation: one piece too many.
RunLong(of, part, left) == [piece |-> [of |-> of, part |-> part], left |-> left + 1]

\* A run of pieces in one buffer.
Run(of, part, left) == [piece |-> [of |-> of, part |-> part], left |-> left]

Empty == [piece |-> Nobody, left |-> 0]

\* The run that remains, and the other one loaded when it is used up.
Advance(runs) ==
  IF runs.now.left > 1 THEN [runs EXCEPT !.now.left = @ - 1]
  ELSE [now |-> runs.then, then |-> Empty]

RXBUFF == receive.now.left = 0 /\ receive.then.left = 0

Init ==
  /\ calls = 0 /\ data = [of |-> 0, size |-> 0]
  /\ state = "IDLE" /\ DataFlash_state = Nobody
  /\ transmit = [now |-> Empty, then |-> Empty] /\ receive = transmit
  /\ enabled = FALSE /\ RDR = Nobody /\ IMR = FALSE
  /\ abort = "no" /\ status = FALSE
  /\ asked = <<>> /\ stored = <<>>
  /\ clean = TRUE /\ marked = FALSE /\ cut = FALSE
-----------------------------------------------------------------------------
(* The operations.                                                         *)

\* A transfer without data leaves the second run as it is.
AT91F_SpiWrite(part) ==
  LET runs(old) == [now |-> Run(calls', part, 1),
                    then |-> IF data'.size = 0 THEN old.then
                             ELSE Run(data'.of, "data", data'.size)]
  IN
  /\ state' = "BUSY" /\ transmit' = runs(transmit) /\ receive' = runs(receive)
  /\ enabled' = TRUE /\ IMR' = TRUE
  /\ asked' = <<[of |-> calls', part |-> part]>>
                \o [i \in 1..data'.size |-> [of |-> calls', part |-> "data"]]
  /\ stored' = <<>> /\ cut' = FALSE
  /\ clean' = /\ RDR = Nobody
              /\ data'.size > 0 \/ (transmit.then.left = 0 /\ receive.then.left = 0)
  /\ marked' = (part # "status" /\ DataFlash_state = GET_STATUS)

Call == abort = "no" /\ calls < MaxCalls /\ calls' = calls + 1

AT91F_DataFlashGetStatus ==
  /\ Call /\ state = "IDLE" /\ data' = [data EXCEPT !.size = 0]
  /\ DataFlash_state' = GET_STATUS /\ AT91F_SpiWrite("status")
  /\ UNCHANGED <<RDR, aborter>>

\* Refused while another transfer is there.
AT91F_DataFlashSendCommand ==
  /\ IF state = "IDLE" THEN AT91F_SpiWrite("command")
     ELSE UNCHANGED <<state, transmit, receive, enabled, IMR, history>>
  /\ UNCHANGED <<DataFlash_state, RDR, aborter>>

\* PageRead, ContinuousRead, PagePgmBuf: the buffer is noted first, even if the
\* call is then refused.
CommandWithData ==
  /\ Call /\ \E size \in 0..MaxSize : data' = [of |-> calls', size |-> size]
  /\ AT91F_DataFlashSendCommand

\* Mutation: the size of the last data is left.
CommandAloneStale == Call /\ data' = data /\ AT91F_DataFlashSendCommand

\* MainMemoryToBufferTransfert, WriteBufferToMain, PageErase, BlockErase,
\* MainMemoryToBufferCompare.
CommandAlone ==
  Call /\ data' = [data EXCEPT !.size = 0] /\ AT91F_DataFlashSendCommand

\* ReadBuffer, WriteBuffer: nothing is noted by a call that is refused.
BufferCommand ==
  /\ Call /\ state = "IDLE"
  /\ \E size \in 0..MaxSize : data' = [of |-> calls', size |-> size]
  /\ AT91F_SpiWrite("command") /\ UNCHANGED <<DataFlash_state, RDR, aborter>>
-----------------------------------------------------------------------------
(* AT91F_DataFlashAbortCommand, between whose steps the transfer goes on.  *)

Abort(from, to) ==
  abort = from /\ abort' = to
  /\ UNCHANGED <<client, DataFlash_state, spi, asked, stored, clean, marked>>

AbortRead ==
  /\ Abort("no", "read") /\ status' = (RXBUFF /\ IMR)
  /\ UNCHANGED <<state, enabled, IMR, cut>>

AbortIdle ==
  /\ Abort("read", "idle") /\ state' = "IDLE" /\ cut' = TRUE
  /\ UNCHANGED <<status, enabled, IMR>>

AbortDisable ==
  /\ Abort("idle", "off") /\ enabled' = FALSE /\ UNCHANGED <<status, state, IMR, cut>>

AbortReturn ==
  /\ Abort("off", "no") /\ IMR' = (IMR /\ ~status) /\ status' = FALSE
  /\ UNCHANGED <<state, enabled, cut>>
-----------------------------------------------------------------------------
(* The interrupt, and the PDC.                                             *)

\* Mutation: the service is not free again.
CommandEndsBusy == state' = state /\ DataFlash_state' = DataFlash_state

\* Mutation: what was received is always taken for the status.
CommandEndsAsStatus == state' = "IDLE" /\ DataFlash_state' = stored[1].piece

\* A status that is 0x0F leaves the mark as it is.
CommandEnds ==
  /\ state' = "IDLE"
  /\ IF DataFlash_state = GET_STATUS
     THEN DataFlash_state' \in {stored[1].piece, GET_STATUS}
     ELSE UNCHANGED DataFlash_state

\* Mutation: the end does not disable the interrupt.
HandlerStillEnabled ==
  /\ IMR /\ RXBUFF /\ enabled' = FALSE
  /\ \/ state = "BUSY" /\ CommandEnds /\ IMR' = IMR
     \/ state # "BUSY" /\ state' = "ERROR" /\ IMR' = FALSE /\ UNCHANGED DataFlash_state
  /\ UNCHANGED <<client, spi, aborter, history>>

\* The SPI's interrupt calls it with the flags that are enabled.
AT91F_DataFlashHandler ==
  /\ IMR /\ RXBUFF /\ IMR' = FALSE /\ enabled' = FALSE
  /\ \/ state = "BUSY" /\ CommandEnds
     \/ state # "BUSY" /\ state' = "ERROR" /\ UNCHANGED DataFlash_state
  /\ UNCHANGED <<client, spi, aborter, history>>

Transmit ==
  /\ enabled /\ transmit.now.left > 0 /\ RDR = Nobody
  /\ RDR' = transmit.now.piece /\ transmit' = Advance(transmit)
  /\ UNCHANGED <<client, state, DataFlash_state, receive, enabled, IMR, aborter, history>>

Receive ==
  /\ enabled /\ receive.now.left > 0 /\ RDR # Nobody
  /\ RDR' = Nobody /\ receive' = Advance(receive)
  /\ stored' = Append(stored, [piece |-> RDR, at |-> receive.now.piece])
  /\ UNCHANGED <<client, state, DataFlash_state, transmit, enabled, IMR, aborter,
                 asked, clean, marked, cut>>

Next ==
  \/ AT91F_DataFlashGetStatus \/ CommandWithData \/ CommandAlone \/ BufferCommand
  \/ AbortRead \/ AbortIdle \/ AbortDisable \/ AbortReturn
  \/ AT91F_DataFlashHandler \/ Transmit \/ Receive

Spec == Init /\ [][Next]_vars

Fairness == WF_vars(Transmit) /\ WF_vars(Receive) /\ WF_vars(AT91F_DataFlashHandler)
FairSpec == Spec /\ Fairness
-----------------------------------------------------------------------------
Runs == {Empty} \cup [piece : Piece, left : 1..MaxSize]

TypeOK ==
  /\ calls \in 0..MaxCalls /\ data \in [of : 0..MaxCalls, size : 0..MaxSize]
  /\ state \in {"IDLE", "BUSY", "ERROR"}
  /\ DataFlash_state \in Piece \cup {Nobody, GET_STATUS}
  /\ transmit \in [now : Runs, then : Runs] /\ receive \in [now : Runs, then : Runs]
  /\ enabled \in BOOLEAN /\ RDR \in Piece \cup {Nobody} /\ IMR \in BOOLEAN
  /\ abort \in {"no", "read", "idle", "off"} /\ status \in BOOLEAN
  /\ asked \in Seq(Piece) /\ stored \in Seq([piece : Piece, at : Piece])
  /\ clean \in BOOLEAN /\ marked \in BOOLEAN /\ cut \in BOOLEAN

\* "Allows to reset PDC & Interrupts" (obj_svcdataflash.c:125, of AbortCommand): a
\* command that is accepted after an abort stores what it receives in its own buffers,
\* never in that of the aborted command, which its caller has long taken back.
StoresInOwn ==
  state = "BUSY" => \A i \in DOMAIN stored : stored[i].at.of = asked[1].of

\* A command whose end the handler will note was carried out as it was asked for: its
\* own command and its own data went over the wire, nothing else, and what came back
\* for each is where it belongs.  So it is unless an aborted command left something in
\* the PDC (obj_svcdataflash.c:42), whatever calls are refused meanwhile: these
\* write their buffers into the descriptor of the running one (:230).
CarriedOutAlone ==
  (clean /\ state = "BUSY" /\ RXBUFF) =>
    stored = [i \in DOMAIN asked |-> [piece |-> asked[i], at |-> asked[i]]]

\* The status of the DataFlash is only taken from the answer to a status command
\* (obj_svcdataflash.c:81), unless the mark of an earlier one was left, by an abort or
\* because it is itself a status (AT91C_SPI_DataFlash.h:97).
StatusIsAnswer ==
  [][ DataFlash_state' # DataFlash_state /\ DataFlash_state' # GET_STATUS
       /\ clean /\ ~marked =>
        DataFlash_state' = asked[1] /\ asked[1].part = "status" ]_vars

\* The service fails, and refuses all commands from then on
\* (obj_svcdataflash.c:90), only if its transfer ended inside AbortCommand.
ErrorNeedsAbort == [][ state' = "ERROR" => state = "ERROR" \/ cut ]_vars

\* As many pieces are still sent as the receiver waits for.
WillFill ==
  receive.now.left + receive.then.left
    <= transmit.now.left + transmit.then.left + (IF RDR = Nobody THEN 0 ELSE 1)

\* A command that is accepted ends (obj_svcdataflash.c:79), unless an aborted one has
\* left it more to receive than it sends.  That happens: a command with data that is
\* aborted when its last byte has been sent and not stored leaves RNCR set and TNCR
\* at zero, which a command without data takes over (:42), and stays BUSY for ever.
Ends == (state = "BUSY" /\ (clean \/ WillFill)) ~> state # "BUSY"
=============================================================================
