-------------------------- MODULE DataFlashProofs --------------------------
(***************************************************************************)
(* Proofs about the DataFlash service, for any number of calls and any     *)
(* size of their data.  The inductive invariant follows the pieces of a    *)
(* transfer: those stored, the one that has just come back, and those the  *)
(* two pairs of counters still stand for are together what was asked for.  *)
(***************************************************************************)
EXTENDS DataFlash, SequenceTheorems, TLAPS

\* A descriptor holds what was asked for, but the first n pieces: the command and
\* the data, or the rest of the data alone.
Rest(runs, n) ==
  \/ /\ n = 0 /\ runs.now = [piece |-> asked[1], left |-> 1]
     /\ runs.then.left = Len(asked) - 1
     /\ runs.then.left > 0 => runs.then.piece = [of |-> asked[1].of, part |-> "data"]
  \/ /\ n > 0 /\ runs.now.left = Len(asked) - n /\ runs.then.left = 0
     /\ runs.now.left > 0 => runs.now.piece = [of |-> asked[1].of, part |-> "data"]

\* What was asked for: one command, the rest is its data.
AskedFits == \A i \in 2..Len(asked) : asked[i] = [of |-> asked[1].of, part |-> "data"]

\* The pieces on their way.
Conveyor ==
  clean /\ asked # <<>> =>
    /\ AskedFits
    /\ \A i \in 1..Len(stored) : stored[i] = [piece |-> asked[i], at |-> asked[i]]
    /\ Rest(receive, Len(stored))
    /\ IF RDR = Nobody THEN Rest(transmit, Len(stored))
       ELSE RDR = asked[Len(stored) + 1] /\ Rest(transmit, Len(stored) + 1)

\* A status is only awaited from a status command, and something is received before
\* the counters are used up.
StatusFits ==
  /\ state = "BUSY" => asked # <<>>
  /\ asked # <<>> /\ receive.now.left = 0 => stored # <<>>
  /\ asked # <<>> /\ DataFlash_state = GET_STATUS /\ ~marked => asked[1].part = "status"

\* The interrupt is enabled for the transfer that runs, or for one that was aborted.
InterruptFits == IMR /\ ~cut => state = "BUSY"

IInv == TypeOK /\ Conveyor /\ StatusFits /\ InterruptFits

LEMMA Initially == Init => IInv
<1> SUFFICES ASSUME Init PROVE IInv
  OBVIOUS
<1>1. Empty \in Runs
  BY DataFlashAssumption DEF Empty, Runs
<1>2. TypeOK
  <2>1. /\ transmit = [now |-> Empty, then |-> Empty] /\ receive = transmit
        /\ calls = 0 /\ data = [of |-> 0, size |-> 0]
    BY DEF Init
  <2>2. /\ transmit \in [now : Runs, then : Runs] /\ receive \in [now : Runs, then : Runs]
        /\ calls \in 0..MaxCalls /\ data \in [of : 0..MaxCalls, size : 0..MaxSize]
    BY <1>1, <2>1, DataFlashAssumption
  <2>3. asked \in Seq(Piece) /\ stored \in Seq([piece : Piece, at : Piece])
    BY DEF Init
  <2>4. QED
    BY <2>2, <2>3 DEF Init, TypeOK
<1>3. Conveyor /\ StatusFits /\ InterruptFits
  BY DEF Init, Conveyor, StatusFits, InterruptFits
<1>4. QED
  BY <1>2, <1>3 DEF IInv

LEMMA Constants ==
  /\ Nobody \notin Piece /\ GET_STATUS \notin Piece /\ Nobody # GET_STATUS
  /\ Empty \in Runs /\ MaxSize \in Nat \ {0} /\ MaxCalls \in Nat
BY DataFlashAssumption DEF Nobody, GET_STATUS, Piece, Empty, Runs

\* A descriptor that is used goes on to the next piece.
LEMMA Advances ==
  ASSUME NEW runs \in [now : Runs, then : Runs], runs.now.left > 0
  PROVE  /\ runs.now.left > 1 =>
              Advance(runs) = [now |-> [piece |-> runs.now.piece, left |-> runs.now.left - 1],
                               then |-> runs.then]
         /\ runs.now.left = 1 => Advance(runs) = [now |-> runs.then, then |-> Empty]
         /\ runs.now.left \in 1..MaxSize /\ runs.then.left \in 0..MaxSize
         /\ Advance(runs) \in [now : Runs, then : Runs]
<1>1. /\ runs = [now |-> runs.now, then |-> runs.then]
      /\ runs.now = [piece |-> runs.now.piece, left |-> runs.now.left]
      /\ runs.now \in Runs /\ runs.then \in Runs
      /\ runs.now.left \in 1..MaxSize /\ runs.then.left \in 0..MaxSize
  BY DataFlashAssumption DEF Runs, Empty
<1>2. CASE runs.now.left > 1
  <2>1. Advance(runs) = [now |-> [piece |-> runs.now.piece, left |-> runs.now.left - 1],
                         then |-> runs.then]
    BY <1>1, <1>2 DEF Advance
  <2>2. runs.now # Empty /\ runs.now.left - 1 \in 1..MaxSize
    BY <1>1, <1>2, DataFlashAssumption DEF Empty
  <2>3. runs.now.piece \in Piece
    BY <1>1, <2>2 DEF Runs
  <2>4. [piece |-> runs.now.piece, left |-> runs.now.left - 1] \in Runs
    BY <2>2, <2>3 DEF Runs
  <2>5. QED
    BY <1>1, <1>2, <2>1, <2>4
<1>3. CASE runs.now.left = 1
  BY <1>1, <1>3, Constants DEF Advance
<1>4. QED
  BY <1>1, <1>2, <1>3

LEMMA AdvanceFits ==
  ASSUME NEW runs \in [now : Runs, then : Runs], runs.now.left > 0, NEW n \in Nat,
         AskedFits, asked \in Seq(Piece), asked # <<>>, Rest(runs, n)
  PROVE  runs.now.piece = asked[n + 1] /\ n < Len(asked) /\ Rest(Advance(runs), n + 1)
<1>1. Len(asked) \in Nat /\ Len(asked) > 0 /\ runs.now.left \in Nat /\ runs.then.left \in Nat
  BY Advances, DataFlashAssumption
<1>2. CASE n = 0
  <2>1. /\ runs.now.piece = asked[1] /\ runs.now.left = 1
        /\ runs.then.left = Len(asked) - 1
        /\ runs.then.left > 0 => runs.then.piece = [of |-> asked[1].of, part |-> "data"]
    BY <1>2 DEF Rest
  <2>2. Advance(runs) = [now |-> runs.then, then |-> Empty]
    BY <2>1, Advances
  <2>3. QED
    BY <1>1, <1>2, <2>1, <2>2 DEF Rest, Empty
<1>3. CASE n > 0
  <2>1. /\ runs.now.left = Len(asked) - n /\ runs.then.left = 0
        /\ runs.now.piece = [of |-> asked[1].of, part |-> "data"]
    BY <1>3 DEF Rest
  <2>2. n < Len(asked) /\ runs.now.piece = asked[n + 1]
    BY <1>1, <1>3, <2>1 DEF AskedFits
  <2>3. CASE runs.now.left > 1
    <3>1. Advance(runs) = [now |-> [piece |-> runs.now.piece, left |-> runs.now.left - 1],
                           then |-> runs.then]
      BY <2>3, Advances
    <3>2. QED
      BY <1>1, <1>3, <2>1, <2>2, <3>1 DEF Rest
  <2>4. CASE runs.now.left = 1
    <3>1. Advance(runs) = [now |-> runs.then, then |-> Empty]
      BY <2>4, Advances
    <3>2. QED
      BY <1>1, <1>3, <2>1, <2>2, <2>4, <3>1 DEF Rest, Empty
  <2>5. QED
    BY <1>1, <2>2, <2>3, <2>4
<1>4. QED
  BY <1>2, <1>3

\* The same where nothing is left.
LEMMA RestIsOver ==
  ASSUME NEW runs \in [now : Runs, then : Runs], NEW n \in Nat, asked \in Seq(Piece),
         asked # <<>>, Rest(runs, n), runs.now.left = 0
  PROVE  n = Len(asked)
BY DEF Rest
-----------------------------------------------------------------------------
\* The service's part of a call: the data it notes and the transfer it starts.
Notes == calls \in 0..(MaxCalls - 1) /\ calls' = calls + 1
         /\ data' \in [of : 0..MaxCalls, size : 0..MaxSize]

\* A transfer that is started is the one that is asked for, if nothing was left behind.
LEMMA SpiWriteFits ==
  ASSUME IInv, Notes, NEW part \in {"status", "command"}, AT91F_SpiWrite(part),
         data'.size > 0 => data'.of = calls', UNCHANGED <<RDR, aborter>>,
         DataFlash_state' = IF part = "status" THEN GET_STATUS ELSE DataFlash_state
  PROVE  IInv'
<1> DEFINE one == [of |-> calls', part |-> part]
           rest == [i \in 1..data'.size |-> [of |-> calls', part |-> "data"]]
<1>1. /\ calls' \in 1..MaxCalls /\ data'.size \in 0..MaxSize /\ one \in Piece
      /\ [of |-> calls', part |-> "data"] \in Piece
  BY Constants DEF Notes, Piece
<1>2. asked' = <<one>> \o rest /\ stored' = <<>> /\ cut' = FALSE /\ state' = "BUSY"
  BY DEF AT91F_SpiWrite
<1>3. rest \in Seq(Piece) /\ Len(rest) = data'.size
  BY <1>1, Constants
<1>4. /\ asked' \in Seq(Piece) /\ Len(asked') = data'.size + 1 /\ asked'[1] = one
      /\ asked' # <<>>
      /\ \A i \in 2..Len(asked') : asked'[i] = [of |-> calls', part |-> "data"]
  BY <1>1, <1>2, <1>3, Constants
<1>5. ASSUME NEW old \in [now : Runs, then : Runs]
      PROVE  [now |-> Run(calls', part, 1),
              then |-> IF data'.size = 0 THEN old.then
                       ELSE Run(data'.of, "data", data'.size)] \in [now : Runs, then : Runs]
  <2>1. Run(calls', part, 1) \in Runs
    BY <1>1, Constants DEF Run, Runs
  <2>2. data'.size > 0 => Run(data'.of, "data", data'.size) \in Runs
    BY <1>1, Constants DEF Run, Runs
  <2>3. QED
    BY <1>1, <2>1, <2>2
<1>6. transmit' \in [now : Runs, then : Runs] /\ receive' \in [now : Runs, then : Runs]
  BY <1>5 DEF AT91F_SpiWrite, IInv, TypeOK
<1>7. TypeOK'
  <2>1. calls' \in 0..MaxCalls /\ data' \in [of : 0..MaxCalls, size : 0..MaxSize]
    BY <1>1, Constants DEF Notes
  <2>2. stored' \in Seq([piece : Piece, at : Piece])
    BY <1>2
  <2>3. /\ clean' \in BOOLEAN /\ marked' \in BOOLEAN /\ cut' \in BOOLEAN
        /\ enabled' \in BOOLEAN /\ IMR' \in BOOLEAN
    BY DEF AT91F_SpiWrite
  <2>4. /\ DataFlash_state' \in Piece \cup {Nobody, GET_STATUS}
        /\ RDR' \in Piece \cup {Nobody} /\ abort' \in {"no", "read", "idle", "off"}
        /\ status' \in BOOLEAN
    BY DEF IInv, TypeOK, aborter
  <2>5. QED
    BY <1>2, <1>4, <1>6, <2>1, <2>2, <2>3, <2>4 DEF TypeOK
<1>8. ASSUME clean' PROVE Rest(receive, 0)' /\ Rest(transmit, 0)' /\ RDR' = Nobody
  <2>1. RDR = Nobody /\ (data'.size > 0 \/ (transmit.then.left = 0 /\ receive.then.left = 0))
    BY <1>8 DEF AT91F_SpiWrite
  <2>2. /\ receive'.now = [piece |-> one, left |-> 1]
        /\ transmit'.now = [piece |-> one, left |-> 1]
    BY DEF AT91F_SpiWrite, Run
  <2>3. CASE data'.size = 0
    <3>1. receive'.then.left = 0 /\ transmit'.then.left = 0
      BY <2>1, <2>3 DEF AT91F_SpiWrite
    <3>2. QED
      BY <1>4, <2>1, <2>2, <2>3, <3>1 DEF Rest
  <2>4. CASE data'.size > 0
    <3>1. /\ receive'.then = [piece |-> [of |-> calls', part |-> "data"], left |-> data'.size]
          /\ transmit'.then = receive'.then
      BY <1>1, <2>4 DEF AT91F_SpiWrite, Run
    <3>2. QED
      BY <1>1, <1>4, <2>1, <2>2, <2>4, <3>1 DEF Rest
  <2>5. QED
    BY <1>1, <2>3, <2>4
<1>9. Conveyor'
  <2>1. AskedFits'
    BY <1>4 DEF AskedFits
  <2>2. Len(stored') = 0
    BY <1>2
  <2>3. QED
    BY <1>2, <1>8, <2>1, <2>2 DEF Conveyor
<1>10. StatusFits' /\ InterruptFits'
  <2>1. receive'.now.left = 1
    BY DEF AT91F_SpiWrite, Run
  <2>2. asked'[1].part = part
    BY <1>4
  <2>3. DataFlash_state' = GET_STATUS /\ ~marked' => part = "status"
    BY Zenon DEF AT91F_SpiWrite
  <2>4. QED
    BY <1>2, <1>4, <2>1, <2>2, <2>3 DEF AT91F_SpiWrite, StatusFits, InterruptFits
<1>11. QED
  BY <1>7, <1>9, <1>10 DEF IInv

\* A call that is refused notes its data only, which nothing reads before the next.
LEMMA RefusedFits ==
  ASSUME IInv, Notes,
         UNCHANGED <<state, DataFlash_state, spi, enabled, IMR, aborter, history>>
  PROVE  IInv'
BY Constants DEF IInv, TypeOK, Notes, Conveyor, StatusFits, InterruptFits, Rest, AskedFits,
   spi, aborter, history

LEMMA CallsFit ==
  IInv /\ (AT91F_DataFlashGetStatus \/ CommandWithData \/ CommandAlone \/ BufferCommand)
    => IInv'
<1> SUFFICES ASSUME IInv, AT91F_DataFlashGetStatus \/ CommandWithData \/ CommandAlone
                          \/ BufferCommand
             PROVE IInv'
  OBVIOUS
<1>1. calls \in 0..(MaxCalls - 1) /\ calls' = calls + 1 /\ calls' \in 1..MaxCalls
  BY Constants DEF AT91F_DataFlashGetStatus, CommandWithData, CommandAlone, BufferCommand,
                   Call, IInv, TypeOK
<1>2. CASE AT91F_DataFlashGetStatus
  <2>1. data' = [data EXCEPT !.size = 0] /\ Notes /\ data'.size = 0
    BY <1>1, <1>2, Constants DEF AT91F_DataFlashGetStatus, Notes, IInv, TypeOK
  <2>2. QED
    BY <1>2, <2>1, SpiWriteFits DEF AT91F_DataFlashGetStatus
<1>3. ASSUME Notes, data'.size > 0 => data'.of = calls', AT91F_DataFlashSendCommand
      PROVE  IInv'
  <2>1. CASE state = "IDLE"
    BY <1>3, <2>1, SpiWriteFits DEF AT91F_DataFlashSendCommand
  <2>2. CASE state # "IDLE"
    BY <1>3, <2>2, RefusedFits DEF AT91F_DataFlashSendCommand, spi
  <2>3. QED
    BY <2>1, <2>2
<1>4. CASE CommandWithData
  <2>1. Notes /\ data'.of = calls'
    BY <1>1, <1>4, Constants DEF CommandWithData, Notes
  <2>2. QED
    BY <1>3, <1>4, <2>1 DEF CommandWithData
<1>5. CASE CommandAlone
  <2>1. Notes /\ data'.size = 0
    BY <1>1, <1>5, Constants DEF CommandAlone, Notes, IInv, TypeOK
  <2>2. QED
    BY <1>3, <1>5, <2>1 DEF CommandAlone
<1>6. CASE BufferCommand
  <2>1. Notes /\ data'.of = calls'
    BY <1>1, <1>6, Constants DEF BufferCommand, Notes
  <2>2. QED
    BY <1>6, <2>1, SpiWriteFits DEF BufferCommand
<1>7. QED
  BY <1>2, <1>4, <1>5, <1>6
-----------------------------------------------------------------------------
\* AbortCommand moves no piece.
LEMMA AbortFits ==
  IInv /\ (AbortRead \/ AbortIdle \/ AbortDisable \/ AbortReturn) => IInv'
<1> SUFFICES ASSUME IInv, AbortRead \/ AbortIdle \/ AbortDisable \/ AbortReturn
             PROVE IInv'
  OBVIOUS
<1>1. UNCHANGED <<calls, data, DataFlash_state, transmit, receive, RDR, asked, stored, clean,
                marked>>
  BY DEF AbortRead, AbortIdle, AbortDisable, AbortReturn, Abort, client, spi
<1>2. Conveyor'
  BY <1>1 DEF IInv, Conveyor, Rest, AskedFits
<1>3. /\ abort' \in {"no", "read", "idle", "off"} /\ status' \in BOOLEAN
      /\ state' \in {"IDLE", "BUSY", "ERROR"} /\ enabled' \in BOOLEAN
      /\ IMR' \in BOOLEAN /\ cut' \in BOOLEAN
  BY DEF AbortRead, AbortIdle, AbortDisable, AbortReturn, Abort, IInv, TypeOK
<1>4. TypeOK'
  BY <1>1, <1>3 DEF IInv, TypeOK
<1>5. StatusFits' /\ InterruptFits'
  BY <1>1 DEF AbortRead, AbortIdle, AbortDisable, AbortReturn, Abort, IInv, TypeOK,
              StatusFits, InterruptFits
<1>6. QED
  BY <1>2, <1>4, <1>5 DEF IInv

\* When the counters are used up, all that was asked for is stored.
LEMMA AllStored ==
  ASSUME IInv, clean, asked # <<>>, RXBUFF
  PROVE  /\ Len(stored) = Len(asked)
         /\ stored = [i \in DOMAIN asked |-> [piece |-> asked[i], at |-> asked[i]]]
<1>1. Rest(receive, Len(stored)) /\ receive.now.left = 0
  BY DEF IInv, Conveyor, RXBUFF
<1>2. receive \in [now : Runs, then : Runs] /\ asked \in Seq(Piece)
      /\ stored \in Seq([piece : Piece, at : Piece])
  BY DEF IInv, TypeOK
<1>3. Len(stored) = Len(asked)
  BY <1>1, <1>2, RestIsOver
<1>4. \A i \in 1..Len(stored) : stored[i] = [piece |-> asked[i], at |-> asked[i]]
  BY DEF IInv, Conveyor
<1>5. DOMAIN asked = 1..Len(stored) /\ stored = [i \in 1..Len(stored) |-> stored[i]]
  BY <1>2, <1>3
<1>6. QED
  BY <1>3, <1>4, <1>5

\* The handler takes the status from the answer.
LEMMA HandlerFits == IInv /\ AT91F_DataFlashHandler => IInv'
<1> SUFFICES ASSUME IInv, AT91F_DataFlashHandler PROVE IInv'
  OBVIOUS
<1>1. /\ UNCHANGED <<calls, data, transmit, receive, RDR, abort, status, asked, stored,
                     clean, marked, cut>>
      /\ IMR' = FALSE /\ enabled' = FALSE /\ state' \in {"IDLE", "ERROR"} /\ RXBUFF
  BY DEF AT91F_DataFlashHandler, client, spi, aborter, history, CommandEnds
<1>2. Conveyor'
  BY <1>1 DEF IInv, Conveyor, Rest, AskedFits
<1>3. DataFlash_state' \in Piece \/ UNCHANGED DataFlash_state
  <2>1. CASE state = "BUSY" /\ DataFlash_state = GET_STATUS
    <3>1. DataFlash_state' = stored[1].piece \/ UNCHANGED DataFlash_state
      BY <2>1 DEF AT91F_DataFlashHandler, CommandEnds
    <3>2. stored # <<>>
      BY <1>1, <2>1 DEF IInv, StatusFits, RXBUFF
    <3>3. stored \in Seq([piece : Piece, at : Piece])
      BY DEF IInv, TypeOK
    <3>4. 1 \in 1..Len(stored)
      BY <3>2, <3>3, EmptySeq, LenProperties
    <3>5. stored[1] \in [piece : Piece, at : Piece]
      BY <3>3, <3>4, ElementOfSeq
    <3>6. QED
      BY <3>1, <3>5
  <2>2. CASE ~(state = "BUSY" /\ DataFlash_state = GET_STATUS)
    BY <2>2 DEF AT91F_DataFlashHandler, CommandEnds
  <2>3. QED
    BY <2>1, <2>2
<1>4. TypeOK'
  BY <1>1, <1>3 DEF IInv, TypeOK
<1>5. StatusFits' /\ InterruptFits'
  BY <1>1, <1>3, Constants DEF IInv, StatusFits, InterruptFits
<1>6. QED
  BY <1>2, <1>4, <1>5 DEF IInv

\* What is sent is the next piece that is asked for.
LEMMA TransmitFits == IInv /\ Transmit => IInv'
<1> SUFFICES ASSUME IInv, Transmit PROVE IInv'
  OBVIOUS
<1>1. /\ transmit.now.left > 0 /\ RDR = Nobody /\ RDR' = transmit.now.piece
      /\ transmit' = Advance(transmit)
      /\ UNCHANGED <<calls, data, state, DataFlash_state, receive, enabled, IMR, abort, status,
                     asked, stored, clean, marked, cut>>
  BY DEF Transmit, client, aborter, history
<1>2. /\ transmit \in [now : Runs, then : Runs] /\ asked \in Seq(Piece)
      /\ stored \in Seq([piece : Piece, at : Piece]) /\ Len(stored) \in Nat
  BY DEF IInv, TypeOK
<1>3. transmit' \in [now : Runs, then : Runs] /\ RDR' \in Piece \cup {Nobody}
  BY <1>1, <1>2, Advances DEF Runs, Empty
<1>4. TypeOK'
  BY <1>1, <1>3 DEF IInv, TypeOK
<1>5. ASSUME clean, asked # <<>>
      PROVE  RDR' = asked[Len(stored) + 1] /\ Rest(transmit', Len(stored) + 1) /\ RDR' # Nobody
  <2>1. AskedFits /\ Rest(transmit, Len(stored))
    BY <1>1, <1>5 DEF IInv, Conveyor
  <2>2. /\ transmit.now.piece = asked[Len(stored) + 1] /\ Len(stored) < Len(asked)
        /\ Rest(Advance(transmit), Len(stored) + 1)
    BY <1>1, <1>2, <1>5, <2>1, AdvanceFits
  <2>3. asked[Len(stored) + 1] \in Piece
    BY <1>2, <2>2
  <2>4. QED
    BY <1>1, <2>2, <2>3, Constants
<1>6. Conveyor'
  BY <1>1, <1>5 DEF IInv, Conveyor, Rest, AskedFits
<1>7. StatusFits' /\ InterruptFits'
  BY <1>1 DEF IInv, StatusFits, InterruptFits
<1>8. QED
  BY <1>4, <1>6, <1>7 DEF IInv

\* What has come back is stored where it belongs.
LEMMA ReceiveFits == IInv /\ Receive => IInv'
<1> SUFFICES ASSUME IInv, Receive PROVE IInv'
  OBVIOUS
<1> DEFINE entry == [piece |-> RDR, at |-> receive.now.piece]
<1>1. /\ receive.now.left > 0 /\ RDR # Nobody /\ RDR' = Nobody
      /\ receive' = Advance(receive) /\ stored' = Append(stored, entry)
      /\ UNCHANGED <<calls, data, state, DataFlash_state, transmit, enabled, IMR, abort, status,
                     asked, clean, marked, cut>>
  BY DEF Receive, client, aborter
<1>2. /\ receive \in [now : Runs, then : Runs] /\ asked \in Seq(Piece)
      /\ stored \in Seq([piece : Piece, at : Piece]) /\ Len(stored) \in Nat /\ RDR \in Piece
  BY <1>1 DEF IInv, TypeOK
<1>3. receive' \in [now : Runs, then : Runs]
  BY <1>1, <1>2, Advances
<1>4. receive.now.piece \in Piece
  BY <1>1, <1>2 DEF Runs, Empty
<1>5. stored' \in Seq([piece : Piece, at : Piece]) /\ Len(stored') = Len(stored) + 1
      /\ stored' # <<>>
  BY <1>1, <1>2, <1>4
<1>6. TypeOK'
  BY <1>1, <1>3, <1>5 DEF IInv, TypeOK
<1>7. ASSUME clean, asked # <<>>
      PROVE  /\ \A i \in 1..Len(stored') : stored'[i] = [piece |-> asked[i], at |-> asked[i]]
             /\ Rest(receive', Len(stored'))
  <2>1. /\ AskedFits /\ Rest(receive, Len(stored)) /\ RDR = asked[Len(stored) + 1]
        /\ \A i \in 1..Len(stored) : stored[i] = [piece |-> asked[i], at |-> asked[i]]
    BY <1>1, <1>7 DEF IInv, Conveyor
  <2>2. /\ receive.now.piece = asked[Len(stored) + 1]
        /\ Rest(Advance(receive), Len(stored) + 1)
    BY <1>1, <1>2, <1>7, <2>1, AdvanceFits
  <2>3. ASSUME NEW i \in 1..Len(stored')
        PROVE  stored'[i] = [piece |-> asked[i], at |-> asked[i]]
    <3>1. CASE i \in 1..Len(stored)
      BY <1>1, <1>2, <2>1, <3>1
    <3>2. CASE i = Len(stored) + 1
      BY <1>1, <1>2, <2>1, <2>2, <3>2
    <3>3. QED
      BY <1>2, <1>5, <3>1, <3>2
  <2>4. Rest(receive', Len(stored'))
    BY <1>1, <1>5, <2>2
  <2>5. QED
    BY <2>3, <2>4
<1>8. Conveyor'
  BY <1>1, <1>5, <1>7 DEF IInv, Conveyor, Rest, AskedFits
<1>9. StatusFits' /\ InterruptFits'
  BY <1>1, <1>5 DEF IInv, StatusFits, InterruptFits
<1>10. QED
  BY <1>6, <1>8, <1>9 DEF IInv

\* Every step keeps the invariant.
LEMMA StepFits == IInv /\ [Next]_vars => IInv'
<1>1. IInv /\ UNCHANGED vars => IInv'
  BY DEF IInv, TypeOK, Conveyor, StatusFits, InterruptFits, Rest, AskedFits, vars, client, spi,
         aborter, history
<1>2. QED
  BY <1>1, CallsFit, AbortFits, HandlerFits, TransmitFits, ReceiveFits DEF Next

THEOREM Invariance == Spec => []IInv
BY Initially, StepFits, PTL DEF Spec

\* Every variable of the service stays in its type.
THEOREM TypeCorrect == Spec => []TypeOK
<1>1. IInv => TypeOK
  BY DEF IInv
<1>2. QED
  BY <1>1, Invariance, PTL

\* A command that no aborted one has left anything for is carried out as it was
\* asked for, however many calls are refused while it runs.
THEOREM CarriesOut == Spec => []CarriedOutAlone
<1>1. IInv => CarriedOutAlone
  BY AllStored DEF IInv, StatusFits, CarriedOutAlone
<1>2. QED
  BY <1>1, Invariance, PTL

\* The status of the DataFlash is the answer to a status command.
THEOREM StatusIsTrue == Spec => StatusIsAnswer
<1> DEFINE Taken ==
      DataFlash_state' # DataFlash_state /\ DataFlash_state' # GET_STATUS
        /\ clean /\ ~marked =>
        DataFlash_state' = asked[1] /\ asked[1].part = "status"
<1>1. IInv /\ [Next]_vars => [Taken]_vars
  <2> SUFFICES ASSUME IInv, Next, DataFlash_state' # DataFlash_state,
                      DataFlash_state' # GET_STATUS, clean, ~marked
               PROVE  DataFlash_state' = asked[1] /\ asked[1].part = "status"
    BY DEF Taken
  <2>1. AT91F_DataFlashHandler /\ CommandEnds /\ DataFlash_state = GET_STATUS
        /\ state = "BUSY" /\ RXBUFF
    BY DEF Next, AT91F_DataFlashGetStatus, CommandWithData, CommandAlone, BufferCommand,
           AT91F_DataFlashSendCommand, AbortRead, AbortIdle, AbortDisable, AbortReturn, Abort,
           Transmit, Receive, AT91F_DataFlashHandler, CommandEnds
  <2>2. asked # <<>> /\ asked \in Seq(Piece)
    BY <2>1 DEF IInv, StatusFits, TypeOK
  <2>3. stored[1] = [piece |-> asked[1], at |-> asked[1]]
    BY <2>1, <2>2, AllStored
  <2>4. QED
    BY <2>1, <2>2, <2>3 DEF CommandEnds, IInv, StatusFits
<1>2. QED
  BY <1>1, Invariance, PTL DEF Spec, StatusIsAnswer

\* The service fails only when a transfer ends inside AbortCommand.
THEOREM FailsByAbort == Spec => ErrorNeedsAbort
<1>1. IInv /\ [Next]_vars => [state' = "ERROR" => state = "ERROR" \/ cut]_vars
  <2> SUFFICES ASSUME IInv, Next, state' = "ERROR", state # "ERROR" PROVE cut
    OBVIOUS
  <2>1. AT91F_DataFlashHandler /\ state # "BUSY"
    BY DEF Next, AT91F_DataFlashGetStatus, CommandWithData, CommandAlone, BufferCommand,
           AT91F_DataFlashSendCommand, AT91F_SpiWrite, AbortRead, AbortIdle, AbortDisable,
           AbortReturn, Transmit, Receive, AT91F_DataFlashHandler, CommandEnds
  <2>2. QED
    BY <2>1 DEF AT91F_DataFlashHandler, IInv, InterruptFits, TypeOK
<1>2. QED
  BY <1>1, Invariance, PTL DEF Spec, ErrorNeedsAbort
=============================================================================
