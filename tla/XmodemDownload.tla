--------------------------- MODULE XmodemDownload ---------------------------
(***************************************************************************)
(* The serial download of a second-stage image: the host program sx-at91,  *)
(* the serial line, the board's debug UART with its DMA channel (PDC), the *)
(* XMODEM service of the ROM with its buffer, its software timer and its   *)
(* interrupt handler, and the boot loader's main program.                  *)
(*                                                                         *)
(* One step is one run of an interrupt handler, one call of the main       *)
(* program, one character on the line, or one turn of the host's loop, and *)
(* the steps of the four interleave.  A data block of 128 bytes is one     *)
(* unit and its CRC is one unit, so a frame has five: header, id,          *)
(* complement of the id, data, CRC.  The CRC is assumed free of            *)
(* collisions.  Ids are numbers modulo IdMod (256 in the code), so an id   *)
(* that is taken for a header is read as the control code it equals.       *)
(***************************************************************************)
EXTENDS Integers, Sequences, FiniteSets, SBuffer, SvcTempo

CONSTANTS
  ImageBlocks,    \* blocks of the image
  RegionBlocks,   \* blocks of the RAM region (AT91C_UBOOT_MAXSIZE / 128)
  IdMod,          \* values of an unsigned char
  MaxRetry,       \* the retry limit of the host
  CPeriod,        \* ticks between two invitations
  CompleteDelay,  \* ticks between the last byte and AT91F_XmodemComplete
  Pause,          \* ticks the boot loader waits before it starts the image
  LineFaults,     \* the kinds of fault the line may show, see below
  MaxFaults,      \* bound on the number of faults
  HostFifo,       \* bound on the invitations the host's driver keeps
  PromptHost,     \* the host answers within one invitation period
  PromptHandler,  \* every interrupt is served within one character time
  OperatorWaits   \* the host program is started once the board listens

SOH == 1
STX == 2
EOT == 4
SohData == 1      \* units of a 128-byte block
StxData == 2      \* units of a 1024-byte block; sx-at91 never sends one
CrcSize == 1
DescSize == 2     \* AT91C_XMODEM_PACKET_SIZE
MemTop == RegionBlocks + DescSize + SohData + CrcSize

FaultKinds == {"payload", "garble", "flag", "drop", "reply"}

ASSUME XmodemAssumption ==
  /\ ImageBlocks \in Nat \ {0} /\ RegionBlocks \in Nat \ {0}
  /\ ImageBlocks <= RegionBlocks
  /\ IdMod \in Nat /\ IdMod > EOT + 1
  /\ MaxRetry \in Nat /\ CPeriod \in Nat \ {0} /\ CompleteDelay \in Nat \ {0}
  /\ Pause \in Nat /\ MaxFaults \in Nat /\ HostFifo \in Nat
  /\ LineFaults \subseteq FaultKinds
  /\ PromptHost \in BOOLEAN /\ PromptHandler \in BOOLEAN
  /\ OperatorWaits \in BOOLEAN

VARIABLES
  hpc,             \* host: where sx-at91 is
  packCounter,     \* host: number of the frame last sent
  retryNum,        \* host: consecutive retries
  toDev, toHost,   \* characters under way in each direction
  faults,          \* faults of the line so far
  rhr,             \* UART: the receive holding register
  csr,             \* UART: raised bits of the status register
  imr,             \* UART: the interrupt mask register
  cur, nxt,        \* PDC: current and next receive descriptor
  packetDesc,      \* XMODEM: the id and its complement, as received
  mem,             \* RAM from the start of the region
  svc,             \* XMODEM: the other fields of AT91S_SvcXmodem
  sb,              \* the read side of the simple buffer
  tempo,           \* the XMODEM service's software timer
  bpc,             \* boot loader: where boot() is
  complete,        \* boot loader: the flag XmodemComplete
  pauseLeft,       \* boot loader: ticks left of AT91C_PAUSE
  got              \* history: the data units accepted, in order

host  == <<hpc, packCounter, retryNum>>
line  == <<toDev, toHost, faults>>
uart  == <<rhr, csr, imr, cur, nxt>>
store == <<packetDesc, mem>>
xm    == <<svc, sb, tempo, got>>
boot  == <<bpc, complete, pauseLeft>>
vars  == <<host, line, uart, store, xm, boot>>
-----------------------------------------------------------------------------
(* Characters and frames. *)

Num(n)  == <<"n", n>>   \* a header, an id or a control code
Data(k) == <<"d", k>>   \* the data of block k
Crc(k)  == <<"c", k>>   \* the CRC of that data
Garbage == <<"x", 0>>   \* a value that passes none of the receiver's tests

Char == ({"n", "d", "c", "x"}) \X Nat

Frame(k) ==
  <<Num(SOH), Num(k % IdMod), Num(IdMod - 1 - (k % IdMod)), Data(k), Crc(k)>>

\* What the host can read: an invitation, a verdict, or the first character of
\* a message the board prints on the same line.
Reply == {"C", "ACK", "NAK", "TXT"}

Interrupts == {"RXRDY", "ENDRX", "RXBUFF"}

Pending == csr \cap imr # {}

-----------------------------------------------------------------------------
Init ==
  /\ hpc = "closed" /\ packCounter = 0 /\ retryNum = 0
  /\ toDev = <<>> /\ toHost = <<>> /\ faults = 0
  /\ rhr = Num(0) /\ csr = {} /\ imr = {}
  /\ cur = [area |-> "desc", at |-> 0, left |-> 0]
  /\ nxt = [at |-> 0, left |-> 0]
  /\ packetDesc = [i \in 0..1 |-> Num(0)]
  /\ mem = [i \in 0..MemTop |-> Num(0)]
  /\ svc = [packetId |-> 0, eot |-> FALSE, isPacketDesc |-> FALSE,
            packetStatus |-> FALSE, pData |-> 0, dataSize |-> 0]
  /\ sb = RstBuffer /\ tempo = Created /\ got = <<>>
  /\ bpc = "banner" /\ complete = FALSE /\ pauseLeft = 0

-----------------------------------------------------------------------------
(* The host: sx-at91.  A turn of the loop is one character read and the    *)
(* frame or the EOT written in answer.                                     *)

\* ClearReceiveBuffer empties the driver's queue before the program listens.
HostOpen ==
  /\ hpc = "closed"
  /\ OperatorWaits => bpc = "wait"
  /\ hpc' = "invite" /\ toHost' = <<>>
  /\ UNCHANGED <<packCounter, retryNum, toDev, faults, uart, store, xm, boot>>

\* Mutation: the last block is never read from the file.
HostHasMoreShort == packCounter + 1 < ImageBlocks

HostHasMore == packCounter < ImageBlocks

\* The case XMODEM_ACK: the next block, or the EOT when the file has no more.
NextBlock ==
  /\ packCounter' = packCounter + 1 /\ retryNum' = 0
  /\ IF HostHasMore
     THEN hpc' = "reply" /\ toDev' = toDev \o Frame(packCounter + 1)
     ELSE hpc' = "eot" /\ toDev' = Append(toDev, Num(EOT))

HostReads == toHost # <<>> /\ toHost' = Tail(toHost)

\* Any character at all invites the host to send; it is then handled as an ACK.
HostInvited ==
  /\ hpc = "invite" /\ HostReads /\ NextBlock
  /\ UNCHANGED <<faults, uart, store, xm, boot>>

HostAcked ==
  /\ hpc = "reply" /\ HostReads /\ Head(toHost) = "ACK" /\ NextBlock
  /\ UNCHANGED <<faults, uart, store, xm, boot>>

\* Mutation: the retry limit is one short.
RetriesOverEarly == retryNum >= MaxRetry

RetriesOver == retryNum > MaxRetry

HostNaked ==
  /\ hpc = "reply" /\ HostReads /\ Head(toHost) = "NAK"
  /\ retryNum' = retryNum + 1
  /\ IF RetriesOver
     THEN hpc' = "quit" /\ toDev' = toDev
     ELSE hpc' = hpc /\ toDev' = toDev \o Frame(packCounter)
  /\ UNCHANGED <<packCounter, faults, uart, store, xm, boot>>

HostFatal ==
  /\ hpc = "reply" /\ HostReads /\ Head(toHost) \notin {"ACK", "NAK"}
  /\ hpc' = "fatal"
  /\ UNCHANGED <<packCounter, retryNum, toDev, faults, uart, store, xm, boot>>

\* After the EOT anything but an ACK makes the host send the EOT again.
HostEnds ==
  /\ hpc = "eot" /\ HostReads
  /\ IF Head(toHost) = "ACK"
     THEN hpc' = "done" /\ toDev' = toDev
     ELSE hpc' = hpc /\ toDev' = Append(toDev, Num(EOT))
  /\ UNCHANGED <<packCounter, retryNum, faults, uart, store, xm, boot>>

-----------------------------------------------------------------------------
(* The line, the UART's receiver and its PDC channel.  err is {"ERR"} when *)
(* the UART notices that the character is damaged, {} otherwise.           *)

\* A character the PDC moves to memory.  When the current descriptor is used
\* up the next one takes its place; ENDRX rises, and RXBUFF when there was no
\* next one.
PdcMoves(b, err) ==
  LET last == cur.left = 1 IN
  /\ cur.left > 0
  /\ IF cur.area = "desc"
     THEN packetDesc' = [packetDesc EXCEPT ![cur.at] = b] /\ mem' = mem
     ELSE mem' = [mem EXCEPT ![cur.at] = b] /\ packetDesc' = packetDesc
  /\ cur' = IF last THEN [area |-> "mem", at |-> nxt.at, left |-> nxt.left]
            ELSE [cur EXCEPT !.at = @ + 1, !.left = @ - 1]
  /\ nxt' = IF last THEN [nxt EXCEPT !.left = 0] ELSE nxt
  /\ csr' = csr \cup err \cup (IF last THEN {"ENDRX"} ELSE {})
                \cup (IF last /\ nxt.left = 0 THEN {"RXBUFF"} ELSE {})
  /\ rhr' = rhr

\* A character that waits in the holding register for the handler.  One that
\* finds RXRDY still raised overwrites it and raises the overrun error.
UartHolds(b, err) ==
  /\ cur.left = 0
  /\ rhr' = b
  /\ csr' = csr \cup err \cup {"RXRDY"}
                \cup (IF "RXRDY" \in csr THEN {"ERR"} ELSE {})
  /\ UNCHANGED <<cur, nxt, store>>

\* An enabled RXRDY interrupt is served within one character time; with a
\* prompt handler every enabled interrupt is.
CharTime ==
  /\ ~("RXRDY" \in csr /\ "RXRDY" \in imr)
  /\ PromptHandler => ~Pending

LineTakes ==
  /\ toDev # <<>> /\ toDev' = Tail(toDev)
  /\ UNCHANGED <<host, toHost, xm, boot>>

Receive(b, err) ==
  /\ CharTime /\ LineTakes /\ imr' = imr
  /\ PdcMoves(b, err) \/ UartHolds(b, err)

CharArrives == Receive(Head(toDev), {}) /\ UNCHANGED faults

\* The line may still show a fault of this kind.
MayFail(kind) == kind \in LineFaults /\ faults < MaxFaults

\* A character changed on the line: "payload" only data and CRC, unnoticed;
\* "garble" any character, unnoticed; "flag" any character, noticed.
CharGarbled ==
  /\ toDev # <<>>
  /\ \/ MayFail("payload") /\ Head(toDev)[1] \in {"d", "c"} /\ Receive(Garbage, {})
     \/ MayFail("garble") /\ Receive(Garbage, {})
     \/ MayFail("flag") /\ Receive(Garbage, {"ERR"})
  /\ faults' = faults + 1

CharLost ==
  /\ MayFail("drop") /\ LineTakes
  /\ faults' = faults + 1
  /\ UNCHANGED <<uart, store>>

\* An answer of the board lost, or changed into a character that is no verdict.
ReplyFails ==
  /\ MayFail("reply") /\ toHost # <<>>
  /\ toHost' \in {Tail(toHost), [toHost EXCEPT ![1] = "TXT"]}
  /\ faults' = faults + 1
  /\ UNCHANGED <<host, toDev, uart, store, xm, boot>>

-----------------------------------------------------------------------------
(* The interrupt handler AT91F_ST_HANDLER, its serial half: it runs when a *)
(* raised bit is enabled, but tests the raised bits, enabled or not.       *)

SerialInterrupt ==
  /\ Pending /\ bpc # "jump"
  /\ UNCHANGED <<host, toDev, faults, store, boot>>

\* A line error: reset the status, forget the descriptor interrupt, wait for
\* a header.  The PDC goes on with the descriptors it has.
IsrLineError ==
  /\ SerialInterrupt /\ "ERR" \in csr
  /\ csr' = csr \ {"ERR"}
  /\ imr' = (imr \ {"ENDRX"}) \cup {"RXRDY"}
  /\ UNCHANGED <<toHost, rhr, cur, nxt, xm>>

ReadHandler == SerialInterrupt /\ "ERR" \notin csr /\ ~svc.eot

\* at91_usart2_receive_frame: writing the counters lowers ENDRX and RXBUFF.
ReceiveFrame(area, at, left, nextAt, nextLeft) ==
  /\ cur' = [area |-> area, at |-> at, left |-> left]
  /\ nxt' = [at |-> nextAt, left |-> nextLeft]
  /\ csr' = csr \ {"RXRDY", "ENDRX", "RXBUFF"}

\* Mutation: the second descriptor has no room for the CRC.
DataWithoutCrc(size) == size

\* What follows the descriptor of a frame with a block of size units.
DataAndCrc(size) == size + CrcSize

\* A header: SOH or STX announces a frame.
IsrHeader(code, size) ==
  /\ ReadHandler /\ "RXRDY" \in csr /\ rhr = Num(code)
  /\ tempo' = Stopped(tempo)
  /\ svc' = [svc EXCEPT !.isPacketDesc = TRUE, !.pData = sb.p, !.dataSize = size]
  /\ ReceiveFrame("desc", 0, DescSize, sb.p, DataAndCrc(size))
  /\ imr' = (imr \ {"RXRDY"}) \cup {"ENDRX"}
  /\ UNCHANGED <<toHost, rhr, sb, got>>

\* Any other header but EOT: swallow the rest of a frame, and acknowledge it
\* before it is there.
IsrOtherHeader ==
  /\ ReadHandler /\ "RXRDY" \in csr /\ rhr \notin {Num(SOH), Num(STX), Num(EOT)}
  /\ tempo' = Stopped(tempo)
  /\ svc' = [svc EXCEPT !.isPacketDesc = TRUE, !.pData = sb.p]
  /\ ReceiveFrame("mem", sb.p, DescSize + SohData + CrcSize, 0, 0)
  /\ imr' = (imr \ {"RXRDY"}) \cup {"ENDRX"}
  /\ toHost' = Append(toHost, "ACK")
  /\ UNCHANGED <<rhr, sb, got>>

\* FillRdBuffer and, when the region is full, its callback
\* AT91F_XmodemProtocol: start the completion timer, print a message.  answers
\* is what the board sends when the callback runs; without it just the ACK.
FillRdBuffer(n, timer, answers) ==
  /\ sb' = Advance(sb, n)
  /\ IF CallbackDue(sb, n)
     THEN /\ tempo' = Started(CompleteDelay, 0, "XmodemComplete")
          /\ toHost' = toHost \o answers
     ELSE tempo' = timer /\ toHost' = Append(toHost, "ACK")

\* EOT leaves a region to close: an empty file, or RAM that is not full.
RegionOpen == svc.packetId = 1 \/ sb.sz > 0

\* Mutation: EOT leaves the header interrupt enabled.
DeafButHeader == imr \ {"ENDRX", "RXBUFF"}

\* After EOT no receive interrupt is enabled.
Deaf == imr \ {"RXRDY", "ENDRX", "RXBUFF"}

\* EOT: acknowledge, close the region if anything of it is left, and stop
\* listening.
IsrEot ==
  /\ ReadHandler /\ "RXRDY" \in csr /\ rhr = Num(EOT)
  /\ IF RegionOpen
     THEN FillRdBuffer(sb.sz, Stopped(tempo), <<"ACK", "TXT">>)
     ELSE /\ tempo' = Stopped(tempo) /\ toHost' = Append(toHost, "ACK")
          /\ sb' = sb
  /\ svc' = [svc EXCEPT !.isPacketDesc = TRUE, !.pData = sb.p, !.eot = TRUE]
  /\ csr' = csr \ {"RXRDY"} /\ imr' = Deaf
  /\ UNCHANGED <<rhr, cur, nxt, got>>

DescriptorDone ==
  ReadHandler /\ "RXRDY" \notin csr /\ csr \cap {"ENDRX", "RXBUFF"} # {}

\* Mutation: any block with a fitting complement is the next one.
HeaderOkAnyBlock ==
  /\ packetDesc[0][1] = "n" /\ packetDesc[1][1] = "n"
  /\ packetDesc[0][2] + packetDesc[1][2] = IdMod - 1

\* CheckHeader: the complement fits, and the block is the next one.
HeaderOk ==
  /\ packetDesc[0][1] = "n" /\ packetDesc[1][1] = "n"
  /\ packetDesc[0][2] + packetDesc[1][2] = IdMod - 1
  /\ packetDesc[0][2] = svc.packetId

IsrDescriptor ==
  /\ DescriptorDone /\ svc.isPacketDesc
  /\ svc' = [svc EXCEPT !.packetStatus = HeaderOk, !.isPacketDesc = FALSE]
  /\ imr' = (imr \ {"ENDRX"}) \cup {"RXBUFF"}
  /\ UNCHANGED <<toHost, rhr, csr, cur, nxt, sb, tempo, got>>

\* Mutation: the CRC is not compared.
DataOkUnchecked == TRUE

\* CheckData: the CRC behind the data is that of the data.  RAM is modelled up
\* to MemTop and holds no valid block beyond.
DataOk ==
  /\ svc.dataSize = SohData /\ svc.pData + SohData <= MemTop
  /\ mem[svc.pData][1] = "d"
  /\ mem[svc.pData + SohData] = Crc(mem[svc.pData][2])

AwaitHeader ==
  /\ imr' = (imr \ {"ENDRX", "RXBUFF"}) \cup {"RXRDY"}
  /\ UNCHANGED <<rhr, csr, cur, nxt>>

\* Mutation: the id is not counted up.
NextIdStays == svc.packetId

\* The id of the next packet, an unsigned char.
NextId == (svc.packetId + 1) % IdMod

IsrAccept ==
  /\ DescriptorDone /\ ~svc.isPacketDesc /\ svc.packetStatus /\ DataOk
  /\ FillRdBuffer(svc.dataSize, tempo, <<"TXT", "ACK">>)
  /\ svc' = [svc EXCEPT !.packetId = NextId, !.pData = @ + svc.dataSize]
  /\ got' = Append(got, mem[svc.pData])
  /\ AwaitHeader

IsrReject ==
  /\ DescriptorDone /\ ~svc.isPacketDesc /\ ~(svc.packetStatus /\ DataOk)
  /\ toHost' = Append(toHost, "NAK")
  /\ UNCHANGED <<svc, sb, tempo, got>>
  /\ AwaitHeader

-----------------------------------------------------------------------------
(* The timer half of AT91F_ST_HANDLER.                                     *)

HostCanAct == hpc \in {"invite", "reply", "eot"} /\ toHost # <<>>

\* The period of the invitations, a second, is long: before it is over the
\* line has carried what is under way and the handler has served it, and a
\* prompt host has answered.
PeriodOver == toDev = <<>> /\ ~Pending /\ (PromptHost => ~HostCanAct)

Invites == Fires(tempo) /\ tempo.callback = "SendC"
Completes == Fires(tempo) /\ tempo.callback = "XmodemComplete"

\* Mutation: the count runs below zero.
PauseTicksUnguarded == pauseLeft - 1

\* The loop over GetTickCount sees one tick less.
PauseTicks == IF pauseLeft > 0 THEN pauseLeft - 1 ELSE 0

Tick ==
  /\ bpc # "jump"
  /\ Invites => PeriodOver
  /\ pauseLeft' = PauseTicks
  /\ tempo' = IF Completes THEN Stopped(Ticked(tempo)) ELSE Ticked(tempo)
  /\ complete' = (complete \/ Completes)
  /\ toHost' = IF Completes THEN Append(toHost, "TXT")
               ELSE IF Invites /\ Len(toHost) < HostFifo THEN Append(toHost, "C")
               ELSE toHost
  /\ UNCHANGED <<host, toDev, faults, uart, store, svc, sb, got, bpc>>

-----------------------------------------------------------------------------
(* The main program: boot() and, inside it, the pipe's Read, which calls   *)
(* SetRdBuffer and StartRx.  The handler may run between any two of them.  *)

Main(from, to) == bpc = from /\ bpc' = to

BootPrompt ==
  /\ Main("banner", "read")
  /\ toHost' = Append(toHost, "TXT")
  /\ UNCHANGED <<host, toDev, faults, uart, store, xm, complete, pauseLeft>>

\* The buffer and the service's fields; no receive interrupt is enabled yet.
ReadSetup ==
  /\ Main("read", "enable")
  /\ sb' = SetBuffer(0, RegionBlocks)
  /\ svc' = [svc EXCEPT !.packetId = 1, !.eot = FALSE, !.isPacketDesc = FALSE]
  /\ UNCHANGED <<host, line, uart, store, tempo, got, complete, pauseLeft>>

ReadEnable ==
  /\ Main("enable", "mask")
  /\ imr' = imr \cup {"RXRDY"}
  /\ UNCHANGED <<host, line, rhr, csr, cur, nxt, store, xm, complete, pauseLeft>>

ReadMask ==
  /\ Main("mask", "invite")
  /\ imr' = imr \ {"ENDRX"}
  /\ UNCHANGED <<host, line, rhr, csr, cur, nxt, store, xm, complete, pauseLeft>>

ReadInvite ==
  /\ Main("invite", "print")
  /\ tempo' = Started(CPeriod, CPeriod, "SendC")
  /\ UNCHANGED <<host, line, uart, store, svc, sb, got, complete, pauseLeft>>

ReadPrint ==
  /\ Main("print", "wait")
  /\ toHost' = Append(toHost, "TXT")
  /\ UNCHANGED <<host, toDev, faults, uart, store, xm, complete, pauseLeft>>

\* "U-Boot downloaded successfully", then the pause.
Downloaded ==
  /\ Main("wait", "pause") /\ complete
  /\ toHost' = Append(toHost, "TXT")
  /\ pauseLeft' = Pause
  /\ UNCHANGED <<host, toDev, faults, uart, store, xm, complete>>

\* The clocks are changed, the interrupt controller is shut, the image runs.
Jump ==
  /\ Main("pause", "jump") /\ pauseLeft = 0
  /\ UNCHANGED <<host, line, uart, store, xm, complete, pauseLeft>>

-----------------------------------------------------------------------------
HostTurn == HostInvited \/ HostAcked \/ HostNaked \/ HostFatal \/ HostEnds

Isr ==
  \/ IsrLineError
  \/ IsrHeader(SOH, SohData) \/ IsrHeader(STX, StxData)
  \/ IsrOtherHeader \/ IsrEot
  \/ IsrDescriptor \/ IsrAccept \/ IsrReject

Boot ==
  \/ BootPrompt \/ ReadSetup \/ ReadEnable \/ ReadMask \/ ReadInvite
  \/ ReadPrint \/ Downloaded \/ Jump

Fault == CharGarbled \/ CharLost \/ ReplyFails

Next ==
  HostOpen \/ HostTurn \/ CharArrives \/ Fault \/ Isr \/ Tick \/ Boot

Spec == Init /\ [][Next]_vars

\* The operator starts the host program, the host loops, characters travel,
\* interrupts are served, the system timer ticks and the main program runs.
Fairness ==
  /\ WF_vars(HostOpen) /\ WF_vars(HostTurn) /\ WF_vars(CharArrives)
  /\ WF_vars(Isr) /\ WF_vars(Tick) /\ WF_vars(Boot)

FairSpec == Spec /\ Fairness

-----------------------------------------------------------------------------
(* Properties. *)

Descriptor == [area : {"desc", "mem"}, at : Nat, left : Nat]

HostOK ==
  /\ hpc \in {"closed", "invite", "reply", "eot", "done", "fatal", "quit"}
  /\ packCounter \in Nat /\ retryNum \in Nat

LineOK == toDev \in Seq(Char) /\ toHost \in Seq(Reply) /\ faults \in Nat

UartOK ==
  /\ rhr \in Char /\ csr \subseteq Interrupts \cup {"ERR"} /\ imr \subseteq Interrupts
  /\ cur \in Descriptor /\ nxt \in [at : Nat, left : Nat]

StoreOK == packetDesc \in [0..1 -> Char] /\ mem \in [0..MemTop -> Char]

XmOK ==
  /\ svc \in [packetId : 0..IdMod - 1, eot : BOOLEAN, isPacketDesc : BOOLEAN,
              packetStatus : BOOLEAN, pData : Nat, dataSize : {0, SohData, StxData}]
  /\ sb \in [p : Nat, sz : 0..RegionBlocks]
  /\ tempo \in [flag : {"EN", "DIS"}, tick : Nat, reload : Nat,
                callback : {NoCallback, "SendC", "XmodemComplete"}]
  /\ got \in Seq(Char)

BootOK ==
  /\ bpc \in {"banner", "read", "enable", "mask", "invite", "print", "wait",
              "pause", "jump"}
  /\ complete \in BOOLEAN /\ pauseLeft \in Nat

\* Every variable stays in its type: the program counters of the host and of
\* the boot loader, the characters in both directions, the UART's registers,
\* the fields of the XMODEM service, its buffer and its timer.
TypeOK == HostOK /\ LineOK /\ UartOK /\ StoreOK /\ XmOK /\ BootOK

\* The blocks the board accepts are the blocks of the image in their order:
\* none is skipped, repeated, damaged or taken from a frame with another number
\* (CheckHeader and CheckData together).
AcceptedInOrder == \A i \in 1..Len(got) : got[i] = Data(i)

\* A block once accepted stays in RAM as it was: no later frame, and no CRC
\* that the PDC stores behind the data, lands on it.
RamKeepsAccepted == \A i \in 1..Len(got) : mem[i - 1] = got[i]

\* The main program has not armed the service yet.
Unarmed == bpc \in {"banner", "read"}

\* Until EOT the places where the service counts blocks agree: the packet id it
\* expects next, the cursor of the buffer, the room left in it.
CountersAgree ==
  ~Unarmed /\ ~svc.eot =>
    /\ svc.packetId = (Len(got) + 1) % IdMod
    /\ sb.p = Len(got)
    /\ sb.sz = IF Len(got) < RegionBlocks THEN RegionBlocks - Len(got) ELSE 0

\* The PDC never points into the blocks already accepted: what it still has to
\* write lies behind them.
PdcAhead ==
  /\ cur.left > 0 /\ cur.area = "mem" => cur.at >= Len(got)
  /\ nxt.left > 0 => nxt.at >= Len(got)

\* Once EOT has been taken no enabled serial interrupt stays raised: the
\* handler no longer serves them, and a level-sensitive one would be taken
\* again and again while the main program stands still.
NoInterruptStorm == svc.eot => ~Pending

\* With an image smaller than the region, RAM does not change while the
\* completion flag is set: nothing the line still delivers is written to it
\* before the image is started.
ImageIsStill == [][complete => UNCHANGED mem]_vars

\* The host never reads an old verdict as the verdict on the frame it has just
\* sent: while characters of a frame travel there is no verdict to be read.
LockStep == toDev # <<>> => \A i \in 1..Len(toHost) : toHost[i] \notin {"ACK", "NAK"}

\* The blocks of the image that are accepted, in place and undamaged.
Intact == {i \in 1..Len(got) : \A j \in 1..i : mem[j - 1] = Data(j)}

\* The download as a whole keeps the promise of module Download.
Promise == INSTANCE Download WITH
  stored <- Cardinality(Intact),
  board  <- IF bpc \in {"pause", "jump"} THEN "starting" ELSE "loading",
  host   <- CASE hpc = "done" -> "success"
              [] hpc \in {"fatal", "quit"} -> "failure"
              [] OTHER -> "sending"

KeepsPromise == Promise!Spec

\* The download ends well on both sides: the image is started and the host
\* reports success.
EndsWell == <>(bpc = "jump" /\ hpc = "done")

\* The board completes the download and starts the image.
BoardStarts == <>(bpc = "jump")

\* The loader announces "U-Boot downloaded successfully" only when every block
\* of the image is in RAM.
AnnouncedIsComplete == bpc \in {"pause", "jump"} => Len(got) = ImageBlocks

\* After the pipe's Read has reported success the service listens until EOT:
\* some receive interrupt is enabled.
ReadSuccessListens == bpc = "wait" /\ ~svc.eot => imr # {}
=============================================================================
