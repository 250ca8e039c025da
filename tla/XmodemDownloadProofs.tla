------------------------ MODULE XmodemDownloadProofs ------------------------
(***************************************************************************)
(* Proofs about module XmodemDownload, for every size of the image, of the *)
(* region and of the id space, every period, every set of line faults and  *)
(* any number of them.                                                     *)
(***************************************************************************)
EXTENDS XmodemDownload, SequenceTheorems, TLAPS

\* What the operators on sequences return.
LEMMA SeqTypes ==
  ASSUME NEW S, NEW s \in Seq(S)
  PROVE  /\ \A e \in S : Append(s, e) \in Seq(S)
         /\ \A t \in Seq(S) : s \o t \in Seq(S)
         /\ s # <<>> => Head(s) \in S /\ Tail(s) \in Seq(S)
<1>1. \A e \in S : Append(s, e) \in Seq(S)
  BY AppendProperties
<1>2. \A t \in Seq(S) : s \o t \in Seq(S)
  BY ConcatProperties
<1>3. s # <<>> => Head(s) \in S /\ Tail(s) \in Seq(S)
  BY HeadTailProperties
<1>4. QED
  BY <1>1, <1>2, <1>3

\* The codes and the changed character are characters.
LEMMA CodeType == Num(0) \in Char /\ Num(EOT) \in Char /\ Garbage \in Char
BY DEF Num, Garbage, Char, EOT

\* A frame is a sequence of characters.
LEMMA FrameType ==
  ASSUME NEW k \in Nat
  PROVE  Frame(k) \in Seq(Char)
<1>1. k % IdMod \in Nat /\ IdMod - 1 - (k % IdMod) \in Nat
  BY XmodemAssumption DEF EOT
<1>2. Num(SOH) \in Char /\ Num(k % IdMod) \in Char
      /\ Num(IdMod - 1 - (k % IdMod)) \in Char /\ Data(k) \in Char /\ Crc(k) \in Char
  BY <1>1 DEF Num, Data, Crc, Char, SOH
<1>3. QED
  BY <1>2 DEF Frame

\* A turn of the host's loop keeps the types.
LEMMA HostStepType ==
  ASSUME TypeOK, HostOpen \/ HostTurn
  PROVE  TypeOK'
<1>1. UNCHANGED <<faults, uart, store, xm, boot>>
  BY DEF HostOpen, HostTurn, HostInvited, HostAcked, HostNaked, HostFatal, HostEnds
<1>2. (UartOK /\ StoreOK /\ XmOK /\ BootOK)'
  BY <1>1 DEF TypeOK, UartOK, StoreOK, XmOK, BootOK, uart, store, xm, boot
<1>3. toHost' \in Seq(Reply)
  <2>1. CASE toHost' = <<>>
    BY <2>1
  <2>2. CASE HostReads
    BY <2>2, SeqTypes DEF HostReads, TypeOK, LineOK
  <2>3. QED
    BY <2>1, <2>2
    DEF HostOpen, HostTurn, HostInvited, HostAcked, HostNaked, HostFatal, HostEnds
<1>4. Append(toDev, Num(EOT)) \in Seq(Char)
  BY CodeType, SeqTypes DEF TypeOK, LineOK
<1>5. \A k \in Nat : toDev \o Frame(k) \in Seq(Char)
  BY FrameType, SeqTypes DEF TypeOK, LineOK
<1>6. HostOK' /\ toDev' \in Seq(Char)
  <2>1. CASE NextBlock
    <3>1. packCounter + 1 \in Nat
      BY DEF TypeOK, HostOK
    <3>2. toDev' \in Seq(Char)
      BY <2>1, <3>1, <1>4, <1>5 DEF NextBlock
    <3>3. QED
      BY <2>1, <3>1, <3>2 DEF NextBlock, HostOK
  <2>2. CASE HostNaked
    <3>1. toDev' \in Seq(Char)
      BY <2>2, <1>5 DEF HostNaked, TypeOK, HostOK, LineOK
    <3>2. QED
      BY <2>2, <3>1 DEF HostNaked, TypeOK, HostOK
  <2>3. CASE HostEnds
    <3>1. toDev' \in Seq(Char)
      BY <2>3, <1>4 DEF HostEnds, TypeOK, LineOK
    <3>2. QED
      BY <2>3, <3>1 DEF HostEnds, TypeOK, HostOK
  <2>4. CASE HostOpen \/ HostFatal
    BY <2>4 DEF HostOpen, HostFatal, TypeOK, HostOK, LineOK
  <2>5. QED
    BY <2>1, <2>2, <2>3, <2>4 DEF HostTurn, HostInvited, HostAcked
<1>7. QED
  BY <1>1, <1>2, <1>3, <1>6 DEF TypeOK, LineOK

\* A character the UART receives, good or bad, keeps the types.
LEMMA ReceiveType ==
  ASSUME TypeOK, NEW b \in Char, NEW err \in SUBSET {"ERR"}, Receive(b, err)
  PROVE  UartOK' /\ StoreOK'
<1>1. CASE PdcMoves(b, err)
  <2>1. cur \in Descriptor /\ nxt \in [at : Nat, left : Nat] /\ cur.left > 0
    BY <1>1 DEF PdcMoves, TypeOK, UartOK
  <2>2. cur' \in Descriptor
    <3>1. CASE cur.left = 1
      <4>1. cur' = [area |-> "mem", at |-> nxt.at, left |-> nxt.left]
        BY <1>1, <3>1 DEF PdcMoves
      <4>2. QED
        BY <2>1, <4>1 DEF Descriptor
    <3>2. CASE cur.left # 1
      <4>1. cur' = [cur EXCEPT !.at = @ + 1, !.left = @ - 1]
        BY <1>1, <3>2 DEF PdcMoves
      <4>2. cur.at + 1 \in Nat /\ cur.left - 1 \in Nat
        BY <2>1 DEF Descriptor
      <4>3. QED
        BY <2>1, <4>1, <4>2 DEF Descriptor
    <3>3. QED
      BY <3>1, <3>2
  <2>3. nxt' \in [at : Nat, left : Nat]
    BY <1>1, <2>1 DEF PdcMoves
  <2>4. StoreOK'
    <3>1. mem' \in [0..MemTop -> Char]
      BY <1>1 DEF PdcMoves, TypeOK, StoreOK
    <3>2. packetDesc' \in [0..1 -> Char]
      BY <1>1 DEF PdcMoves, TypeOK, StoreOK
    <3>3. QED
      BY <3>1, <3>2 DEF StoreOK
  <2>5. rhr' \in Char /\ csr' \subseteq Interrupts \cup {"ERR"} /\ imr' \subseteq Interrupts
    BY <1>1 DEF PdcMoves, Receive, TypeOK, UartOK, Interrupts
  <2>6. QED
    BY <2>2, <2>3, <2>4, <2>5 DEF UartOK
<1>2. CASE UartHolds(b, err)
  BY <1>2 DEF UartHolds, Receive, TypeOK, UartOK, StoreOK, store, Interrupts
<1>3. QED
  BY <1>1, <1>2 DEF Receive

\* A step of the line keeps the types.
LEMMA LineStepType ==
  ASSUME TypeOK, CharArrives \/ Fault
  PROVE  TypeOK'
<1>1. UNCHANGED <<host, xm, boot>> /\ faults' \in Nat
  BY DEF CharArrives, Fault, CharGarbled, CharLost, ReplyFails, Receive, LineTakes,
         TypeOK, LineOK
<1>2. (HostOK /\ XmOK /\ BootOK)'
  BY <1>1 DEF TypeOK, HostOK, XmOK, BootOK, host, xm, boot
<1>3. toDev' \in Seq(Char) /\ (toDev # <<>> => Head(toDev) \in Char)
  BY SeqTypes
  DEF CharArrives, Fault, CharGarbled, CharLost, ReplyFails, Receive, LineTakes,
      TypeOK, LineOK
<1>4. toHost' \in Seq(Reply)
  <2>1. CASE toHost # <<>> /\ toHost' \in {Tail(toHost), [toHost EXCEPT ![1] = "TXT"]}
    <3>1. Tail(toHost) \in Seq(Reply)
      BY <2>1, SeqTypes DEF TypeOK, LineOK
    <3>2. [toHost EXCEPT ![1] = "TXT"] \in Seq(Reply)
      BY <2>1, ExceptSeq DEF TypeOK, LineOK, Reply
    <3>3. QED
      BY <2>1, <3>1, <3>2
  <2>2. CASE toHost' = toHost
    BY <2>2 DEF TypeOK, LineOK
  <2>3. QED
    BY <2>1, <2>2
    DEF CharArrives, Fault, CharGarbled, CharLost, ReplyFails, Receive, LineTakes
<1>5. UartOK' /\ StoreOK'
  <2>1. CASE CharArrives
    BY <2>1, <1>3, ReceiveType DEF CharArrives, Receive, LineTakes
  <2>2. CASE CharGarbled
    BY <2>2, CodeType, ReceiveType DEF CharGarbled
  <2>3. CASE CharLost \/ ReplyFails
    BY <2>3 DEF CharLost, ReplyFails, TypeOK, UartOK, StoreOK, uart, store
  <2>4. QED
    BY <2>1, <2>2, <2>3 DEF Fault
<1>6. QED
  BY <1>1, <1>2, <1>3, <1>4, <1>5 DEF TypeOK, LineOK

Tempo == [flag : {"EN", "DIS"}, tick : Nat, reload : Nat,
          callback : {NoCallback, "SendC", "XmodemComplete"}]

\* Consuming blocks keeps the types of the buffer, the timer and the answers.
LEMMA FillType ==
  ASSUME TypeOK, NEW n \in Nat, NEW timer \in Tempo, NEW answers \in Seq(Reply),
         FillRdBuffer(n, timer, answers)
  PROVE  /\ sb' \in [p : Nat, sz : 0..RegionBlocks]
         /\ tempo' \in Tempo /\ toHost' \in Seq(Reply)
<1>1. sb' \in [p : Nat, sz : 0..RegionBlocks]
  <2>1. sb \in [p : Nat, sz : 0..RegionBlocks] /\ RegionBlocks \in Nat
    BY XmodemAssumption DEF TypeOK, XmOK
  <2>2. sb.p + n \in Nat /\ (IF sb.sz < n THEN 0 ELSE sb.sz - n) \in 0..RegionBlocks
    BY <2>1
  <2>3. QED
    BY <2>2 DEF FillRdBuffer, Advance
<1>2. Started(CompleteDelay, 0, "XmodemComplete") \in Tempo
  BY XmodemAssumption DEF Started, Tempo
<1>3. toHost \o answers \in Seq(Reply) /\ Append(toHost, "ACK") \in Seq(Reply)
  BY SeqTypes DEF TypeOK, LineOK, Reply
<1>4. QED
  BY <1>1, <1>2, <1>3 DEF FillRdBuffer

\* A run of the interrupt handler keeps the types.
LEMMA IsrStepType ==
  ASSUME TypeOK, Isr
  PROVE  TypeOK'
<1>1. UNCHANGED <<host, toDev, faults, store, boot>>
  BY DEF Isr, IsrLineError, IsrHeader, IsrOtherHeader, IsrEot, IsrDescriptor,
         IsrAccept, IsrReject, ReadHandler, DescriptorDone, SerialInterrupt
<1>2. (HostOK /\ StoreOK /\ BootOK)' /\ toDev' \in Seq(Char) /\ faults' \in Nat
  BY <1>1 DEF TypeOK, HostOK, LineOK, StoreOK, BootOK, host, store, boot
<1>3. /\ svc \in [packetId : 0..IdMod - 1, eot : BOOLEAN, isPacketDesc : BOOLEAN,
                  packetStatus : BOOLEAN, pData : Nat, dataSize : {0, SohData, StxData}]
      /\ sb \in [p : Nat, sz : 0..RegionBlocks] /\ tempo \in Tempo /\ got \in Seq(Char)
  BY DEF TypeOK, XmOK, Tempo
<1>4. Stopped(tempo) \in Tempo
  BY <1>3 DEF Stopped, Tempo
<1>5. \A r \in Reply : Append(toHost, r) \in Seq(Reply)
  BY SeqTypes DEF TypeOK, LineOK
<1>6. SohData \in {0, SohData, StxData} /\ StxData \in {0, SohData, StxData}
      /\ SohData \in Nat /\ DataAndCrc(SohData) \in Nat /\ DataAndCrc(StxData) \in Nat
      /\ DescSize \in Nat /\ DescSize + SohData + CrcSize \in Nat
  BY DEF SohData, StxData, CrcSize, DescSize, DataAndCrc
<1>7. SUFFICES UartOK' /\ XmOK' /\ toHost' \in Seq(Reply)
  BY <1>2 DEF TypeOK, LineOK
<1>8. ASSUME NEW area \in {"desc", "mem"}, NEW at \in Nat, NEW left \in Nat,
             NEW nextAt \in Nat, NEW nextLeft \in Nat,
             ReceiveFrame(area, at, left, nextAt, nextLeft), rhr' = rhr,
             imr' = (imr \ {"RXRDY"}) \cup {"ENDRX"}
      PROVE  UartOK'
  <2>1. cur' \in Descriptor /\ nxt' \in [at : Nat, left : Nat]
    BY <1>8 DEF ReceiveFrame, Descriptor
  <2>2. QED
    BY <1>8, <2>1 DEF ReceiveFrame, TypeOK, UartOK, Interrupts
<1>9. CASE IsrLineError
  BY <1>9 DEF IsrLineError, TypeOK, UartOK, LineOK, XmOK, Interrupts, xm
<1>10. ASSUME NEW code, NEW size \in {SohData, StxData}, IsrHeader(code, size)
       PROVE  UartOK' /\ XmOK' /\ toHost' \in Seq(Reply)
  <2>1. UartOK'
    <3>1. DataAndCrc(size) \in Nat /\ DescSize \in Nat /\ 0 \in Nat /\ sb.p \in Nat
      BY <1>3, <1>6
    <3>2. QED
      BY <1>8, <1>10, <3>1 DEF IsrHeader
  <2>2. XmOK'
    BY <1>3, <1>4, <1>6, <1>10 DEF IsrHeader, XmOK, Tempo
  <2>3. QED
    BY <1>10, <2>1, <2>2 DEF IsrHeader, TypeOK, LineOK
<1>11. CASE IsrOtherHeader
  <2>1. UartOK'
    BY <1>3, <1>6, <1>8, <1>11 DEF IsrOtherHeader
  <2>2. XmOK'
    BY <1>3, <1>4, <1>6, <1>11 DEF IsrOtherHeader, XmOK, Tempo
  <2>3. QED
    BY <1>5, <1>11, <2>1, <2>2 DEF IsrOtherHeader, Reply
<1>12. CASE IsrEot
  <2>1. UartOK'
    BY <1>12 DEF IsrEot, Deaf, TypeOK, UartOK, Interrupts
  <2>2. svc' \in [packetId : 0..IdMod - 1, eot : BOOLEAN, isPacketDesc : BOOLEAN,
                  packetStatus : BOOLEAN, pData : Nat, dataSize : {0, SohData, StxData}]
        /\ got' = got
    BY <1>3, <1>12 DEF IsrEot
  <2>3. /\ sb' \in [p : Nat, sz : 0..RegionBlocks]
        /\ tempo' \in Tempo /\ toHost' \in Seq(Reply)
    <3>1. CASE RegionOpen
      <4>1. sb.sz \in Nat /\ <<"ACK", "TXT">> \in Seq(Reply)
        BY <1>3, XmodemAssumption DEF Reply
      <4>2. FillRdBuffer(sb.sz, Stopped(tempo), <<"ACK", "TXT">>)
        BY <1>12, <3>1 DEF IsrEot
      <4>3. QED
        BY <1>4, <4>1, <4>2, FillType
    <3>2. CASE ~RegionOpen
      BY <1>3, <1>4, <1>5, <1>12, <3>2 DEF IsrEot, Reply
    <3>3. QED
      BY <3>1, <3>2
  <2>4. QED
    BY <1>3, <2>1, <2>2, <2>3 DEF XmOK, Tempo
<1>13. CASE IsrDescriptor
  <2>1. UartOK'
    BY <1>13 DEF IsrDescriptor, TypeOK, UartOK, Interrupts
  <2>2. HeaderOk \in BOOLEAN
    BY DEF HeaderOk
  <2>3. XmOK'
    BY <1>3, <1>13, <2>2 DEF IsrDescriptor, XmOK, Tempo
  <2>4. QED
    BY <1>13, <2>1, <2>3 DEF IsrDescriptor, TypeOK, LineOK
<1>14. CASE IsrAccept
  <2>1. UartOK'
    BY <1>14 DEF IsrAccept, AwaitHeader, TypeOK, UartOK, Interrupts
  <2>2. svc' \in [packetId : 0..IdMod - 1, eot : BOOLEAN, isPacketDesc : BOOLEAN,
                  packetStatus : BOOLEAN, pData : Nat, dataSize : {0, SohData, StxData}]
    <3>1. NextId \in 0..IdMod - 1
      BY <1>3, XmodemAssumption DEF NextId, EOT
    <3>2. svc.pData + svc.dataSize \in Nat
      BY <1>3 DEF SohData, StxData
    <3>3. QED
      BY <1>3, <1>14, <3>1, <3>2 DEF IsrAccept
  <2>3. got' \in Seq(Char)
    <3>1. svc.pData \in 0..MemTop
      <4>1. svc.pData \in Nat /\ svc.pData + 1 <= MemTop
        BY <1>3, <1>14 DEF IsrAccept, DataOk, SohData
      <4>2. MemTop \in Nat
        BY XmodemAssumption DEF MemTop, SohData, DescSize, CrcSize
      <4>3. QED
        BY <4>1, <4>2
    <3>2. mem[svc.pData] \in Char
      BY <3>1 DEF TypeOK, StoreOK
    <3>3. QED
      BY <1>3, <1>14, <3>2, SeqTypes DEF IsrAccept
  <2>4. /\ sb' \in [p : Nat, sz : 0..RegionBlocks]
        /\ tempo' \in Tempo /\ toHost' \in Seq(Reply)
    <3>1. svc.dataSize \in Nat /\ <<"TXT", "ACK">> \in Seq(Reply)
      BY <1>3 DEF SohData, StxData, Reply
    <3>2. FillRdBuffer(svc.dataSize, tempo, <<"TXT", "ACK">>)
      BY <1>14 DEF IsrAccept
    <3>3. QED
      BY <1>3, <3>1, <3>2, FillType
  <2>5. QED
    BY <2>1, <2>2, <2>3, <2>4 DEF XmOK, Tempo
<1>15. CASE IsrReject
  <2>1. UartOK'
    BY <1>15 DEF IsrReject, AwaitHeader, TypeOK, UartOK, Interrupts
  <2>2. QED
    BY <1>5, <1>15, <2>1 DEF IsrReject, Reply, TypeOK, XmOK
<1>16. QED
  <2>1. CASE IsrHeader(SOH, SohData)
    BY <1>10, <2>1
  <2>2. CASE IsrHeader(STX, StxData)
    BY <1>10, <2>2
  <2>3. QED
    BY <1>9, <1>11, <1>12, <1>13, <1>14, <1>15, <2>1, <2>2 DEF Isr

\* A tick of the system timer keeps the types.
LEMMA TickType ==
  ASSUME TypeOK, Tick
  PROVE  TypeOK'
<1>1. (HostOK /\ UartOK /\ StoreOK)' /\ toDev' \in Seq(Char) /\ faults' \in Nat
  BY DEF Tick, TypeOK, HostOK, LineOK, UartOK, StoreOK, host, uart, store
<1>2. BootOK'
  <2>1. pauseLeft' \in Nat
    BY DEF Tick, PauseTicks, TypeOK, BootOK
  <2>2. complete' \in BOOLEAN
    BY DEF Tick, Completes, Fires, TypeOK, BootOK
  <2>3. QED
    BY <2>1, <2>2 DEF Tick, TypeOK, BootOK
<1>3. toHost' \in Seq(Reply)
  <2>1. \A r \in Reply : Append(toHost, r) \in Seq(Reply)
    BY SeqTypes DEF TypeOK, LineOK
  <2>2. QED
    BY <2>1 DEF Tick, TypeOK, LineOK, Reply
<1>4. XmOK'
  <2>1. tempo \in Tempo
    BY DEF TypeOK, XmOK, Tempo
  <2>2. Counted(tempo) \in Nat
    BY <2>1 DEF Counted, Tempo
  <2>3. Ticked(tempo) \in Tempo
    BY <2>1, <2>2 DEF Ticked, Tempo
  <2>4. tempo' \in Tempo
    BY <2>3 DEF Tick, Stopped, Tempo
  <2>5. QED
    BY <2>4 DEF Tick, Tempo, TypeOK, XmOK
<1>5. QED
  BY <1>1, <1>2, <1>3, <1>4 DEF TypeOK, LineOK

\* A step of the main program keeps the types.
LEMMA BootStepType ==
  ASSUME TypeOK, Boot
  PROVE  TypeOK'
<1> USE DEF Boot, BootPrompt, ReadSetup, ReadEnable, ReadMask, ReadInvite, ReadPrint,
            Downloaded, Jump, Main
<1>1. HostOK' /\ toDev' \in Seq(Char) /\ faults' \in Nat
  BY DEF TypeOK, HostOK, LineOK, host, line
<1>2. UartOK' /\ StoreOK'
  BY DEF TypeOK, UartOK, StoreOK, uart, store, Interrupts
<1>3. BootOK'
  BY XmodemAssumption DEF TypeOK, BootOK
<1>4. toHost' \in Seq(Reply)
  <2>1. Append(toHost, "TXT") \in Seq(Reply)
    BY SeqTypes DEF TypeOK, LineOK, Reply
  <2>2. QED
    BY <2>1 DEF TypeOK, LineOK, line
<1>5. XmOK'
  <2>1. CASE ReadSetup
    <3>1. sb' \in [p : Nat, sz : 0..RegionBlocks]
      BY <2>1, XmodemAssumption DEF SetBuffer
    <3>2. 1 \in 0..IdMod - 1
      BY XmodemAssumption DEF EOT
    <3>3. QED
      BY <2>1, <3>1, <3>2 DEF TypeOK, XmOK
  <2>2. CASE ReadInvite
    <3>1. tempo' \in Tempo
      BY <2>2, XmodemAssumption DEF Started, Tempo
    <3>2. QED
      BY <2>2, <3>1 DEF TypeOK, XmOK, Tempo
  <2>3. CASE ~ReadSetup /\ ~ReadInvite
    BY <2>3 DEF TypeOK, XmOK, xm
  <2>4. QED
    BY <2>1, <2>2, <2>3
<1>6. QED
  BY <1>1, <1>2, <1>3, <1>4, <1>5 DEF TypeOK, LineOK

\* The types hold when the board is switched on.
LEMMA InitType ==
  ASSUME Init
  PROVE  TypeOK
<1> USE DEF Init
<1>1. HostOK /\ LineOK /\ BootOK
  <2>1. HostOK
    BY DEF HostOK
  <2>2. LineOK
    BY EmptySeq DEF LineOK
  <2>3. BootOK
    BY DEF BootOK
  <2>4. QED
    BY <2>1, <2>2, <2>3
<1>2. UartOK
  <2>1. cur \in Descriptor /\ nxt \in [at : Nat, left : Nat]
    BY DEF Descriptor
  <2>2. QED
    BY <2>1, CodeType DEF UartOK, Interrupts
<1>3. StoreOK
  BY CodeType DEF StoreOK
<1>4. XmOK
  <2>1. svc \in [packetId : 0..IdMod - 1, eot : BOOLEAN, isPacketDesc : BOOLEAN,
                 packetStatus : BOOLEAN, pData : Nat, dataSize : {0, SohData, StxData}]
    BY XmodemAssumption DEF EOT
  <2>2. sb \in [p : Nat, sz : 0..RegionBlocks]
    BY XmodemAssumption DEF RstBuffer
  <2>3. tempo \in Tempo /\ got \in Seq(Char)
    BY DEF Created, Tempo
  <2>4. QED
    BY <2>1, <2>2, <2>3 DEF XmOK, Tempo
<1>5. QED
  BY <1>1, <1>2, <1>3, <1>4 DEF TypeOK

\* A step that changes nothing keeps the types.
LEMMA StutterType ==
  ASSUME TypeOK, UNCHANGED vars
  PROVE  TypeOK'
BY DEF TypeOK, HostOK, LineOK, UartOK, StoreOK, XmOK, BootOK, vars, host, line, uart,
       store, xm, boot

\* Every step keeps the types.
LEMMA StepType ==
  ASSUME TypeOK, [Next]_vars
  PROVE  TypeOK'
BY HostStepType, LineStepType, IsrStepType, TickType, BootStepType, StutterType
DEF Next

\* Every variable of the download stays in its type, in every interleaving of
\* the host, the line, the interrupt handler, the timer and the main program,
\* and with any number of line faults.
THEOREM TypeCorrect == Spec => []TypeOK
<1>1. Init => TypeOK
  BY InitType
<1>2. TypeOK /\ [Next]_vars => TypeOK'
  BY StepType
<1>3. QED
  BY <1>1, <1>2, PTL DEF Spec
=============================================================================
