------------------------- MODULE XmodemSafetyProofs -------------------------
(***************************************************************************)
(* Proofs of the safety of the download: blocks accepted stay in RAM, the  *)
(* counters of the service agree and no interrupt storm follows EOT.  The  *)
(* inductive invariant relates the interrupt mask, the PDC's descriptors,  *)
(* the service's cursor and the place the main program has reached.        *)
(*                                                                         *)
(* Where the line damages no more than data, CRCs and answers, a second    *)
(* invariant follows a frame from the host through the UART and the PDC to *)
(* the handler.  From it: the blocks accepted are in order, the download   *)
(* implements its promise, and no verdict is read for another frame's.     *)
(***************************************************************************)
EXTENDS XmodemDownloadProofs, FiniteSetTheorems

\* No interrupt is enabled before ReadEnable and none after EOT, and ENDRX only
\* while a packet descriptor is awaited.
MaskFits ==
  /\ Unarmed \/ bpc = "enable" => imr = {}
  /\ svc.eot => imr = {} /\ ~Unarmed /\ bpc # "enable"
  /\ "ENDRX" \in imr => svc.isPacketDesc

\* RXRDY and RXBUFF rise only when the PDC has no descriptor left.
PdcIdle ==
  /\ csr \cap {"RXRDY", "RXBUFF"} # {} => cur.left = 0
  /\ cur.left = 0 => nxt.left = 0

\* The service checks a block where the next accepted one belongs.
CursorFits ==
  /\ ~svc.eot => svc.pData = Len(got)
  /\ Unarmed => got = <<>>

IInv ==
  /\ TypeOK /\ MaskFits /\ PdcIdle /\ CursorFits
  /\ CountersAgree /\ PdcAhead /\ RamKeepsAccepted

\* The variables of the board that the invariant speaks of, beside its types.
board == <<csr, imr, cur, nxt, mem, svc, sb, got>>

\* A step that leaves the board alone keeps the invariant.
LEMMA BoardStillSafe ==
  ASSUME IInv, TypeOK', UNCHANGED <<board, bpc>>
  PROVE  IInv'
BY DEF IInv, MaskFits, PdcIdle, CursorFits, CountersAgree, PdcAhead, RamKeepsAccepted,
       Unarmed, board

\* A character received keeps the invariant.
LEMMA ReceiveSafe ==
  ASSUME IInv, TypeOK', NEW b, NEW err \in SUBSET {"ERR"}, Receive(b, err)
  PROVE  IInv'
<1>1. UNCHANGED <<imr, svc, sb, got, bpc>>
  BY DEF Receive, LineTakes, xm, boot
<1>2. MaskFits' /\ CursorFits' /\ CountersAgree'
  BY <1>1 DEF IInv, MaskFits, CursorFits, CountersAgree, Unarmed
<1>3. cur \in Descriptor /\ nxt \in [at : Nat, left : Nat] /\ Len(got) \in Nat
  BY LenProperties DEF IInv, TypeOK, UartOK, XmOK
<1>4. CASE PdcMoves(b, err)
  <2>1. csr \cap {"RXRDY", "RXBUFF"} = {} /\ cur.left > 0
    BY <1>3, <1>4 DEF IInv, PdcIdle, PdcMoves, Descriptor
  <2>2. RamKeepsAccepted'
    <3>1. ASSUME NEW i \in 1..Len(got) PROVE mem'[i - 1] = mem[i - 1]
      <4>1. CASE cur.area = "desc"
        BY <1>4, <4>1 DEF PdcMoves
      <4>2. CASE cur.area = "mem"
        <5>1. mem' = [mem EXCEPT ![cur.at] = b] /\ i - 1 # cur.at
          BY <1>3, <1>4, <2>1, <4>2 DEF PdcMoves, IInv, PdcAhead, Descriptor
        <5>2. QED
          BY <5>1 DEF IInv, TypeOK, StoreOK
      <4>3. QED
        BY <1>3, <4>1, <4>2 DEF Descriptor
    <3>2. QED
      BY <1>1, <3>1 DEF IInv, RamKeepsAccepted
  <2>3. CASE cur.left = 1
    <3>1. /\ cur' = [area |-> "mem", at |-> nxt.at, left |-> nxt.left]
          /\ nxt' = [nxt EXCEPT !.left = 0]
          /\ csr' = csr \cup err \cup {"ENDRX"}
                        \cup (IF nxt.left = 0 THEN {"RXBUFF"} ELSE {})
      BY <1>4, <2>3 DEF PdcMoves
    <3>2. PdcIdle'
      BY <1>3, <2>1, <3>1 DEF PdcIdle
    <3>3. PdcAhead'
      BY <1>1, <1>3, <3>1 DEF IInv, PdcAhead
    <3>4. QED
      BY <1>2, <2>2, <3>2, <3>3 DEF IInv
  <2>4. CASE cur.left # 1
    <3>1. /\ cur' = [cur EXCEPT !.at = @ + 1, !.left = @ - 1]
          /\ nxt' = nxt /\ csr' = csr \cup err
      BY <1>4, <2>4 DEF PdcMoves
    <3>2. PdcIdle'
      BY <1>3, <2>1, <2>4, <3>1 DEF PdcIdle, Descriptor
    <3>3. PdcAhead'
      BY <1>1, <1>3, <2>1, <3>1 DEF IInv, PdcAhead, Descriptor
    <3>4. QED
      BY <1>2, <2>2, <3>2, <3>3 DEF IInv
  <2>5. QED
    BY <2>3, <2>4
<1>5. CASE UartHolds(b, err)
  BY <1>1, <1>2, <1>5
  DEF UartHolds, IInv, PdcIdle, PdcAhead, RamKeepsAccepted, store
<1>6. QED
  BY <1>4, <1>5 DEF Receive

\* The remainder of a division is unique.
LEMMA ModUnique ==
  ASSUME NEW x \in Nat, NEW m \in Nat, m > 1, NEW q \in Int, NEW r \in 0..m - 1,
         x = m * q + r
  PROVE  x % m = r
<1>1. m > 0
  OBVIOUS
<1>2. PICK p \in Int, s \in 0..m - 1 : x = m * p + s /\ s = x % m
  BY <1>1
<1>3. PICK d \in Int : d = q - p
  OBVIOUS
<1>4. m * d = s - r
  <2>1. q = p + d
    BY <1>3
  <2>2. m * (p + d) = m * p + m * d
    OBVIOUS
  <2>3. m * p \in Int /\ m * d \in Int
    OBVIOUS
  <2>4. m * p + s = m * p + m * d + r
    BY <1>2, <2>1, <2>2
  <2>5. QED
    BY <2>3, <2>4
<1>5. CASE d >= 1
  <2>1. m * d >= m
    BY <1>5
  <2>2. QED
    BY <1>4, <2>1
<1>6. CASE d <= -1
  <2>1. m * d <= -m
    BY <1>6
  <2>2. QED
    BY <1>4, <2>1
<1>7. CASE d = 0
  <2>1. m * d = 0
    BY <1>7
  <2>2. s = r
    BY <1>4, <2>1
  <2>3. QED
    BY <1>2, <2>2
<1>8. QED
  BY <1>5, <1>6, <1>7

\* Counting modulo m one at a time is counting and taking the remainder.
LEMMA NextMod ==
  ASSUME NEW n \in Nat, NEW m \in Nat, m > 1
  PROVE  ((n % m) + 1) % m = (n + 1) % m
<1>1. PICK q \in Int, r \in 0..m - 1 : n = m * q + r /\ r = n % m
  OBVIOUS
<1>2. CASE r + 1 < m
  <2>1. n + 1 = m * q + (r + 1) /\ r + 1 \in 0..m - 1 /\ n + 1 \in Nat
    BY <1>1, <1>2
  <2>2. (n + 1) % m = r + 1
    BY <2>1, ModUnique
  <2>3. (r + 1) % m = r + 1
    BY <1>2
  <2>4. QED
    BY <1>1, <2>2, <2>3
<1>3. CASE r + 1 = m
  <2>1. n + 1 = m * (q + 1) + 0 /\ q + 1 \in Int /\ 0 \in 0..m - 1 /\ n + 1 \in Nat
    BY <1>1, <1>3
  <2>2. (n + 1) % m = 0
    BY <2>1, ModUnique
  <2>3. m = m * 1 + 0
    OBVIOUS
  <2>4. m % m = 0
    BY <2>3, ModUnique
  <2>5. QED
    BY <1>1, <1>3, <2>2, <2>4
<1>4. QED
  BY <1>2, <1>3

\* An interrupt is taken only when the service listens, and then the PDC is
\* idle unless the interrupt is that of a packet descriptor or a line error.
LEMMA InterruptFacts ==
  ASSUME IInv, SerialInterrupt
  PROVE  /\ ~Unarmed /\ bpc # "enable" /\ ~svc.eot
         /\ DescriptorDone /\ ~svc.isPacketDesc => cur.left = 0
         /\ "RXRDY" \in csr => cur.left = 0
         /\ cur.left = 0 => nxt.left = 0
<1>1. imr # {} /\ csr \cap imr # {}
  BY DEF SerialInterrupt, Pending
<1>2. ~Unarmed /\ bpc # "enable" /\ ~svc.eot
  BY <1>1 DEF IInv, MaskFits
<1>3. ASSUME DescriptorDone, ~svc.isPacketDesc PROVE cur.left = 0
  <2>1. "RXRDY" \notin csr /\ "ENDRX" \notin imr
    BY <1>3 DEF DescriptorDone, IInv, MaskFits
  <2>2. "RXBUFF" \in csr
    BY <1>1, <2>1 DEF IInv, TypeOK, UartOK, Interrupts
  <2>3. QED
    BY <2>2 DEF IInv, PdcIdle
<1>4. QED
  BY <1>2, <1>3 DEF IInv, PdcIdle

\* A run of the interrupt handler keeps the invariant.
LEMMA IsrSafe ==
  ASSUME IInv, TypeOK', Isr
  PROVE  IInv'
<1>1. UNCHANGED <<packetDesc, mem, bpc>> /\ SerialInterrupt
  BY DEF Isr, IsrLineError, IsrHeader, IsrOtherHeader, IsrEot, IsrDescriptor,
         IsrAccept, IsrReject, ReadHandler, DescriptorDone, SerialInterrupt, store, boot
<1>2. ~Unarmed /\ bpc # "enable" /\ ~svc.eot /\ ~Unarmed' /\ bpc' # "enable"
  BY <1>1, InterruptFacts DEF Unarmed
<1>3. /\ cur \in Descriptor /\ nxt \in [at : Nat, left : Nat] /\ Len(got) \in Nat
      /\ imr \subseteq Interrupts
      /\ svc \in [packetId : 0..IdMod - 1, eot : BOOLEAN, isPacketDesc : BOOLEAN,
                  packetStatus : BOOLEAN, pData : Nat, dataSize : {0, SohData, StxData}]
  BY LenProperties DEF IInv, TypeOK, UartOK, XmOK
<1>4. sb.p = Len(got) /\ svc.pData = Len(got)
  BY <1>2 DEF IInv, CountersAgree, CursorFits
<1>5. ASSUME NEW area \in {"desc", "mem"}, NEW at \in Nat, NEW left \in Nat \ {0},
             NEW nextLeft \in Nat, area = "mem" => at = sb.p,
             NEW size,
             ReceiveFrame(area, at, left, sb.p, nextLeft) \/
               (nextLeft = 0 /\ ReceiveFrame(area, at, left, 0, 0)),
             imr' = (imr \ {"RXRDY"}) \cup {"ENDRX"}, UNCHANGED <<sb, got>>,
             svc' = [svc EXCEPT !.isPacketDesc = TRUE, !.pData = sb.p, !.dataSize = size]
      PROVE  IInv'
  <2>1. cur' = [area |-> area, at |-> at, left |-> left] /\ nxt'.left = nextLeft
        /\ (nextLeft > 0 => nxt'.at = sb.p) /\ csr' \cap {"RXRDY", "RXBUFF"} = {}
    BY <1>5 DEF ReceiveFrame
  <2>2. svc'.isPacketDesc /\ svc'.pData = sb.p /\ ~svc'.eot
        /\ svc'.packetId = svc.packetId
    BY <1>2, <1>3, <1>5
  <2>3. MaskFits' /\ CursorFits' /\ CountersAgree'
    BY <1>2, <1>4, <1>5, <2>2 DEF IInv, MaskFits, CursorFits, CountersAgree
  <2>4. PdcIdle' /\ PdcAhead'
    BY <1>3, <1>4, <1>5, <2>1 DEF PdcIdle, PdcAhead
  <2>5. QED
    BY <1>1, <1>5, <2>3, <2>4 DEF IInv, RamKeepsAccepted
<1>6. CASE IsrLineError
  <2>1. UNCHANGED <<cur, nxt, svc, sb, got, mem>>
    BY <1>1, <1>6 DEF IsrLineError, xm
  <2>2. MaskFits' /\ CursorFits' /\ CountersAgree' /\ PdcAhead' /\ RamKeepsAccepted'
    BY <1>2, <1>6, <2>1
    DEF IsrLineError, IInv, MaskFits, CursorFits, CountersAgree, PdcAhead, RamKeepsAccepted
  <2>3. PdcIdle'
    BY <1>6, <2>1 DEF IsrLineError, IInv, PdcIdle
  <2>4. QED
    BY <2>2, <2>3 DEF IInv
<1>7. ASSUME NEW code, NEW size \in {SohData, StxData}, IsrHeader(code, size)
      PROVE  IInv'
  <2>1. DescSize \in Nat \ {0} /\ DataAndCrc(size) \in Nat /\ 0 \in Nat
    BY DEF DescSize, DataAndCrc, SohData, StxData, CrcSize
  <2>2. QED
    BY <1>5, <1>7, <2>1 DEF IsrHeader
<1>8. CASE IsrOtherHeader
  <2>1. DescSize + SohData + CrcSize \in Nat \ {0} /\ sb.p \in Nat
    BY <1>3, <1>4 DEF DescSize, SohData, CrcSize
  <2>2. svc' = [svc EXCEPT !.isPacketDesc = TRUE, !.pData = sb.p, !.dataSize = svc.dataSize]
    BY <1>3, <1>8 DEF IsrOtherHeader
  <2>3. QED
    BY <1>5, <1>8, <2>1, <2>2 DEF IsrOtherHeader
<1>9. CASE IsrEot
  <2>1. svc'.eot /\ imr' = {}
    BY <1>3, <1>9 DEF IsrEot, Deaf, Interrupts
  <2>2. cur' = cur /\ nxt' = nxt /\ got' = got /\ csr' = csr \ {"RXRDY"}
    BY <1>9 DEF IsrEot
  <2>3. QED
    BY <1>1, <1>2, <2>1, <2>2
    DEF IInv, MaskFits, PdcIdle, CursorFits, CountersAgree, PdcAhead, RamKeepsAccepted
<1>10. CASE IsrDescriptor
  <2>1. UNCHANGED <<csr, cur, nxt, sb, got>> /\ imr' = (imr \ {"ENDRX"}) \cup {"RXBUFF"}
        /\ svc'.pData = svc.pData /\ ~svc'.eot /\ svc'.packetId = svc.packetId
    BY <1>2, <1>3, <1>10 DEF IsrDescriptor
  <2>2. MaskFits' /\ CursorFits' /\ CountersAgree'
    BY <1>2, <2>1 DEF IInv, MaskFits, CursorFits, CountersAgree
  <2>3. PdcIdle' /\ PdcAhead' /\ RamKeepsAccepted'
    BY <1>1, <2>1 DEF IInv, PdcIdle, PdcAhead, RamKeepsAccepted
  <2>4. QED
    BY <2>2, <2>3 DEF IInv
<1>11. CASE IsrAccept
  <2>1. cur.left = 0 /\ nxt.left = 0
    BY <1>1, <1>11, InterruptFacts DEF IsrAccept
  <2>2. UNCHANGED <<csr, cur, nxt>> /\ imr' = (imr \ {"ENDRX", "RXBUFF"}) \cup {"RXRDY"}
    BY <1>11 DEF IsrAccept, AwaitHeader
  <2>3. svc.dataSize = 1 /\ got' = Append(got, mem[svc.pData]) /\ sb' = Advance(sb, 1)
    BY <1>11 DEF IsrAccept, DataOk, SohData, FillRdBuffer
  <2>4. svc' = [svc EXCEPT !.packetId = NextId, !.pData = @ + svc.dataSize]
    BY <1>11 DEF IsrAccept
  <2>5. /\ svc'.packetId = NextId /\ svc'.pData = svc.pData + 1 /\ ~svc'.eot
        /\ svc'.isPacketDesc = svc.isPacketDesc
    BY <1>2, <1>3, <2>3, <2>4
  <2>6. /\ Len(got') = Len(got) + 1 /\ got'[Len(got) + 1] = mem[svc.pData]
        /\ \A i \in 1..Len(got) : got'[i] = got[i]
    <3>1. got \in Seq(Char) /\ mem[svc.pData] \in Char
      <4>1. svc.pData \in 0..MemTop
        <5>1. svc.pData + 1 <= MemTop /\ MemTop \in Nat
          BY <1>11, XmodemAssumption
          DEF IsrAccept, DataOk, SohData, MemTop, DescSize, CrcSize
        <5>2. QED
          BY <1>3, <5>1
      <4>2. QED
        BY <4>1 DEF IInv, TypeOK, XmOK, StoreOK
    <3>2. QED
      BY <2>3, <3>1, AppendProperties
  <2>7. MaskFits'
    BY <1>2, <2>2, <2>5 DEF IInv, MaskFits
  <2>8. CursorFits'
    BY <1>2, <1>4, <2>5, <2>6 DEF CursorFits
  <2>9. CountersAgree'
    <3>1. NextId = (Len(got) + 1 + 1) % IdMod
      <4>1. svc.packetId = (Len(got) + 1) % IdMod
        BY <1>2 DEF IInv, CountersAgree
      <4>2. QED
        <5>1. IdMod \in Nat /\ IdMod > 1 /\ Len(got) + 1 \in Nat
          BY <1>3, XmodemAssumption DEF EOT
        <5>2. (((Len(got) + 1) % IdMod) + 1) % IdMod = (Len(got) + 1 + 1) % IdMod
          BY <5>1, NextMod
        <5>3. QED
          BY <4>1, <5>2 DEF NextId
    <3>2. sb'.p = Len(got) + 1
      BY <1>4, <2>3 DEF Advance
    <3>3. sb'.sz = IF Len(got) + 1 < RegionBlocks THEN RegionBlocks - (Len(got) + 1) ELSE 0
      <4>1. sb.sz = IF Len(got) < RegionBlocks THEN RegionBlocks - Len(got) ELSE 0
        BY <1>2 DEF IInv, CountersAgree
      <4>2. QED
        BY <1>3, <2>3, <4>1, XmodemAssumption DEF Advance
    <3>4. QED
      BY <2>5, <2>6, <3>1, <3>2, <3>3 DEF CountersAgree
  <2>10. PdcIdle' /\ PdcAhead'
    BY <2>1, <2>2 DEF PdcIdle, PdcAhead
  <2>11. RamKeepsAccepted'
    <3>1. /\ Len(got') = Len(got) + 1 /\ got'[Len(got) + 1] = mem[Len(got)]
          /\ \A i \in 1..Len(got) : got'[i] = got[i]
      BY <1>3, <1>4, <2>6
    <3>2. \A i \in 1..Len(got') : i \in 1..Len(got) \/ (i = Len(got) + 1 /\ i - 1 = Len(got))
      BY <1>4, <3>1
    <3>3. QED
      BY <1>1, <3>1, <3>2 DEF IInv, RamKeepsAccepted
  <2>12. QED
    BY <2>7, <2>8, <2>9, <2>10, <2>11 DEF IInv
<1>12. CASE IsrReject
  <2>1. UNCHANGED <<svc, sb, got, csr, cur, nxt>>
        /\ imr' = (imr \ {"ENDRX", "RXBUFF"}) \cup {"RXRDY"}
    BY <1>12 DEF IsrReject, AwaitHeader
  <2>2. MaskFits' /\ CursorFits' /\ CountersAgree'
    BY <1>2, <2>1 DEF IInv, MaskFits, CursorFits, CountersAgree
  <2>3. PdcIdle' /\ PdcAhead' /\ RamKeepsAccepted'
    BY <1>1, <2>1 DEF IInv, PdcIdle, PdcAhead, RamKeepsAccepted
  <2>4. QED
    BY <2>2, <2>3 DEF IInv
<1>13. QED
  <2>1. CASE IsrHeader(SOH, SohData)
    BY <1>7, <2>1
  <2>2. CASE IsrHeader(STX, StxData)
    BY <1>7, <2>2
  <2>3. QED
    BY <1>6, <1>8, <1>9, <1>10, <1>11, <1>12, <2>1, <2>2 DEF Isr

\* A step of the main program keeps the invariant.
LEMMA BootSafe ==
  ASSUME IInv, TypeOK', Boot
  PROVE  IInv'
<1>1. UNCHANGED <<csr, cur, nxt, mem, got>>
  BY DEF Boot, BootPrompt, ReadSetup, ReadEnable, ReadMask, ReadInvite, ReadPrint,
         Downloaded, Jump, uart, store, xm
<1>2. (PdcIdle /\ PdcAhead /\ RamKeepsAccepted)'
  BY <1>1 DEF IInv, PdcIdle, PdcAhead, RamKeepsAccepted
<1>3. CASE ReadSetup
  <2>1. svc' = [svc EXCEPT !.packetId = 1, !.eot = FALSE, !.isPacketDesc = FALSE]
        /\ sb' = [p |-> 0, sz |-> RegionBlocks] /\ imr' = imr /\ Unarmed
        /\ bpc' = "enable"
    BY <1>3 DEF ReadSetup, SetBuffer, Main, uart, Unarmed
  <2>2. got = <<>> /\ imr = {} /\ ~svc.eot /\ svc.pData = 0
    BY <2>1 DEF IInv, MaskFits, CursorFits
  <2>3. svc'.packetId = 1 /\ ~svc'.eot /\ svc'.pData = 0
    BY <2>1, <2>2 DEF IInv, TypeOK, XmOK
  <2>4. MaskFits' /\ CursorFits'
    BY <1>1, <2>1, <2>2, <2>3 DEF MaskFits, CursorFits, Unarmed
  <2>5. CountersAgree'
    <3>1. 1 % IdMod = 1 /\ RegionBlocks \in Nat /\ RegionBlocks > 0
      <4>1. 1 = IdMod * 0 + 1 /\ 1 \in 0..IdMod - 1 /\ IdMod \in Nat /\ IdMod > 1
        BY XmodemAssumption DEF EOT
      <4>2. 1 % IdMod = 1
        BY <4>1, ModUnique
      <4>3. QED
        BY <4>2, XmodemAssumption
    <3>2. Len(got') = 0
      BY <1>1, <2>2
    <3>3. QED
      BY <2>1, <2>3, <3>1, <3>2 DEF CountersAgree
  <2>6. QED
    BY <1>2, <2>4, <2>5 DEF IInv
<1>4. CASE ReadEnable \/ ReadMask
  <2>1. UNCHANGED <<svc, sb>> /\ ~Unarmed /\ ~Unarmed' /\ bpc' # "enable"
    BY <1>4 DEF ReadEnable, ReadMask, Main, Unarmed, xm
  <2>2. imr' = imr \cup {"RXRDY"} \/ imr' = imr \ {"ENDRX"}
    BY <1>4 DEF ReadEnable, ReadMask
  <2>3. svc.eot => bpc # "enable" /\ imr = {}
    BY DEF IInv, MaskFits
  <2>4. svc.eot => imr' = {}
    BY <1>4, <2>3 DEF ReadEnable, ReadMask, Main
  <2>5. "ENDRX" \in imr' => svc.isPacketDesc
    BY <2>2 DEF IInv, MaskFits
  <2>6. MaskFits' /\ CursorFits' /\ CountersAgree'
    BY <1>1, <2>1, <2>4, <2>5 DEF IInv, MaskFits, CursorFits, CountersAgree
  <2>7. QED
    BY <1>2, <2>6 DEF IInv
<1>5. CASE BootPrompt \/ ReadInvite \/ ReadPrint \/ Downloaded \/ Jump
  <2>1. UNCHANGED <<svc, sb, imr>> /\ Unarmed' = Unarmed
        /\ bpc # "enable" /\ bpc' # "enable"
    BY <1>5 DEF BootPrompt, ReadInvite, ReadPrint, Downloaded, Jump, Main, Unarmed, xm, uart
  <2>2. MaskFits' /\ CursorFits' /\ CountersAgree'
    BY <1>1, <2>1 DEF IInv, MaskFits, CursorFits, CountersAgree
  <2>3. QED
    BY <1>2, <2>2 DEF IInv
<1>6. QED
  BY <1>3, <1>4, <1>5 DEF Boot

\* The invariant holds when the board is switched on.
LEMMA InitSafe ==
  ASSUME Init
  PROVE  IInv
<1>1. TypeOK
  BY InitType
<1>2. MaskFits /\ PdcIdle /\ CursorFits /\ CountersAgree /\ PdcAhead /\ RamKeepsAccepted
  BY DEF Init, MaskFits, PdcIdle, CursorFits, CountersAgree, PdcAhead, RamKeepsAccepted,
         Unarmed
<1>3. QED
  BY <1>1, <1>2 DEF IInv

\* Every step keeps the invariant.
LEMMA StepSafe ==
  ASSUME IInv, [Next]_vars
  PROVE  IInv'
<1>1. TypeOK'
  BY StepType DEF IInv
<1>2. CASE HostOpen \/ HostTurn
  <2>1. UNCHANGED <<board, bpc>>
    BY <1>2
    DEF HostOpen, HostTurn, HostInvited, HostAcked, HostNaked, HostFatal, HostEnds,
        board, uart, store, xm, boot
  <2>2. QED
    BY <1>1, <2>1, BoardStillSafe
<1>3. CASE CharArrives
  BY <1>1, <1>3, ReceiveSafe DEF CharArrives
<1>4. CASE CharGarbled
  BY <1>1, <1>4, ReceiveSafe DEF CharGarbled
<1>5. CASE CharLost \/ ReplyFails
  <2>1. UNCHANGED <<board, bpc>>
    BY <1>5 DEF CharLost, ReplyFails, LineTakes, board, uart, store, xm, boot
  <2>2. QED
    BY <1>1, <2>1, BoardStillSafe
<1>6. CASE Isr
  BY <1>1, <1>6, IsrSafe
<1>7. CASE Tick
  <2>1. UNCHANGED <<board, bpc>>
    BY <1>7 DEF Tick, board, uart, store
  <2>2. QED
    BY <1>1, <2>1, BoardStillSafe
<1>8. CASE Boot
  BY <1>1, <1>8, BootSafe
<1>9. CASE UNCHANGED vars
  <2>1. UNCHANGED <<board, bpc>>
    BY <1>9 DEF vars, board, uart, store, xm, boot
  <2>2. QED
    BY <1>1, <2>1, BoardStillSafe
<1>10. QED
  BY <1>2, <1>3, <1>4, <1>5, <1>6, <1>7, <1>8, <1>9 DEF Next, Fault

\* The inductive invariant of the download.
THEOREM Invariance == Spec => []IInv
<1>1. Init => IInv
  BY InitSafe
<1>2. IInv /\ [Next]_vars => IInv'
  BY StepSafe
<1>3. QED
  BY <1>1, <1>2, PTL DEF Spec

\* A block once accepted stays in RAM as it was: whatever the line does to
\* later frames, nothing the PDC writes lands on it.
THEOREM AcceptedStays == Spec => []RamKeepsAccepted
<1>1. IInv => RamKeepsAccepted
  BY DEF IInv
<1>2. QED
  BY <1>1, Invariance, PTL

\* What the PDC still has to write lies behind the blocks already accepted.
THEOREM PdcStaysAhead == Spec => []PdcAhead
<1>1. IInv => PdcAhead
  BY DEF IInv
<1>2. QED
  BY <1>1, Invariance, PTL

\* Until EOT the packet id, the cursor of the buffer and the room left agree.
THEOREM CountersStayEqual == Spec => []CountersAgree
<1>1. IInv => CountersAgree
  BY DEF IInv
<1>2. QED
  BY <1>1, Invariance, PTL

\* After EOT no enabled serial interrupt stays raised.
THEOREM NoStorm == Spec => []NoInterruptStorm
<1>1. IInv => NoInterruptStorm
  BY DEF IInv, MaskFits, NoInterruptStorm, Pending
<1>2. QED
  BY <1>1, Invariance, PTL
-----------------------------------------------------------------------------
\* The line damages data, CRCs and answers at most, and the operator starts the host
\* when the board listens.
Orderly == LineFaults \subseteq {"payload", "reply"} /\ OperatorWaits

\* The answers the host acts upon, and their absence on the line.
Verdicts == {"ACK", "NAK"}
NoVerdict == \A i \in 1..Len(toHost) : toHost[i] \notin Verdicts

\* The service waits for a header, and none has come.
Awake == imr = {"RXRDY"} /\ cur.left = 0 /\ ~svc.eot
\* No character lies in the UART; or one that the service has still to notice.
Calm == csr \subseteq {"ENDRX", "RXBUFF"}
Noticed == "RXRDY" \in csr /\ csr \subseteq {"RXRDY", "ENDRX", "RXBUFF"}

\* The host is not started: the board listens or is about to.
Before ==
  /\ hpc = "closed" /\ packCounter = 0 /\ toDev = <<>> /\ NoVerdict
  /\ got = <<>> /\ csr = {} /\ cur.left = 0 /\ ~svc.eot
  /\ bpc \in {"banner", "read", "enable", "mask", "invite", "print", "wait"}
  /\ bpc \in {"mask", "invite", "print", "wait"} => imr = {"RXRDY"}

\* The verdict, if it is there, is that on the frame last sent.
VerdictFits ==
  \A i \in 1..Len(toHost) :
    /\ toHost[i] = "ACK" => Len(got) = packCounter
    /\ toHost[i] = "NAK" => Len(got) = packCounter - 1
    /\ \A j \in 1..Len(toHost) : toHost[i] \in Verdicts /\ toHost[j] \in Verdicts => i = j

\* No frame is under way: the host is about to send the first, or the verdict is
\* under way to it, or it has given up.
Resting ==
  /\ toDev = <<>> /\ Awake /\ Calm
  /\ hpc \in {"invite", "reply", "fatal", "quit"}
  /\ hpc = "invite" => packCounter = 0 /\ got = <<>> /\ NoVerdict
  /\ hpc = "reply" => packCounter \in 1..ImageBlocks /\ VerdictFits

\* The two characters that tell which block a frame carries.
IdOf(k) == Num(k % IdMod)
ComplementOf(k) == Num(IdMod - 1 - (k % IdMod))

\* The whole frame is on the line.
Announced(k) == toDev = Frame(k) /\ Awake /\ Calm

\* SOH waits in the UART.
Heard(k) ==
  /\ toDev = <<IdOf(k), ComplementOf(k), Data(k), Crc(k)>>
  /\ Awake /\ Noticed /\ rhr = Num(SOH)

\* The descriptor is on its way, its first or its second half.
Describing(k, i) ==
  /\ toDev = IF i = 0 THEN <<IdOf(k), ComplementOf(k), Data(k), Crc(k)>>
             ELSE <<ComplementOf(k), Data(k), Crc(k)>>
  /\ i = 1 => packetDesc[0] = IdOf(k)
  /\ cur = [area |-> "desc", at |-> i, left |-> 2 - i]
  /\ nxt = [at |-> Len(got), left |-> 2]
  /\ csr = {} /\ imr = {"ENDRX"} /\ svc.isPacketDesc /\ svc.dataSize = 1

\* The descriptor is there, and is right; it may have been looked at.
Described(k) ==
  /\ packetDesc[0] = IdOf(k) /\ packetDesc[1] = ComplementOf(k)
  /\ svc.dataSize = 1
  /\ IF svc.isPacketDesc THEN imr = {"ENDRX"} ELSE imr = {"RXBUFF"} /\ svc.packetStatus

\* The data go to RAM behind the blocks accepted, first or last of the two characters.
Loading(k, i) ==
  /\ Described(k) /\ csr = {"ENDRX"}
  /\ toDev = IF i = 0 THEN <<Data(k), Crc(k)>> ELSE <<Crc(k)>>
  /\ cur = [area |-> "mem", at |-> Len(got) + i, left |-> 2 - i] /\ nxt.left = 0
  /\ i = 1 => mem[Len(got)] \in {Data(k), Garbage}

\* The data and the CRC are in RAM, as they were sent or damaged.
Loaded(k) ==
  /\ Described(k) /\ csr = {"ENDRX", "RXBUFF"} /\ toDev = <<>> /\ cur.left = 0
  /\ mem[Len(got)] \in {Data(k), Garbage} /\ mem[Len(got) + 1] \in {Crc(k), Garbage}

\* Where the frame of block k is.
Stage(k) ==
  \/ Announced(k) \/ Heard(k)
  \/ \E i \in {0, 1} : Describing(k, i) \/ Loading(k, i)
  \/ Loaded(k)

\* A frame is under way to the service, and no verdict on it yet.
Sending ==
  /\ hpc \in {"reply", "fatal"} /\ NoVerdict /\ ~svc.eot
  /\ packCounter \in 1..ImageBlocks /\ Len(got) = packCounter - 1
  /\ Stage(packCounter)

\* Every block is accepted, and EOT follows.
Ending ==
  /\ hpc \in {"eot", "done"} /\ Len(got) = ImageBlocks
  /\ \A i \in 1..Len(toDev) : toDev[i] = Num(EOT)
  /\ cur.left = 0
  /\ imr = {} \/ (Awake /\ (Calm \/ (Noticed /\ rhr = Num(EOT))))

\* The download is reported complete, or the program has acted upon it.
Finished == tempo.callback = "XmodemComplete" \/ complete \/ bpc \in {"pause", "jump"}

\* Where the dialogue is.
Phase == Before \/ Resting \/ Sending \/ Ending

\* What the phases give: order, a late end, and a host started after the invitation.
PInv ==
  /\ AcceptedInOrder
  /\ hpc # "closed" => bpc \in {"wait", "pause", "jump"}
  /\ Finished => Len(got) = ImageBlocks
  /\ Phase

\* What is behind the head of a short sequence.
LEMMA Behind ==
  \A a, b, c, d, e :
    /\ Head(<<a, b, c, d, e>>) = a /\ Tail(<<a, b, c, d, e>>) = <<b, c, d, e>>
    /\ Head(<<b, c, d, e>>) = b /\ Tail(<<b, c, d, e>>) = <<c, d, e>>
    /\ Head(<<c, d, e>>) = c /\ Tail(<<c, d, e>>) = <<d, e>>
    /\ Head(<<d, e>>) = d /\ Tail(<<d, e>>) = <<e>>
    /\ Head(<<e>>) = e /\ Tail(<<e>>) = <<>>
    /\ <<a, b, c, d, e>> # <<>> /\ <<b, c, d, e>> # <<>> /\ <<c, d, e>> # <<>>
    /\ <<d, e>> # <<>> /\ <<e>> # <<>>
  OBVIOUS

\* Appending to nothing.
LEMMA Fresh == ASSUME NEW S, NEW s \in Seq(S), NEW x PROVE <<>> \o s = s /\ Append(<<>>, x) = <<x>>
BY ConcatEmptySeq

\* The answers, one fewer, one more, or the first one changed.
LEMMA AnswersAre ==
  ASSUME NEW s \in Seq(Reply)
  PROVE  /\ Len(s) \in Nat /\ DOMAIN s = 1..Len(s)
         /\ s # <<>> => /\ Len(s) > 0 /\ Len(Tail(s)) = Len(s) - 1 /\ Head(s) = s[1]
                        /\ \A i \in 1..Len(s) - 1 : Tail(s)[i] = s[i + 1]
         /\ \A x : /\ Len(Append(s, x)) = Len(s) + 1 /\ Append(s, x)[Len(s) + 1] = x
                   /\ \A i \in 1..Len(s) : Append(s, x)[i] = s[i]
         /\ \A x : s # <<>> => 
              /\ Len([s EXCEPT ![1] = x]) = Len(s) /\ [s EXCEPT ![1] = x][1] = x
              /\ \A i \in 1..Len(s) : i # 1 => [s EXCEPT ![1] = x][i] = s[i]
<1>1. Len(s) \in Nat /\ DOMAIN s = 1..Len(s)
  BY LenProperties
<1>2. ASSUME s # <<>>
      PROVE  /\ Len(s) > 0 /\ Len(Tail(s)) = Len(s) - 1 /\ Head(s) = s[1]
             /\ \A i \in 1..Len(s) - 1 : Tail(s)[i] = s[i + 1]
  BY <1>2, <1>1, HeadTailProperties, EmptySeq
<1>3. ASSUME NEW x
      PROVE  /\ Len(Append(s, x)) = Len(s) + 1 /\ Append(s, x)[Len(s) + 1] = x
             /\ \A i \in 1..Len(s) : Append(s, x)[i] = s[i]
  OBVIOUS
<1>4. ASSUME NEW x, s # <<>>
      PROVE  /\ Len([s EXCEPT ![1] = x]) = Len(s) /\ [s EXCEPT ![1] = x][1] = x
             /\ \A i \in 1..Len(s) : i # 1 => [s EXCEPT ![1] = x][i] = s[i]
  BY <1>4, <1>1, <1>2
<1>5. QED
  BY <1>1, <1>2, <1>3, <1>4

\* The answers under way change, and no verdict is new among them.
KeepsVerdicts ==
  /\ NoVerdict => NoVerdict'
  /\ VerdictFits /\ UNCHANGED <<got, packCounter>> => VerdictFits'

\* Reading an answer, spoiling one and adding one that is none keep the verdicts.
LEMMA AnswersChange ==
  ASSUME toHost \in Seq(Reply),
         \/ UNCHANGED toHost
         \/ toHost # <<>> /\ toHost' = Tail(toHost)
         \/ \E x : x \notin Verdicts /\ toHost' = Append(toHost, x)
         \/ toHost # <<>> /\ toHost' = [toHost EXCEPT ![1] = "TXT"]
  PROVE  KeepsVerdicts
<1>1. CASE UNCHANGED toHost
  BY <1>1 DEF KeepsVerdicts, NoVerdict, VerdictFits
<1>2. CASE toHost # <<>> /\ toHost' = Tail(toHost)
  <2>1. /\ Len(toHost) \in Nat /\ Len(toHost') = Len(toHost) - 1
        /\ \A i \in 1..Len(toHost) - 1 : toHost'[i] = toHost[i + 1]
    BY <1>2, AnswersAre
  <2>2. \A i \in 1..Len(toHost') : i + 1 \in 1..Len(toHost) /\ toHost'[i] = toHost[i + 1]
    BY <2>1
  <2>3. \A i, j \in 1..Len(toHost') : i + 1 = j + 1 => i = j
    BY <2>1
  <2>4. NoVerdict => NoVerdict'
    BY <2>2 DEF NoVerdict
  <2>5. ASSUME VerdictFits, UNCHANGED <<got, packCounter>> PROVE VerdictFits'
    BY <2>2, <2>3, <2>5 DEF VerdictFits
  <2>6. QED
    BY <2>4, <2>5 DEF KeepsVerdicts
<1>3. ASSUME NEW x, x \notin Verdicts, toHost' = Append(toHost, x) PROVE KeepsVerdicts
  <2>1. /\ Len(toHost) \in Nat /\ Len(toHost') = Len(toHost) + 1
        /\ toHost'[Len(toHost) + 1] = x
        /\ \A i \in 1..Len(toHost) : toHost'[i] = toHost[i]
    BY <1>3, AnswersAre
  <2>2. \A i \in 1..Len(toHost') :
          IF i \in 1..Len(toHost) THEN toHost'[i] = toHost[i] ELSE toHost'[i] = x
    BY <2>1
  <2>3. QED
    BY <1>3, <2>2 DEF KeepsVerdicts, NoVerdict, VerdictFits, Verdicts
<1>4. CASE toHost # <<>> /\ toHost' = [toHost EXCEPT ![1] = "TXT"]
  <2>1. /\ Len(toHost') = Len(toHost) /\ toHost'[1] = "TXT"
        /\ \A i \in 1..Len(toHost) : i # 1 => toHost'[i] = toHost[i]
    BY <1>4, AnswersAre
  <2>2. \A i \in 1..Len(toHost') :
          i \in 1..Len(toHost) /\ (toHost'[i] = toHost[i] \/ toHost'[i] = "TXT")
    BY <2>1
  <2>3. QED
    BY <2>2 DEF KeepsVerdicts, NoVerdict, VerdictFits, Verdicts
<1>5. QED
  BY <1>1, <1>2, <1>3, <1>4

\* The variables that tell where the frame under way is.
device == <<toDev, rhr, csr, imr, cur, nxt, packetDesc, mem, svc, got>>

\* A step that moves neither the frame nor the host keeps the phase.
LEMMA PhaseStays ==
  ASSUME Phase, KeepsVerdicts, UNCHANGED <<device, hpc, packCounter>>,
         hpc # "closed" \/ UNCHANGED bpc
  PROVE  Phase'
<1>1. CASE Before
  BY <1>1 DEF Before, KeepsVerdicts, Phase, device
<1>2. CASE Resting
  BY <1>2 DEF Resting, Awake, Calm, KeepsVerdicts, Phase, device
<1>3. CASE Sending
  BY <1>3 DEF Sending, Stage, Announced, Heard, Describing, Described, Loading, Loaded,
              Awake, Calm, Noticed, KeepsVerdicts, Phase, device
<1>4. CASE Ending
  BY <1>4 DEF Ending, Awake, Calm, Noticed, Phase, device
<1>5. QED
  BY <1>1, <1>2, <1>3, <1>4 DEF Phase

\* A turn of the host's loop keeps the phases.
LEMMA HostPhase ==
  ASSUME Orderly, IInv, PInv, HostOpen \/ HostTurn
  PROVE  PInv'
<1>1. UNCHANGED <<faults, uart, store, xm, boot>>
  BY DEF HostOpen, HostTurn, HostInvited, HostAcked, HostNaked, HostFatal, HostEnds
<1>2. UNCHANGED <<rhr, csr, imr, cur, nxt, packetDesc, mem, svc, sb, got, tempo, bpc, complete>>
  BY <1>1 DEF uart, store, xm, boot
<1>3. AcceptedInOrder' /\ (Finished' <=> Finished) /\ Len(got') = Len(got)
      /\ (Awake <=> Awake') /\ (Calm <=> Calm') /\ (Noticed <=> Noticed')
  BY <1>2 DEF PInv, AcceptedInOrder, Finished, Awake, Calm, Noticed
<1>4. hpc' # "closed" => bpc' \in {"wait", "pause", "jump"}
  BY <1>2 DEF PInv, HostOpen, HostTurn, HostInvited, HostAcked, HostNaked, HostFatal, HostEnds, Orderly
<1>5. SUFFICES Phase'
  BY <1>2, <1>3, <1>4 DEF PInv
<1>6. toHost \in Seq(Reply) /\ toDev \in Seq(Char) /\ got \in Seq(Char) /\ packCounter \in Nat
      /\ Len(got) \in Nat
  BY LenProperties DEF IInv, TypeOK, LineOK, XmOK, HostOK
<1>7. ImageBlocks \in Nat \ {0}
  BY XmodemAssumption
<1>8. CASE HostOpen
  <2>1. Before /\ bpc = "wait" /\ hpc' = "invite" /\ toHost' = <<>>
        /\ UNCHANGED <<packCounter, toDev>>
    BY <1>8 DEF HostOpen, PInv, Phase, Resting, Sending, Ending, Orderly
  <2>2. NoVerdict'
    BY <2>1 DEF NoVerdict
  <2>3. Resting'
    BY <1>2, <2>1, <2>2 DEF Before, Resting, Awake, Calm
  <2>4. QED
    BY <2>3 DEF Phase
<1>9. ASSUME HostTurn PROVE KeepsVerdicts /\ toHost # <<>> /\ toHost' = Tail(toHost)
  BY <1>6, <1>9, AnswersChange
  DEF HostTurn, HostInvited, HostAcked, HostNaked, HostFatal, HostEnds, HostReads
<1>10. \A k \in Nat : toDev = <<>> => toDev \o Frame(k) = Frame(k)
  BY FrameType, Fresh
<1>11. toDev = <<>> => Append(toDev, Num(EOT)) = <<Num(EOT)>>
  BY <1>6, Fresh
<1>12. ASSUME NEW k \in 1..ImageBlocks, toDev = <<>>, toDev' = toDev \o Frame(k), hpc' = "reply",
              packCounter' = k, Len(got) = k - 1, NoVerdict', Awake, Calm
       PROVE  Phase'
  <2>1. Announced(k)'
    BY <1>2, <1>3, <1>10, <1>12 DEF Announced
  <2>2. Sending'
    BY <1>2, <1>3, <1>12, <2>1 DEF Sending, Stage, Awake
  <2>3. QED
    BY <2>2 DEF Phase
<1>13. CASE HostInvited
  <2>1. Resting /\ packCounter = 0 /\ got = <<>> /\ NoVerdict /\ toDev = <<>> /\ Awake /\ Calm
    BY <1>13 DEF HostInvited, PInv, Phase, Before, Resting, Sending, Ending
  <2>2. toDev' = toDev \o Frame(1) /\ packCounter' = 1 /\ hpc' = "reply"
    BY <1>7, <1>13, <2>1 DEF HostInvited, NextBlock, HostHasMore
  <2>3. QED
    BY <1>7, <1>9, <1>12, <1>13, <2>1, <2>2 DEF KeepsVerdicts, HostTurn
<1>14. ASSUME hpc = "reply", toHost # <<>>, Head(toHost) \in Verdicts, HostTurn
       PROVE  /\ Resting /\ toDev = <<>> /\ Awake /\ Calm
              /\ packCounter \in 1..ImageBlocks /\ NoVerdict'
              /\ Len(got) = IF Head(toHost) = "ACK" THEN packCounter ELSE packCounter - 1
  <2>1. Head(toHost) = toHost[1] /\ 1 \in 1..Len(toHost) /\ Len(toHost) \in Nat
    BY <1>6, <1>14, AnswersAre
  <2>2. Resting /\ toDev = <<>> /\ Awake /\ Calm /\ packCounter \in 1..ImageBlocks /\ VerdictFits
    BY <1>14, <2>1 DEF PInv, Phase, Before, Resting, Sending, Ending, NoVerdict
  <2>3. Len(got) = IF Head(toHost) = "ACK" THEN packCounter ELSE packCounter - 1
    BY <1>14, <2>1, <2>2 DEF VerdictFits, Verdicts
  <2>4. \A i \in 1..Len(toHost) : i # 1 => toHost[i] \notin Verdicts
    BY <1>14, <2>1, <2>2 DEF VerdictFits
  <2>5. \A i \in 1..Len(toHost') :
          i + 1 \in 1..Len(toHost) /\ i + 1 # 1 /\ toHost'[i] = toHost[i + 1]
    <3>1. /\ Len(toHost') = Len(toHost) - 1
          /\ \A i \in 1..Len(toHost) - 1 : toHost'[i] = toHost[i + 1]
      <4>1. toHost # <<>> /\ toHost' = Tail(toHost)
        BY <1>9, <1>14
      <4>2. QED
        BY <1>6, <4>1, AnswersAre
    <3>2. QED
      BY <2>1, <3>1
  <2>6. QED
    BY <2>2, <2>3, <2>4, <2>5 DEF NoVerdict
<1>15. CASE HostAcked
  <2>1. /\ Resting /\ toDev = <<>> /\ Awake /\ Calm /\ NoVerdict'
        /\ packCounter \in 1..ImageBlocks /\ Len(got) = packCounter
    BY <1>9, <1>14, <1>15 DEF HostAcked, HostReads, Verdicts, HostTurn
  <2>2. CASE HostHasMore
    <3>1. toDev' = toDev \o Frame(packCounter + 1) /\ packCounter' = packCounter + 1
          /\ hpc' = "reply" /\ packCounter + 1 \in 1..ImageBlocks
      BY <1>7, <1>15, <2>1, <2>2 DEF HostAcked, NextBlock, HostHasMore
    <3>2. QED
      BY <1>12, <2>1, <3>1
  <2>3. CASE ~HostHasMore
    <3>1. toDev' = <<Num(EOT)>> /\ hpc' = "eot" /\ Len(got) = ImageBlocks
      BY <1>7, <1>11, <1>15, <2>1, <2>3 DEF HostAcked, NextBlock, HostHasMore
    <3>2. Ending'
      BY <1>2, <1>3, <2>1, <3>1 DEF Ending, Awake
    <3>3. QED
      BY <3>2 DEF Phase
  <2>4. QED
    BY <2>2, <2>3
<1>16. CASE HostNaked
  <2>1. /\ Resting /\ toDev = <<>> /\ Awake /\ Calm /\ NoVerdict'
        /\ packCounter \in 1..ImageBlocks /\ Len(got) = packCounter - 1
    BY <1>9, <1>14, <1>16 DEF HostNaked, HostReads, Verdicts, HostTurn
  <2>2. CASE RetriesOver
    <3>1. hpc' = "quit" /\ toDev' = <<>> /\ packCounter' = packCounter
      BY <1>16, <2>1, <2>2 DEF HostNaked
    <3>2. QED
      BY <1>3, <2>1, <3>1 DEF Resting, Phase
  <2>3. CASE ~RetriesOver
    <3>1. hpc' = "reply" /\ toDev' = toDev \o Frame(packCounter) /\ packCounter' = packCounter
      BY <1>16, <2>3 DEF HostNaked
    <3>2. QED
      BY <1>12, <2>1, <3>1
  <2>4. QED
    BY <2>2, <2>3
<1>17. CASE HostFatal
  <2>1. hpc = "reply" /\ hpc' = "fatal" /\ UNCHANGED <<packCounter, toDev>>
    BY <1>17 DEF HostFatal
  <2>2. CASE Resting
    BY <1>3, <2>1, <2>2 DEF Resting, Phase
  <2>3. CASE Sending
    <3>1. Stage(packCounter)' /\ NoVerdict'
      BY <1>2, <1>9, <1>17, <2>1, <2>3
      DEF Sending, Stage, Announced, Heard, Describing, Described, Loading, Loaded,
          Awake, Calm, Noticed, KeepsVerdicts, HostTurn
    <3>2. QED
      BY <1>2, <2>1, <2>3, <3>1 DEF Sending, Phase
  <2>4. QED
    BY <2>1, <2>2, <2>3 DEF PInv, Phase, Before, Ending
<1>18. CASE HostEnds
  <2>1. Ending /\ hpc' \in {"eot", "done"}
        /\ (toDev' = toDev \/ toDev' = Append(toDev, Num(EOT)))
    BY <1>18 DEF HostEnds, PInv, Phase, Before, Resting, Sending
  <2>2. \A i \in 1..Len(toDev') : toDev'[i] = Num(EOT)
    <3>1. CASE toDev' = toDev
      BY <2>1, <3>1 DEF Ending
    <3>2. CASE toDev' = Append(toDev, Num(EOT))
      <4>1. Len(toDev) \in Nat /\ Len(toDev') = Len(toDev) + 1
            /\ toDev'[Len(toDev) + 1] = Num(EOT)
            /\ \A i \in 1..Len(toDev) : toDev'[i] = toDev[i]
        BY <1>6, <3>2, LenProperties
      <4>2. \A i \in 1..Len(toDev') : i \in 1..Len(toDev) \/ i = Len(toDev) + 1
        BY <4>1
      <4>3. QED
        BY <2>1, <4>1, <4>2 DEF Ending
    <3>3. QED
      BY <2>1, <3>1, <3>2
  <2>3. Ending'
    BY <1>2, <1>3, <2>1, <2>2 DEF Ending
  <2>4. QED
    BY <2>3 DEF Phase
<1>19. QED
  BY <1>8, <1>13, <1>15, <1>16, <1>17, <1>18 DEF HostTurn

\* Numbers of frames, and what tells the kinds of characters apart.
LEMMA KindsDiffer ==
  /\ \A k \in Nat : /\ IdOf(k)[1] = "n" /\ ComplementOf(k)[1] = "n"
                    /\ Data(k)[1] = "d" /\ Crc(k)[1] = "c"
  /\ \A n : Num(n)[1] = "n"
  /\ Garbage[1] = "x"
BY DEF IdOf, ComplementOf, Num, Data, Crc, Garbage

\* The characters of a frame.
LEMMA FrameIs == \A k : Frame(k) = <<Num(SOH), IdOf(k), ComplementOf(k), Data(k), Crc(k)>>
BY DEF Frame, IdOf, ComplementOf

\* What of a frame is received in order takes it to the next stage.
LEMMA ReceiveSends ==
  ASSUME IInv, TypeOK', Sending, NEW b, Receive(b, {}),
         b = Head(toDev) \/ (b = Garbage /\ Head(toDev)[1] \in {"d", "c"})
  PROVE  Sending'
<1> DEFINE k == packCounter
           n == Len(got)
<1>1. /\ UNCHANGED <<hpc, packCounter, toHost, svc, got, imr>>
      /\ toDev # <<>> /\ toDev' = Tail(toDev) /\ CharTime
      /\ PdcMoves(b, {}) \/ UartHolds(b, {})
  BY DEF Receive, LineTakes, host, xm
<1>2. k \in Nat /\ n \in Nat /\ n < RegionBlocks /\ k \in 1..ImageBlocks /\ RegionBlocks \in Nat
  BY XmodemAssumption, LenProperties DEF Sending, IInv, TypeOK, HostOK, XmOK
<1>3. MemTop = RegionBlocks + 4
  BY XmodemAssumption DEF MemTop, DescSize, SohData, CrcSize
<1>4. /\ DOMAIN mem = 0..MemTop /\ DOMAIN packetDesc = 0..1
      /\ packetDesc = [i \in 0..1 |-> packetDesc[i]]
      /\ mem = [i \in 0..MemTop |-> mem[i]]
  BY DEF IInv, TypeOK, StoreOK
<1>5. SUFFICES Stage(k)'
  BY <1>1 DEF Sending, NoVerdict
<1>6. CASE Announced(k)
  <2>1. b = Num(SOH) /\ toDev' = <<IdOf(k), ComplementOf(k), Data(k), Crc(k)>>
    <3>1. toDev = <<Num(SOH), IdOf(k), ComplementOf(k), Data(k), Crc(k)>>
      BY <1>6, FrameIs DEF Announced
    <3>2. Head(toDev) = Num(SOH)
          /\ Tail(toDev) = <<IdOf(k), ComplementOf(k), Data(k), Crc(k)>>
      BY <3>1, Behind
    <3>3. Num(SOH)[1] = "n"
      BY KindsDiffer
    <3>4. QED
      BY <1>1, <3>2, <3>3
  <2>2. cur.left = 0 /\ imr = {"RXRDY"} /\ ~svc.eot /\ csr \subseteq {"ENDRX", "RXBUFF"}
    BY <1>6 DEF Announced, Awake, Calm
  <2>3. UartHolds(b, {})
    BY <1>1, <2>2 DEF PdcMoves
  <2>4. rhr' = b /\ csr' = csr \cup {"RXRDY"} /\ cur' = cur
    BY <2>2, <2>3 DEF UartHolds
  <2>5. Heard(k)'
    BY <1>1, <2>1, <2>2, <2>4 DEF Heard, Awake, Noticed
  <2>6. QED
    BY <1>1, <2>5 DEF Stage
<1>7. CASE Heard(k)
  BY <1>1, <1>7 DEF Heard, Awake, Noticed, CharTime
<1>8. CASE Describing(k, 0)
  <2>1. b = IdOf(k) /\ toDev' = <<ComplementOf(k), Data(k), Crc(k)>>
    BY <1>1, <1>2, <1>8, Behind, KindsDiffer DEF Describing
  <2>2. cur = [area |-> "desc", at |-> 0, left |-> 2]
    BY <1>8 DEF Describing
  <2>3. PdcMoves(b, {})
    BY <1>1, <2>2 DEF UartHolds
  <2>4. /\ packetDesc' = [packetDesc EXCEPT ![0] = b] /\ nxt' = nxt /\ csr' = csr
        /\ cur' = [area |-> "desc", at |-> 1, left |-> 1]
    <3>1. csr' = csr \cup {} \cup {} \cup {} /\ cur' = [cur EXCEPT !.at = @ + 1, !.left = @ - 1]
          /\ packetDesc' = [packetDesc EXCEPT ![0] = b] /\ nxt' = nxt
      BY <2>2, <2>3 DEF PdcMoves
    <3>2. csr' = csr
      BY <3>1
    <3>3. cur' = [area |-> cur.area, at |-> cur.at + 1, left |-> cur.left - 1]
      BY <3>1 DEF IInv, TypeOK, UartOK, Descriptor
    <3>4. cur' = [area |-> "desc", at |-> 1, left |-> 1]
      BY <1>2, <2>2, <3>3
    <3>5. QED
      BY <3>1, <3>2, <3>4
  <2>5. packetDesc'[0] = b
    BY <1>4, <2>4
  <2>6. Describing(k, 1)'
    BY <1>1, <1>8, <2>1, <2>4, <2>5 DEF Describing
  <2>7. QED
    BY <1>1, <2>6 DEF Stage
<1>9. CASE Describing(k, 1)
  <2>1. b = ComplementOf(k) /\ toDev' = <<Data(k), Crc(k)>>
    BY <1>1, <1>2, <1>9, Behind, KindsDiffer DEF Describing
  <2>2. cur = [area |-> "desc", at |-> 1, left |-> 1] /\ nxt = [at |-> n, left |-> 2]
        /\ csr = {}
    BY <1>9 DEF Describing
  <2>3. PdcMoves(b, {})
    BY <1>1, <2>2 DEF UartHolds
  <2>4. /\ packetDesc' = [packetDesc EXCEPT ![1] = b] /\ csr' = {"ENDRX"}
        /\ cur' = [area |-> "mem", at |-> n, left |-> 2] /\ nxt'.left = 0
    BY <2>2, <2>3 DEF PdcMoves
  <2>5. packetDesc'[1] = b /\ packetDesc'[0] = packetDesc[0]
    BY <1>4, <2>4
  <2>6. Loading(k, 0)'
    BY <1>1, <1>2, <1>9, <2>1, <2>4, <2>5 DEF Describing, Described, Loading
  <2>7. QED
    BY <1>1, <2>6 DEF Stage
<1>10. CASE Loading(k, 0)
  <2>1. b \in {Data(k), Garbage} /\ toDev' = <<Crc(k)>>
    BY <1>1, <1>2, <1>10, Behind, KindsDiffer DEF Loading
  <2>2. cur = [area |-> "mem", at |-> n, left |-> 2] /\ nxt.left = 0 /\ csr = {"ENDRX"}
    BY <1>2, <1>10 DEF Loading
  <2>3. PdcMoves(b, {})
    BY <1>1, <2>2 DEF UartHolds
  <2>4. /\ mem' = [mem EXCEPT ![n] = b] /\ nxt' = nxt /\ csr' = csr
        /\ packetDesc' = packetDesc /\ cur' = [area |-> "mem", at |-> n + 1, left |-> 1]
    <3>1. csr' = csr \cup {} \cup {} \cup {} /\ cur' = [cur EXCEPT !.at = @ + 1, !.left = @ - 1]
          /\ mem' = [mem EXCEPT ![n] = b] /\ packetDesc' = packetDesc /\ nxt' = nxt
      BY <2>2, <2>3 DEF PdcMoves
    <3>2. csr' = csr
      BY <3>1
    <3>3. cur' = [area |-> cur.area, at |-> cur.at + 1, left |-> cur.left - 1]
      BY <3>1 DEF IInv, TypeOK, UartOK, Descriptor
    <3>4. cur' = [area |-> "mem", at |-> n + 1, left |-> 1]
      BY <1>2, <2>2, <3>3
    <3>5. QED
      BY <3>1, <3>2, <3>4
  <2>5. mem'[n] = b
    BY <1>2, <1>3, <1>4, <2>4
  <2>6. Loading(k, 1)'
    BY <1>1, <1>2, <1>10, <2>1, <2>2, <2>4, <2>5 DEF Described, Loading
  <2>7. QED
    BY <1>1, <2>6 DEF Stage
<1>11. CASE Loading(k, 1)
  <2>1. b \in {Crc(k), Garbage} /\ toDev' = <<>>
    BY <1>1, <1>2, <1>11, Behind, KindsDiffer DEF Loading
  <2>2. cur = [area |-> "mem", at |-> n + 1, left |-> 1] /\ nxt.left = 0 /\ csr = {"ENDRX"}
    BY <1>2, <1>11 DEF Loading
  <2>3. PdcMoves(b, {})
    BY <1>1, <2>2 DEF UartHolds
  <2>4. /\ mem' = [mem EXCEPT ![n + 1] = b] /\ csr' = {"ENDRX", "RXBUFF"}
        /\ packetDesc' = packetDesc /\ cur'.left = 0
    BY <2>2, <2>3 DEF PdcMoves
  <2>5. mem'[n + 1] = b /\ mem'[n] = mem[n]
    BY <1>2, <1>3, <1>4, <2>4
  <2>6. Loaded(k)'
    BY <1>1, <1>2, <1>11, <2>1, <2>4, <2>5 DEF Described, Loading, Loaded
  <2>7. QED
    BY <1>1, <2>6 DEF Stage
<1>12. CASE Loaded(k)
  BY <1>1, <1>12 DEF Loaded
<1>13. QED
  BY <1>6, <1>7, <1>8, <1>9, <1>10, <1>11, <1>12 DEF Sending, Stage

\* So does what is received after the last block.
LEMMA ReceiveEnds ==
  ASSUME IInv, Ending, NEW b, Receive(b, {}),
         b = Head(toDev) \/ (b = Garbage /\ Head(toDev)[1] \in {"d", "c"})
  PROVE  Ending'
<1>1. /\ UNCHANGED <<hpc, svc, got, imr>>
      /\ toDev # <<>> /\ toDev' = Tail(toDev) /\ CharTime
      /\ PdcMoves(b, {}) \/ UartHolds(b, {})
  BY DEF Receive, LineTakes, host, xm
<1>2. /\ Len(toDev) \in Nat /\ Len(toDev) > 0 /\ Head(toDev) = toDev[1]
      /\ Len(toDev') = Len(toDev) - 1 
      /\ \A i \in 1..Len(toDev) - 1 : toDev'[i] = toDev[i + 1]
  BY <1>1, HeadTailProperties, EmptySeq, LenProperties DEF IInv, TypeOK, LineOK
<1>3. \A i \in 1..Len(toDev') : toDev'[i] = Num(EOT)
  <2>1. \A i \in 1..Len(toDev') : toDev'[i] = toDev[i + 1] /\ i + 1 \in 1..Len(toDev)
    BY <1>2
  <2>2. QED
    BY <2>1 DEF Ending
<1>4. b = Num(EOT)
  BY <1>2, KindsDiffer DEF Ending
<1>5. cur.left = 0 /\ UartHolds(b, {})
  BY <1>1 DEF Ending, PdcMoves
<1>6. CASE imr = {}
  BY <1>1, <1>3, <1>5, <1>6 DEF Ending, UartHolds
<1>7. CASE Awake
  <2>1. Calm /\ "RXRDY" \notin csr
    BY <1>1, <1>7 DEF Ending, Awake, Calm, Noticed, CharTime
  <2>2. csr' = csr \cup {"RXRDY"} /\ rhr' = Num(EOT) /\ cur' = cur
    BY <1>4, <1>5, <2>1 DEF UartHolds
  <2>3. Awake' /\ Noticed'
    BY <1>1, <1>7, <2>1, <2>2 DEF Awake, Calm, Noticed
  <2>4. QED
    BY <1>1, <1>3, <1>5, <2>2, <2>3 DEF Ending
<1>8. QED
  BY <1>6, <1>7 DEF Ending

\* A character on the line, and a fault, keep the phases.
LEMMA LinePhase ==
  ASSUME Orderly, IInv, TypeOK', PInv, CharArrives \/ Fault
  PROVE  PInv'
<1>1. UNCHANGED <<host, xm, boot>>
  BY DEF CharArrives, Fault, CharGarbled, CharLost, ReplyFails, Receive, LineTakes
<1>2. UNCHANGED <<hpc, packCounter, svc, sb, got, tempo, bpc, complete>>
  BY <1>1 DEF host, xm, boot
<1>3. AcceptedInOrder' /\ (Finished' <=> Finished) /\ Len(got') = Len(got)
  BY <1>2 DEF PInv, AcceptedInOrder, Finished
<1>4. SUFFICES Phase'
  BY <1>2, <1>3 DEF PInv
<1>5. CASE ReplyFails
  <2>1. toHost \in Seq(Reply) /\ toHost # <<>>
        /\ (toHost' = Tail(toHost) \/ toHost' = [toHost EXCEPT ![1] = "TXT"])
    BY <1>5 DEF ReplyFails, IInv, TypeOK, LineOK
  <2>2. KeepsVerdicts
    BY <2>1, AnswersChange
  <2>3. UNCHANGED <<device, hpc, packCounter, bpc>>
    BY <1>2, <1>5 DEF ReplyFails, device, uart, store
  <2>4. QED
    BY <2>2, <2>3, PhaseStays DEF PInv
<1>6. CASE CharArrives \/ CharGarbled
  <2>1. PICK b : /\ Receive(b, {})
                 /\ b = Head(toDev) \/ (b = Garbage /\ Head(toDev)[1] \in {"d", "c"})
    BY <1>6 DEF CharArrives, CharGarbled, MayFail, Orderly
  <2>2. toDev # <<>>
    BY <2>1 DEF Receive, LineTakes
  <2>3. Sending \/ Ending
    BY <2>2 DEF PInv, Phase, Before, Resting
  <2>4. QED
    BY <2>1, <2>3, ReceiveSends, ReceiveEnds DEF Phase
<1>7. ~CharLost
  BY DEF CharLost, MayFail, Orderly
<1>8. QED
  BY <1>5, <1>6, <1>7 DEF Fault

\* The verdict a frame gets is the only one under way.
LEMMA NewVerdict ==
  ASSUME toHost \in Seq(Reply), NoVerdict, NEW v,
         toHost' = Append(toHost, v) \/ toHost' = toHost \o <<"TXT", v>>
  PROVE  \A i \in 1..Len(toHost') :
           toHost'[i] \in Verdicts => i = Len(toHost') /\ toHost'[i] = v
<1>1. CASE toHost' = Append(toHost, v)
  <2>1. /\ Len(toHost) \in Nat /\ Len(toHost') = Len(toHost) + 1
        /\ toHost'[Len(toHost) + 1] = v
        /\ \A i \in 1..Len(toHost) : toHost'[i] = toHost[i]
    BY <1>1, AnswersAre
  <2>2. QED
    BY <2>1 DEF NoVerdict
<1>2. CASE toHost' = toHost \o <<"TXT", v>>
  <2>1. /\ Len(toHost) \in Nat /\ Len(toHost') = Len(toHost) + 2
        /\ toHost'[Len(toHost) + 1] = "TXT" /\ toHost'[Len(toHost) + 2] = v
        /\ \A i \in 1..Len(toHost) : toHost'[i] = toHost[i]
    BY <1>2, LenProperties
  <2>2. QED
    BY <2>1 DEF NoVerdict, Verdicts
<1>3. QED
  BY <1>1, <1>2

\* A verdict leaves the service waiting for a header.
LEMMA VerdictRests ==
  ASSUME toHost \in Seq(Reply), Sending, Loaded(packCounter), NEW v \in Verdicts,
         toHost' = Append(toHost, v) \/ toHost' = toHost \o <<"TXT", v>>,
         UNCHANGED <<host, toDev>>, AwaitHeader, svc'.eot = svc.eot,
         Len(got') = IF v = "ACK" THEN packCounter ELSE packCounter - 1
  PROVE  Resting'
<1>1. VerdictFits'
  <2>1. \A i \in 1..Len(toHost') :
          toHost'[i] \in Verdicts => i = Len(toHost') /\ toHost'[i] = v
    BY NewVerdict DEF Sending
  <2>2. packCounter' = packCounter
    BY DEF host
  <2>3. QED
    BY <2>1, <2>2 DEF VerdictFits, Verdicts
<1>2. csr' = {"ENDRX", "RXBUFF"} /\ cur'.left = 0 /\ toDev' = <<>>
  BY DEF AwaitHeader, Loaded
<1>3. imr' = {"RXRDY"}
  BY DEF AwaitHeader, Loaded, Described
<1>4. Awake' /\ Calm'
  BY <1>2, <1>3 DEF Sending, Awake, Calm
<1>5. QED
  BY <1>1, <1>2, <1>4 DEF Sending, Resting, host

\* The interrupts that come while a frame is received.
LEMMA IsrSends ==
  ASSUME IInv, PInv, Isr, Sending
  PROVE  PInv'
<1> DEFINE k == packCounter
           n == Len(got)
<1>1. UNCHANGED <<hpc, packCounter, toDev, packetDesc, mem, bpc, complete>> /\ SerialInterrupt /\ Pending
      /\ UNCHANGED host
  BY DEF Isr, IsrLineError, IsrHeader, IsrOtherHeader, IsrEot, IsrDescriptor,
         IsrAccept, IsrReject, ReadHandler, DescriptorDone, SerialInterrupt, store, boot, host
<1>2. ~Unarmed /\ ~svc.eot
  BY <1>1, InterruptFacts
<1>3. /\ k \in Nat /\ n \in Nat /\ n = k - 1 /\ k \in 1..ImageBlocks /\ k <= RegionBlocks
      /\ RegionBlocks \in Nat /\ ImageBlocks \in Nat
  BY XmodemAssumption, LenProperties DEF Sending, IInv, TypeOK, HostOK, XmOK
<1>4. sb.p = n /\ svc.pData = n /\ svc.packetId = k % IdMod /\ sb.sz = RegionBlocks - n
  <2>1. n + 1 = k /\ n < RegionBlocks
    BY <1>3
  <2>2. QED
    BY <1>2, <2>1 DEF IInv, CountersAgree, CursorFits
<1>5. ~Finished
  BY <1>3 DEF PInv
<1>6. NoVerdict /\ hpc \in {"reply", "fatal"} /\ toHost \in Seq(Reply) /\ got \in Seq(Char)
      /\ svc \in [packetId : 0..IdMod - 1, eot : BOOLEAN, isPacketDesc : BOOLEAN,
                  packetStatus : BOOLEAN, pData : Nat, dataSize : {0, SohData, StxData}]
  BY DEF Sending, IInv, TypeOK, LineOK, XmOK
<1>7. ASSUME UNCHANGED <<toHost, got>>, Stage(k)', ~svc'.eot, tempo' = Stopped(tempo) \/ tempo' = tempo
      PROVE  PInv'
  <2>1. Sending'
    BY <1>1, <1>7 DEF Sending, NoVerdict
  <2>2. tempo'.callback = tempo.callback
    BY <1>7 DEF Stopped, IInv, TypeOK, XmOK
  <2>3. QED
    BY <1>1, <1>5, <1>7, <2>1, <2>2 DEF PInv, AcceptedInOrder, Finished, Phase
<1>8. CASE Announced(k)
  BY <1>1, <1>8 DEF Announced, Awake, Calm, Pending
<1>9. CASE Heard(k)
  <2>1. "RXRDY" \in csr /\ csr \subseteq {"RXRDY", "ENDRX", "RXBUFF"} /\ "ERR" \notin csr
        /\ rhr = Num(SOH) /\ imr = {"RXRDY"}
    BY <1>9 DEF Heard, Awake, Noticed
  <2>2. Num(SOH) # Num(STX) /\ Num(SOH) # Num(EOT)
    BY DEF Num, SOH, STX, EOT
  <2>3. IsrHeader(SOH, SohData)
    BY <2>1, <2>2 DEF Isr, IsrLineError, IsrHeader, IsrOtherHeader, IsrEot, IsrDescriptor,
         IsrAccept, IsrReject, DescriptorDone
  <2>4. /\ svc' = [svc EXCEPT !.isPacketDesc = TRUE, !.pData = sb.p, !.dataSize = SohData]
        /\ cur' = [area |-> "desc", at |-> 0, left |-> DescSize]
        /\ nxt' = [at |-> sb.p, left |-> DataAndCrc(SohData)]
        /\ csr' = csr \ {"RXRDY", "ENDRX", "RXBUFF"}
        /\ imr' = (imr \ {"RXRDY"}) \cup {"ENDRX"}
        /\ tempo' = Stopped(tempo) /\ UNCHANGED <<toHost, got>>
    BY <2>3 DEF IsrHeader, ReceiveFrame
  <2>5. svc'.isPacketDesc /\ svc'.dataSize = 1 /\ ~svc'.eot
    BY <1>2, <1>6, <2>4 DEF SohData
  <2>6. csr' = {} /\ imr' = {"ENDRX"} /\ DescSize = 2 /\ DataAndCrc(SohData) = 2
    BY <2>1, <2>4 DEF DescSize, DataAndCrc, SohData, CrcSize
  <2>7. Describing(k, 0)'
    BY <1>1, <1>4, <1>9, <2>4, <2>5, <2>6 DEF Describing, Heard
  <2>8. QED
    BY <1>1, <1>7, <2>4, <2>5, <2>7 DEF Stage
<1>10. ASSUME NEW i \in {0, 1}, Describing(k, i) PROVE FALSE
  BY <1>1, <1>10 DEF Describing, Pending
<1>11. ASSUME Described(k), "RXRDY" \notin csr, "ERR" \notin csr, svc.isPacketDesc
       PROVE  /\ UNCHANGED <<rhr, csr, cur, nxt, toHost, got, tempo>> /\ ~svc'.eot
              /\ Described(k)'
  <2>1. IsrDescriptor
    BY <1>11 DEF Isr, IsrLineError, IsrHeader, IsrOtherHeader, IsrEot, IsrAccept, IsrReject
  <2>2. /\ svc' = [svc EXCEPT !.packetStatus = HeaderOk, !.isPacketDesc = FALSE]
        /\ imr' = (imr \ {"ENDRX"}) \cup {"RXBUFF"}
        /\ UNCHANGED <<rhr, csr, cur, nxt, toHost, got, tempo>>
    BY <2>1 DEF IsrDescriptor
  <2>3. HeaderOk
    <3>1. packetDesc[0] = <<"n", k % IdMod>> /\ packetDesc[1] = <<"n", IdMod - 1 - (k % IdMod)>>
      BY <1>11 DEF Described, IdOf, ComplementOf, Num
    <3>2. k % IdMod \in Int /\ IdMod \in Int
      BY <1>3, XmodemAssumption DEF EOT
    <3>3. QED
      BY <1>4, <3>1, <3>2 DEF HeaderOk
  <2>4. /\ svc'.packetStatus /\ ~svc'.isPacketDesc /\ svc'.dataSize = svc.dataSize
        /\ ~svc'.eot
    BY <1>2, <1>6, <2>2, <2>3
  <2>5. imr' = {"RXBUFF"}
    BY <1>11, <2>2 DEF Described
  <2>6. QED
    BY <1>1, <1>11, <2>2, <2>4, <2>5 DEF Described
<1>12. ASSUME NEW i \in {0, 1}, Loading(k, i) PROVE PInv'
  <2>1. Described(k) /\ csr = {"ENDRX"}
    BY <1>12 DEF Loading
  <2>2. svc.isPacketDesc
    BY <1>1, <2>1 DEF Described, Pending
  <2>3. /\ UNCHANGED <<rhr, csr, cur, nxt, toHost, got, tempo>> /\ ~svc'.eot /\ Described(k)'
    BY <1>11, <2>1, <2>2
  <2>4. Loading(k, i)'
    BY <1>1, <1>12, <2>3 DEF Loading
  <2>5. QED
    BY <1>1, <1>7, <2>3, <2>4 DEF Stage
<1>13. CASE Loaded(k) /\ svc.isPacketDesc
  <2>1. Described(k) /\ csr = {"ENDRX", "RXBUFF"}
    BY <1>13 DEF Loaded
  <2>2. /\ UNCHANGED <<rhr, csr, cur, nxt, toHost, got, tempo>> /\ ~svc'.eot /\ Described(k)'
    BY <1>11, <1>13, <2>1
  <2>3. Loaded(k)'
    BY <1>1, <1>13, <2>2 DEF Loaded
  <2>4. QED
    BY <1>1, <1>7, <2>2, <2>3 DEF Stage
<1>14. CASE Loaded(k) /\ ~svc.isPacketDesc
  <2>1. csr = {"ENDRX", "RXBUFF"} /\ mem[n] \in {Data(k), Garbage}
    BY <1>14 DEF Loaded
  <2>2. IsrAccept \/ IsrReject
    BY <1>14, <2>1 DEF Isr, IsrLineError, IsrHeader, IsrOtherHeader, IsrEot, IsrDescriptor, ReadHandler
  <2>3. AwaitHeader
    BY <2>2 DEF IsrAccept, IsrReject
  <2>4. CASE IsrReject
    <3>1. toHost' = Append(toHost, "NAK") /\ UNCHANGED <<svc, got, tempo>>
      BY <2>4 DEF IsrReject
    <3>2. Resting'
      BY <1>1, <1>3, <1>6, <1>14, <2>3, <3>1, VerdictRests DEF Verdicts
    <3>3. QED
      BY <1>1, <1>5, <3>1, <3>2 DEF PInv, AcceptedInOrder, Finished, Phase
  <2>5. CASE IsrAccept
    <3>1. /\ svc.dataSize = 1 /\ got' = Append(got, mem[n]) /\ mem[n][1] = "d"
          /\ svc' = [svc EXCEPT !.packetId = NextId, !.pData = @ + svc.dataSize]
          /\ FillRdBuffer(1, tempo, <<"TXT", "ACK">>)
      BY <1>4, <2>5 DEF IsrAccept, DataOk, SohData
    <3>2. mem[n] = Data(k) /\ svc'.eot = svc.eot
      BY <1>2, <1>6, <2>1, <3>1, KindsDiffer
    <3>3. /\ Len(got') = n + 1 /\ got'[n + 1] = Data(k)
          /\ \A i \in 1..n : got'[i] = got[i]
      BY <1>6, <3>1, <3>2, AppendProperties
    <3>4. AcceptedInOrder'
      <4>1. \A i \in 1..n + 1 : i \in 1..n \/ i = n + 1
        BY <1>3
      <4>2. QED
        BY <1>3, <3>3, <4>1 DEF PInv, AcceptedInOrder
    <3>5. toHost' = Append(toHost, "ACK") \/ toHost' = toHost \o <<"TXT", "ACK">>
      BY <3>1 DEF FillRdBuffer
    <3>6. Len(got') = k
      BY <1>3, <3>3
    <3>7. Resting'
      <4>1. "ACK" \in Verdicts
        BY DEF Verdicts
      <4>2. Len(got') = IF "ACK" = "ACK" THEN packCounter ELSE packCounter - 1
        BY <3>6
      <4>3. QED
        BY <1>1, <1>6, <1>14, <2>3, <3>2, <3>5, <4>1, <4>2, VerdictRests
    <3>8. Finished' => k = ImageBlocks
      <4>1. CASE CallbackDue(sb, 1)
        <5>1. RegionBlocks - n <= 1
          BY <1>3, <1>4, <4>1 DEF CallbackDue, Advance
        <5>2. QED
          BY <1>3, <5>1, XmodemAssumption
      <4>2. CASE ~CallbackDue(sb, 1)
        BY <1>1, <1>5, <3>1, <4>2 DEF FillRdBuffer, Finished
      <4>3. QED
        BY <4>1, <4>2
    <3>9. QED
      BY <1>1, <3>4, <3>6, <3>7, <3>8 DEF PInv, Phase
  <2>6. QED
    BY <2>2, <2>4, <2>5
<1>15. QED
  BY <1>8, <1>9, <1>10, <1>12, <1>13, <1>14 DEF Sending, Stage

\* The only other interrupt is that of the EOT.
LEMMA IsrPhase ==
  ASSUME IInv, PInv, Isr
  PROVE  PInv'
<1>1. UNCHANGED <<host, toDev, bpc, complete>> /\ SerialInterrupt /\ Pending
  BY DEF Isr, IsrLineError, IsrHeader, IsrOtherHeader, IsrEot, IsrDescriptor,
         IsrAccept, IsrReject, ReadHandler, DescriptorDone, SerialInterrupt, boot
<1>2. ~Before /\ ~Resting
  BY <1>1 DEF Pending, Before, Resting, Awake, Calm
<1>3. CASE Ending
  <2>1. Noticed /\ rhr = Num(EOT)
    BY <1>1, <1>3 DEF Ending, Pending, Awake, Calm
  <2>2. Num(EOT) # Num(SOH) /\ Num(EOT) # Num(STX)
    BY DEF Num, SOH, STX, EOT
  <2>3. IsrEot
    BY <2>1, <2>2 DEF Isr, IsrLineError, IsrHeader, IsrOtherHeader, IsrDescriptor, IsrAccept,
         IsrReject, DescriptorDone, Noticed
  <2>4. imr' = {} /\ cur' = cur /\ got' = got
    BY <2>3 DEF IsrEot, Deaf, IInv, TypeOK, UartOK, Interrupts
  <2>5. Ending'
    BY <1>1, <1>3, <2>4 DEF Ending, host
  <2>6. QED
    BY <1>1, <1>3, <2>4, <2>5 DEF PInv, AcceptedInOrder, Phase, Ending, host
<1>4. QED
  BY <1>2, <1>3, IsrSends DEF PInv, Phase

\* A tick changes the answers, the timer and the flag.
LEMMA TickPhase ==
  ASSUME IInv, PInv, Tick
  PROVE  PInv'
<1>1. UNCHANGED <<host, toDev, faults, uart, store, svc, sb, got, bpc>>
  BY DEF Tick
<1>2. UNCHANGED <<device, hpc, packCounter, bpc>>
  BY <1>1 DEF device, host, uart, store
<1>3. \/ toHost' = toHost
      \/ toHost' = Append(toHost, "TXT") \/ toHost' = Append(toHost, "C")
  BY DEF Tick
<1>4. KeepsVerdicts
  <2>1. toHost \in Seq(Reply) /\ "TXT" \notin Verdicts /\ "C" \notin Verdicts
    BY DEF IInv, TypeOK, LineOK, Verdicts
  <2>2. QED
    BY <1>3, <2>1, AnswersChange
<1>5. Phase'
  BY <1>2, <1>4, PhaseStays DEF PInv
<1>6. Finished' => Finished
  <2>1. tempo'.callback = tempo.callback
    BY DEF Tick, Ticked, Stopped, IInv, TypeOK, XmOK
  <2>2. complete' => complete \/ tempo.callback = "XmodemComplete"
    BY DEF Tick, Completes
  <2>3. QED
    BY <1>1, <2>1, <2>2 DEF Finished
<1>7. QED
  BY <1>1, <1>2, <1>5, <1>6 DEF PInv, AcceptedInOrder

\* A step of the main program: before the host is started it arms the service, and
\* afterwards it waits for the flag.
LEMMA BootPhase ==
  ASSUME IInv, PInv, Boot
  PROVE  PInv'
<1>1. UNCHANGED <<hpc, packCounter, toDev, rhr, csr, cur, nxt, packetDesc, mem, got, complete>>
  BY DEF Boot, BootPrompt, ReadSetup, ReadEnable, ReadMask, ReadInvite, ReadPrint,
         Downloaded, Jump, host, line, uart, store, xm
<1>2. toHost' = toHost \/ toHost' = Append(toHost, "TXT")
  BY DEF Boot, BootPrompt, ReadSetup, ReadEnable, ReadMask, ReadInvite, ReadPrint,
         Downloaded, Jump, line
<1>3. KeepsVerdicts
  <2>1. toHost \in Seq(Reply) /\ "TXT" \notin Verdicts
    BY DEF IInv, TypeOK, LineOK, Verdicts
  <2>2. QED
    BY <1>2, <2>1, AnswersChange
<1>4. AcceptedInOrder' /\ Len(got') = Len(got)
  BY <1>1 DEF PInv, AcceptedInOrder
<1>5. CASE Downloaded \/ Jump
  <2>1. UNCHANGED <<imr, svc, tempo>> /\ bpc' \in {"pause", "jump"} /\ Finished
    BY <1>5 DEF Downloaded, Jump, Main, uart, xm, Finished
  <2>2. hpc # "closed"
    <3>1. Len(got) # 0
      BY <2>1, XmodemAssumption DEF PInv
    <3>2. QED
      BY <3>1 DEF PInv, Phase, Before, Resting, Sending, Ending
  <2>3. UNCHANGED device
    BY <1>1, <2>1 DEF device
  <2>4. Phase'
    BY <1>1, <1>3, <2>2, <2>3, PhaseStays DEF PInv
  <2>5. QED
    BY <1>4, <2>1, <2>4 DEF PInv
<1>6. CASE ~(Downloaded \/ Jump)
  <2>1. bpc \in {"banner", "read", "enable", "mask", "invite", "print"}
    BY <1>6 DEF Boot, BootPrompt, ReadSetup, ReadEnable, ReadMask, ReadInvite, ReadPrint, Main
  <2>2. Before
    BY <2>1 DEF PInv, Phase, Resting, Sending, Ending
  <2>3. bpc' \in {"read", "enable", "mask", "invite", "print", "wait"}
    BY <1>6 DEF Boot, BootPrompt, ReadSetup, ReadEnable, ReadMask, ReadInvite, ReadPrint, Main
  <2>4. bpc' \in {"mask", "invite", "print", "wait"} => imr' = {"RXRDY"}
    BY <1>6, <2>2 DEF Boot, BootPrompt, ReadSetup, ReadEnable, ReadMask, ReadInvite, ReadPrint,
       Main, Before, IInv, MaskFits, uart
  <2>5. ~svc'.eot
    BY <1>6, <2>2 DEF Boot, BootPrompt, ReadSetup, ReadEnable, ReadMask, ReadInvite, ReadPrint,
       Before, xm, IInv, TypeOK, XmOK
  <2>6. Before'
    BY <1>1, <1>3, <2>2, <2>3, <2>4, <2>5 DEF Before, KeepsVerdicts
  <2>7. ~Finished'
    <3>1. ~Finished
      BY <2>2, XmodemAssumption DEF PInv, Before
    <3>2. tempo' = tempo \/ tempo'.callback = "SendC"
      BY <1>6 DEF Boot, BootPrompt, ReadSetup, ReadEnable, ReadMask, ReadInvite, ReadPrint,
         xm, Started
    <3>3. QED
      BY <1>1, <2>3, <3>1, <3>2 DEF Finished
  <2>8. QED
    BY <1>4, <2>6, <2>7 DEF PInv, Phase, Before
<1>7. QED
  BY <1>5, <1>6

\* The phases in the initial states and in every step, and so always.
LEMMA InitPhase == Init => PInv
<1> SUFFICES ASSUME Init PROVE PInv
  OBVIOUS
<1>1. Before /\ got = <<>>
  BY DEF Init, Before, NoVerdict
<1>2. ~Finished
  BY DEF Init, Finished, Created, NoCallback
<1>3. QED
  BY <1>1, <1>2 DEF PInv, AcceptedInOrder, Phase, Before

\* Every step keeps them.
LEMMA StepPhase == ASSUME Orderly PROVE IInv /\ PInv /\ [Next]_vars => PInv'
<1> SUFFICES ASSUME IInv, PInv, [Next]_vars PROVE PInv'
  OBVIOUS
<1>1. TypeOK'
  BY StepType DEF IInv
<1>2. CASE UNCHANGED vars
  <2>1. UNCHANGED <<device, hpc, packCounter, toHost, bpc, tempo, complete>>
    BY <1>2 DEF vars, host, line, uart, store, xm, boot, device
  <2>2. KeepsVerdicts
    BY <2>1, AnswersChange DEF IInv, TypeOK, LineOK
  <2>3. Phase'
    BY <2>1, <2>2, PhaseStays DEF PInv
  <2>4. QED
    BY <2>1, <2>3 DEF PInv, AcceptedInOrder, Finished, device
<1>3. QED
  BY <1>1, <1>2, HostPhase, LinePhase, IsrPhase, TickPhase, BootPhase DEF Next

\* So they hold in every state.
LEMMA PhasesFollow == ASSUME Orderly PROVE Spec => [](IInv /\ PInv)
<1>1. Init => PInv
  BY InitPhase
<1>2. IInv /\ PInv /\ [Next]_vars => PInv'
  BY StepPhase
<1>3. QED
  BY <1>1, <1>2, Invariance, PTL DEF Spec

\* The blocks the board accepts are those of the image in their order, whatever data,
\* CRCs and answers the line damages, however late the host and the handler are.
THEOREM InOrder == ASSUME Orderly PROVE Spec => []AcceptedInOrder
<1>1. IInv /\ PInv => AcceptedInOrder
  BY DEF PInv
<1>2. QED
  BY <1>1, PhasesFollow, PTL

\* RAM does not change any more once the completion flag is set.
THEOREM StaysStill == ASSUME Orderly PROVE Spec => ImageIsStill
<1>1. IInv /\ PInv /\ [Next]_vars => [complete => UNCHANGED mem]_vars
  <2> SUFFICES ASSUME IInv, PInv, [Next]_vars, complete PROVE UNCHANGED mem
    OBVIOUS
  <2>1. Len(got) = ImageBlocks /\ ImageBlocks # 0 /\ ImageBlocks \in Nat
    BY XmodemAssumption DEF PInv, Finished
  <2>2. ~Before /\ ~Sending
    BY <2>1 DEF Before, Sending, IInv, TypeOK, HostOK
  <2>3. cur.left = 0
    BY <2>2 DEF PInv, Phase, Resting, Ending, Awake
  <2>4. CASE CharArrives \/ Fault
    BY <2>3, <2>4 DEF CharArrives, Fault, CharGarbled, CharLost, ReplyFails, Receive, PdcMoves,
       UartHolds, store
  <2>5. CASE ~(CharArrives \/ Fault)
    BY <2>5 DEF Next, vars, HostOpen, HostTurn, HostInvited, HostAcked, HostNaked, HostFatal,
       HostEnds, Isr, IsrLineError, IsrHeader, IsrOtherHeader, IsrEot, IsrDescriptor, IsrAccept,
       IsrReject, ReadHandler, DescriptorDone, SerialInterrupt, Tick, Boot, BootPrompt, ReadSetup,
       ReadEnable, ReadMask, ReadInvite, ReadPrint, Downloaded, Jump, store
  <2>6. QED
    BY <2>4, <2>5
<1>2. QED
  BY <1>1, PhasesFollow, PTL DEF Spec, ImageIsStill

\* The blocks in place are those accepted.
StoredAll == Cardinality(Intact) = Len(got)

\* How many numbers there are up to n.
LEMMA CardinalityTo == \A n \in Nat : Cardinality(1..n) = n
BY FS_Interval

\* That the count is right follows from the order.
LEMMA AllIntact == IInv /\ PInv => StoredAll
<1> SUFFICES ASSUME IInv, PInv PROVE StoredAll
  OBVIOUS
<1>1. Len(got) \in Nat
  BY LenProperties DEF IInv, TypeOK, XmOK
<1>2. Intact = 1..Len(got)
  <2>1. \A j \in 1..Len(got) : mem[j - 1] = Data(j)
    BY DEF IInv, PInv, AcceptedInOrder, RamKeepsAccepted
  <2>2. \A i \in 1..Len(got) : \A j \in 1..i : j \in 1..Len(got)
    BY <1>1
  <2>3. QED
    BY <2>1, <2>2 DEF Intact
<1>3. QED
  BY <1>1, <1>2, CardinalityTo, Zenon DEF StoredAll

\* The board and the host as the promise knows them.
BoardOf == IF bpc \in {"pause", "jump"} THEN "starting" ELSE "loading"
HostOf == CASE hpc = "done" -> "success"
            [] hpc \in {"fatal", "quit"} -> "failure"
            [] OTHER -> "sending"

\* Every step of the download is one of the promise, or none.
LEMMA StepPromise ==
  ASSUME IInv, PInv, StoredAll, StoredAll', [Next]_vars
  PROVE  [Promise!Next]_(Promise!vars)
<1>1. /\ Cardinality(Intact) = Len(got) /\ Cardinality(Intact') = Len(got')
      /\ Len(got) \in Nat /\ ImageBlocks \in Nat /\ RegionBlocks \in Nat
  BY LenProperties, XmodemAssumption DEF StoredAll, Intact, IInv, TypeOK, XmOK
<1>2. ASSUME Len(got') = Len(got), BoardOf' = BoardOf, HostOf' = HostOf
      PROVE  [Promise!Next]_(Promise!vars)
  BY <1>1, <1>2 DEF Promise!vars, BoardOf, HostOf
<1>3. CASE HostOpen \/ HostTurn
  <2>1. Len(got') = Len(got) /\ BoardOf' = BoardOf
    BY <1>3 DEF HostOpen, HostTurn, HostInvited, HostAcked, HostNaked, HostFatal, HostEnds, xm, boot, BoardOf
  <2>2. CASE HostEnds /\ hpc' = "done"
    <3>1. hpc = "eot" /\ Len(got) = ImageBlocks
      BY <2>2 DEF HostEnds, PInv, Phase, Before, Resting, Sending, Ending
    <3>2. HostOf = "sending" /\ HostOf' = "success"
      BY <2>2, <3>1 DEF HostOf
    <3>3. Promise!Report
      BY <1>1, <2>1, <3>1, <3>2 DEF Promise!Report, BoardOf, HostOf
    <3>4. QED
      BY <3>3 DEF Promise!Next
  <2>3. CASE hpc = "reply" /\ hpc' \in {"fatal", "quit"}
    <3>1. HostOf = "sending" /\ HostOf' = "failure"
      BY <2>3 DEF HostOf
    <3>2. Promise!GiveUp
      BY <1>1, <2>1, <3>1 DEF Promise!GiveUp, BoardOf, HostOf
    <3>3. QED
      BY <3>2 DEF Promise!Next
  <2>4. CASE ~(HostEnds /\ hpc' = "done") /\ ~(hpc = "reply" /\ hpc' \in {"fatal", "quit"})
    <3>1. hpc \in {"closed", "invite", "reply", "eot"} /\ hpc' \in {"invite", "reply", "eot"}
      BY <1>3, <2>4 DEF HostOpen, HostTurn, HostInvited, HostAcked, HostNaked, HostFatal, HostEnds,
         NextBlock
    <3>2. HostOf' = HostOf
      BY <3>1 DEF HostOf
    <3>3. QED
      BY <1>2, <2>1, <3>2
  <2>5. QED
    BY <2>2, <2>3, <2>4
<1>4. CASE Downloaded
  <2>1. Len(got') = Len(got) /\ BoardOf = "loading" /\ BoardOf' = "starting" /\ HostOf' = HostOf
        /\ Len(got) = ImageBlocks
    BY <1>4 DEF Downloaded, Main, xm, host, BoardOf, HostOf, PInv, Finished
  <2>2. Promise!Start
    BY <1>1, <2>1 DEF Promise!Start, BoardOf, HostOf
  <2>3. QED
    BY <2>2 DEF Promise!Next
<1>5. CASE IsrAccept
  <2>1. UNCHANGED <<bpc, hpc>> /\ SerialInterrupt /\ Pending /\ got' = Append(got, mem[svc.pData])
        /\ "RXRDY" \notin csr
    BY <1>5 DEF IsrAccept, DescriptorDone, ReadHandler, SerialInterrupt, boot, host
  <2>2. Sending
    BY <2>1 DEF PInv, Phase, Before, Resting, Ending, Awake, Calm, Noticed, Pending
  <2>3. Len(got) < ImageBlocks /\ Len(got') = Len(got) + 1
    <3>1. Len(got') = Len(got) + 1
      BY <2>1 DEF IInv, TypeOK, XmOK
    <3>2. QED
      BY <1>1, <2>2, <3>1 DEF Sending, IInv, TypeOK, HostOK
  <2>4. BoardOf = "loading" /\ BoardOf' = BoardOf /\ HostOf' = HostOf
    BY <1>1, <2>1, <2>3 DEF BoardOf, HostOf, PInv, Finished
  <2>5. Promise!Store
    BY <1>1, <2>3, <2>4 DEF Promise!Store, BoardOf, HostOf
  <2>6. QED
    BY <2>5 DEF Promise!Next
<1>6. CASE UNCHANGED vars
  <2>1. Len(got') = Len(got) /\ BoardOf' = BoardOf /\ HostOf' = HostOf
    BY <1>6 DEF vars, host, xm, boot, BoardOf, HostOf
  <2>2. QED
    BY <1>2, <2>1
<1>7. CASE CharArrives \/ Fault \/ Tick
  <2>1. UNCHANGED <<got, hpc, bpc>>
    BY <1>7 DEF CharArrives, Fault, CharGarbled, CharLost, ReplyFails, Receive, LineTakes, Tick, host, xm, boot
  <2>2. QED
    BY <1>2, <2>1 DEF BoardOf, HostOf
<1>8. CASE Isr /\ ~IsrAccept
  <2>1. UNCHANGED <<got, hpc, bpc>>
    BY <1>8 DEF Isr, IsrLineError, IsrHeader, IsrOtherHeader, IsrEot, IsrDescriptor,
       IsrReject, ReadHandler, DescriptorDone, SerialInterrupt, boot, host, xm
  <2>2. QED
    BY <1>2, <2>1 DEF BoardOf, HostOf
<1>9. CASE Boot /\ ~Downloaded
  <2>1. UNCHANGED <<got, hpc>> /\ BoardOf' = BoardOf
    BY <1>9 DEF Boot, BootPrompt, ReadSetup, ReadEnable, ReadMask, ReadInvite, ReadPrint, Jump, Main,
       host, xm, BoardOf
  <2>2. QED
    BY <1>2, <2>1 DEF HostOf
<1>10. QED
  BY <1>3, <1>4, <1>5, <1>6, <1>7, <1>8, <1>9 DEF Next

\* The download keeps the promise of module Download: its blocks reach RAM one after the
\* other, the board starts the image when all are there, and the host reports success
\* only then.
THEOREM Implements == ASSUME Orderly PROVE Spec => KeepsPromise
<1>1. Init => Promise!Init
  <2> SUFFICES ASSUME Init PROVE Promise!Init
    OBVIOUS
  <2>1. Cardinality(Intact) = 0
    BY AllIntact, InitSafe, InitPhase DEF Init, StoredAll
  <2>2. QED
    BY <2>1 DEF Init, Promise!Init
<1>2. IInv /\ PInv /\ StoredAll /\ StoredAll' /\ [Next]_vars => [Promise!Next]_(Promise!vars)
  BY StepPromise
<1>3. QED
  BY <1>1, <1>2, AllIntact, PhasesFollow, PTL DEF Spec, KeepsPromise, Promise!Spec

(* One verdict at a time: what LockStep asks, if no answer is lost.         *)

-----------------------------------------------------------------------------
\* The timer sends no invitation.
Silent == tempo.flag = "DIS" \/ tempo.callback # "SendC"

\* It was stopped by the first header, at the latest.
TimerQuiet ==
  packCounter = 0 \/ (packCounter = 1 /\ imr = {"RXRDY"} /\ toDev # <<>>) \/ Silent

\* Completion is due to a full buffer or to EOT.
FullOrEnded == Finished => Len(got) >= RegionBlocks \/ svc.eot

\* An ACK is the last answer under way while the host waits for it, unless it comes with
\* the message that the buffer is full, which the host then reads first.
AckAlone ==
  \A i \in 1..Len(toHost) : hpc = "reply" /\ toHost[i] = "ACK" =>
    IF Len(got) < RegionBlocks THEN i = Len(toHost) ELSE i # 1

\* The answers behind the first one are none.
FirstOnly == toHost # <<>> /\ \A i \in 1..Len(toHost) : toHost[i] \in Verdicts => i = 1

\* EOT is sent once and answered once, where room is left; it may come again when its
\* answer is lost, and nobody answers.
EndsOnce ==
  /\ hpc = "eot" =>
       /\ packCounter > ImageBlocks
       /\ IF svc.eot
          THEN \/ toDev = <<>> /\ FirstOnly /\ toHost[1] = "ACK"
               \/ ImageBlocks < RegionBlocks /\ NoVerdict
          ELSE /\ Len(got) < RegionBlocks /\ toHost = <<>>
               /\ toDev = <<>> \/ (toDev = <<Num(EOT)>> /\ Calm)
  /\ hpc = "done" => toDev = <<>> /\ svc.eot

\* What keeps one verdict apart from the next.
LInv == TimerQuiet /\ FullOrEnded /\ AckAlone /\ EndsOnce

\* Who appends to the answers leaves the first one as it is.
LEMMA FirstStays ==
  ASSUME NEW s \in Seq(Reply), NEW x, NEW y
  PROVE  /\ Append(s, x) # <<>> /\ s \o <<x, y>> # <<>>
         /\ s # <<>> => Append(s, x)[1] = s[1] /\ (s \o <<x, y>>)[1] = s[1]
         /\ s = <<>> => Append(s, x) = <<x>> /\ s \o <<x, y>> = <<x, y>>
<1>1. Len(s) \in Nat /\ (s # <<>> => Len(s) > 0)
  BY LenProperties, EmptySeq
<1>2. s = <<>> => Append(s, x) = <<x>> /\ s \o <<x, y>> = <<x, y>>
  OBVIOUS
<1>3. ASSUME s # <<>> PROVE Append(s, x)[1] = s[1] /\ (s \o <<x, y>>)[1] = s[1]
  BY <1>1, <1>3
<1>4. Len(Append(s, x)) = Len(s) + 1 /\ Len(s \o <<x, y>>) = Len(s) + 2
  OBVIOUS
<1>5. QED
  BY <1>1, <1>2, <1>3, <1>4

\* Where no verdict is under way, the first answer is none.
LEMMA NoFirst ==
  ASSUME toHost \in Seq(Reply), NoVerdict, toHost # <<>>
  PROVE  toHost[1] \notin Verdicts
<1>1. 1 \in 1..Len(toHost)
  BY AnswersAre
<1>2. QED
  BY <1>1 DEF NoVerdict

\* Each answer is an old one or one of those appended.
LEMMA AnswersAdded ==
  ASSUME NEW s \in Seq(Reply), NEW x, NEW y
  PROVE  /\ \A i \in 1..Len(Append(s, x)) :
              (i \in 1..Len(s) /\ Append(s, x)[i] = s[i]) \/ (i = Len(Append(s, x)) /\ Append(s, x)[i] = x)
         /\ \A i \in 1..Len(s \o <<x, y>>) :
              \/ i \in 1..Len(s) /\ (s \o <<x, y>>)[i] = s[i]
              \/ i = Len(s) + 1 /\ (s \o <<x, y>>)[i] = x
              \/ i = Len(s) + 2 /\ (s \o <<x, y>>)[i] = y
<1>1. Len(s) \in Nat /\ Len(Append(s, x)) = Len(s) + 1 /\ Len(s \o <<x, y>>) = Len(s) + 2
  BY LenProperties
<1>2. ASSUME NEW i \in 1..Len(Append(s, x))
      PROVE  (i \in 1..Len(s) /\ Append(s, x)[i] = s[i]) \/ (i = Len(Append(s, x)) /\ Append(s, x)[i] = x)
  BY <1>1, <1>2
<1>3. ASSUME NEW i \in 1..Len(s \o <<x, y>>)
      PROVE  \/ i \in 1..Len(s) /\ (s \o <<x, y>>)[i] = s[i]
             \/ i = Len(s) + 1 /\ (s \o <<x, y>>)[i] = x
             \/ i = Len(s) + 2 /\ (s \o <<x, y>>)[i] = y
  BY <1>1, <1>3
<1>4. QED
  BY <1>2, <1>3

\* A message at the end adds no verdict.
LEMMA MessageAdded ==
  ASSUME toHost \in Seq(Reply), NEW x, x \notin Verdicts, toHost' = Append(toHost, x)
  PROVE  (NoVerdict => NoVerdict') /\ (FirstOnly => FirstOnly' /\ toHost'[1] = toHost[1])
<1>1. \A i \in 1..Len(toHost') :
        (i \in 1..Len(toHost) /\ toHost'[i] = toHost[i]) \/ toHost'[i] = x
  BY AnswersAdded
<1>2. toHost # <<>> => toHost' # <<>> /\ toHost'[1] = toHost[1]
  BY FirstStays
<1>3. QED
  BY <1>1, <1>2 DEF NoVerdict, FirstOnly

\* The service rests, and the timer with it, where an ACK is under way.
LEMMA AckRests ==
  ASSUME IInv, PInv, LInv, hpc = "reply", NEW i \in 1..Len(toHost), toHost[i] = "ACK"
  PROVE  /\ Resting /\ ~svc.eot /\ Silent /\ Len(got) = packCounter
         /\ i = 1 => Len(got) < RegionBlocks
         /\ Len(got) < RegionBlocks => i = Len(toHost) /\ ~Finished
<1>1. toHost \in Seq(Reply) /\ "ACK" \in Verdicts /\ Len(got) \in Nat /\ RegionBlocks \in Nat
      /\ ImageBlocks \in Nat
  BY LenProperties, XmodemAssumption DEF IInv, TypeOK, LineOK, XmOK, Verdicts
<1>2. Resting
  BY <1>1 DEF PInv, Phase, Before, Sending, Ending, NoVerdict
<1>3. ~svc.eot /\ Silent /\ Len(got) = packCounter
  BY <1>2, XmodemAssumption DEF Resting, VerdictFits, Awake, LInv, TimerQuiet
<1>4. QED
  BY <1>1, <1>2, <1>3 DEF LInv, AckAlone, FullOrEnded

\* One answer that is read leaves none.
LEMMA OnlyOne ==
  ASSUME toHost \in Seq(Reply), Len(toHost) = 1, toHost' = Tail(toHost)
  PROVE  toHost' = <<>>
<1>1. toHost # <<>> /\ Len(toHost') = 0
  BY AnswersAre
<1>2. toHost' \in Seq(Reply)
  BY <1>1, HeadTailProperties
<1>3. QED
  BY <1>1, <1>2, EmptySeq

\* A turn of the host keeps the verdicts apart: it sends only what has been asked for.
LEMMA HostLocks ==
  ASSUME IInv, PInv, LInv, TypeOK', PInv', HostOpen \/ HostTurn
  PROVE  LInv'
<1>1. UNCHANGED <<rhr, csr, imr, cur, nxt, svc, sb, got, tempo, bpc, complete>>
  BY DEF HostOpen, HostTurn, HostInvited, HostAcked, HostNaked, HostFatal, HostEnds, uart, xm, boot
<1>2. FullOrEnded' /\ (Silent' <=> Silent)
  BY <1>1 DEF LInv, FullOrEnded, Finished, Silent
<1>3. toHost \in Seq(Reply) /\ toHost' \in Seq(Reply) /\ toDev \in Seq(Char) /\ packCounter \in Nat
      /\ ImageBlocks \in Nat \ {0}
  BY XmodemAssumption DEF IInv, TypeOK, LineOK, HostOK
<1>4. ASSUME NoVerdict' PROVE AckAlone'
  BY <1>4 DEF NoVerdict, AckAlone, Verdicts
<1>5. CASE HostOpen
  BY <1>2, <1>5 DEF HostOpen, PInv, Phase, Before, Resting, Sending, Ending, LInv, TimerQuiet,
     AckAlone, EndsOnce
<1>6. ASSUME NEW k \in Nat PROVE toDev \o Frame(k) # <<>>
  <2>1. Frame(k) # <<>>
    <3>1. Frame(k) = <<Num(SOH), IdOf(k), ComplementOf(k), Data(k), Crc(k)>>
      BY FrameIs
    <3>2. QED
      BY <3>1
  <2>2. QED
    BY <1>3, <2>1, FrameType, ConcatEqualIffEmpty
<1>7. CASE HostInvited
  <2>1. packCounter = 0 /\ imr = {"RXRDY"}
    BY <1>7 DEF HostInvited, PInv, Phase, Before, Resting, Sending, Ending, Awake
  <2>2. packCounter' = 1 /\ hpc' = "reply" /\ toDev' # <<>>
    <3>1. packCounter' = 1 /\ hpc' = "reply" /\ toDev' = toDev \o Frame(1)
      BY <1>3, <1>7, <2>1 DEF HostInvited, NextBlock, HostHasMore
    <3>2. toDev \o Frame(1) # <<>>
      BY <1>6
    <3>3. QED
      BY <3>1, <3>2, Zenon
  <2>3. Sending'
    BY <2>2 DEF PInv, Phase, Before, Resting, Ending
  <2>4. QED
    BY <1>1, <1>2, <1>4, <2>1, <2>2, <2>3 DEF Sending, LInv, TimerQuiet, EndsOnce
<1>8. CASE HostAcked
  <2>1. hpc = "reply" /\ 1 \in 1..Len(toHost) /\ toHost[1] = "ACK" /\ toHost' = Tail(toHost)
    BY <1>3, <1>8, AnswersAre DEF HostAcked, HostReads
  <2>2. Resting /\ ~svc.eot /\ Silent /\ 1 = Len(toHost) /\ Len(got) < RegionBlocks
    BY <2>1, AckRests
  <2>3. toHost' = <<>> /\ toDev = <<>> /\ Calm'
    BY <1>1, <1>3, <2>1, <2>2, OnlyOne DEF Resting, Calm
  <2>4. CASE HostHasMore
    BY <1>2, <1>8, <2>2, <2>3, <2>4
    DEF HostAcked, NextBlock, LInv, TimerQuiet, AckAlone, EndsOnce
  <2>5. CASE ~HostHasMore
    <3>1. toDev' = <<Num(EOT)>> /\ hpc' = "eot" /\ packCounter' > ImageBlocks
      BY <1>3, <1>8, <2>3, <2>5, Fresh DEF HostAcked, NextBlock, HostHasMore
    <3>2. QED
      BY <1>1, <1>2, <2>2, <2>3, <3>1 DEF LInv, TimerQuiet, AckAlone, EndsOnce
  <2>6. QED
    BY <2>4, <2>5
<1>9. CASE HostNaked
  <2>1. hpc = "reply" /\ toHost # <<>> /\ toHost[1] = "NAK" /\ packCounter' = packCounter
    BY <1>3, <1>9, AnswersAre DEF HostNaked, HostReads
  <2>2. Resting
    <3>1. toHost[1] \in Verdicts
      BY <2>1 DEF Verdicts
    <3>2. QED
      BY <1>3, <2>1, <3>1, NoFirst DEF PInv, Phase, Before, Sending, Ending
  <2>3. Silent
    BY <2>1, <2>2 DEF Resting, LInv, TimerQuiet
  <2>4. CASE hpc' = "quit"
    BY <1>2, <2>3, <2>4 DEF LInv, TimerQuiet, AckAlone, EndsOnce
  <2>5. CASE hpc' # "quit"
    <3>1. hpc' = "reply" /\ toDev' # <<>>
      BY <1>3, <1>6, <1>9, <2>1, <2>5 DEF HostNaked
    <3>2. Sending'
      BY <3>1 DEF PInv, Phase, Before, Resting, Ending
    <3>3. QED
      BY <1>2, <1>4, <2>3, <3>1, <3>2 DEF Sending, LInv, TimerQuiet, EndsOnce
  <2>6. QED
    BY <2>4, <2>5
<1>10. CASE HostFatal
  BY <1>1, <1>2, <1>10 DEF HostFatal, LInv, TimerQuiet, AckAlone, EndsOnce
<1>11. CASE HostEnds
  <2>1. hpc = "eot" /\ toHost # <<>>
    BY <1>11 DEF HostEnds, HostReads
  <2>2. svc.eot /\ ((toDev = <<>> /\ toHost[1] = "ACK") \/ (ImageBlocks < RegionBlocks /\ NoVerdict))
    BY <2>1 DEF LInv, EndsOnce
  <2>3. Head(toHost) = toHost[1] /\ toHost' = Tail(toHost) /\ packCounter' = packCounter
    BY <1>3, <1>11, <2>1, AnswersAre DEF HostEnds, HostReads
  <2>4. Silent /\ packCounter > ImageBlocks
    BY <1>3, <2>1 DEF LInv, TimerQuiet, EndsOnce
  <2>5. CASE toHost[1] = "ACK"
    <3>1. toDev' = <<>> /\ hpc' = "done"
      BY <1>3, <1>11, <2>1, <2>2, <2>3, <2>5, NoFirst DEF HostEnds, Verdicts
    <3>2. QED
      BY <1>1, <1>2, <2>2, <2>4, <3>1 DEF LInv, TimerQuiet, AckAlone, EndsOnce
  <2>6. CASE toHost[1] # "ACK"
    <3>1. hpc' = "eot" /\ ImageBlocks < RegionBlocks /\ NoVerdict
      BY <1>11, <2>1, <2>2, <2>3, <2>6 DEF HostEnds
    <3>2. NoVerdict'
      BY <1>3, <2>1, <2>3, <3>1, AnswersChange DEF KeepsVerdicts
    <3>3. QED
      BY <1>1, <1>2, <1>4, <2>2, <2>3, <2>4, <3>1, <3>2 DEF LInv, TimerQuiet, EndsOnce
  <2>7. QED
    BY <2>5, <2>6
<1>12. QED
  BY <1>5, <1>7, <1>8, <1>9, <1>10, <1>11 DEF HostTurn

\* No answer is lost, or the image does not fill the region: the message on a full
\* buffer comes between the last block and its ACK.
RoomLeft == "reply" \notin LineFaults \/ ImageBlocks < RegionBlocks

\* An answer that is lost or spoilt leaves the others apart.
LEMMA LossLocks ==
  ASSUME IInv, PInv, LInv, ImageBlocks < RegionBlocks, ReplyFails
  PROVE  LInv'
<1>1. /\ UNCHANGED <<hpc, packCounter, toDev, svc, sb, got, tempo, bpc, complete, imr, csr>>
      /\ toHost # <<>> /\ (toHost' = Tail(toHost) \/ toHost' = [toHost EXCEPT ![1] = "TXT"])
  BY DEF ReplyFails, host, uart, xm, boot
<1>2. toHost \in Seq(Reply) /\ Len(toHost) \in Nat /\ ImageBlocks \in Nat /\ RegionBlocks \in Nat
      /\ Len(got) \in Nat /\ packCounter \in Nat
  BY XmodemAssumption, LenProperties DEF IInv, TypeOK, LineOK, XmOK, HostOK
<1>3. TimerQuiet' /\ FullOrEnded'
  BY <1>1 DEF LInv, TimerQuiet, FullOrEnded, Finished, Silent
<1>4. ASSUME NEW i \in 1..Len(toHost'), toHost'[i] \in Verdicts
      PROVE  \E j \in 1..Len(toHost) :
               /\ toHost[j] = toHost'[i] /\ j # 1
               /\ j = Len(toHost) => i = Len(toHost')
  <2>1. CASE toHost' = Tail(toHost)
    <3>1. Len(toHost') = Len(toHost) - 1 /\ toHost'[i] = toHost[i + 1]
      BY <1>1, <1>2, <1>4, <2>1, AnswersAre
    <3>2. i + 1 \in 1..Len(toHost) /\ i + 1 # 1 /\ (i + 1 = Len(toHost) => i = Len(toHost'))
      BY <1>2, <1>4, <3>1
    <3>3. QED
      BY <3>1, <3>2
  <2>2. CASE toHost' = [toHost EXCEPT ![1] = "TXT"]
    <3>1. /\ Len(toHost') = Len(toHost) /\ toHost'[1] = "TXT"
          /\ \A j \in 1..Len(toHost) : j # 1 => toHost'[j] = toHost[j]
      BY <1>1, <1>2, <2>2, AnswersAre
    <3>2. QED
      BY <1>4, <3>1 DEF Verdicts
  <2>3. QED
    BY <1>1, <2>1, <2>2
<1>5. AckAlone'
  <2>1. ASSUME NEW i \in 1..Len(toHost'), hpc = "reply", toHost'[i] = "ACK"
        PROVE  Len(got) < RegionBlocks /\ i = Len(toHost')
    <3>1. PICK j \in 1..Len(toHost) : toHost[j] = "ACK" /\ (j = Len(toHost) => i = Len(toHost'))
      BY <1>4, <2>1 DEF Verdicts
    <3>2. Resting /\ Len(got) = packCounter /\ (Len(got) < RegionBlocks => j = Len(toHost))
      BY <2>1, <3>1, AckRests
    <3>3. Len(got) < RegionBlocks
      BY <1>2, <2>1, <3>2 DEF Resting
    <3>4. QED
      BY <3>1, <3>2, <3>3
  <2>2. QED
    BY <1>1, <2>1 DEF AckAlone
<1>6. NoVerdict \/ FirstOnly => NoVerdict'
  BY <1>4 DEF NoVerdict, FirstOnly
<1>7. EndsOnce'
  BY <1>1, <1>6 DEF LInv, EndsOnce, Calm
<1>8. QED
  BY <1>3, <1>5, <1>7 DEF LInv

\* So do the line and its faults.
LEMMA LineLocks ==
  ASSUME Orderly, RoomLeft, IInv, PInv, LInv, PInv', CharArrives \/ Fault, ~ReplyFails
  PROVE  LInv'
<1>1. PICK b, err : Receive(b, err)
  BY DEF CharArrives, Fault, CharGarbled, CharLost, MayFail, Orderly
<1>2. /\ UNCHANGED <<hpc, packCounter, toHost, svc, sb, got, tempo, bpc, complete, imr>>
      /\ toDev # <<>> /\ toDev' = Tail(toDev)
  BY <1>1 DEF Receive, LineTakes, host, xm, boot
<1>3. FullOrEnded' /\ AckAlone' /\ (Silent' <=> Silent) /\ (NoVerdict => NoVerdict')
  BY <1>2 DEF LInv, FullOrEnded, AckAlone, Finished, Silent, NoVerdict
<1>4. CASE Sending
  <2>1. imr = {"RXRDY"} => Announced(packCounter) \/ Heard(packCounter)
    BY <1>2, <1>4 DEF Sending, Stage, Describing, Loading, Loaded, Described
  <2>2. Heard(packCounter) => "RXRDY" \in csr /\ "RXRDY" \in imr
    BY DEF Heard, Noticed, Awake
  <2>3. ~Heard(packCounter)
    BY <1>1, <2>2 DEF Receive, CharTime
  <2>4. ASSUME Announced(packCounter) PROVE toDev' # <<>>
    <3> DEFINE k == packCounter
    <3>1. toDev = <<Num(SOH), IdOf(k), ComplementOf(k), Data(k), Crc(k)>>
      BY <2>4, FrameIs DEF Announced
    <3>2. toDev' = <<IdOf(k), ComplementOf(k), Data(k), Crc(k)>>
      BY <1>2, <3>1, Behind
    <3>3. QED
      BY <3>2, Behind, Zenon
  <2>5. TimerQuiet'
    BY <1>2, <1>3, <2>1, <2>3, <2>4 DEF LInv, TimerQuiet
  <2>6. QED
    BY <1>2, <1>3, <1>4, <2>5 DEF LInv, EndsOnce, Sending
<1>5. CASE Ending
  <2>1. hpc = "eot" /\ packCounter > ImageBlocks
    BY <1>2, <1>5 DEF Ending, LInv, EndsOnce
  <2>2. Silent
    BY <2>1, XmodemAssumption DEF LInv, TimerQuiet
  <2>3. CASE svc.eot
    BY <1>2, <1>3, <2>1, <2>2, <2>3 DEF LInv, TimerQuiet, EndsOnce
  <2>4. CASE ~svc.eot
    <3>1. toDev = <<Num(EOT)>> /\ Len(got) < RegionBlocks /\ toHost = <<>>
      BY <1>2, <2>1, <2>4 DEF LInv, EndsOnce
    <3>2. toDev' = <<>>
      BY <1>2, <3>1, Behind
    <3>3. QED
      BY <1>2, <1>3, <2>1, <2>2, <2>4, <3>1, <3>2 DEF LInv, TimerQuiet, EndsOnce
  <2>5. QED
    BY <2>3, <2>4
<1>6. QED
  BY <1>2, <1>4, <1>5 DEF PInv, Phase, Before, Resting

\* The handler answers a frame once, and EOT only before the buffer is full.
LEMMA IsrLocks ==
  ASSUME IInv, PInv, LInv, PInv', Isr
  PROVE  LInv'
<1>1. UNCHANGED <<host, hpc, packCounter, toDev, bpc, complete>> /\ SerialInterrupt /\ Pending
  BY DEF Isr, IsrLineError, IsrHeader, IsrOtherHeader, IsrEot, IsrDescriptor,
         IsrAccept, IsrReject, ReadHandler, DescriptorDone, SerialInterrupt, boot, host
<1>2. ~Unarmed /\ ~svc.eot
  BY <1>1, InterruptFacts
<1>3. /\ toHost \in Seq(Reply) /\ Len(got) \in Nat /\ RegionBlocks \in Nat /\ got \in Seq(Char)
      /\ svc \in [packetId : 0..IdMod - 1, eot : BOOLEAN, isPacketDesc : BOOLEAN,
                  packetStatus : BOOLEAN, pData : Nat, dataSize : {0, SohData, StxData}]
      /\ tempo \in [flag : {"EN", "DIS"}, tick : Nat, reload : Nat,
                    callback : {NoCallback, "SendC", "XmodemComplete"}]
  BY XmodemAssumption, LenProperties DEF IInv, TypeOK, LineOK, XmOK
<1>4. sb.sz = IF Len(got) < RegionBlocks THEN RegionBlocks - Len(got) ELSE 0
  BY <1>2 DEF IInv, CountersAgree
<1>5. ~Before /\ ~Resting
  BY <1>1 DEF Pending, Before, Resting, Awake, Calm
<1>6. CASE Ending
  <2>1. hpc = "eot"
    BY <1>2, <1>6 DEF Ending, LInv, EndsOnce
  <2>2. Len(got) < RegionBlocks /\ toHost = <<>> /\ packCounter > ImageBlocks
        /\ (toDev = <<>> \/ (toDev = <<Num(EOT)>> /\ Calm))
    BY <1>2, <2>1 DEF LInv, EndsOnce
  <2>3. Noticed /\ rhr = Num(EOT)
    BY <1>1, <1>6 DEF Ending, Pending, Awake, Calm
  <2>4. Num(EOT) # Num(SOH) /\ Num(EOT) # Num(STX)
    BY DEF Num, SOH, STX, EOT
  <2>5. IsrEot
    BY <2>3, <2>4 DEF Isr, IsrLineError, IsrHeader, IsrOtherHeader, IsrDescriptor, IsrAccept,
         IsrReject, DescriptorDone, Noticed
  <2>6. RegionOpen /\ CallbackDue(sb, sb.sz)
    BY <1>3, <1>4, <2>2 DEF RegionOpen, CallbackDue, Advance
  <2>7. /\ toHost' = toHost \o <<"ACK", "TXT">> /\ svc'.eot
        /\ tempo' = Started(CompleteDelay, 0, "XmodemComplete")
    BY <1>3, <2>5, <2>6 DEF IsrEot, FillRdBuffer
  <2>8. toDev = <<>>
    BY <2>2, <2>3 DEF Calm, Noticed
  <2>9. toHost' # <<>> /\ toHost'[1] = "ACK"
    BY <1>3, <2>2, <2>7, FirstStays
  <2>10. Silent'
    BY <2>7 DEF Silent, Started
  <2>11. FirstOnly'
    <3>1. toHost' = <<"ACK", "TXT">>
      BY <1>3, <2>2, <2>7, FirstStays
    <3>2. QED
      BY <3>1 DEF FirstOnly, Verdicts
  <2>12. QED
    BY <1>1, <2>1, <2>2, <2>7, <2>8, <2>9, <2>10, <2>11
    DEF LInv, TimerQuiet, FullOrEnded, AckAlone, EndsOnce
<1>7. CASE Sending
  <2>1. NoVerdict /\ hpc \in {"reply", "fatal"} /\ (toHost # <<>> => toHost[1] \notin Verdicts)
    BY <1>3, <1>7, NoFirst DEF Sending
  <2>2. EndsOnce'
    BY <1>1, <2>1 DEF EndsOnce
  <2>3. ~Finished
    BY <1>7, XmodemAssumption DEF PInv, Sending, IInv, TypeOK, HostOK
  <2>4. ASSUME tempo' = Stopped(tempo) \/ tempo' = tempo,
               UNCHANGED got
        PROVE  FullOrEnded'
    <3>1. tempo'.callback = tempo.callback
      BY <1>3, <2>4 DEF Stopped
    <3>2. QED
      BY <1>1, <2>3, <3>1 DEF FullOrEnded, Finished
  <2>5. CASE Heard(packCounter)
    <3>1. "RXRDY" \in csr /\ "ERR" \notin csr /\ rhr = Num(SOH)
      BY <2>5 DEF Heard, Noticed
    <3>2. Num(SOH) # Num(STX) /\ Num(SOH) # Num(EOT)
      BY DEF Num, SOH, STX, EOT
    <3>3. IsrHeader(SOH, SohData)
      BY <3>1, <3>2 DEF Isr, IsrLineError, IsrHeader, IsrOtherHeader, IsrEot, IsrDescriptor,
           IsrAccept, IsrReject, DescriptorDone
    <3>4. tempo' = Stopped(tempo) /\ UNCHANGED <<toHost, got>>
      BY <3>3 DEF IsrHeader
    <3>5. Silent'
      BY <1>3, <3>4 DEF Silent, Stopped
    <3>6. QED
      BY <1>1, <2>2, <2>4, <3>4, <3>5 DEF LInv, TimerQuiet, AckAlone
  <2>6. CASE ~Heard(packCounter)
    <3>1. imr # {"RXRDY"} /\ "RXRDY" \notin csr /\ "ERR" \notin csr
      BY <1>1, <1>7, <2>6 DEF Sending, Stage, Announced, Describing, Described, Loading, Loaded,
         Awake, Calm, Pending
    <3>2. Silent
      BY <1>7, <3>1 DEF Sending, LInv, TimerQuiet
    <3>3. IsrDescriptor \/ IsrAccept \/ IsrReject
      BY <3>1 DEF Isr, IsrLineError, IsrHeader, IsrOtherHeader, IsrEot, ReadHandler
    <3>4. CASE IsrDescriptor
      <4>1. UNCHANGED <<toHost, got, tempo>>
        BY <3>4 DEF IsrDescriptor
      <4>2. QED
        BY <1>1, <2>2, <2>4, <3>2, <4>1 DEF LInv, TimerQuiet, AckAlone, Silent
    <3>5. CASE IsrReject
      <4>1. UNCHANGED <<got, tempo>> /\ toHost' = Append(toHost, "NAK")
        BY <3>5 DEF IsrReject
      <4>2. AckAlone'
        <5>1. \A i \in 1..Len(toHost') : toHost'[i] # "ACK"
          BY <1>3, <2>1, <4>1, AnswersAdded DEF NoVerdict, Verdicts
        <5>2. QED
          BY <5>1 DEF AckAlone
      <4>3. QED
        BY <1>1, <2>2, <2>4, <3>2, <4>1, <4>2 DEF LInv, TimerQuiet, Silent
    <3>6. CASE IsrAccept
      <4>1. svc.dataSize = 1 /\ got' = Append(got, mem[svc.pData])
            /\ FillRdBuffer(1, tempo, <<"TXT", "ACK">>)
        BY <3>6 DEF IsrAccept, DataOk, SohData
      <4>2. Len(got') = Len(got) + 1
        BY <1>3, <4>1
      <4>4. CASE CallbackDue(sb, 1)
        <5>1. /\ tempo' = Started(CompleteDelay, 0, "XmodemComplete")
              /\ toHost' = toHost \o <<"TXT", "ACK">>
          BY <4>1, <4>4 DEF FillRdBuffer
        <5>2. Silent'
          BY <5>1 DEF Silent, Started
        <5>3. Len(got') >= RegionBlocks
          BY <1>3, <1>4, <4>2, <4>4 DEF CallbackDue, Advance
        <5>4. \A i \in 1..Len(toHost') : toHost'[i] = "ACK" => i # 1
          <6>1. Len(toHost) \in Nat /\ Len(toHost) + 2 # 1
            BY <1>3, LenProperties
          <6>2. QED
            BY <1>3, <2>1, <5>1, <6>1, AnswersAdded DEF NoVerdict, Verdicts
        <5>5. QED
          <6>1. ~(Len(got') < RegionBlocks)
            BY <1>3, <4>2, <5>3
          <6>2. AckAlone'
            BY <5>4, <6>1 DEF AckAlone
          <6>3. QED
            BY <2>2, <5>2, <5>3, <6>2 DEF LInv, TimerQuiet, FullOrEnded
      <4>5. CASE ~CallbackDue(sb, 1)
        <5>1. tempo' = tempo /\ toHost' = Append(toHost, "ACK")
          BY <4>1, <4>5 DEF FillRdBuffer
        <5>2. Len(got') < RegionBlocks
          BY <1>3, <1>4, <4>2, <4>5 DEF CallbackDue, Advance
        <5>3. \A i \in 1..Len(toHost') : toHost'[i] = "ACK" => i = Len(toHost')
          BY <1>3, <2>1, <5>1, AnswersAdded DEF NoVerdict, Verdicts
        <5>4. AckAlone'
          BY <5>2, <5>3 DEF AckAlone
        <5>5. ~Finished'
          BY <1>1, <2>3, <5>1 DEF Finished
        <5>6. QED
          BY <2>2, <3>2, <5>1, <5>4, <5>5 DEF LInv, TimerQuiet, FullOrEnded, Silent
      <4>6. QED
        BY <4>4, <4>5
    <3>7. QED
      BY <3>3, <3>4, <3>5, <3>6
  <2>7. QED
    BY <2>5, <2>6
<1>8. QED
  BY <1>5, <1>6, <1>7 DEF PInv, Phase

\* A message at the end comes behind an ACK only where the buffer is full.
LEMMA MessageLeaves ==
  ASSUME IInv, PInv, LInv, toHost \in Seq(Reply), UNCHANGED <<hpc, got>>,
         Silent /\ ~Finished => toHost' = toHost,
         toHost' = toHost \/ \E x \in {"TXT", "C"} : toHost' = Append(toHost, x)
  PROVE  AckAlone'
<1>1. CASE toHost' = toHost
  BY <1>1 DEF LInv, AckAlone
<1>2. ASSUME NEW x \in {"TXT", "C"}, toHost' = Append(toHost, x), toHost' # toHost PROVE AckAlone'
  <2>1. ASSUME NEW i \in 1..Len(toHost'), toHost'[i] = "ACK", hpc = "reply"
        PROVE  ~(Len(got) < RegionBlocks) /\ i # 1
    <3>1. i \in 1..Len(toHost) /\ toHost[i] = "ACK"
      BY <1>2, <2>1, AnswersAdded
    <3>2. Silent /\ (i = 1 => Len(got) < RegionBlocks) /\ (Len(got) < RegionBlocks => ~Finished)
      BY <2>1, <3>1, AckRests
    <3>3. QED
      BY <1>2, <3>2
  <2>2. QED
    BY <2>1 DEF AckAlone
<1>3. QED
  BY <1>1, <1>2

\* A tick and the main program answer nothing while the host may take it for a verdict.
LEMMA TickLocks ==
  ASSUME IInv, PInv, LInv, PInv', Tick
  PROVE  LInv'
<1>1. UNCHANGED <<hpc, packCounter, toDev, imr, csr, svc, got, bpc>>
  BY DEF Tick, host, uart
<1>2. toHost \in Seq(Reply)
      /\ tempo \in [flag : {"EN", "DIS"}, tick : Nat, reload : Nat,
                    callback : {NoCallback, "SendC", "XmodemComplete"}]
  BY DEF IInv, TypeOK, LineOK, XmOK
<1>3. tempo'.callback = tempo.callback /\ (tempo.flag = "DIS" => tempo'.flag = "DIS")
  BY <1>2 DEF Tick, Ticked, Stopped
<1>4. TimerQuiet'
  BY <1>1, <1>3 DEF LInv, TimerQuiet, Silent
<1>5. complete' => complete \/ tempo.callback = "XmodemComplete"
  BY DEF Tick, Completes
<1>6. FullOrEnded'
  BY <1>1, <1>3, <1>5 DEF LInv, FullOrEnded, Finished
<1>7. ASSUME Silent, ~Finished PROVE toHost' = toHost
  BY <1>7 DEF Tick, Completes, Invites, Fires, Silent, Finished
<1>8. toHost' = toHost \/ toHost' = Append(toHost, "TXT") \/ toHost' = Append(toHost, "C")
  BY DEF Tick
<1>9. AckAlone'
  BY <1>1, <1>2, <1>7, <1>8, MessageLeaves
<1>10. EndsOnce'
  <2>1. ASSUME hpc = "eot", ~svc.eot PROVE toHost' = toHost
    <3>1. Silent
      BY <2>1, XmodemAssumption DEF LInv, EndsOnce, TimerQuiet
    <3>2. ~Finished
      BY <2>1, LenProperties, XmodemAssumption DEF LInv, EndsOnce, FullOrEnded, IInv, TypeOK, XmOK
    <3>3. QED
      BY <1>7, <3>1, <3>2
  <2>2. (NoVerdict => NoVerdict') /\ (FirstOnly => FirstOnly' /\ toHost'[1] = toHost[1])
    BY <1>2, <1>8, MessageAdded DEF Verdicts, NoVerdict, FirstOnly
  <2>3. QED
    BY <1>1, <2>1, <2>2 DEF LInv, EndsOnce, Calm
<1>11. QED
  BY <1>4, <1>6, <1>9, <1>10 DEF LInv

\* The main program prints at most, once the host is started.
LEMMA BootLocks ==
  ASSUME IInv, PInv, LInv, PInv', Boot
  PROVE  LInv'
<1>1. UNCHANGED <<hpc, packCounter, toDev, csr, got, complete>>
  BY DEF Boot, BootPrompt, ReadSetup, ReadEnable, ReadMask, ReadInvite, ReadPrint,
         Downloaded, Jump, host, line, uart, xm
<1>2. toHost \in Seq(Reply)
  BY DEF IInv, TypeOK, LineOK
<1>3. CASE Downloaded \/ Jump
  <2>1. /\ UNCHANGED <<imr, svc, tempo>> /\ Finished
        /\ toHost' = toHost \/ toHost' = Append(toHost, "TXT")
    BY <1>3 DEF Downloaded, Jump, Main, uart, xm, Finished, line
  <2>2. TimerQuiet' /\ FullOrEnded'
    BY <1>1, <2>1 DEF LInv, TimerQuiet, FullOrEnded, Silent
  <2>3. (NoVerdict => NoVerdict') /\ (FirstOnly => FirstOnly' /\ toHost'[1] = toHost[1])
    BY <1>2, <2>1, MessageAdded DEF Verdicts, NoVerdict, FirstOnly
  <2>4. AckAlone'
    BY <1>1, <1>2, <2>1, MessageLeaves
  <2>5. hpc = "eot" => svc.eot
    BY <2>1, LenProperties, XmodemAssumption DEF LInv, EndsOnce, FullOrEnded, IInv, TypeOK, XmOK
  <2>6. EndsOnce'
    BY <1>1, <2>1, <2>3, <2>5 DEF LInv, EndsOnce
  <2>7. QED
    BY <2>2, <2>4, <2>6 DEF LInv
<1>4. CASE ~(Downloaded \/ Jump)
  <2>1. bpc \in {"banner", "read", "enable", "mask", "invite", "print"}
    BY <1>4 DEF Boot, BootPrompt, ReadSetup, ReadEnable, ReadMask, ReadInvite, ReadPrint, Main
  <2>2. Before
    BY <2>1 DEF PInv, Phase, Resting, Sending, Ending
  <2>3. ~Finished'
    BY <1>1, <2>2, XmodemAssumption DEF PInv, Before
  <2>4. QED
    BY <1>1, <2>2, <2>3 DEF Before, LInv, TimerQuiet, FullOrEnded, AckAlone, EndsOnce
<1>5. QED
  BY <1>3, <1>4

\* Every step keeps the lock step.
LEMMA StepLocks ==
  ASSUME Orderly, RoomLeft
  PROVE  IInv /\ PInv /\ LInv /\ [Next]_vars => LInv'
<1> SUFFICES ASSUME IInv, PInv, LInv, [Next]_vars PROVE LInv'
  OBVIOUS
<1>1. TypeOK' /\ PInv'
  BY StepType, StepPhase DEF IInv
<1>2. CASE UNCHANGED vars
  BY <1>2 DEF vars, host, line, uart, xm, boot, LInv, TimerQuiet, FullOrEnded, AckAlone, EndsOnce,
     FirstOnly, NoVerdict, Silent, Finished, Calm
<1>3. CASE ReplyFails
  BY <1>3, LossLocks DEF RoomLeft, ReplyFails, MayFail
<1>4. QED
  BY <1>1, <1>2, <1>3, HostLocks, LineLocks, IsrLocks, TickLocks, BootLocks DEF Next

\* The host never reads an old verdict as that on the frame it has just sent, whatever
\* data and CRCs the line damages and however late the host is, also when answers are lost
\* if the image leaves room in the region.
THEOREM VerdictIsNew ==
  ASSUME Orderly, RoomLeft
  PROVE  Spec => []LockStep
<1>1. Init => LInv
  <2> SUFFICES ASSUME Init PROVE LInv
    OBVIOUS
  <2>1. ~Finished
    BY DEF Init, Finished, Created, NoCallback
  <2>2. QED
    BY <2>1 DEF Init, LInv, TimerQuiet, FullOrEnded, AckAlone, EndsOnce
<1>2. IInv /\ PInv /\ LInv /\ [Next]_vars => LInv'
  BY StepLocks
<1>3. IInv /\ PInv /\ LInv => LockStep
  <2> SUFFICES ASSUME IInv, PInv, LInv, toDev # <<>>
               PROVE  \A i \in 1..Len(toHost) : toHost[i] \notin Verdicts
    BY DEF LockStep, Verdicts
  <2>1. CASE Sending
    BY <2>1 DEF Sending, NoVerdict
  <2>2. CASE Ending
    <3>1. toHost = <<>> \/ NoVerdict
      BY <2>2 DEF Ending, LInv, EndsOnce
    <3>2. QED
      BY <3>1 DEF NoVerdict
  <2>3. QED
    BY <2>1, <2>2 DEF PInv, Phase, Before, Resting
<1>4. QED
  BY <1>1, <1>2, <1>3, PhasesFollow, PTL DEF Spec
=============================================================================
