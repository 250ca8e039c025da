--------------------------- MODULE BdiScriptProofs ---------------------------
(***************************************************************************)
(* What the scripts of the setup program are made of, for every firmware   *)
(* file: the loader's commands, in an order in which the trigger is erased *)
(* before any byte of the firmware is touched, and programmed after every  *)
(* byte that is sent, what is read back is written no more, the mode is    *)
(* programmed after the init list, and the logic is wiped in ISP mode.     *)
(***************************************************************************)
EXTENDS BdiSetup, SequenceTheorems, WellFoundedInduction, TLAPS

-----------------------------------------------------------------------------
(* Induction, with the property as a set of numbers.                       *)

LEMMA Least ==
  ASSUME NEW T, T \subseteq Nat, T # {}
  PROVE  \E n \in T : \A m \in T : ~(m < n)
<1>1. PICK n \in T : \A m \in T : ~(<<m, n>> \in OpToRel(<, Nat))
  BY NatLessThanWellFounded, WFMin, Zenon
<1>2. \A m \in T : m < n => <<m, n>> \in OpToRel(<, Nat)
  BY Zenon DEF OpToRel
<1>3. QED
  BY <1>1, <1>2

LEMMA SetInduction ==
  ASSUME NEW T, 0 \in T, \A n \in Nat : n \in T => n + 1 \in T
  PROVE  Nat \subseteq T
<1> SUFFICES ASSUME Nat \ T # {} PROVE FALSE
  OBVIOUS
<1>1. PICK n \in Nat \ T : \A m \in Nat \ T : ~(m < n)
  BY Least
<1>2. n # 0 /\ n - 1 \in Nat /\ n - 1 < n /\ (n - 1) + 1 = n
  BY <1>1
<1>3. QED
  BY <1>1, <1>2
-----------------------------------------------------------------------------
(* The set of a script's commands, and their order.                        *)

\* The commands that change a byte of the firmware or the trigger, and the order in
\* which a script may give them.
Vital == Image \cup {Trigger}
Touches(c) ==
  c.op \in {"erase", "program", "wipe", "line", "ues"} /\ c.cells \cap Vital # {}
Rank(c) ==
  IF c.op = "erase" THEN IF Trigger \in c.cells THEN 1 ELSE 2
  ELSE IF Trigger \in c.cells THEN 4 ELSE 3

\* A cell is erased, then written, then read; the init list is programmed before the
\* mode; nothing but the way into ISP mode precedes the erasure of the logic.
Readers == {"read", "readline", "readues"}
Grade(c) == IF c.op \in {"erase", "wipe"} THEN 1 ELSE IF c.op \in Readers THEN 3 ELSE 2
Follows(c, d) ==
  /\ c.cells \cap d.cells # {} => Grade(c) <= Grade(d)
  /\ c.op = "program" /\ d.op = "program" => ~(ModeList \in c.cells /\ InitList \in d.cells)
  /\ d.op = "wipe" => c.op \in {"enable", "id"}

Precedes(c, d) ==
  /\ Touches(c) /\ Touches(d) => Rank(c) <= Rank(d)
  /\ Follows(c, d)
InOrder(s) == \A i, j \in DOMAIN s : i < j => Precedes(s[i], s[j])

LEMMA ConcatOf ==
  ASSUME NEW S, NEW s \in Seq(S), NEW t \in Seq(S)
  PROVE  /\ s \o t \in Seq(S)
         /\ ToSet(s \o t) = ToSet(s) \cup ToSet(t)
         /\ /\ InOrder(s) /\ InOrder(t)
            /\ \A c \in ToSet(s), d \in ToSet(t) : Precedes(c, d)
            => InOrder(s \o t)
<1> DEFINE u == s \o t
           m == Len(s)
           n == Len(t)
<1>1. /\ u \in Seq(S) /\ m \in Nat /\ n \in Nat
      /\ DOMAIN s = 1..m /\ DOMAIN t = 1..n /\ DOMAIN u = 1..(m + n)
  BY ConcatProperties
<1>2. \A i \in 1..m : u[i] = s[i]
  BY ConcatProperties
<1>3. \A i \in 1..(m + n) : ~(i <= m) => u[i] = t[i - m] /\ i - m \in 1..n
  BY ConcatProperties
<1>4. \A j \in 1..n : m + j \in 1..(m + n) /\ u[m + j] = t[j]
  <2>1. ASSUME NEW j \in 1..n PROVE m + j \in 1..(m + n) /\ u[m + j] = t[j]
    <3>1. m + j \in 1..(m + n) /\ ~(m + j <= m) /\ (m + j) - m = j
      BY <1>1
    <3>2. QED
      BY <1>3, <3>1
  <2>2. QED
    BY <2>1
<1> HIDE DEF u, m, n
<1>5. ToSet(u) = ToSet(s) \cup ToSet(t)
  <2>1. ASSUME NEW x \in ToSet(u) PROVE x \in ToSet(s) \cup ToSet(t)
    <3>1. PICK i \in 1..(m + n) : x = u[i]
      BY <1>1 DEF ToSet
    <3>2. CASE i <= m
      BY <1>1, <1>2, <3>1, <3>2 DEF ToSet
    <3>3. CASE ~(i <= m)
      BY <1>1, <1>3, <3>1, <3>3 DEF ToSet
    <3>4. QED
      BY <3>2, <3>3
  <2>2. ASSUME NEW x \in ToSet(s) PROVE x \in ToSet(u)
    <3>1. PICK i \in 1..m : x = s[i]
      BY <1>1 DEF ToSet
    <3>2. i \in 1..(m + n) /\ u[i] = x
      BY <1>1, <1>2, <3>1
    <3>3. QED
      BY <1>1, <3>2 DEF ToSet
  <2>3. ASSUME NEW x \in ToSet(t) PROVE x \in ToSet(u)
    <3>1. PICK j \in 1..n : x = t[j]
      BY <1>1 DEF ToSet
    <3>2. QED
      BY <1>1, <1>4, <3>1 DEF ToSet
  <2>4. QED
    BY <2>1, <2>2, <2>3
<1>6. ASSUME InOrder(s), InOrder(t), \A c \in ToSet(s), d \in ToSet(t) : Precedes(c, d)
      PROVE  InOrder(u)
  <2> SUFFICES ASSUME NEW i \in 1..(m + n), NEW j \in 1..(m + n), i < j
               PROVE  Precedes(u[i], u[j])
    BY <1>1 DEF InOrder
  <2>1. CASE j <= m
    <3>1. i \in 1..m /\ j \in 1..m
      BY <1>1, <2>1
    <3>2. Precedes(s[i], s[j])
      BY <1>1, <1>6, <3>1 DEF InOrder
    <3>3. QED
      BY <1>2, <3>1, <3>2
  <2>2. CASE ~(i <= m)
    <3>1. i - m \in 1..n /\ j - m \in 1..n /\ i - m < j - m /\ ~(j <= m)
      BY <1>1, <1>3, <2>2
    <3>2. Precedes(t[i - m], t[j - m])
      BY <1>1, <1>6, <3>1 DEF InOrder
    <3>3. QED
      BY <1>3, <2>2, <3>1, <3>2
  <2>3. CASE i <= m /\ ~(j <= m)
    <3>1. i \in 1..m /\ u[i] \in ToSet(s)
      BY <1>1, <1>2, <2>3 DEF ToSet
    <3>2. u[j] \in ToSet(t)
      BY <1>1, <1>3, <2>3 DEF ToSet
    <3>3. QED
      BY <1>6, <3>1, <3>2
  <2>4. QED
    BY <2>1, <2>2, <2>3
<1>7. QED
  BY <1>1, <1>5, <1>6 DEF u

LEMMA SingleOf ==
  ASSUME NEW S, NEW c \in S
  PROVE  <<c>> \in Seq(S) /\ ToSet(<<c>>) = {c} /\ InOrder(<<c>>)
<1>1. DOMAIN <<c>> = {1} /\ <<c>>[1] = c
  OBVIOUS
<1>2. QED
  BY <1>1 DEF ToSet, InOrder

LEMMA EmptyOf == \A S : <<>> \in Seq(S) /\ ToSet(<<>>) = {} /\ InOrder(<<>>)
<1>1. DOMAIN <<>> = {}
  OBVIOUS
<1>2. QED
  BY <1>1 DEF ToSet, InOrder

LEMMA TailOf ==
  ASSUME NEW S, NEW s \in Seq(S), s # <<>>
  PROVE  /\ Head(s) \in S /\ Tail(s) \in Seq(S)
         /\ ToSet(s) = {Head(s)} \cup ToSet(Tail(s))
         /\ InOrder(s) => /\ InOrder(Tail(s))
                          /\ \A d \in ToSet(Tail(s)) : Precedes(Head(s), d)
<1> DEFINE t == Tail(s)
           n == Len(t)
<1>1. /\ Head(s) \in S /\ t \in Seq(S) /\ n \in Nat /\ Head(s) = s[1]
      /\ DOMAIN t = 1..n /\ DOMAIN s = 1..(n + 1)
  BY HeadTailProperties
<1>2. \A i \in 1..n : t[i] = s[i + 1]
  BY HeadTailProperties
<1> HIDE DEF t, n
<1>3. \A i \in 1..(n + 1) : i = 1 \/ (i - 1 \in 1..n /\ s[i] = t[i - 1])
  <2>1. ASSUME NEW i \in 1..(n + 1), i # 1 PROVE i - 1 \in 1..n /\ s[i] = t[i - 1]
    <3>1. i - 1 \in 1..n /\ (i - 1) + 1 = i
      BY <1>1, <2>1
    <3>2. QED
      BY <1>2, <3>1
  <2>2. QED
    BY <2>1
<1>4. \A i \in 1..n : i + 1 \in 1..(n + 1) /\ 1 < i + 1
  BY <1>1
<1>5. 1 \in 1..(n + 1)
  BY <1>1
<1>6. ToSet(s) = {Head(s)} \cup ToSet(t)
  <2>1. ASSUME NEW x \in ToSet(s) PROVE x \in {Head(s)} \cup ToSet(t)
    BY <1>1, <1>3, <2>1 DEF ToSet
  <2>2. ASSUME NEW x \in ToSet(t) PROVE x \in ToSet(s)
    BY <1>1, <1>2, <1>4, <2>2 DEF ToSet
  <2>3. Head(s) \in ToSet(s)
    BY <1>1, <1>5 DEF ToSet
  <2>4. QED
    BY <2>1, <2>2, <2>3
<1>7. ASSUME InOrder(s) PROVE InOrder(t) /\ \A d \in ToSet(t) : Precedes(Head(s), d)
  <2>1. ASSUME NEW i \in 1..n, NEW j \in 1..n, i < j PROVE Precedes(t[i], t[j])
    <3>1. i + 1 < j + 1 /\ i + 1 \in 1..(n + 1) /\ j + 1 \in 1..(n + 1)
      BY <1>1, <2>1
    <3>2. Precedes(s[i + 1], s[j + 1])
      BY <1>1, <1>7, <3>1 DEF InOrder
    <3>3. QED
      BY <1>2, <3>2
  <2>2. ASSUME NEW d \in ToSet(t) PROVE Precedes(Head(s), d)
    <3>1. PICK i \in 1..n : d = t[i]
      BY <1>1 DEF ToSet
    <3>2. Precedes(s[1], s[i + 1])
      BY <1>1, <1>4, <1>5, <1>7 DEF InOrder
    <3>3. QED
      BY <1>1, <1>2, <3>1, <3>2
  <2>3. QED
    BY <1>1, <2>1, <2>2 DEF InOrder
<1>8. QED
  BY <1>1, <1>6, <1>7 DEF t
-----------------------------------------------------------------------------
(* The collection of the records in blocks.                                *)

\* Commands that program bytes of the firmware, and what a sequence of them programs.
Programs == {c \in AllCommands : c.op = "program" /\ c.cells \subseteq Image}
CellsOf(s) == UNION {c.cells : c \in ToSet(s)}

\* What has been collected after n records: all their bytes are in a command or in
\* the block.
CollectedFits(was, n) ==
  /\ was.sent \in Seq(Programs) /\ was.block \subseteq Image
  /\ \A i \in 1..n : BytesOf(Records[i]) \subseteq CellsOf(was.sent) \cup was.block

\* The function that Collected is the last value of, for the first k records.
Collecting(f, k) ==
  f = [n \in 0..k |-> IF n = 0 THEN NoBlock ELSE Collect(f[n - 1], Records[n])]

LEMMA CollectingExists == \A k \in Nat : \E f : Collecting(f, k)
<1> DEFINE T == {k \in Nat : \E f : Collecting(f, k)}
<1>1. 0 \in T
  <2>1. Collecting([n \in 0..0 |-> NoBlock], 0)
    BY DEF Collecting
  <2>2. QED
    BY <2>1
<1>2. ASSUME NEW k \in Nat, k \in T PROVE k + 1 \in T
  <2>1. PICK f : Collecting(f, k)
    BY <1>2
  <2> DEFINE g == [n \in 0..(k + 1) |->
                     IF n = k + 1 THEN Collect(f[k], Records[k + 1]) ELSE f[n]]
  <2>2. ASSUME NEW n \in 0..(k + 1)
        PROVE  g[n] = IF n = 0 THEN NoBlock ELSE Collect(g[n - 1], Records[n])
    <3>1. CASE n = k + 1
      <4>1. n - 1 = k /\ k \in 0..(k + 1) /\ n # 0 /\ k # k + 1
        BY <3>1
      <4>2. g[k] = f[k] /\ g[n] = Collect(f[k], Records[n])
        BY <3>1, <4>1
      <4>3. QED
        BY <4>1, <4>2
    <3>2. CASE n # k + 1
      <4>1. n \in 0..k /\ g[n] = f[n]
        BY <3>2
      <4>2. f[n] = IF n = 0 THEN NoBlock ELSE Collect(f[n - 1], Records[n])
        BY <2>1, <4>1 DEF Collecting
      <4>3. n # 0 => n - 1 \in 0..(k + 1) /\ n - 1 # k + 1
        BY <4>1
      <4>4. n # 0 => g[n - 1] = f[n - 1]
        BY <4>3
      <4>5. QED
        BY <4>1, <4>2, <4>4
    <3>3. QED
      BY <3>1, <3>2
  <2>3. g = [n \in 0..(k + 1) |-> g[n]]
    OBVIOUS
  <2>4. [n \in 0..(k + 1) |-> g[n]]
          = [n \in 0..(k + 1) |->
               IF n = 0 THEN NoBlock ELSE Collect(g[n - 1], Records[n])]
    BY <2>2, Zenon
  <2> HIDE DEF g
  <2>5. Collecting(g, k + 1)
    BY <2>3, <2>4, Zenon DEF Collecting
  <2>6. QED
    BY <2>5
<1> HIDE DEF T
<1>3. Nat \subseteq T
  BY <1>1, <1>2, SetInduction
<1>4. QED
  BY <1>3 DEF T

LEMMA ProgramsBytes ==
  ASSUME NEW cells, cells \subseteq Image
  PROVE  ProgramFlash(cells) \in Programs /\ ProgramFlash(cells).cells = cells
BY DEF ProgramFlash, Cmd, Programs, AllCommands, Ops, Cells

LEMMA CellsOfAppend ==
  ASSUME NEW s \in Seq(Programs), NEW c \in Programs
  PROVE  Append(s, c) \in Seq(Programs) /\ CellsOf(Append(s, c)) = CellsOf(s) \cup c.cells
<1>1. Append(s, c) = s \o <<c>> /\ Append(s, c) \in Seq(Programs)
  BY AppendIsConcat, AppendProperties
<1>2. ToSet(s \o <<c>>) = ToSet(s) \cup {c}
  <2>1. <<c>> \in Seq(Programs)
    BY SingleOf
  <2>2. ToSet(<<c>>) = {c}
    BY SingleOf
  <2>3. ToSet(s \o <<c>>) = ToSet(s) \cup ToSet(<<c>>)
    BY <2>1, ConcatOf, Zenon
  <2>4. QED
    BY <2>2, <2>3, Zenon
<1>3. \A t, x : x \in CellsOf(t) <=> \E d \in ToSet(t) : x \in d.cells
  BY Zenon DEF CellsOf
<1>4. QED
  BY <1>1, <1>2, <1>3

LEMMA CollectFits ==
  ASSUME NEW n \in Nat, NEW was, CollectedFits(was, n), BytesOf(Records[n + 1]) \subseteq Image
  PROVE  CollectedFits(Collect(was, Records[n + 1]), n + 1)
<1> DEFINE r == Records[n + 1]
           now == Collect(was, r)
<1>1. was.sent \in Seq(Programs) /\ was.block \subseteq Image
  BY DEF CollectedFits
<1>2. \A i \in 1..(n + 1) : i \in 1..n \/ i = n + 1
  OBVIOUS
<1>3. CASE Full(was, r)
  <2>1. now.sent = Append(was.sent, ProgramFlash(was.block)) /\ now.block = BytesOf(r)
    BY <1>3 DEF Collect
  <2>2. now.sent \in Seq(Programs) /\ CellsOf(now.sent) = CellsOf(was.sent) \cup was.block
    BY <1>1, <2>1, CellsOfAppend, ProgramsBytes
  <2> HIDE DEF now
  <2>3. QED
    BY <1>1, <1>2, <2>1, <2>2, Zenon DEF CollectedFits, now
<1>4. CASE ~Full(was, r)
  <2>1. now.sent = was.sent /\ now.block = was.block \cup BytesOf(r)
    BY <1>4 DEF Collect
  <2> HIDE DEF now
  <2>2. QED
    BY <1>1, <1>2, <2>1, Zenon DEF CollectedFits, now
<1>5. QED
  BY <1>3, <1>4

LEMMA RecordTypes ==
  ASSUME NEW i \in DOMAIN Records
  PROVE  i \in 1..Len(Records) /\ Records[i].first \in Nat /\ Records[i].len \in Nat
<1> DEFINE R == [first : Nat, len : Nat \ {0}]
<1>1. Records \in Seq(R)
  BY SetupAssumption
<1>2. \A r \in R : r.first \in Nat /\ r.len \in Nat
  OBVIOUS
<1> HIDE DEF R
<1>3. i \in 1..Len(Records)
  BY <1>1, LenProperties
<1>4. Records[i] \in R
  BY <1>1, <1>3, ElementOfSeq
<1>5. QED
  BY <1>2, <1>3, <1>4

LEMMA InImage == \A i \in 1..Len(Records) : BytesOf(Records[i]) \subseteq Image
BY SetupAssumption DEF Image

LEMMA CollectedAll == CollectedFits(Collected, Len(Records))
<1> DEFINE K == Len(Records)
<1>1. K \in Nat
  BY SetupAssumption
<1>2. \A i \in 1..K : BytesOf(Records[i]) \subseteq Image
  BY InImage
<1>3. PICK f : Collecting(f, K) /\ Collected = f[K]
  <2>1. Collected = (CHOOSE f : Collecting(f, K))[K]
    BY Zenon DEF Collected, Collecting
  <2>2. \E f : Collecting(f, K)
    BY <1>1, CollectingExists
  <2>3. Collecting(CHOOSE f : Collecting(f, K), K)
    BY <2>2, Zenon
  <2>4. QED
    BY <2>1, <2>3
<1> HIDE DEF K
<1> DEFINE T == {n \in Nat : n <= K => CollectedFits(f[n], n)}
<1>4. 0 \in T
  <2>1. f[0] = NoBlock
    BY <1>1, <1>3 DEF Collecting
  <2>2. CollectedFits(NoBlock, 0)
    BY DEF CollectedFits, NoBlock
  <2>3. QED
    BY <2>1, <2>2
<1>5. ASSUME NEW n \in Nat, n \in T PROVE n + 1 \in T
  <2> SUFFICES ASSUME n + 1 <= K PROVE CollectedFits(f[n + 1], n + 1)
    OBVIOUS
  <2>1. n + 1 \in 0..K /\ n + 1 \in 1..K /\ n + 1 # 0 /\ (n + 1) - 1 = n /\ n <= K
    BY <1>1
  <2>2. f[n + 1] = Collect(f[n], Records[n + 1])
    BY <1>3, <2>1 DEF Collecting
  <2>3. CollectedFits(f[n], n)
    BY <1>5, <2>1
  <2>4. QED
    BY <1>2, <2>1, <2>2, <2>3, CollectFits
<1> HIDE DEF T
<1>6. Nat \subseteq T
  BY <1>4, <1>5, SetInduction
<1>7. QED
  BY <1>1, <1>3, <1>6 DEF T, K

\* Both ways of programming a file give commands for its bytes, and for all of them.
LEMMA BlocksFit == Blocks \in Seq(Programs) /\ Image \subseteq CellsOf(Blocks)
<1> DEFINE all == Collected
           K == Len(Records)
<1>1. /\ all.sent \in Seq(Programs) /\ all.block \subseteq Image
      /\ \A i \in 1..K : BytesOf(Records[i]) \subseteq CellsOf(all.sent) \cup all.block
  BY CollectedAll DEF CollectedFits
<1>2. Image = UNION {BytesOf(Records[i]) : i \in 1..K}
  <2>1. DOMAIN Records = 1..K
    BY SetupAssumption
  <2>2. QED
    BY <2>1, Zenon DEF Image
<1> HIDE DEF K, all
<1>3. Image \subseteq CellsOf(all.sent) \cup all.block
  BY <1>1, <1>2, Zenon
<1>4. CASE all.block = {}
  BY <1>1, <1>3, <1>4 DEF Blocks, all
<1>5. CASE all.block # {}
  <2>1. Blocks = Append(all.sent, ProgramFlash(all.block))
    BY <1>5 DEF Blocks, all
  <2>2. QED
    BY <1>1, <1>3, <2>1, CellsOfAppend, ProgramsBytes
<1>6. QED
  BY <1>4, <1>5

\* The bytes of its words are bytes of a record.
LEMMA WordsInImage == \A i \in 1..Len(Records) : WordsOf(Records[i]) \subseteq Image
<1> SUFFICES ASSUME NEW i \in 1..Len(Records) PROVE WordsOf(Records[i]) \subseteq Image
  OBVIOUS
<1>1. Records[i].first \in Nat /\ Records[i].len \in Nat
  BY SetupAssumption, RecordTypes
<1>2. \A n \in Nat : 2 * (n \div 2) <= n
  OBVIOUS
<1>3. 2 * (Records[i].len \div 2) <= Records[i].len /\ 2 * (Records[i].len \div 2) \in Int
  BY <1>1, <1>2
<1>4. \A a \in Records[i].first..(Records[i].first + 2 * (Records[i].len \div 2) - 1) :
        a \in Records[i].first..(Records[i].first + Records[i].len - 1)
  BY <1>1, <1>3
<1>5. WordsOf(Records[i]) \subseteq BytesOf(Records[i])
  BY <1>4, Zenon DEF WordsOf, BytesOf
<1>6. QED
  BY <1>5, InImage

\* Record by record, what a BDI-HS is sent is what an update of it reaches.
LEMMA RecordsFit ==
  /\ RecordByRecord \in Seq(Programs)
  /\ type = "HS" => CellsOf(RecordByRecord) = Reached /\ Reached \subseteq Image
<1> DEFINE K == Len(Records)
<1>1. K \in Nat /\ DOMAIN Records = 1..K
  BY SetupAssumption
<1>2. \A i \in 1..K : /\ ProgramFlash(WordsOf(Records[i])) \in Programs
                      /\ ProgramFlash(WordsOf(Records[i])).cells = WordsOf(Records[i])
                      /\ WordsOf(Records[i]) \subseteq Image
  BY WordsInImage, ProgramsBytes
<1> HIDE DEF K
<1>3. RecordByRecord \in Seq(Programs)
  BY <1>1, <1>2 DEF RecordByRecord
<1>4. /\ DOMAIN RecordByRecord = 1..K
      /\ \A i \in 1..K : RecordByRecord[i] = ProgramFlash(WordsOf(Records[i]))
  BY <1>1, Zenon DEF RecordByRecord
<1>5. \A b : b \in CellsOf(RecordByRecord) <=> \E i \in 1..K : b \in WordsOf(Records[i])
  <2>1. ToSet(RecordByRecord) = {ProgramFlash(WordsOf(Records[i])) : i \in 1..K}
    BY <1>4, Zenon DEF ToSet
  <2>2. \A b : b \in CellsOf(RecordByRecord) <=> \E c \in ToSet(RecordByRecord) : b \in c.cells
    BY Zenon DEF CellsOf
  <2>3. QED
    BY <1>2, <2>1, <2>2
<1>6. ASSUME type = "HS"
      PROVE  \A b : b \in Reached <=> \E i \in 1..K : b \in WordsOf(Records[i])
  BY <1>1, <1>6, Zenon DEF Reached
<1>7. ASSUME type = "HS" PROVE CellsOf(RecordByRecord) = Reached /\ Reached \subseteq Image
  BY <1>2, <1>5, <1>6, <1>7
<1>8. QED
  BY <1>3, <1>7
-----------------------------------------------------------------------------
(* The scripts.                                                            *)

\* What a command may change: the logic is erased as a whole and written by the ISP
\* commands only; init list and mode are erased together and programmed one by one.
Legit(c) ==
  /\ c.op = "wipe" => c.cells = Sector("logic")
  /\ c.op \in {"line", "ues"} => c.cells \subseteq Sector("logic")
  /\ c.op \in {"erase", "program"} => c.cells \cap Sector("logic") = {}
  /\ c.op = "erase" => (InitList \in c.cells <=> ModeList \in c.cells)
  /\ c.op = "program" => ~(InitList \in c.cells /\ ModeList \in c.cells)

Harmless == {c \in AllCommands : ~Touches(c) /\ Legit(c)}

\* What changes the firmware or the trigger erases or programs it, and the trigger is
\* programmed alone.
Proper(c) ==
  /\ Legit(c)
  /\ Touches(c) =>
       /\ c.op \in {"erase", "program"}
       /\ c.op = "program" /\ Trigger \in c.cells => c.cells = {Trigger}

Sound(s) ==
  s \in Seq(AllCommands) /\ InOrder(s) /\ \A c \in ToSet(s) : Proper(c)

Has(s, k) == \E c \in ToSet(s) : Touches(c) /\ Rank(c) = k
Erases(s, b) == \E c \in ToSet(s) : c.op = "erase" /\ b \in c.cells
ProgramsByte(s, b) == \E c \in ToSet(s) : c.op = "program" /\ b \in c.cells

\* Bytes are touched only in a script that erases the trigger, which is programmed only
\* in one that programs all that is sent of them and erases the others.
Whole(s) ==
  /\ Has(s, 2) \/ Has(s, 3) => Has(s, 1)
  /\ Has(s, 4) => \A b \in Image : IF b \in Reached THEN ProgramsByte(s, b) ELSE Erases(s, b)
  /\ \A b \in Image : b \notin Reached => ~ProgramsByte(s, b)

LEMMA ImageCells ==
  /\ \A b \in Image : \E a \in Nat : b = Byte(a)
  /\ Trigger \notin Image /\ Network \notin Image /\ InitList \notin Image
  /\ ModeList \notin Image /\ Ues \notin Image /\ \A r : Row(r) \notin Image
<1>1. ASSUME NEW b \in Image PROVE \E a \in Nat : b = Byte(a)
  <2>1. PICK i \in DOMAIN Records : b \in BytesOf(Records[i])
    BY DEF Image
  <2>2. Records[i].first \in Nat /\ Records[i].len \in Nat
    BY <2>1, RecordTypes
  <2>3. PICK a \in Records[i].first..(Records[i].first + Records[i].len - 1) : b = Byte(a)
    BY <2>1 DEF BytesOf
  <2>4. QED
    BY <2>2, <2>3
<1>2. QED
  BY <1>1 DEF Byte, Trigger, Network, InitList, ModeList, Ues, Row

\* The cells that are no bytes of the firmware, and the parts they make up.
LEMMA CellsDiffer ==
  /\ Trigger \notin {Network, InitList, ModeList, Ues} /\ \A r : Row(r) # Trigger
  /\ Network \notin {InitList, ModeList, Ues} /\ \A r : Row(r) # Network
  /\ InitList \notin {ModeList, Ues} /\ \A r : Row(r) # InitList
  /\ ModeList # Ues /\ \A r : Row(r) # ModeList /\ Row(r) # Ues
BY DEF Trigger, Network, InitList, ModeList, Ues, Row

LEMMA PartsDiffer ==
  /\ Vital \subseteq Cells /\ Trigger \in Vital /\ Image \subseteq Vital
  /\ Sector("logic") = Fuses \cup {Ues} /\ Sector("logic") \subseteq Cells
  /\ Sector("logic") \cap Vital = {}
  /\ \A x \in {Network, InitList, ModeList} : x \in Cells /\ x \notin Vital /\ x \notin Sector("logic")
  /\ \A r \in 1..Rows : Row(r) \in Fuses /\ Row(r) \notin Vital
  /\ Ues \notin Vital /\ Ues \notin Fuses
<1>1. Sector("logic") = Fuses \cup {Ues}
  BY DEF Sector
<1>2. \A x \in Fuses : \E r \in 1..Rows : x = Row(r)
  BY DEF Fuses
<1>3. \A x \in Fuses : x \notin Vital /\ x \notin {Network, InitList, ModeList, Ues}
  BY <1>2, ImageCells, CellsDiffer DEF Vital
<1>4. \A x \in {Network, InitList, ModeList, Ues} : x \notin Vital
  BY ImageCells, CellsDiffer DEF Vital
<1>5. \A r \in 1..Rows : Row(r) \in Fuses
  BY DEF Fuses
<1>6. QED
  BY <1>1, <1>3, <1>4, <1>5, CellsDiffer DEF Vital, Cells

\* Which commands are harmless, and the ranks of the others.
LEMMA HarmlessCommands ==
  /\ \A s \in {"network", "config"} : EraseSector(s) \in Harmless
  /\ \A c \in {Network, InitList, ModeList} :
       ProgramFlash({c}) \in Harmless /\ ReadMemory({c}) \in Harmless
  /\ IspEnable \in Harmless /\ IspDisable \in Harmless
  /\ Cmd("start", {}) \in Harmless /\ Cmd("version", {}) \in Harmless
  /\ Cmd("id", {}) \in Harmless /\ Cmd("exit", {}) \in Harmless
  /\ Cmd("wipe", Sector("logic")) \in Harmless
  /\ Cmd("ues", {Ues}) \in Harmless /\ Cmd("readues", {Ues}) \in Harmless
  /\ \A r \in 1..Rows : Cmd("line", {Row(r)}) \in Harmless /\ Cmd("readline", {Row(r)}) \in Harmless
<1>1. ASSUME NEW op \in Ops, NEW cells \in SUBSET Cells, cells \cap Vital = {},
             Legit(Cmd(op, cells))
      PROVE  Cmd(op, cells) \in Harmless
  BY <1>1 DEF Cmd, Harmless, AllCommands, Touches
<1>2. \A op, cells : Cmd(op, cells).op = op /\ Cmd(op, cells).cells = cells
  BY DEF Cmd
<1>3. \A op \in {"start", "version", "id", "exit", "enable", "disable"} : Cmd(op, {}) \in Harmless
  BY <1>1, <1>2 DEF Ops, Legit
<1>4. ASSUME NEW op \in Readers, NEW cells \in SUBSET Cells, cells \cap Vital = {}
      PROVE  Cmd(op, cells) \in Harmless
  BY <1>1, <1>2, <1>4 DEF Ops, Legit, Readers
<1>5. \A x \in {Network, InitList, ModeList} :
        ProgramFlash({x}) \in Harmless /\ ReadMemory({x}) \in Harmless
  <2>1. \A x \in {Network, InitList, ModeList} : Legit(Cmd("program", {x}))
    BY <1>2, PartsDiffer, CellsDiffer DEF Legit
  <2>2. QED
    BY <1>1, <1>4, <2>1, PartsDiffer DEF ProgramFlash, ReadMemory, Ops, Readers
<1>6. \A s \in {"network", "config"} : EraseSector(s) \in Harmless
  <2>1. Sector("network") = {Network} /\ Sector("config") = {InitList, ModeList}
    BY DEF Sector
  <2>2. Legit(Cmd("erase", {Network})) /\ Legit(Cmd("erase", {InitList, ModeList}))
    BY <1>2, PartsDiffer, CellsDiffer DEF Legit
  <2>3. QED
    BY <1>1, <2>1, <2>2, PartsDiffer DEF EraseSector, Ops
<1>7. /\ Cmd("wipe", Sector("logic")) \in Harmless
      /\ Cmd("ues", {Ues}) \in Harmless /\ Cmd("readues", {Ues}) \in Harmless
  <2>1. Legit(Cmd("wipe", Sector("logic"))) /\ Legit(Cmd("ues", {Ues}))
    BY <1>2, PartsDiffer DEF Legit
  <2>2. QED
    BY <1>1, <1>4, <2>1, PartsDiffer DEF Ops, Readers
<1>8. \A r \in 1..Rows :
         Cmd("line", {Row(r)}) \in Harmless /\ Cmd("readline", {Row(r)}) \in Harmless
  <2>1. \A r \in 1..Rows : Legit(Cmd("line", {Row(r)}))
    BY <1>2, PartsDiffer DEF Legit
  <2>2. QED
    BY <1>1, <1>4, <2>1, PartsDiffer DEF Ops, Readers
<1>9. QED
  BY <1>3, <1>5, <1>6, <1>7, <1>8 DEF IspEnable, IspDisable

LEMMA VitalCommands ==
  /\ \A c \in Harmless : c \in AllCommands /\ ~Touches(c) /\ Proper(c)
  /\ LET c == EraseSector("firmware1") IN
       c \in AllCommands /\ Touches(c) /\ Proper(c) /\ Rank(c) = 1
  /\ LET c == EraseSector("firmware2") IN
       c \in AllCommands /\ Proper(c) /\ Rank(c) = 2
  /\ \A c \in Programs : c \in AllCommands /\ Proper(c) /\ Rank(c) = 3
  /\ LET c == ProgramFlash({Trigger}) IN
       c \in AllCommands /\ Touches(c) /\ Proper(c) /\ Rank(c) = 4
<1>1. \A c \in Harmless : c \in AllCommands /\ ~Touches(c) /\ Proper(c)
  BY DEF Harmless, Proper
<1>2. Trigger \in Cells /\ Trigger \in Vital /\ Image \subseteq Cells
  BY DEF Cells, Vital
<1>3. /\ Sector("firmware1") \subseteq Cells /\ Trigger \in Sector("firmware1")
      /\ Sector("firmware1") \subseteq Vital
      /\ Sector("firmware2") \subseteq Image
  BY <1>2 DEF Sector, Vital
<1>4. ASSUME NEW c, c.op \in {"erase", "program"}, c.cells \subseteq Vital
      PROVE  Legit(c)
  BY <1>4, PartsDiffer DEF Legit
<1>5. LET c == EraseSector("firmware1") IN
        c \in AllCommands /\ Touches(c) /\ Proper(c) /\ Rank(c) = 1
  <2> DEFINE c == EraseSector("firmware1")
  <2>1. c.op = "erase" /\ c.cells = Sector("firmware1")
    BY DEF EraseSector, Cmd
  <2>2. c \in AllCommands
    BY <1>3 DEF EraseSector, Cmd, AllCommands, Ops
  <2> HIDE DEF c
  <2>3. Touches(c) /\ Proper(c) /\ Rank(c) = 1
    BY <1>2, <1>3, <1>4, <2>1 DEF Touches, Proper, Rank
  <2>4. QED
    BY <2>2, <2>3 DEF c
<1>6. LET c == EraseSector("firmware2") IN c \in AllCommands /\ Proper(c) /\ Rank(c) = 2
  <2> DEFINE c == EraseSector("firmware2")
  <2>1. c.op = "erase" /\ c.cells = Sector("firmware2")
    BY DEF EraseSector, Cmd
  <2>2. c \in AllCommands
    BY <1>2, <1>3 DEF EraseSector, Cmd, AllCommands, Ops
  <2> HIDE DEF c
  <2>3. Legit(c)
    BY <1>3, <1>4, <2>1, PartsDiffer
  <2>4. Proper(c) /\ Rank(c) = 2
    BY <1>3, <2>1, <2>3, ImageCells DEF Proper, Rank
  <2>5. QED
    BY <2>2, <2>4 DEF c
<1>7. ASSUME NEW c \in Programs PROVE c \in AllCommands /\ Proper(c) /\ Rank(c) = 3
  <2>1. c \in AllCommands /\ c.op = "program" /\ c.cells \subseteq Image
    BY DEF Programs
  <2>2. Legit(c)
    BY <1>4, <2>1, PartsDiffer
  <2>3. QED
    BY <2>1, <2>2, ImageCells DEF Proper, Rank
<1>8. LET c == ProgramFlash({Trigger}) IN
        c \in AllCommands /\ Touches(c) /\ Proper(c) /\ Rank(c) = 4
  <2> DEFINE c == ProgramFlash({Trigger})
  <2>1. c.op = "program" /\ c.cells = {Trigger}
    BY DEF ProgramFlash, Cmd
  <2>2. c \in AllCommands
    BY <1>2 DEF ProgramFlash, Cmd, AllCommands, Ops
  <2> HIDE DEF c
  <2>3. Touches(c) /\ Proper(c) /\ Rank(c) = 4
    BY <1>2, <1>4, <2>1 DEF Touches, Proper, Rank
  <2>4. QED
    BY <2>2, <2>3 DEF c
<1>9. QED
  BY <1>1, <1>5, <1>6, <1>7, <1>8

LEMMA SetOf ==
  ASSUME NEW S, NEW s \in Seq(S)
  PROVE  ToSet(s) \subseteq S
BY DEF ToSet

\* The commands of a script of harmless ones, and of the smallest scripts.
LEMMA HarmlessScript ==
  ASSUME NEW s \in Seq(Harmless), InOrder(s)
  PROVE  Sound(s) /\ Whole(s) /\ ToSet(s) \subseteq Harmless
<1>1. ToSet(s) \subseteq Harmless
  BY SetOf
<1>2. s \in Seq(AllCommands)
  BY VitalCommands, SeqMonotonic
<1>3. \A c \in ToSet(s) : ~Touches(c) /\ Proper(c)
  BY <1>1, VitalCommands
<1>4. \A b \in Image : ~ProgramsByte(s, b)
  BY <1>3, PartsDiffer DEF ProgramsByte, Touches
<1>5. QED
  BY <1>1, <1>2, <1>3, <1>4 DEF Sound, Whole, Has

LEMMA AllInOrder ==
  ASSUME NEW S, NEW s \in Seq(S), \A c, d \in S : Precedes(c, d)
  PROVE  InOrder(s)
<1>1. \A i \in DOMAIN s : s[i] \in S
  BY ElementOfSeq
<1>2. QED
  BY <1>1 DEF InOrder

LEMMA TwoOf ==
  ASSUME NEW S, NEW a \in S, NEW b \in S
  PROVE  /\ <<a, b>> \in Seq(S) /\ ToSet(<<a, b>>) = {a, b}
         /\ Precedes(a, b) => InOrder(<<a, b>>)
<1> DEFINE s == <<a, b>>
<1>1. s \in Seq(S) /\ DOMAIN s = {1, 2} /\ s[1] = a /\ s[2] = b
  OBVIOUS
<1> HIDE DEF s
<1>2. ToSet(s) = {a, b}
  BY <1>1 DEF ToSet
<1>3. Precedes(a, b) => InOrder(s)
  BY <1>1 DEF InOrder
<1>4. QED
  BY <1>1, <1>2, <1>3 DEF s

LEMMA FourOf ==
  ASSUME NEW S, NEW a \in S, NEW b \in S, NEW c \in S, NEW d \in S
  PROVE  /\ <<a, b, c, d>> \in Seq(S) /\ ToSet(<<a, b, c, d>>) = {a, b, c, d}
         /\ Head(<<a, b, c, d>>) = a /\ <<a, b, c, d>> # <<>>
         /\ /\ Precedes(a, b) /\ Precedes(a, c) /\ Precedes(a, d)
            /\ Precedes(b, c) /\ Precedes(b, d) /\ Precedes(c, d)
            => InOrder(<<a, b, c, d>>)
<1> DEFINE s == <<a, b, c, d>>
<1>1. /\ s \in Seq(S) /\ DOMAIN s = {1, 2, 3, 4} /\ s[1] = a /\ s[2] = b /\ s[3] = c /\ s[4] = d
      /\ Head(s) = a /\ s # <<>>
  OBVIOUS
<1> HIDE DEF s
<1>2. ToSet(s) = {a, b, c, d}
  BY <1>1 DEF ToSet
<1>3. ASSUME Precedes(a, b), Precedes(a, c), Precedes(a, d),
             Precedes(b, c), Precedes(b, d), Precedes(c, d)
      PROVE  InOrder(s)
  BY <1>1, <1>3 DEF InOrder
<1>4. QED
  BY <1>1, <1>2, <1>3 DEF s

LEMMA HeadOf ==
  ASSUME NEW S, NEW s \in Seq(S), NEW t \in Seq(S), s # <<>>
  PROVE  s \o t # <<>> /\ Head(s \o t) = Head(s)
<1>1. Len(s) \in Nat /\ Len(s) # 0 /\ Len(t) \in Nat
  BY EmptySeq, LenProperties
<1>2. s \o t \in Seq(S) /\ Len(s \o t) = Len(s) + Len(t) /\ (s \o t)[1] = s[1]
  BY <1>1, ConcatProperties
<1>3. QED
  BY <1>1, <1>2, HeadTailProperties, LenProperties

LEMMA Joined ==
  ASSUME NEW u, NEW v, Sound(u), Sound(v), \A c \in ToSet(u), d \in ToSet(v) : Precedes(c, d)
  PROVE  /\ Sound(u \o v) /\ ToSet(u \o v) = ToSet(u) \cup ToSet(v)
         /\ Whole(u) /\ Whole(v) => Whole(u \o v)
<1>1. u \in Seq(AllCommands) /\ v \in Seq(AllCommands) /\ InOrder(u) /\ InOrder(v)
  BY DEF Sound
<1>2. /\ u \o v \in Seq(AllCommands) /\ InOrder(u \o v)
      /\ ToSet(u \o v) = ToSet(u) \cup ToSet(v)
  BY <1>1, ConcatOf, Zenon
<1> DEFINE w == u \o v
<1> HIDE DEF w
<1>3. ToSet(w) = ToSet(u) \cup ToSet(v) => (Whole(u) /\ Whole(v) => Whole(w))
  BY DEF Whole, Has, ProgramsByte, Erases
<1>4. QED
  BY <1>2, <1>3 DEF Sound, w

\* Harmless commands are ordered by their cells.
LEMMA HarmlessOrder ==
  /\ \A c \in Harmless : \A d : Follows(c, d) => Precedes(c, d)
  /\ \A d \in Harmless : \A c : Follows(c, d) => Precedes(c, d)
BY DEF Precedes, Harmless
-----------------------------------------------------------------------------
Wipe == Cmd("wipe", Sector("logic"))
Wipes(s) == \E c \in ToSet(s) : c.op = "wipe"

EraseLogicSet == {IspEnable, Cmd("id", {}), Wipe, IspDisable}

\* The commands without a cell.
LEMMA NoCells ==
  /\ IspEnable.op = "enable" /\ IspEnable.cells = {}
  /\ Cmd("id", {}).op = "id" /\ Cmd("id", {}).cells = {}
  /\ IspDisable.op = "disable" /\ IspDisable.cells = {}
  /\ Cmd("exit", {}).op = "exit" /\ Cmd("exit", {}).cells = {}
  /\ Wipe.op = "wipe" /\ Wipe.cells = Sector("logic") /\ Grade(Wipe) = 1
BY DEF IspEnable, IspDisable, Cmd, Wipe, Grade

LEMMA EraseLogicFits ==
  /\ Sound(EraseLogic) /\ Whole(EraseLogic) /\ ToSet(EraseLogic) = EraseLogicSet
  /\ EraseLogicSet \subseteq Harmless /\ EraseLogic # <<>> /\ Head(EraseLogic) = IspEnable
<1> DEFINE c2 == Cmd("id", {})
<1>1. IspEnable \in Harmless /\ c2 \in Harmless /\ Wipe \in Harmless /\ IspDisable \in Harmless
  BY HarmlessCommands DEF Wipe
<1>2. /\ IspEnable.op = "enable" /\ c2.op = "id" /\ Wipe.op = "wipe" /\ IspDisable.op = "disable"
      /\ IspEnable.cells = {} /\ c2.cells = {} /\ IspDisable.cells = {}
  BY NoCells
<1>3. EraseLogic = <<IspEnable, c2, Wipe, IspDisable>>
  BY DEF EraseLogic, Wipe
<1> HIDE DEF c2
<1>4. /\ Follows(IspEnable, c2) /\ Follows(IspEnable, Wipe) /\ Follows(IspEnable, IspDisable)
      /\ Follows(c2, Wipe) /\ Follows(c2, IspDisable) /\ Follows(Wipe, IspDisable)
  BY <1>2 DEF Follows
<1>5. /\ EraseLogic \in Seq(Harmless) /\ InOrder(EraseLogic) /\ EraseLogic # <<>>
      /\ ToSet(EraseLogic) = {IspEnable, c2, Wipe, IspDisable} /\ Head(EraseLogic) = IspEnable
  BY <1>1, <1>3, <1>4, HarmlessOrder, FourOf
<1>6. QED
  BY <1>1, <1>5, HarmlessScript DEF EraseLogicSet, c2

\* The commands of an update of the logic are not ordered against those of other cells.
WillRead(s, x) == \E c \in ToSet(s) : x \in c.cells /\ c.op \in Readers

LEMMA UpdateLogicFits ==
  /\ Sound(UpdateLogic) /\ Whole(UpdateLogic)
  /\ \A c \in ToSet(UpdateLogic) :
       /\ c \in Harmless /\ c.cells \subseteq Sector("logic")
       /\ c.op \in {"enable", "line", "ues", "readline", "readues", "disable"}
  /\ \A x \in Sector("logic") : WillRead(UpdateLogic, x)
<1> DEFINE lines == [r \in 1..Rows |-> Cmd("line", {Row(r)})]
           reads == [r \in 1..Rows |-> Cmd("readline", {Row(r)})]
           ues == Cmd("ues", {Ues})
           last == Cmd("readues", {Ues})
           Writing == {c \in Harmless : c.op \in {"enable", "line", "ues"}
                                          /\ c.cells \subseteq Sector("logic")}
           Reading == {c \in Harmless : c.op \in {"readline", "readues"}
                                          /\ c.cells \subseteq Sector("logic")}
           Leaving == {IspDisable}
<1>1. Rows \in Nat
  BY SetupAssumption
<1>2. \A op, cells : Cmd(op, cells).op = op /\ Cmd(op, cells).cells = cells
  BY DEF Cmd
<1>3. /\ IspEnable \in Writing /\ ues \in Writing /\ last \in Reading
      /\ \A r \in 1..Rows : Cmd("line", {Row(r)}) \in Writing /\ Cmd("readline", {Row(r)}) \in Reading
  BY <1>2, HarmlessCommands, NoCells, PartsDiffer
<1>4. Writing \subseteq Harmless /\ Reading \subseteq Harmless /\ Leaving \subseteq Harmless
  BY HarmlessCommands
<1>5. /\ \A c, d \in Writing : Precedes(c, d)
      /\ \A c, d \in Reading : Precedes(c, d)
      /\ \A c \in Writing, d \in Reading : Precedes(c, d)
      /\ \A c \in Writing \cup Reading, d \in Leaving : Precedes(c, d)
  <2>1. /\ \A c \in Writing : c.op \notin {"program", "wipe"} /\ Grade(c) = 2
        /\ \A c \in Reading : c.op \notin {"program", "wipe"} /\ Grade(c) = 3
        /\ \A c \in Leaving : c.op \notin {"program", "wipe"} /\ c.cells = {}
    BY NoCells DEF Grade, Readers
  <2>2. /\ \A c, d \in Writing : Follows(c, d)
        /\ \A c, d \in Reading : Follows(c, d)
        /\ \A c \in Writing, d \in Reading : Follows(c, d)
        /\ \A c \in Writing \cup Reading, d \in Leaving : Follows(c, d)
    BY <2>1 DEF Follows
  <2>3. QED
    BY <1>4, <2>2, HarmlessOrder
<1> HIDE DEF ues, last, Writing, Reading, Leaving
<1>6. lines \in Seq(Writing) /\ reads \in Seq(Reading)
  BY <1>1, <1>3
<1>7. UpdateLogic = (((<<IspEnable>> \o lines) \o <<ues>>) \o reads) \o <<last, IspDisable>>
  BY DEF UpdateLogic, ues, last
<1>8. DOMAIN reads = 1..Rows /\ \A r \in 1..Rows : reads[r] = Cmd("readline", {Row(r)})
  OBVIOUS
<1> DEFINE start == (<<IspEnable>> \o lines) \o <<ues>>
           end == <<last, IspDisable>>
<1> HIDE DEF lines, reads
<1>9. start \in Seq(Writing)
  <2>1. <<IspEnable>> \in Seq(Writing) /\ <<ues>> \in Seq(Writing)
    BY <1>3
  <2>2. QED
    BY <1>6, <2>1, ConcatProperties
<1> HIDE DEF start
<1>10. ASSUME NEW S, S \subseteq Harmless, NEW s \in Seq(S), InOrder(s)
       PROVE  Sound(s) /\ Whole(s) /\ ToSet(s) \subseteq S
  <2>1. s \in Seq(Harmless) /\ ToSet(s) \subseteq S
    BY <1>10, SeqMonotonic, SetOf
  <2>2. QED
    BY <1>10, <2>1, HarmlessScript
<1>11. Sound(start) /\ Whole(start) /\ ToSet(start) \subseteq Writing
  BY <1>4, <1>5, <1>9, <1>10, AllInOrder
<1>12. Sound(reads) /\ Whole(reads) /\ ToSet(reads) \subseteq Reading
  BY <1>4, <1>5, <1>6, <1>10, AllInOrder
<1>13. Sound(end) /\ Whole(end) /\ ToSet(end) = {last, IspDisable}
  <2>1. last \in Harmless /\ IspDisable \in Harmless /\ IspDisable \in Leaving
    BY <1>3, <1>4 DEF Leaving
  <2>2. Precedes(last, IspDisable)
    BY <1>3, <1>5, <2>1
  <2>3. end \in Seq(Harmless) /\ ToSet(end) = {last, IspDisable} /\ InOrder(end)
    BY <2>1, <2>2, TwoOf
  <2>4. QED
    BY <2>3, HarmlessScript
<1> HIDE DEF end
<1>14. /\ Sound(start \o reads) /\ Whole(start \o reads)
       /\ ToSet(start \o reads) = ToSet(start) \cup ToSet(reads)
  <2>1. \A c \in ToSet(start), d \in ToSet(reads) : Precedes(c, d)
    BY <1>5, <1>11, <1>12
  <2>2. QED
    BY <1>11, <1>12, <2>1, Joined
<1>15. /\ Sound(UpdateLogic) /\ Whole(UpdateLogic)
       /\ ToSet(UpdateLogic) = (ToSet(start) \cup ToSet(reads)) \cup {last, IspDisable}
  <2>1. \A c \in Writing \cup Reading, d \in {last, IspDisable} : Precedes(c, d)
    BY <1>3, <1>5 DEF Leaving
  <2>2. \A c \in ToSet(start \o reads), d \in ToSet(end) : Precedes(c, d)
    BY <1>11, <1>12, <1>13, <1>14, <2>1
  <2>3. UpdateLogic = (start \o reads) \o end
    BY <1>7 DEF start, end
  <2>4. QED
    BY <1>13, <1>14, <2>2, <2>3, Joined
<1>16. ASSUME NEW c \in ToSet(UpdateLogic)
       PROVE  /\ c \in Harmless /\ c.cells \subseteq Sector("logic")
              /\ c.op \in {"enable", "line", "ues", "readline", "readues", "disable"}
  <2>1. c \in Writing \/ c \in Reading \/ c \in Leaving
    BY <1>3, <1>11, <1>12, <1>15 DEF Leaving
  <2>2. CASE c \in Writing
    BY <2>2 DEF Writing
  <2>3. CASE c \in Reading
    BY <2>3 DEF Reading
  <2>4. CASE c \in Leaving
    BY <1>4, <2>4, NoCells DEF Leaving
  <2>5. QED
    BY <2>1, <2>2, <2>3, <2>4
<1>17. ASSUME NEW x \in Sector("logic") PROVE WillRead(UpdateLogic, x)
  <2>1. CASE x = Ues
    <3>1. last \in ToSet(UpdateLogic) /\ last.op \in Readers /\ x \in last.cells
      BY <1>2, <1>15, <2>1 DEF last, Readers
    <3>2. QED
      BY <3>1 DEF WillRead
  <2>2. CASE x \in Fuses
    <3>1. PICK r \in 1..Rows : x = Row(r)
      BY <2>2 DEF Fuses
    <3>2. reads[r] \in ToSet(reads)
      BY <1>8 DEF ToSet
    <3>3. reads[r].cells = {Row(r)} /\ reads[r].op = "readline"
      <4>1. reads[r] = Cmd("readline", {Row(r)})
        BY <1>8
      <4>2. QED
        BY <4>1 DEF Cmd
    <3>4. reads[r] \in ToSet(UpdateLogic)
      BY <1>15, <3>2, Zenon
    <3>5. QED
      BY <3>1, <3>3, <3>4 DEF WillRead, Readers
  <2>3. QED
    BY <2>1, <2>2, PartsDiffer
<1>18. QED
  BY <1>15, <1>16, <1>17

\* The two firmware sectors hold every byte between them.
LEMMA ByteSectors == \A b \in Image : b \in Sector("firmware1") \/ b \in Sector("firmware2")
<1> SUFFICES ASSUME NEW b \in Image PROVE b \in Sector("firmware1") \cup Sector("firmware2")
  OBVIOUS
<1>1. PICK a \in Nat : b = Byte(a)
  BY ImageCells
<1>2. b[2] < SectorSize \/ b[2] >= SectorSize
  BY <1>1, SetupAssumption DEF Byte
<1>3. QED
  BY <1>2 DEF Sector

\* What the update of the firmware programs, and that it ends with the trigger.
LEMMA UpdateFirmwareFits ==
  /\ Sound(UpdateFirmware) /\ Whole(UpdateFirmware) /\ Has(UpdateFirmware, 4)
  /\ \A c \in ToSet(UpdateFirmware) :
       /\ c.op \in {"erase", "program"} /\ c.cells \cap Sector("logic") = {}
       /\ c.op = "program" => c.cells \subseteq Vital
<1> DEFINE c0 == EraseSector("config")
           c1 == EraseSector("firmware1")
           c2 == EraseSector("firmware2")
           c4 == ProgramFlash({Trigger})
           file == IF type = "HS" THEN RecordByRecord ELSE Blocks
           first == <<c0, c1, c2>>
           last == <<c4>>
<1>1. file \in Seq(Programs) /\ Image \cap Reached = Image \cap CellsOf(file)
  BY BlocksFit, RecordsFit DEF Reached
<1>2. /\ c0 \in AllCommands /\ ~Touches(c0) /\ Proper(c0)
      /\ c1 \in AllCommands /\ Touches(c1) /\ Rank(c1) = 1 /\ Proper(c1)
      /\ c2 \in AllCommands /\ Rank(c2) = 2 /\ Proper(c2)
      /\ c4 \in AllCommands /\ Touches(c4) /\ Rank(c4) = 4 /\ Proper(c4)
  BY HarmlessCommands, VitalCommands
<1>3. \A c \in Programs : c \in AllCommands /\ Rank(c) = 3 /\ Proper(c)
  BY VitalCommands
<1>4. \A c \in Programs \cup {c4} : c.op = "program" /\ c.cells \subseteq Vital /\ Grade(c) = 2
  BY PartsDiffer DEF Programs, ProgramFlash, Cmd, Grade, Readers
<1>5. \A c \in {c0, c1, c2} : c.op = "erase" /\ Grade(c) = 1
  BY DEF EraseSector, Cmd, Grade
<1>6. UpdateFirmware = (first \o file) \o last
  BY DEF UpdateFirmware
<1> HIDE DEF file, c0, c1, c2, c4
<1>7. /\ \A c, d \in {c0, c1, c2} : Follows(c, d)
      /\ \A c \in {c0, c1, c2}, d \in Programs \cup {c4} : Follows(c, d)
      /\ \A c, d \in Programs \cup {c4} : Follows(c, d)
  BY <1>4, <1>5, PartsDiffer DEF Follows
<1>8. Sound(first) /\ ToSet(first) = {c0, c1, c2}
  <2>1. first \in Seq(AllCommands)
    BY <1>2
  <2>2. /\ DOMAIN first = {1, 2, 3}
        /\ first[1] = c0 /\ first[2] = c1 /\ first[3] = c2
    OBVIOUS
  <2> HIDE DEF first
  <2>3. ToSet(first) = {c0, c1, c2}
    BY <2>2 DEF ToSet
  <2>4. Precedes(c0, c1) /\ Precedes(c0, c2) /\ Precedes(c1, c2)
    BY <1>2, <1>7 DEF Precedes
  <2>5. InOrder(first)
    BY <2>2, <2>4 DEF InOrder
  <2>6. QED
    BY <1>2, <2>1, <2>3, <2>5 DEF Sound
<1>9. Sound(last) /\ ToSet(last) = {c4}
  <2>1. last \in Seq(AllCommands) /\ ToSet(last) = {c4} /\ InOrder(last)
    BY <1>2, SingleOf, Zenon
  <2>2. QED
    BY <1>2, <2>1 DEF Sound
<1>10. Sound(file) /\ ToSet(file) \subseteq Programs
  <2>1. file \in Seq(AllCommands)
    BY <1>1, <1>3, SeqMonotonic
  <2>2. ToSet(file) \subseteq Programs
    BY <1>1, SetOf
  <2>3. \A c, d \in Programs : Precedes(c, d)
    BY <1>3, <1>7 DEF Precedes
  <2>4. InOrder(file)
    BY <1>1, <2>3, AllInOrder
  <2>5. QED
    BY <1>3, <2>1, <2>2, <2>4 DEF Sound
<1> HIDE DEF first, last
<1>11. Sound(first \o file) /\ ToSet(first \o file) = {c0, c1, c2} \cup ToSet(file)
  <2>1. \A c \in ToSet(first), d \in ToSet(file) : Precedes(c, d)
    BY <1>2, <1>3, <1>7, <1>8, <1>10 DEF Precedes
  <2>2. QED
    BY <1>8, <1>10, <2>1, Joined
<1>12. Sound(UpdateFirmware) /\ ToSet(UpdateFirmware) = {c0, c1, c2} \cup ToSet(file) \cup {c4}
  <2>1. \A c \in ToSet(first \o file), d \in ToSet(last) : Precedes(c, d)
    BY <1>2, <1>3, <1>7, <1>9, <1>10, <1>11 DEF Precedes
  <2>2. QED
    BY <1>6, <1>9, <1>11, <2>1, Joined
<1>13. Has(UpdateFirmware, 1) /\ Has(UpdateFirmware, 4)
  BY <1>2, <1>12 DEF Has
<1>14. ASSUME NEW b \in Image
       PROVE  (b \in Reached <=> ProgramsByte(UpdateFirmware, b)) /\ Erases(UpdateFirmware, b)
  <2>1. b \in Reached <=> \E c \in ToSet(file) : b \in c.cells
    BY <1>1 DEF CellsOf
  <2>2. c4.cells = {Trigger} /\ b # Trigger
    BY ImageCells DEF c4, ProgramFlash, Cmd
  <2>3. b \in Reached <=> ProgramsByte(UpdateFirmware, b)
    BY <1>4, <1>5, <1>10, <1>12, <2>1, <2>2 DEF ProgramsByte
  <2>4. b \in c1.cells \/ b \in c2.cells
    BY ByteSectors DEF c1, c2, EraseSector, Cmd
  <2>5. QED
    BY <1>5, <1>12, <2>3, <2>4 DEF Erases
<1>15. ASSUME NEW c \in ToSet(UpdateFirmware)
       PROVE  /\ c.op \in {"erase", "program"} /\ c.cells \cap Sector("logic") = {}
              /\ c.op = "program" => c.cells \subseteq Vital
  <2>1. c \in {c0, c1, c2} \/ c \in Programs \cup {c4}
    BY <1>10, <1>12
  <2>2. c.op \in {"erase", "program"} /\ (c.op = "program" => c.cells \subseteq Vital)
    BY <1>4, <1>5, <2>1
  <2>3. Legit(c)
    BY <1>12 DEF Sound, Proper
  <2>4. QED
    BY <2>2, <2>3 DEF Legit
<1>16. QED
  BY <1>12, <1>13, <1>14, <1>15 DEF Whole

\* What the scripts have in common, besides their order: they do not start the BDI anew
\* while they change it; ISP mode is entered first when the logic is erased; new firmware
\* comes with logic that is erased or new; init list and mode are erased before the init
\* list is programmed, which is before the mode; what an update or a configuration
\* leaves behind has been read back, or was new before and is not written; and only an
\* update and an erasure touch firmware and trigger.
Restarts(s) == \E c \in ToSet(s) : c.op \in {"start", "exit"}
Writers == {"erase", "program", "wipe", "line", "ues"}
Unwritten(s, x) == \A c \in ToSet(s) : x \in c.cells => c.op \notin Writers
WritesNone(s) == \A c \in ToSet(s) : c.op \notin Writers

Purposeful(t, firmware, logic, s) ==
  /\ Restarts(s) => ~Wipes(s) /\ ~Has(s, 4)
  /\ Wipes(s) => Head(s).op = "enable"
  /\ Has(s, 4) => Wipes(s) \/ logic = "new"
  /\ ProgramsByte(s, InitList) => Erases(s, ModeList)
  /\ ProgramsByte(s, ModeList) => ProgramsByte(s, InitList)
  /\ t = "config" => \A x \in {Network, InitList, ModeList} : WillRead(s, x)
  /\ t = "update" =>
       /\ Has(s, 4) \/ (firmware = "new" /\ Unwritten(s, Trigger))
       /\ IF logic = "new" THEN Unwritten(s, Ues)
          ELSE \A x \in Sector("logic") : WillRead(s, x)
  /\ t = "erase" => Has(s, 1)
  /\ t \notin {"update", "erase"} => \A c \in ToSet(s) : ~Touches(c)
  /\ t = "startup" => WritesNone(s)

Empty == Sound(<<>>) /\ Whole(<<>>) /\ ToSet(<<>>) = {}

LEMMA EmptyFits == Empty
BY EmptyOf DEF Empty, Sound, Whole, Has, ProgramsByte

LEMMA FirmwareLogicFits ==
  ASSUME NEW firmware, NEW logic
  PROVE  LET s == FirmwareLogic(firmware, logic) IN
         Sound(s) /\ Whole(s) /\ Purposeful("update", firmware, logic, s)
<1> DEFINE h1 == IF logic # "new" THEN EraseLogic ELSE <<>>
           u == IF firmware # "new" THEN UpdateFirmware ELSE <<>>
           h2 == IF logic # "new" THEN UpdateLogic ELSE <<>>
           s == (h1 \o u) \o h2
<1>1. Sound(h1) /\ Whole(h1) /\ ToSet(h1) = IF logic # "new" THEN EraseLogicSet ELSE {}
  BY EraseLogicFits, EmptyFits DEF Empty
<1>2. /\ Sound(u) /\ Whole(u) /\ (IF firmware # "new" THEN Has(u, 4) ELSE ToSet(u) = {})
      /\ \A c \in ToSet(u) :
           /\ c.op \in {"erase", "program"} /\ c.cells \cap Sector("logic") = {}
           /\ c.op = "program" => c.cells \subseteq Vital
  BY UpdateFirmwareFits, EmptyFits DEF Empty
<1>3. /\ Sound(h2) /\ Whole(h2)
      /\ \A c \in ToSet(h2) :
           /\ c \in Harmless /\ c.cells \subseteq Sector("logic")
           /\ c.op \in {"enable", "line", "ues", "readline", "readues", "disable"}
      /\ IF logic # "new" THEN \A x \in Sector("logic") : WillRead(h2, x) ELSE ToSet(h2) = {}
  BY UpdateLogicFits, EmptyFits DEF Empty
<1>4. FirmwareLogic(firmware, logic) = s
  BY DEF FirmwareLogic
<1>5. logic # "new" => h1 # <<>> /\ Head(h1).op = "enable"
  BY EraseLogicFits, NoCells
<1> HIDE DEF h1, u, h2
<1>6. \A c \in ToSet(h1) :
         /\ c \in Harmless /\ c.cells \subseteq Sector("logic")
         /\ c.op \in {"enable", "id", "wipe", "disable"}
         /\ c.op = "wipe" => Grade(c) = 1
         /\ c.op # "wipe" => c.cells = {}
  BY <1>1, EraseLogicFits, NoCells DEF EraseLogicSet
<1>7. \A c \in ToSet(h1), d \in ToSet(u) : Precedes(c, d)
  <2>1. \A c \in ToSet(h1), d \in ToSet(u) : Follows(c, d)
    BY <1>2, <1>6 DEF Follows
  <2>2. QED
    BY <1>6, <2>1, HarmlessOrder
<1>8. /\ Sound(h1 \o u) /\ Whole(h1 \o u) /\ ToSet(h1 \o u) = ToSet(h1) \cup ToSet(u)
  BY <1>1, <1>2, <1>7, Joined
<1>9. \A c \in ToSet(h1) \cup ToSet(u), d \in ToSet(h2) : Precedes(c, d)
  <2>1. ASSUME NEW c \in ToSet(h1), NEW d \in ToSet(h2) PROVE Follows(c, d)
    <3>1. Grade(d) \in {1, 2, 3}
      BY DEF Grade
    <3>2. c.op = "wipe" => Grade(c) <= Grade(d)
      BY <1>6, <3>1
    <3>3. QED
      BY <1>3, <1>6, <3>2 DEF Follows
  <2>2. \A c \in ToSet(u), d \in ToSet(h2) : Follows(c, d)
    BY <1>2, <1>3 DEF Follows
  <2>3. QED
    BY <1>3, <2>1, <2>2, HarmlessOrder
<1>10. /\ Sound(s) /\ Whole(s) /\ ToSet(s) = (ToSet(h1) \cup ToSet(u)) \cup ToSet(h2)
  BY <1>1, <1>2, <1>3, <1>8, <1>9, Joined
<1>11. Wipes(s) => Head(s).op = "enable"
  <2> SUFFICES ASSUME Wipes(s) PROVE Head(s).op = "enable"
    OBVIOUS
  <2>1. logic # "new"
    BY <1>1, <1>2, <1>3, <1>10 DEF Wipes
  <2>2. h1 \in Seq(AllCommands) /\ u \in Seq(AllCommands) /\ h2 \in Seq(AllCommands)
    BY <1>1, <1>2, <1>3 DEF Sound
  <2>3. h1 \o u # <<>> /\ Head(h1 \o u) = Head(h1) /\ h1 \o u \in Seq(AllCommands)
    BY <1>5, <2>1, <2>2, HeadOf, ConcatProperties
  <2>4. Head(s) = Head(h1)
    BY <2>2, <2>3, HeadOf
  <2>5. QED
    BY <1>5, <2>1, <2>4
<1> HIDE DEF s
<1>12. logic # "new" => Wipes(s)
  <2>1. Wipe.op = "wipe" /\ Wipe \in EraseLogicSet
    BY NoCells DEF EraseLogicSet
  <2>2. QED
    BY <1>1, <1>10, <2>1 DEF Wipes
<1>13. ~Restarts(s)
  BY <1>2, <1>3, <1>6, <1>10 DEF Restarts
<1>14. ~ProgramsByte(s, InitList) /\ ~ProgramsByte(s, ModeList)
  BY <1>2, <1>3, <1>6, <1>10, PartsDiffer DEF ProgramsByte
<1>15. IF firmware # "new" THEN Has(s, 4) ELSE Unwritten(s, Trigger)
  <2>1. Trigger \notin Sector("logic")
    BY PartsDiffer
  <2>2. QED
    BY <1>2, <1>3, <1>6, <1>10, <2>1 DEF Has, Unwritten
<1>16. IF logic = "new" THEN Unwritten(s, Ues) ELSE \A x \in Sector("logic") : WillRead(s, x)
  <2>1. Ues \in Sector("logic")
    BY PartsDiffer
  <2>2. QED
    BY <1>1, <1>2, <1>3, <1>10, <2>1 DEF WillRead, Unwritten
<1>17. Purposeful("update", firmware, logic, s)
  BY <1>11, <1>12, <1>13, <1>14, <1>15, <1>16 DEF Purposeful
<1>18. QED
  BY <1>4, <1>10, <1>17

LEMMA EraseAllFits ==
  \A firmware, logic :
    Sound(EraseAll) /\ Whole(EraseAll) /\ Purposeful("erase", firmware, logic, EraseAll)
<1> DEFINE n == EraseSector("network")
           c == EraseSector("config")
           e1 == EraseSector("firmware1")
           e2 == EraseSector("firmware2")
           all == IF type = "HS" THEN <<e1>> ELSE <<n, c, e1, e2>>
<1>1. /\ n \in Harmless /\ c \in Harmless
      /\ e1 \in AllCommands /\ Touches(e1) /\ Rank(e1) = 1 /\ Proper(e1)
      /\ e2 \in AllCommands /\ Rank(e2) = 2 /\ Proper(e2)
  BY HarmlessCommands, VitalCommands
<1>2. \A d \in {n, c, e1, e2} : d.op = "erase" /\ Grade(d) = 1
  BY DEF EraseSector, Cmd, Grade
<1>3. EraseAll = EraseLogic \o all
  BY DEF EraseAll
<1>4. n \in AllCommands /\ c \in AllCommands /\ \A d \in {n, c, e1, e2} : Proper(d)
  BY <1>1, VitalCommands
<1> HIDE DEF n, c, e1, e2
<1>5. \A a, b \in {n, c, e1, e2} : Follows(a, b)
  BY <1>2 DEF Follows
<1>6. /\ Precedes(n, c) /\ Precedes(n, e1) /\ Precedes(n, e2)
      /\ Precedes(c, e1) /\ Precedes(c, e2) /\ Precedes(e1, e2)
  BY <1>1, <1>5, HarmlessOrder DEF Precedes
<1>7. Sound(<<e1>>) /\ ToSet(<<e1>>) = {e1}
  <2>1. <<e1>> \in Seq(AllCommands) /\ ToSet(<<e1>>) = {e1} /\ InOrder(<<e1>>)
    BY <1>1, <1>5, SingleOf, Zenon
  <2>2. QED
    BY <1>4, <2>1 DEF Sound
<1>8. Sound(<<n, c, e1, e2>>) /\ ToSet(<<n, c, e1, e2>>) = {n, c, e1, e2}
  <2>1. /\ <<n, c, e1, e2>> \in Seq(AllCommands) /\ InOrder(<<n, c, e1, e2>>)
        /\ ToSet(<<n, c, e1, e2>>) = {n, c, e1, e2}
    BY <1>1, <1>4, <1>6, FourOf
  <2>2. QED
    BY <1>4, <2>1 DEF Sound
<1>9. Sound(all) /\ e1 \in ToSet(all) /\ \A d \in ToSet(all) : d \in {n, c, e1, e2}
  BY <1>7, <1>8
<1> HIDE DEF all
<1>10. Whole(all) /\ ~Has(all, 4)
  <2>1. Has(all, 1)
    BY <1>1, <1>9 DEF Has
  <2>2. \A d \in ToSet(all) : Rank(d) # 4
    BY <1>2, <1>9 DEF Rank
  <2>3. \A b : ~ProgramsByte(all, b)
    BY <1>2, <1>9 DEF ProgramsByte
  <2>4. QED
    BY <2>1, <2>2, <2>3 DEF Whole, Has
<1>11. \A a \in EraseLogicSet, b \in ToSet(all) : Precedes(a, b)
  <2>1. \A b \in ToSet(all) : b.op = "erase" /\ b.cells \cap Sector("logic") = {}
    BY <1>2, <1>4, <1>9 DEF Proper, Legit
  <2>2. \A a \in EraseLogicSet : a \in Harmless /\ a.cells \subseteq Sector("logic")
    BY EraseLogicFits, NoCells DEF EraseLogicSet
  <2>3. \A a \in EraseLogicSet, b \in ToSet(all) : Follows(a, b)
    BY <2>1, <2>2 DEF Follows
  <2>4. QED
    BY <2>2, <2>3, HarmlessOrder
<1>12. /\ Sound(EraseAll) /\ Whole(EraseAll)
       /\ ToSet(EraseAll) = EraseLogicSet \cup ToSet(all)
  BY <1>3, <1>9, <1>10, <1>11, EraseLogicFits, Joined
<1>13. Head(EraseAll).op = "enable"
  <2>1. EraseLogic \in Seq(AllCommands) /\ all \in Seq(AllCommands)
    BY <1>9, EraseLogicFits DEF Sound
  <2>2. QED
    BY <1>3, <2>1, EraseLogicFits, HeadOf, NoCells
<1>14. ASSUME NEW d \in ToSet(EraseAll)
       PROVE  d.op \in {"enable", "id", "wipe", "disable", "erase"} /\ ~(Touches(d) /\ Rank(d) = 4)
  <2>1. CASE d \in EraseLogicSet
    BY <2>1, EraseLogicFits, NoCells DEF EraseLogicSet, Harmless
  <2>2. CASE d \in ToSet(all)
    BY <1>2, <1>9, <1>10, <2>2 DEF Has
  <2>3. QED
    BY <1>12, <2>1, <2>2
<1>15. ~Has(EraseAll, 4) /\ ~Restarts(EraseAll)
  BY <1>14 DEF Has, Restarts
<1>16. \A b : ~ProgramsByte(EraseAll, b)
  BY <1>14 DEF ProgramsByte
<1>17. Has(EraseAll, 1)
  BY <1>1, <1>9, <1>12 DEF Has
<1>18. \A firmware, logic : Purposeful("erase", firmware, logic, EraseAll)
  BY <1>13, <1>15, <1>16, <1>17 DEF Purposeful
<1>19. QED
  BY <1>12, <1>18

LEMMA ConfigFits ==
  \A firmware, logic :
    Sound(UpdateConfig) /\ Whole(UpdateConfig) /\ Purposeful("config", firmware, logic, UpdateConfig)
<1> DEFINE c1 == EraseSector("network")
           c2 == ProgramFlash({Network})
           c3 == ReadMemory({Network})
           c4 == EraseSector("config")
           d1 == ProgramFlash({InitList})
           d2 == ReadMemory({InitList})
           d3 == ProgramFlash({ModeList})
           d4 == ReadMemory({ModeList})
           u == <<c1, c2, c3, c4>>
           v == <<d1, d2, d3, d4>>
<1>1. /\ c1 \in Harmless /\ c2 \in Harmless /\ c3 \in Harmless /\ c4 \in Harmless
      /\ d1 \in Harmless /\ d2 \in Harmless /\ d3 \in Harmless /\ d4 \in Harmless
  BY HarmlessCommands
<1>2. /\ c1.op = "erase" /\ c2.op = "program" /\ c3.op = "read" /\ c4.op = "erase"
      /\ d1.op = "program" /\ d2.op = "read" /\ d3.op = "program" /\ d4.op = "read"
      /\ c1.cells = {Network} /\ c2.cells = {Network} /\ c3.cells = {Network}
      /\ c4.cells = {InitList, ModeList}
      /\ d1.cells = {InitList} /\ d2.cells = {InitList}
      /\ d3.cells = {ModeList} /\ d4.cells = {ModeList}
  BY DEF EraseSector, ProgramFlash, ReadMemory, Cmd, Sector
<1>3. UpdateConfig = u \o v
  BY DEF UpdateConfig, FlashConfig
<1> HIDE DEF c1, c2, c3, c4, d1, d2, d3, d4
<1>4. \A c : /\ c.op = "erase" => Grade(c) = 1
             /\ c.op = "program" => Grade(c) = 2
             /\ c.op = "read" => Grade(c) = 3
  BY DEF Grade, Readers
<1>5. /\ Follows(c1, c2) /\ Follows(c1, c3) /\ Follows(c1, c4)
      /\ Follows(c2, c3) /\ Follows(c2, c4) /\ Follows(c3, c4)
  BY <1>2, <1>4, CellsDiffer DEF Follows
<1>6. /\ Follows(d1, d2) /\ Follows(d1, d3) /\ Follows(d1, d4)
      /\ Follows(d2, d3) /\ Follows(d2, d4) /\ Follows(d3, d4)
  BY <1>2, <1>4, CellsDiffer DEF Follows
<1>7. \A c \in {c1, c2, c3, c4}, d \in {d1, d2, d3, d4} : Follows(c, d)
  BY <1>2, <1>4, CellsDiffer DEF Follows
<1>8. /\ u \in Seq(Harmless) /\ ToSet(u) = {c1, c2, c3, c4} /\ InOrder(u)
      /\ v \in Seq(Harmless) /\ ToSet(v) = {d1, d2, d3, d4} /\ InOrder(v)
  BY <1>1, <1>5, <1>6, HarmlessOrder, FourOf
<1> HIDE DEF u, v
<1>9. Sound(u) /\ Whole(u) /\ Sound(v) /\ Whole(v)
  BY <1>8, HarmlessScript
<1>10. \A c \in ToSet(u), d \in ToSet(v) : Precedes(c, d)
  BY <1>1, <1>7, <1>8, HarmlessOrder
<1>11. /\ Sound(UpdateConfig) /\ Whole(UpdateConfig)
       /\ ToSet(UpdateConfig) = {c1, c2, c3, c4} \cup {d1, d2, d3, d4}
  BY <1>3, <1>8, <1>9, <1>10, Joined
<1>12. ASSUME NEW d \in ToSet(UpdateConfig)
       PROVE  d \in Harmless /\ d.op \in {"erase", "program", "read"}
  BY <1>1, <1>2, <1>11
<1>13. ~Restarts(UpdateConfig) /\ ~Wipes(UpdateConfig) /\ ~Has(UpdateConfig, 4)
  BY <1>12 DEF Restarts, Wipes, Has, Harmless
<1>14. Erases(UpdateConfig, ModeList) /\ ProgramsByte(UpdateConfig, InitList)
  BY <1>2, <1>11 DEF Erases, ProgramsByte
<1>15. \A x \in {Network, InitList, ModeList} : WillRead(UpdateConfig, x)
  BY <1>2, <1>11 DEF WillRead, Readers
<1>16. \A c \in ToSet(UpdateConfig) : ~Touches(c)
  BY <1>12 DEF Harmless
<1>17. \A firmware, logic : Purposeful("config", firmware, logic, UpdateConfig)
  BY <1>13, <1>14, <1>15, <1>16 DEF Purposeful
<1>18. QED
  BY <1>11, <1>17

LEMMA StartupFits ==
  \A firmware, logic :
    /\ Sound(Startup) /\ Whole(Startup) /\ ToSet(Startup) \subseteq Harmless
    /\ Purposeful("startup", firmware, logic, Startup)
<1> DEFINE c1 == ReadMemory({Network})
           c2 == Cmd("exit", {})
           first == IF type = "HS" THEN <<>> ELSE <<c1>>
           last == <<c2>>
<1>1. c1 \in Harmless /\ c2 \in Harmless /\ c1.op = "read" /\ c2.op = "exit" /\ c2.cells = {}
  BY HarmlessCommands DEF ReadMemory, Cmd
<1>2. Startup = first \o last
  BY DEF Startup
<1> HIDE DEF c1, c2
<1>3. Precedes(c1, c1) /\ Precedes(c2, c2) /\ Precedes(c1, c2)
  <2>1. Grade(c1) <= Grade(c1) /\ Grade(c2) <= Grade(c2)
    BY DEF Grade
  <2>2. Follows(c1, c1) /\ Follows(c2, c2) /\ Follows(c1, c2)
    BY <1>1, <2>1 DEF Follows
  <2>3. QED
    BY <1>1, <2>2, HarmlessOrder
<1>4. ASSUME NEW c \in {c1, c2} PROVE Sound(<<c>>) /\ Whole(<<c>>) /\ ToSet(<<c>>) = {c}
  <2>1. <<c>> \in Seq(Harmless) /\ ToSet(<<c>>) = {c} /\ InOrder(<<c>>)
    BY <1>1, <1>3, SingleOf, Zenon
  <2>2. QED
    BY <2>1, HarmlessScript
<1>5. /\ Sound(first) /\ Whole(first) /\ ToSet(first) \subseteq {c1}
      /\ Sound(last) /\ Whole(last) /\ ToSet(last) = {c2}
  BY <1>4, EmptyFits DEF Empty
<1> HIDE DEF first, last
<1>6. \A c \in ToSet(first), d \in ToSet(last) : Precedes(c, d)
  BY <1>3, <1>5
<1>7. Sound(Startup) /\ Whole(Startup) /\ ToSet(Startup) \subseteq {c1, c2}
  BY <1>2, <1>5, <1>6, Joined
<1>8. ToSet(Startup) \subseteq Harmless /\ \A c \in ToSet(Startup) : c.op \in {"read", "exit"}
  BY <1>1, <1>7
<1>9. ~Wipes(Startup) /\ ~Has(Startup, 4) /\ \A b : ~ProgramsByte(Startup, b)
  BY <1>8 DEF Wipes, Has, ProgramsByte, Harmless
<1>10. WritesNone(Startup)
  BY <1>8 DEF WritesNone, Writers
<1>11. \A c \in ToSet(Startup) : ~Touches(c)
  BY <1>8 DEF Harmless
<1>12. \A firmware, logic : Purposeful("startup", firmware, logic, Startup)
  BY <1>9, <1>10, <1>11 DEF Purposeful
<1>13. QED
  BY <1>7, <1>8, <1>12

\* Every script is made of commands in the right order, is whole and serves its purpose.
LEMMA ScriptFits ==
  ASSUME NEW t \in Tasks, NEW firmware, NEW logic
  PROVE  LET s == Script(t, firmware, logic) IN
         /\ Sound(s) /\ Whole(s) /\ (t = "startup" => ToSet(s) \subseteq Harmless)
         /\ Purposeful(t, firmware, logic, s)
<1>1. t \in {"update", "erase", "config", "startup"}
  BY SetupAssumption
<1>2. CASE t = "update"
  BY <1>2, FirmwareLogicFits DEF Script
<1>3. CASE t = "erase"
  BY <1>3, EraseAllFits DEF Script
<1>4. CASE t = "config"
  BY <1>4, ConfigFits DEF Script
<1>5. CASE t = "startup"
  BY <1>5, StartupFits DEF Script
<1>6. QED
  BY <1>1, <1>2, <1>3, <1>4, <1>5
=============================================================================
