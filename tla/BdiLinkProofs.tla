--------------------------- MODULE BdiLinkProofs ---------------------------
(***************************************************************************)
(* Proofs about the link to the BDI: its types; that a transaction returns *)
(* the answer to its own command and that the link implements BdiCommand,  *)
(* whatever comes late or unasked; and that no two frames meet on a link   *)
(* that is calm.  They hold for any commands, rates and repeats, and for   *)
(* faults of any kind and number.                                          *)
(***************************************************************************)
EXTENDS BdiLink, SequenceTheorems, TLAPS

BdiFrames == LinkFrames \cup CommandFrames

LEMMA FrameTypes ==
  /\ \A r \in Rates : Link("reset", r) \in LinkFrames /\ Link("baud", r) \in LinkFrames
  /\ \A c \in Commands, n \in 0..3 : Command(c, n) \in CommandFrames
  /\ \A c \in Commands, d \in Outcomes, o \in BOOLEAN : Answer(c, d, o) \in AnswerFrames
  /\ \A s \in Attentions : Attention(s) \in AttentionFrames
  /\ Bad \in HostFrames /\ 1 \in Rates
  /\ LinkFrames \subseteq HostFrames /\ AnswerFrames \subseteq HostFrames
  /\ AttentionFrames \subseteq HostFrames
  /\ LinkFrames \subseteq BdiFrames /\ CommandFrames \subseteq BdiFrames
BY LinkAssumption DEF Link, Command, Answer, Attention, Bad, LinkFrames, CommandFrames,
   AnswerFrames, AttentionFrames, HostFrames, BdiFrames, Rates

LEMMA PutType ==
  ASSUME NEW S, NEW w \in Seq(S), NEW f \in S, NEW r, NEW q
  PROVE  Put(w, f, r, q) \in Seq(S)
BY DEF Put

LEMMA TailType ==
  ASSUME NEW S, NEW w \in Seq(S), w # <<>>
  PROVE  Head(w) \in S /\ Tail(w) \in Seq(S)
BY HeadTailProperties

\* A frame that is disowned stays a frame of its kind.
LEMMA DisownedType ==
  /\ \A w \in Seq(BdiFrames) : Disowned(w) \in Seq(BdiFrames)
  /\ \A w \in Seq(HostFrames) : Disowned(w) \in Seq(HostFrames)
<1> DEFINE d(f) == IF f.kind \in {"command", "answer"} THEN [f EXCEPT !.own = FALSE] ELSE f
<1>1. \A f \in CommandFrames : f.kind = "command" /\ d(f) \in CommandFrames
  BY DEF CommandFrames
<1>2. \A f \in AnswerFrames : f.kind = "answer" /\ d(f) \in AnswerFrames
  BY DEF AnswerFrames
<1>3. \A f \in LinkFrames : d(f) = f
  BY DEF LinkFrames
<1>4. d(Bad) = Bad /\ \A f \in AttentionFrames : d(f) = f
  BY DEF Bad, AttentionFrames
<1>5. (\A f \in BdiFrames : d(f) \in BdiFrames) /\ (\A f \in HostFrames : d(f) \in HostFrames)
  BY <1>1, <1>2, <1>3, <1>4 DEF BdiFrames, HostFrames
<1>6. ASSUME NEW S, \A f \in S : d(f) \in S, NEW w \in Seq(S)
      PROVE  Disowned(w) \in Seq(S)
  <2>1. Len(w) \in Nat /\ \A i \in 1..Len(w) : d(w[i]) \in S
    BY <1>6
  <2>2. Disowned(w) = [i \in 1..Len(w) |-> d(w[i])]
    BY DEF Disowned
  <2>3. [i \in 1..Len(w) |-> d(w[i])] \in Seq(S)
    BY <2>1
  <2>4. QED
    BY <2>2, <2>3
<1>7. QED
  BY <1>5, <1>6
-----------------------------------------------------------------------------
\* The types, with the command a transaction is for.
Types == LinkTypeOK /\ (at \in {"send", "wait"} => command \in Commands)

\* What is on the wires, and what is read from them, has its type.
LEMMA WireTypes ==
  ASSUME LinkTypeOK
  PROVE  /\ \A f \in BdiFrames : \A r, q : Put(toBdi, f, r, q) \in Seq(BdiFrames)
         /\ \A f \in HostFrames : \A r, q : Put(toHost, f, r, q) \in Seq(HostFrames)
         /\ toBdi # <<>> => Head(toBdi) \in BdiFrames /\ Tail(toBdi) \in Seq(BdiFrames)
         /\ toHost # <<>> => Head(toHost) \in HostFrames /\ Tail(toHost) \in Seq(HostFrames)
<1>1. toBdi \in Seq(BdiFrames) /\ toHost \in Seq(HostFrames)
  BY DEF LinkTypeOK, BdiFrames
<1>2. QED
  BY <1>1, PutType, TailType

\* A frame of a kind is one of the set of that kind.
LEMMA KindTypes ==
  /\ \A f \in BdiFrames : f.kind \in {"reset", "baud"} => f \in LinkFrames /\ f.rate \in Rates
  /\ \A f \in BdiFrames : f.kind = "command" => f \in CommandFrames /\ f.cmd \in Commands
  /\ \A f \in HostFrames : LongAsBaud(f) => f \in LinkFrames /\ f.rate \in Rates
  /\ \A f \in HostFrames : f.kind = "answer" => f \in AnswerFrames
BY DEF BdiFrames, HostFrames, LinkFrames, CommandFrames, AnswerFrames, AttentionFrames,
       Bad, LongAsBaud

\* Opening the link and its search for the rate.
LEMMA OpenTypes ==
  LinkTypeOK /\ (Open \/ OpenFails \/ ProbeAnswered \/ ProbeFails \/ RateConfirmed
                 \/ RateRefused \/ ConfirmAnswered \/ ConfirmFails \/ Close \/ Abort)
    => LinkTypeOK'
<1> SUFFICES ASSUME LinkTypeOK,
                    Open \/ OpenFails \/ ProbeAnswered \/ ProbeFails \/ RateConfirmed
                      \/ RateRefused \/ ConfirmAnswered \/ ConfirmFails \/ Close \/ Abort
             PROVE  LinkTypeOK'
  OBVIOUS
<1> USE DEF Places
<1>1. GoesOn => faults' \in 0..MaxFaults /\ stray' \in {"never", "before", "now"}
  BY LinkAssumption DEF GoesOn, Fault, Disturbed, LinkTypeOK
<1>2. ASSUME NEW r \in Rates, SendAt(r, Link("reset", 1))
      PROVE  /\ rate' \in Rates /\ toHost' \in Seq(HostFrames)
             /\ toBdi' \in Seq(LinkFrames \cup CommandFrames)
  BY <1>2, WireTypes, FrameTypes DEF SendAt, BdiFrames
<1>3. CASE Open
  BY <1>1, <1>2, <1>3, LinkAssumption, FrameTypes DEF Open, LinkTypeOK
<1>4. CASE OpenFails
  BY <1>4, LinkAssumption DEF OpenFails, Fault, Returns, LinkTypeOK
<1>5. CASE ProbeAnswered
  <2>1. toBdi' \in Seq(LinkFrames \cup CommandFrames) /\ toHost' \in Seq(HostFrames)
    <3>1. /\ toHost' = Tail(toHost) /\ toHost # <<>>
          /\ toBdi' = toBdi \/ toBdi' = Put(toBdi, Link("baud", Requested), rate, bdiRate)
      BY <1>5 DEF ProbeAnswered
    <3>2. Link("baud", Requested) \in BdiFrames
      BY FrameTypes, LinkAssumption
    <3>3. toBdi \in Seq(BdiFrames)
      BY DEF LinkTypeOK, BdiFrames
    <3>4. QED
      BY <3>1, <3>2, <3>3, WireTypes DEF BdiFrames
  <2>2. at' \in Places /\ ret' \in {"none", "okay", "setup", "noresponse", "answer"}
        /\ frameCount' \in 0..3
    BY <1>5 DEF ProbeAnswered, Connected, Returns, LinkTypeOK
  <2>3. probe' \in 0..TopRate
    BY <1>5, LinkAssumption DEF ProbeAnswered, Connected, LinkTypeOK
  <2>4. QED
    BY <1>5, <2>1, <2>2, <2>3 DEF ProbeAnswered, LinkTypeOK
<1>6. CASE ProbeFails
  <2>1. faults' \in 0..MaxFaults /\ stray' \in {"never", "before", "now"}
    BY <1>1, <1>6 DEF ProbeFails, Unanswered, GivesUp, LinkTypeOK
  <2>2. CASE MoreRates
    <3>1. probe + 1 \in Rates /\ probe + 1 \in 0..TopRate
      BY <2>2, LinkAssumption DEF MoreRates, Rates, LinkTypeOK
    <3>2. QED
      BY <1>2, <1>6, <2>1, <2>2, <3>1 DEF ProbeFails, LinkTypeOK
  <2>3. CASE ~MoreRates
    BY <1>6, <2>1, <2>3 DEF ProbeFails, Returns, LinkTypeOK
  <2>4. QED
    BY <2>2, <2>3
<1>7. CASE RateConfirmed
  <2>1. Head(toHost).rate \in Rates
    BY <1>7, WireTypes, KindTypes DEF RateConfirmed
  <2>2. QED
    BY <1>2, <1>7, <2>1 DEF RateConfirmed, LinkTypeOK, call
<1>8. CASE RateRefused
  <2>1. faults' \in 0..MaxFaults /\ stray' \in {"never", "before", "now"}
    BY <1>1, <1>8 DEF RateRefused, Unanswered, GivesUp, LinkTypeOK
  <2>2. QED
    BY <1>8, <2>1 DEF RateRefused, Returns, LinkTypeOK
<1>9. CASE ConfirmAnswered
  BY <1>9, WireTypes, LinkAssumption DEF ConfirmAnswered, Connected, Returns, LinkTypeOK
<1>10. CASE ConfirmFails
  <2>1. faults' \in 0..MaxFaults /\ stray' \in {"never", "before", "now"}
    BY <1>1, <1>10 DEF ConfirmFails, Unanswered, GivesUp, LinkTypeOK
  <2>2. QED
    BY <1>10, <2>1, LinkAssumption DEF ConfirmFails, Connected, Returns, LinkTypeOK
<1>11. CASE Close
  <2>1. toBdi' \in Seq(LinkFrames \cup CommandFrames) /\ toHost' \in Seq(HostFrames)
    BY <1>11, DisownedType DEF Close, LinkTypeOK, BdiFrames
  <2>2. QED
    BY <1>11, <2>1 DEF Close, LinkTypeOK, call
<1>12. CASE Abort
  <2>1. toBdi' \in Seq(LinkFrames \cup CommandFrames) /\ toHost' \in Seq(HostFrames)
    BY <1>12, DisownedType DEF Abort, LinkTypeOK, BdiFrames
  <2>2. QED
    BY <1>12, <2>1, LinkAssumption DEF Abort, Fault, Returns, LinkTypeOK
<1>13. QED
  BY <1>3, <1>4, <1>5, <1>6, <1>7, <1>8, <1>9, <1>10, <1>11, <1>12

\* Transactions.
LEMMA TransactionTypes ==
  Types /\ ((\E c \in Commands : Issue(c)) \/ SendCommand \/ SendFails \/ Exhausted
                 \/ AnswerTaken \/ AnswerDamaged \/ AnswerTimesOut)
    => Types'
<1> SUFFICES ASSUME Types,
                    (\E c \in Commands : Issue(c)) \/ SendCommand \/ SendFails \/ Exhausted
                      \/ AnswerTaken \/ AnswerDamaged \/ AnswerTimesOut
             PROVE  Types'
  OBVIOUS
<1> USE DEF Places, Types
<1>1. (frameCount + 1) % 4 \in 0..3 /\ (frameCount + 3) % 4 \in 0..3
  BY DEF LinkTypeOK
<1>2. MoreRepeats => repeats + 1 \in 0..Repeats
  BY LinkAssumption DEF MoreRepeats, LinkTypeOK
<1>3. FlushRxQueue => toHost' \in Seq(HostFrames)
  BY DEF FlushRxQueue
<1>4. ASSUME NEW c \in Commands, Issue(c) PROVE Types'
  <2>1. toBdi' \in Seq(LinkFrames \cup CommandFrames) /\ toHost' \in Seq(HostFrames)
    BY <1>4, DisownedType DEF Issue, LinkTypeOK, BdiFrames
  <2>2. QED
    BY <1>1, <1>4, <2>1, LinkAssumption DEF Issue, LinkTypeOK
<1>5. CASE SendCommand
  <2>1. Command(command, (frameCount + 3) % 4) \in BdiFrames
    BY <1>1, <1>5, FrameTypes DEF SendCommand
  <2>2. QED
    BY <1>2, <1>3, <1>5, <2>1, WireTypes DEF SendCommand, LinkTypeOK, BdiFrames
<1>6. CASE SendFails
  BY <1>2, <1>3, <1>6, LinkAssumption DEF SendFails, Fault, LinkTypeOK
<1>7. CASE Exhausted
  BY <1>7 DEF Exhausted, Returns, LinkTypeOK, wire
<1>8. CASE AnswerTaken
  BY <1>8, WireTypes DEF AnswerTaken, Returns, LinkTypeOK
<1>9. CASE AnswerDamaged
  BY <1>9, WireTypes DEF AnswerDamaged, LinkTypeOK, call
<1>10. CASE AnswerTimesOut
  <2>1. faults' \in 0..MaxFaults /\ stray' \in {"never", "before", "now"}
    BY <1>10, LinkAssumption DEF AnswerTimesOut, GivesUp, GoesOn, Fault, Disturbed, LinkTypeOK
  <2>2. QED
    BY <1>10, <2>1 DEF AnswerTimesOut, LinkTypeOK, call
<1>11. QED
  BY <1>4, <1>5, <1>6, <1>7, <1>8, <1>9, <1>10

\* The BDI and the faults of the wires.
LEMMA OutsideTypes ==
  Types /\ (BdiLinkSteps \/ WireFaults \/ BdiRestarts
            \/ (\E s \in Attentions : BdiCallsAttention(s))
            \/ (\E d \in Outcomes, r \in Rates :
                  BdiAnswers(d, r) /\ (UNCHANGED faults \/ FaultElsewhere))
            \/ (FaultElsewhere /\ UNCHANGED <<port, call, toBdi, toHost, bdiRate, ran, stray>>))
    => Types'
<1> SUFFICES ASSUME Types,
                    BdiLinkSteps \/ WireFaults \/ BdiRestarts
                      \/ (\E s \in Attentions : BdiCallsAttention(s))
                      \/ (\E d \in Outcomes, r \in Rates :
                            BdiAnswers(d, r) /\ (UNCHANGED faults \/ FaultElsewhere))
                      \/ (FaultElsewhere
                          /\ UNCHANGED <<port, call, toBdi, toHost, bdiRate, ran, stray>>)
             PROVE  Types'
  OBVIOUS
<1>1. UNCHANGED <<at, rate, probe, frameCount, repeats, command, ret, answer>>
  BY DEF BdiLinkSteps, BdiResets, BdiChangesRate, WireFaults, FrameLost, FrameDamaged,
         BdiRestarts, BdiAnswers, BdiCallsAttention, port, call
<1>2. stray' \in {"never", "before", "now"}
  BY DEF BdiLinkSteps, BdiResets, BdiChangesRate, WireFaults, FrameLost, FrameDamaged,
         BdiRestarts, BdiAnswers, BdiCallsAttention, Disturbed, Types, LinkTypeOK
<1>3. ASSUME toBdi' \in Seq(BdiFrames), toHost' \in Seq(HostFrames), bdiRate' \in Rates,
             faults' \in 0..MaxFaults, ran' \in Nat
      PROVE  Types'
  BY <1>1, <1>3, <1>2 DEF Types, LinkTypeOK, BdiFrames
<1>4. /\ toBdi \in Seq(BdiFrames) /\ toHost \in Seq(HostFrames) /\ bdiRate \in Rates
      /\ faults \in 0..MaxFaults /\ ran \in Nat
      /\ (FaultElsewhere \/ \E kind \in Faults : Fault(kind)) => faults' \in 0..MaxFaults
  BY LinkAssumption DEF Types, LinkTypeOK, BdiFrames, FaultElsewhere, Fault
<1>5. /\ toBdi # <<>> => Head(toBdi) \in BdiFrames /\ Tail(toBdi) \in Seq(BdiFrames)
      /\ toHost # <<>> => Head(toHost) \in HostFrames /\ Tail(toHost) \in Seq(HostFrames)
  BY WireTypes DEF Types
<1>6. CASE BdiResets
  <2>1. toBdi' \in Seq(BdiFrames)
    BY <1>5, <1>6 DEF BdiResets, BdiReads
  <2>2. toHost' \in Seq(HostFrames)
    BY <1>6, FrameTypes, WireTypes DEF BdiResets, Types
  <2>3. QED
    BY <1>3, <1>4, <1>6, <2>1, <2>2 DEF BdiResets
<1>7. CASE BdiChangesRate
  <2>1. PICK r \in 1..Head(toBdi).rate :
          toHost' = Put(toHost, Link("baud", r), bdiRate, rate) /\ bdiRate' = r
    BY <1>7 DEF BdiChangesRate
  <2>2. r \in Rates
    BY <1>5, <1>7, <2>1, KindTypes, LinkAssumption DEF BdiChangesRate, BdiReads, Rates
  <2>3. toBdi' \in Seq(BdiFrames) /\ toHost' \in Seq(HostFrames)
    BY <1>5, <1>7, <2>1, <2>2, FrameTypes, WireTypes DEF BdiChangesRate, BdiReads, Types
  <2>4. QED
    BY <1>3, <1>4, <1>7, <2>1, <2>2, <2>3 DEF BdiChangesRate
<1>8. ASSUME NEW d \in Outcomes, NEW r \in Rates, BdiAnswers(d, r),
             UNCHANGED faults \/ FaultElsewhere
      PROVE  Types'
  <2>1. toBdi # <<>> /\ Head(toBdi) \in CommandFrames /\ toBdi' = Tail(toBdi)
    BY <1>5, <1>8, KindTypes DEF BdiAnswers, BdiReads
  <2>2. Head(toBdi).cmd \in Commands /\ Head(toBdi).own \in BOOLEAN
    BY <2>1 DEF CommandFrames
  <2>3. Answer(Head(toBdi).cmd, d, Head(toBdi).own) \in HostFrames
    BY <2>2, FrameTypes
  <2>4. toHost' \in Seq(HostFrames)
    BY <1>8, <2>3, WireTypes DEF BdiAnswers, Types
  <2>5. ran' \in Nat
    BY <1>4, <1>8 DEF BdiAnswers
  <2>6. QED
    BY <1>3, <1>4, <1>5, <1>8, <2>1, <2>4, <2>5 DEF BdiAnswers
<1>9. CASE BdiRestarts
  BY <1>3, <1>4, <1>9, LinkAssumption DEF BdiRestarts, Fault
<1>10. CASE FrameLost
  BY <1>3, <1>4, <1>5, <1>10 DEF FrameLost, Fault
<1>11. CASE FrameDamaged
  <2>1. toHost' = <<Bad>> \o Tail(toHost) /\ Tail(toHost) \in Seq(HostFrames)
    BY <1>5, <1>11 DEF FrameDamaged
  <2>2. toHost' \in Seq(HostFrames)
    BY <2>1, FrameTypes
  <2>3. QED
    BY <1>3, <1>4, <1>11, <2>2 DEF FrameDamaged, Fault
<1>12. CASE FaultElsewhere /\ UNCHANGED <<port, call, toBdi, toHost, bdiRate, ran, stray>>
  BY <1>3, <1>4, <1>12
<1>13. CASE \E s \in Attentions : BdiCallsAttention(s)
  <2> PICK s \in Attentions : BdiCallsAttention(s)
    BY <1>13
  <2>1. toHost' = Append(toHost, Attention(s)) /\ UNCHANGED <<toBdi, bdiRate, ran>>
    BY DEF BdiCallsAttention
  <2>2. Attention(s) \in HostFrames
    BY FrameTypes
  <2>3. toHost' \in Seq(HostFrames)
    BY <1>4, <2>1, <2>2
  <2>4. QED
    BY <1>3, <1>4, <2>1, <2>3 DEF BdiCallsAttention, Fault
<1>14. QED
  BY <1>6, <1>7, <1>8, <1>9, <1>10, <1>11, <1>12, <1>13 DEF BdiLinkSteps, WireFaults

LEMMA InitialTypes == LinkInit => Types
BY LinkAssumption, FrameTypes DEF LinkInit, Types, LinkTypeOK, Places

LEMMA StepTypes == Types /\ [LinkNext]_linkVars => Types'
<1> SUFFICES ASSUME Types, [LinkNext]_linkVars PROVE Types'
  OBVIOUS
<1>1. CASE UNCHANGED linkVars
  BY <1>1 DEF linkVars, port, call, wire, Types, LinkTypeOK
<1>2. CASE Open \/ OpenFails \/ ProbeAnswered \/ ProbeFails \/ RateConfirmed
           \/ RateRefused \/ ConfirmAnswered \/ ConfirmFails \/ Close \/ Abort
  <2>1. at' \notin {"send", "wait"}
    BY <1>2 DEF Open, OpenFails, ProbeAnswered, ProbeFails, RateConfirmed, RateRefused,
                ConfirmAnswered, ConfirmFails, Close, Abort, Returns, Connected, Types
  <2>2. QED
    BY <1>2, <2>1, OpenTypes DEF Types
<1>3. QED
  BY <1>1, <1>2, TransactionTypes, OutsideTypes DEF LinkNext, HostSteps

\* Every variable of the link stays in its type.
THEOREM LinkTypeCorrect == LinkSpec => []LinkTypeOK
<1>1. Types => LinkTypeOK
  BY DEF Types
<1>2. QED
  BY <1>1, InitialTypes, StepTypes, PTL DEF LinkSpec
-----------------------------------------------------------------------------
(* Whatever comes late or unasked.                                         *)

\* What a transaction may take, unless it is damaged.
Fits(f) == f = Bad \/ (f.kind = "answer" /\ f.own /\ f.cmd = command /\ ran > 0)

\* A transaction is running, or was the last thing the library did.
InTransaction ==
  at \in {"send", "wait"} \/ (at = "ready" /\ ret \in {"answer", "noresponse"})

\* The frames of a transaction that the BDI has not read yet, each of which it may
\* still carry out.
OwnFits ==
  \A i \in 1..Len(toBdi) : OwnCommand(toBdi[i]) =>
    /\ InTransaction /\ toBdi[i].cmd = command
    /\ ran + (Len(toBdi) - i) < repeats

\* While no stray frame can reach it, a transaction meets nothing but its own frames.
WayClear ==
  at = "wait" /\ stray # "now" =>
    /\ \A i \in 1..Len(toBdi) : OwnCommand(toBdi[i])
    /\ \A i \in 1..Len(toHost) : Fits(toHost[i])

\* Nothing is returned while the library is at work.
AtWork == at \notin {"closed", "ready"} => ret = "none"

OwnInv == Types /\ AtWork /\ OwnFits /\ WayClear /\ AnswersOwnCommand

NoneOwn(w) == \A i \in 1..Len(w) : ~OwnCommand(w[i])

LEMMA WireLengths ==
  ASSUME Types
  PROVE  /\ toBdi \in Seq(BdiFrames) /\ Len(toBdi) \in Nat
         /\ toHost \in Seq(HostFrames) /\ Len(toHost) \in Nat
         /\ ran \in Nat /\ repeats \in Nat
BY LinkAssumption DEF Types, LinkTypeOK, BdiFrames

LEMMA TailElements ==
  ASSUME NEW S, NEW w \in Seq(S), w # <<>>
  PROVE  /\ Len(w) >= 1 /\ Head(w) = w[1] /\ Len(Tail(w)) = Len(w) - 1
         /\ \A i \in 1..Len(Tail(w)) : i + 1 \in 1..Len(w) /\ Tail(w)[i] = w[i + 1]
BY HeadTailProperties, EmptySeq

LEMMA PutElements ==
  ASSUME NEW S, NEW w \in Seq(S), NEW f \in S, NEW r, NEW q
  PROVE  \/ Put(w, f, r, q) = w
         \/ /\ Len(Put(w, f, r, q)) = Len(w) + 1 /\ Put(w, f, r, q)[Len(w) + 1] = f
            /\ \A i \in 1..Len(w) : Put(w, f, r, q)[i] = w[i]
BY AppendProperties DEF Put

LEMMA DisownedElements ==
  ASSUME NEW w \in Seq(BdiFrames)
  PROVE  NoneOwn(Disowned(w))
<1>1. Len(w) \in Nat /\ \A i \in 1..Len(w) : w[i] \in BdiFrames
  OBVIOUS
<1>2. Len(Disowned(w)) = Len(w)
  BY <1>1 DEF Disowned
<1>3. ASSUME NEW i \in 1..Len(w) PROVE ~OwnCommand(Disowned(w)[i])
  <2>1. Disowned(w)[i] = IF w[i].kind \in {"command", "answer"}
                         THEN [w[i] EXCEPT !.own = FALSE] ELSE w[i]
    BY <1>3 DEF Disowned
  <2>2. CASE w[i] \in CommandFrames
    BY <2>1, <2>2 DEF OwnCommand, CommandFrames
  <2>3. CASE w[i] \in LinkFrames
    BY <2>1, <2>3 DEF OwnCommand, LinkFrames
  <2>4. QED
    BY <1>1, <2>2, <2>3 DEF BdiFrames
<1>4. QED
  BY <1>2, <1>3 DEF NoneOwn

LEMMA LinkFrameNotOwn ==
  ASSUME NEW w \in Seq(BdiFrames), NoneOwn(w), NEW k \in {"reset", "baud"}, NEW n \in Rates,
         NEW r, NEW q
  PROVE  NoneOwn(Put(w, Link(k, n), r, q))
<1>1. Link(k, n) \in BdiFrames /\ ~OwnCommand(Link(k, n))
  BY FrameTypes DEF Link, OwnCommand
<1>2. Len(w) \in Nat
  OBVIOUS
<1>3. QED
  BY <1>1, <1>2, PutElements DEF NoneOwn

\* While the link is opened or closed nothing of a transaction is under way.
LEMMA OpenOwn ==
  ASSUME OwnInv,
         Open \/ OpenFails \/ ProbeAnswered \/ ProbeFails \/ RateConfirmed
           \/ RateRefused \/ ConfirmAnswered \/ ConfirmFails \/ Close \/ Abort
  PROVE  AtWork' /\ OwnFits' /\ WayClear' /\ AnswersOwnCommand'
<1> USE DEF OwnInv
<1>1. AtWork'
  BY DEF Open, OpenFails, ProbeAnswered, ProbeFails, RateConfirmed, RateRefused,
         ConfirmAnswered, ConfirmFails, Close, Abort, call, Returns, Connected, AtWork
<1>2. AnswersOwnCommand'
  <2>1. CASE Open
    BY <2>1 DEF Open, AnswersOwnCommand
  <2>2. CASE Close
    BY <2>2 DEF Close, call, AnswersOwnCommand
  <2>3. CASE OpenFails \/ ProbeAnswered \/ ProbeFails \/ RateConfirmed
             \/ RateRefused \/ ConfirmAnswered \/ ConfirmFails \/ Abort
    <3>1. UNCHANGED <<ran, repeats>>
      BY <2>3 DEF OpenFails, ProbeAnswered, ProbeFails, RateConfirmed, RateRefused,
                  ConfirmAnswered, ConfirmFails, Abort, call
    <3>2. ret' # "answer"
      BY <2>3 DEF OpenFails, ProbeAnswered, ProbeFails, RateConfirmed, RateRefused,
                  ConfirmAnswered, ConfirmFails, Abort, call, Returns, Connected, AtWork
    <3>3. QED
      BY <3>1, <3>2 DEF AnswersOwnCommand
  <2>4. QED
    BY <2>1, <2>2, <2>3
<1>3. at' \notin {"send", "wait"}
  BY DEF Open, OpenFails, ProbeAnswered, ProbeFails, RateConfirmed, RateRefused,
         ConfirmAnswered, ConfirmFails, Close, Abort, Returns, Connected
<1>4. toBdi \in Seq(BdiFrames)
  BY WireLengths
<1>5. ASSUME NoneOwn(toBdi') PROVE AtWork' /\ OwnFits' /\ WayClear' /\ AnswersOwnCommand'
  BY <1>1, <1>2, <1>3, <1>5 DEF OwnFits, InTransaction, WayClear, NoneOwn
<1>6. CASE Close \/ Abort
  <2>1. toBdi' = Disowned(toBdi)
    BY <1>6 DEF Close, Abort
  <2>2. QED
    BY <1>4, <1>5, <2>1, DisownedElements
<1>7. CASE Open \/ OpenFails \/ ProbeAnswered \/ ProbeFails \/ RateConfirmed
           \/ RateRefused \/ ConfirmAnswered \/ ConfirmFails
  <2>1. ~InTransaction
    BY <1>7 DEF Open, OpenFails, ProbeAnswered, ProbeFails, RateConfirmed, RateRefused,
                ConfirmAnswered, ConfirmFails, InTransaction
  <2>2. NoneOwn(toBdi)
    BY <2>1 DEF OwnFits, InTransaction, NoneOwn
  <2>3. CASE OpenFails \/ RateRefused \/ ConfirmAnswered \/ ConfirmFails
    <3>1. toBdi' = toBdi
      BY <2>3 DEF OpenFails, RateRefused, ConfirmAnswered, ConfirmFails
    <3>2. QED
      BY <1>5, <2>2, <3>1
  <2>4. ASSUME NEW k \in {"reset", "baud"}, NEW n \in Rates, NEW r, NEW q,
               toBdi' = Put(toBdi, Link(k, n), r, q)
        PROVE  NoneOwn(toBdi')
    BY <1>4, <2>2, <2>4, LinkFrameNotOwn
  <2>5. CASE Open \/ ProbeFails \/ RateConfirmed
    <3>1. \/ toBdi' = toBdi
          \/ \E r : toBdi' = Put(toBdi, Link("reset", 1), r, bdiRate)
      BY <2>5 DEF Open, ProbeFails, RateConfirmed, SendAt
    <3>2. QED
      BY <1>5, <2>2, <2>4, <3>1, FrameTypes
  <2>6. CASE ProbeAnswered
    <3>1. \/ toBdi' = toBdi
          \/ toBdi' = Put(toBdi, Link("baud", Requested), rate, bdiRate)
      BY <2>6 DEF ProbeAnswered
    <3>2. QED
      BY <1>5, <2>2, <2>4, <3>1, LinkAssumption
  <2>7. QED
    BY <1>7, <2>3, <2>5, <2>6
<1>8. QED
  BY <1>6, <1>7

\* A transaction adds one frame at a time to those the BDI may carry out.
LEMMA TransactionOwn ==
  ASSUME OwnInv,
         (\E c \in Commands : Issue(c)) \/ SendCommand \/ SendFails \/ Exhausted
           \/ AnswerTaken \/ AnswerDamaged \/ AnswerTimesOut
  PROVE  AtWork' /\ OwnFits' /\ WayClear' /\ AnswersOwnCommand'
<1> USE DEF OwnInv
<1>1. /\ toBdi \in Seq(BdiFrames) /\ Len(toBdi) \in Nat
      /\ toHost \in Seq(HostFrames) /\ ran \in Nat /\ repeats \in Nat
  BY WireLengths
<1>2. ASSUME NEW c \in Commands, Issue(c)
      PROVE  AtWork' /\ OwnFits' /\ WayClear' /\ AnswersOwnCommand'
  <2>1. at' = "send" /\ ret' = "none" /\ ran' = 0 /\ repeats' = 0 /\ toBdi' = Disowned(toBdi)
    BY <1>2 DEF Issue
  <2>2. NoneOwn(toBdi')
    BY <1>1, <2>1, DisownedElements
  <2>3. QED
    BY <2>1, <2>2 DEF AtWork, OwnFits, InTransaction, WayClear, AnswersOwnCommand, NoneOwn
<1>3. CASE SendCommand
  <2> DEFINE f == Command(command, (frameCount + 3) % 4)
  <2>1. /\ at = "send" /\ at' = "wait" /\ ret' = ret /\ ran' = ran /\ command' = command
        /\ repeats' = repeats + 1 /\ toHost' = <<>>
        /\ toBdi' = Put(toBdi, f, rate, bdiRate)
    BY <1>3 DEF SendCommand, FlushRxQueue
  <2>2. f \in BdiFrames /\ OwnCommand(f) /\ f.cmd = command
    <3>1. command \in Commands /\ (frameCount + 3) % 4 \in 0..3
      BY <2>1 DEF Types, LinkTypeOK
    <3>2. QED
      BY <3>1, FrameTypes DEF Command, OwnCommand
  <2>3. stray' # "now" => \A i \in 1..Len(toBdi) : OwnCommand(toBdi[i])
    BY <1>3 DEF SendCommand
  <2>4. AtWork' /\ AnswersOwnCommand'
    BY <1>1, <2>1 DEF AtWork, AnswersOwnCommand
  <2>5. CASE toBdi' = toBdi
    BY <1>1, <2>1, <2>3, <2>4, <2>5 DEF OwnFits, InTransaction, WayClear
  <2>6. CASE /\ Len(toBdi') = Len(toBdi) + 1 /\ toBdi'[Len(toBdi) + 1] = f
             /\ \A i \in 1..Len(toBdi) : toBdi'[i] = toBdi[i]
    <3>1. \A i \in 1..Len(toBdi') : i \in 1..Len(toBdi) \/ i = Len(toBdi) + 1
      BY <1>1, <2>6
    <3>2. ran <= repeats
      BY DEF AnswersOwnCommand
    <3>3. OwnFits'
      <4>1. ASSUME NEW i \in 1..Len(toBdi'), OwnCommand(toBdi'[i])
            PROVE  toBdi'[i].cmd = command /\ ran + (Len(toBdi') - i) < repeats + 1
        <5>1. CASE i \in 1..Len(toBdi)
          <6>1. toBdi[i].cmd = command /\ ran + (Len(toBdi) - i) < repeats
            BY <2>6, <4>1, <5>1 DEF OwnFits, InTransaction
          <6>2. QED
            BY <1>1, <2>6, <5>1, <6>1
        <5>2. CASE i = Len(toBdi) + 1
          BY <1>1, <2>2, <2>6, <3>2, <5>2
        <5>3. QED
          BY <3>1, <5>1, <5>2
      <4>2. QED
        BY <2>1, <4>1 DEF OwnFits, InTransaction
    <3>4. WayClear'
      BY <2>1, <2>2, <2>3, <2>6, <3>1 DEF WayClear
    <3>5. QED
      BY <2>4, <3>3, <3>4
  <2>7. QED
    BY <1>1, <2>1, <2>2, <2>5, <2>6, PutElements
<1>4. CASE SendFails
  <2>1. /\ at = "send" /\ at' = "send" /\ UNCHANGED <<ret, ran, command, toBdi>>
        /\ repeats' = repeats + 1
    BY <1>4 DEF SendFails
  <2>2. QED
    BY <1>1, <2>1 DEF AtWork, OwnFits, InTransaction, WayClear, AnswersOwnCommand
<1>5. CASE Exhausted
  <2>1. /\ at = "send" /\ at' = "ready" /\ ret' = "noresponse"
        /\ UNCHANGED <<ran, command, repeats, toBdi>>
    BY <1>5 DEF Exhausted, Returns, wire
  <2>2. QED
    BY <2>1 DEF AtWork, OwnFits, InTransaction, WayClear, AnswersOwnCommand
<1>6. CASE AnswerTaken
  <2>1. /\ at = "wait" /\ at' = "ready" /\ ret' = "answer"
        /\ toHost # <<>> /\ Head(toHost) # Bad
        /\ answer' = Head(toHost) /\ UNCHANGED <<ran, command, repeats, toBdi, stray>>
    BY <1>6 DEF AnswerTaken, Returns
  <2>2. stray # "now" => Fits(Head(toHost))
    BY <1>1, <2>1, TailElements DEF WayClear
  <2>3. QED
    BY <2>1, <2>2 DEF AtWork, OwnFits, InTransaction, WayClear, AnswersOwnCommand, Fits
<1>7. CASE AnswerDamaged \/ AnswerTimesOut
  <2>1. /\ at = "wait" /\ at' = "send"
        /\ UNCHANGED <<ret, ran, command, repeats, toBdi>>
    BY <1>7 DEF AnswerDamaged, AnswerTimesOut, call
  <2>2. QED
    BY <2>1 DEF AtWork, OwnFits, InTransaction, WayClear, AnswersOwnCommand
<1>8. QED
  BY <1>2, <1>3, <1>4, <1>5, <1>6, <1>7

\* A frame of the transaction that the BDI reads is carried out and answered.
LEMMA OutsideOwn ==
  ASSUME OwnInv,
         BdiLinkSteps \/ WireFaults \/ BdiRestarts
           \/ (\E s \in Attentions : BdiCallsAttention(s))
           \/ (\E d \in Outcomes, r \in Rates : BdiAnswers(d, r))
           \/ UNCHANGED <<port, call, toBdi, toHost, bdiRate, ran, stray>>
  PROVE  AtWork' /\ OwnFits' /\ WayClear' /\ AnswersOwnCommand'
<1> USE DEF OwnInv
<1>1. /\ toBdi \in Seq(BdiFrames) /\ Len(toBdi) \in Nat
      /\ toHost \in Seq(HostFrames) /\ Len(toHost) \in Nat
      /\ ran \in Nat /\ repeats \in Nat
  BY WireLengths
<1>2. UNCHANGED <<at, repeats, command, ret, answer>>
  BY DEF BdiLinkSteps, BdiResets, BdiChangesRate, WireFaults, FrameLost, FrameDamaged,
         BdiRestarts, BdiCallsAttention, BdiAnswers, port, call
<1>3. AtWork'
  BY <1>2 DEF AtWork
<1>4. toBdi # <<>> =>
        /\ Head(toBdi) = toBdi[1] /\ 1 \in 1..Len(toBdi) /\ Len(Tail(toBdi)) = Len(toBdi) - 1
        /\ \A i \in 1..Len(Tail(toBdi)) : i + 1 \in 1..Len(toBdi) /\ Tail(toBdi)[i] = toBdi[i + 1]
  BY <1>1, TailElements
<1>5. ASSUME toBdi # <<>>, toBdi' = Tail(toBdi), UNCHANGED ran PROVE OwnFits'
  <2>1. ASSUME NEW i \in 1..Len(toBdi'), OwnCommand(toBdi'[i])
        PROVE  /\ InTransaction /\ toBdi'[i].cmd = command
               /\ ran + (Len(toBdi') - i) < repeats
    <3>1. /\ i + 1 \in 1..Len(toBdi) /\ toBdi'[i] = toBdi[i + 1]
          /\ Len(toBdi') - i = Len(toBdi) - (i + 1)
      BY <1>1, <1>4, <1>5, <2>1
    <3>2. QED
      BY <2>1, <3>1 DEF OwnFits, InTransaction
  <2>2. QED
    BY <1>2, <1>5, <2>1 DEF OwnFits, InTransaction
<1>6. ASSUME UNCHANGED <<ran, stray>> PROVE AnswersOwnCommand'
  BY <1>2, <1>6 DEF AnswersOwnCommand
<1>7. CASE BdiLinkSteps
  <2>1. PICK k \in {"reset", "baud"} : BdiReads(k) /\ UNCHANGED <<ran, stray>>
    BY <1>7 DEF BdiLinkSteps, BdiResets, BdiChangesRate
  <2>2. toBdi # <<>> /\ toBdi' = Tail(toBdi) /\ ~OwnCommand(toBdi[1])
    BY <1>4, <2>1 DEF BdiReads, OwnCommand
  <2>3. WayClear'
    BY <1>2, <1>4, <2>1, <2>2 DEF WayClear
  <2>4. QED
    BY <1>3, <1>5, <1>6, <2>1, <2>2, <2>3
<1>8. ASSUME NEW d \in Outcomes, NEW r \in Rates, BdiAnswers(d, r)
      PROVE  AtWork' /\ OwnFits' /\ WayClear' /\ AnswersOwnCommand'
  <2> DEFINE f == Head(toBdi)
             g == Answer(f.cmd, d, f.own)
  <2>1. /\ toBdi # <<>> /\ f.kind = "command" /\ toBdi' = Tail(toBdi)
        /\ toHost' = Put(toHost, g, bdiRate, rate)
        /\ ran' = (IF f.own THEN ran + 1 ELSE ran) /\ stray' = stray
    BY <1>8 DEF BdiAnswers, BdiReads
  <2>2. f = toBdi[1] /\ f \in BdiFrames /\ f \in CommandFrames
    BY <1>1, <1>4, <2>1, KindTypes, TailType
  <2>3. g \in HostFrames /\ g.kind = "answer" /\ g.own = f.own /\ g.cmd = f.cmd
    BY <2>2, FrameTypes DEF CommandFrames, Answer
  <2>4. \/ toHost' = toHost
        \/ /\ Len(toHost') = Len(toHost) + 1 /\ toHost'[Len(toHost) + 1] = g
           /\ \A i \in 1..Len(toHost) : toHost'[i] = toHost[i]
    <3> HIDE DEF g
    <3>1. QED
      BY <1>1, <2>1, <2>3, PutElements
  <2>5. CASE ~f.own
    <3>1. OwnFits' /\ AnswersOwnCommand'
      BY <1>5, <1>6, <2>1, <2>5
    <3>2. WayClear'
      BY <1>2, <1>4, <2>1, <2>2, <2>5 DEF WayClear, OwnCommand
    <3>3. QED
      BY <1>3, <3>1, <3>2
  <2>6. CASE f.own
    <3>1. /\ OwnCommand(toBdi[1]) /\ f.cmd = command /\ InTransaction
          /\ ran + (Len(toBdi) - 1) < repeats /\ ran' = ran + 1 /\ Len(toBdi) >= 1
      BY <1>1, <1>4, <2>1, <2>2, <2>6 DEF OwnFits, InTransaction, OwnCommand
    <3>2. OwnFits'
      <4>1. ASSUME NEW i \in 1..Len(toBdi'), OwnCommand(toBdi'[i])
            PROVE  toBdi'[i].cmd = command /\ ran + 1 + (Len(toBdi') - i) < repeats
        <5>1. i + 1 \in 1..Len(toBdi) /\ toBdi'[i] = toBdi[i + 1] /\ Len(toBdi') = Len(toBdi) - 1
          BY <1>4, <2>1, <4>1
        <5>2. toBdi[i + 1].cmd = command
          BY <4>1, <5>1 DEF OwnFits, InTransaction
        <5>3. i >= 1 /\ i \in Int
          BY <4>1
        <5>4. QED
          BY <1>1, <3>1, <5>1, <5>2, <5>3
      <4>2. QED
        BY <1>2, <3>1, <4>1 DEF OwnFits, InTransaction
    <3>3. AnswersOwnCommand'
      <4>1. ran' <= repeats /\ ran' > 0
        BY <1>1, <3>1
      <4>2. QED
        BY <1>2, <2>1, <4>1 DEF AnswersOwnCommand
    <3>4. WayClear'
      <4> DEFINE F(h) == h = Bad \/ (h.kind = "answer" /\ h.own /\ h.cmd = command)
      <4> SUFFICES ASSUME at' = "wait", stray' # "now"
                   PROVE  /\ \A i \in 1..Len(toBdi') : OwnCommand(toBdi'[i])
                          /\ \A i \in 1..Len(toHost') : F(toHost'[i])
        BY <1>1, <1>2, <3>1 DEF WayClear, Fits
      <4>1. /\ \A i \in 1..Len(toBdi) : OwnCommand(toBdi[i])
            /\ \A i \in 1..Len(toHost) : F(toHost[i])
        BY <1>2, <2>1 DEF WayClear, Fits
      <4>2. F(g)
        BY <2>3, <2>6, <3>1
      <4>3. \A i \in 1..Len(toBdi') : OwnCommand(toBdi'[i])
        BY <1>4, <2>1, <4>1
      <4>4. CASE toHost' = toHost
        BY <4>1, <4>3, <4>4
      <4>5. CASE /\ Len(toHost') = Len(toHost) + 1 /\ toHost'[Len(toHost) + 1] = g
                 /\ \A i \in 1..Len(toHost) : toHost'[i] = toHost[i]
        <5> HIDE DEF F, g
        <5>1. \A i \in 1..Len(toHost') : i \in 1..Len(toHost) \/ i = Len(toHost) + 1
          BY <1>1, <4>5
        <5>2. QED
          BY <4>1, <4>2, <4>3, <4>5, <5>1
      <4>6. QED
        BY <2>4, <4>4, <4>5
    <3>5. QED
      BY <1>3, <3>2, <3>3, <3>4
  <2>7. QED
    BY <2>5, <2>6
<1>9. CASE BdiRestarts
  <2>1. toBdi' = <<>> /\ UNCHANGED <<toHost, ran, stray>>
    BY <1>9 DEF BdiRestarts
  <2>2. OwnFits' /\ WayClear'
    BY <1>2, <2>1 DEF OwnFits, InTransaction, WayClear, Fits
  <2>3. QED
    BY <1>3, <1>6, <2>1, <2>2
<1>10. CASE FrameLost
  <2>1. UNCHANGED <<ran, stray>>
    BY <1>10 DEF FrameLost
  <2>2. CASE toBdi # <<>> /\ toBdi' = Tail(toBdi) /\ UNCHANGED toHost
    <3>1. WayClear'
      BY <1>2, <1>4, <2>1, <2>2 DEF WayClear, Fits
    <3>2. QED
      BY <1>3, <1>5, <1>6, <2>1, <2>2, <3>1
  <2>3. CASE toHost # <<>> /\ toHost' = Tail(toHost) /\ UNCHANGED toBdi
    <3>1. \A i \in 1..Len(toHost') : i + 1 \in 1..Len(toHost) /\ toHost'[i] = toHost[i + 1]
      BY <1>1, <2>3, TailElements
    <3>2. OwnFits' /\ WayClear'
      BY <1>2, <2>1, <2>3, <3>1 DEF OwnFits, InTransaction, WayClear, Fits
    <3>3. QED
      BY <1>3, <1>6, <2>1, <3>2
  <2>4. QED
    BY <1>10, <2>2, <2>3 DEF FrameLost
<1>11. CASE FrameDamaged
  <2>1. /\ toHost # <<>> /\ toHost' = <<Bad>> \o Tail(toHost)
        /\ UNCHANGED <<toBdi, ran, stray>>
    BY <1>11 DEF FrameDamaged
  <2>2. Tail(toHost) \in Seq(HostFrames) /\ Len(Tail(toHost)) = Len(toHost) - 1
    BY <1>1, <2>1, TailType, TailElements
  <2>3. \A i \in 1..Len(toHost') : i \in 1..Len(toHost) /\ (toHost'[i] = Bad \/ toHost'[i] = toHost[i])
    BY <1>1, <2>1, <2>2, TailElements
  <2>4. OwnFits' /\ WayClear'
    BY <1>2, <2>1, <2>3 DEF OwnFits, InTransaction, WayClear, Fits
  <2>5. QED
    BY <1>3, <1>6, <2>1, <2>4
<1>12. CASE \E s \in Attentions : BdiCallsAttention(s)
  <2>1. UNCHANGED <<toBdi, ran>> /\ at \notin {"closed", "ready"} /\ (at = "wait" => stray' = "now")
    BY <1>12 DEF BdiCallsAttention
  <2>2. ret # "answer"
    BY <2>1 DEF AtWork
  <2>3. QED
    BY <1>2, <1>3, <2>1, <2>2 DEF OwnFits, InTransaction, WayClear, AnswersOwnCommand
<1>13. CASE UNCHANGED <<port, call, toBdi, toHost, bdiRate, ran, stray>>
  BY <1>2, <1>3, <1>6, <1>13 DEF OwnFits, InTransaction, WayClear, Fits
<1>14. QED
  BY <1>7, <1>8, <1>9, <1>10, <1>11, <1>12, <1>13 DEF WireFaults

LEMMA InitialOwn == LinkInit => OwnInv
<1> SUFFICES ASSUME LinkInit PROVE OwnInv
  OBVIOUS
<1>1. toBdi = <<>> /\ ran = 0 /\ repeats = 0 /\ at = "closed" /\ ret = "none"
  BY DEF LinkInit
<1>2. AtWork /\ OwnFits /\ WayClear /\ AnswersOwnCommand
  BY <1>1 DEF AtWork, OwnFits, InTransaction, WayClear, AnswersOwnCommand
<1>3. QED
  BY <1>2, InitialTypes DEF OwnInv

LEMMA StepOwn == OwnInv /\ [LinkNext]_linkVars => OwnInv'
<1> SUFFICES ASSUME OwnInv, [LinkNext]_linkVars PROVE OwnInv'
  OBVIOUS
<1>1. Types'
  BY StepTypes DEF OwnInv
<1>2. CASE UNCHANGED linkVars
  BY <1>1, <1>2, OutsideOwn DEF linkVars, wire, OwnInv
<1>3. CASE LinkNext
  BY <1>1, <1>3, OpenOwn, TransactionOwn, OutsideOwn DEF LinkNext, HostSteps, OwnInv
<1>4. QED
  BY <1>2, <1>3

THEOREM OwnInvariance == LinkSpec => []OwnInv
BY InitialOwn, StepOwn, PTL DEF LinkSpec

\* A command is carried out at most as often as it was sent, and a transaction that
\* returns an answer while no stray frame can reach it returns the one to its own
\* command, which was carried out, although the code compares the length only.  This
\* holds with any number of late answers and attention frames, before it and in it.
THEOREM AnswersOwn == LinkSpec => []AnswersOwnCommand
<1>1. OwnInv => AnswersOwnCommand
  BY DEF OwnInv
<1>2. QED
  BY <1>1, OwnInvariance, PTL
-----------------------------------------------------------------------------
(* A link that is calm: one frame at a time is under way.                  *)

\* Where the host drops what has come before it waits for the next frame.
Deaf == {"closed", "ready", "send"}

\* The only frame under way to the host, if the host waits for an answer.
HostFits(f) == at = "wait" => Fits(f)

Quiet == toHost = <<>> \/ at \in Deaf

\* The only frame under way to the BDI.
BdiFits(f) ==
  /\ at \notin {"ready", "send"} /\ ret # "answer"
  /\ IF at = "wait" THEN f.kind = "command" /\ f.own /\ f.cmd = command /\ ran < repeats
     ELSE f.kind = "command" => ~f.own

\* No two frames are under way at once, but for those nobody will read.
OneFrame ==
  \/ toBdi = <<>> /\ Quiet
  \/ toBdi = <<>> /\ \E f \in HostFrames : toHost = <<f>> /\ HostFits(f)
  \/ Quiet /\ \E f \in BdiFrames : toBdi = <<f>> /\ BdiFits(f)

Inv == OwnInv /\ OneFrame

\* What Inv says of a transaction on a calm link.
LEMMA CalmInv ==
  ASSUME Inv, Calm
  PROVE  /\ Types /\ AtWork /\ ran <= repeats
         /\ ret = "answer" => answer.kind = "answer" /\ answer.own /\ answer.cmd = command /\ ran > 0
BY DEF Inv, OwnInv, AnswersOwnCommand, Calm

LEMMA One ==
  /\ \A f : <<f>> # <<>> /\ Head(<<f>>) = f /\ Tail(<<f>>) = <<>>
  /\ \A f, r, q : Put(<<>>, f, r, q) = <<f>> \/ Put(<<>>, f, r, q) = <<>>
  /\ Disowned(<<>>) = <<>>
<1>1. Disowned(<<>>) = <<>>
  BY DEF Disowned
<1>2. QED
  BY <1>1 DEF Put

\* What is left when a frame is read, and that nothing is on the other wire.
LEMMA Reading ==
  ASSUME OneFrame
  PROVE  /\ toHost # <<>> /\ at \notin Deaf =>
               /\ toBdi = <<>> /\ Tail(toHost) = <<>>
               /\ Head(toHost) \in HostFrames /\ HostFits(Head(toHost))
               /\ toHost = <<Head(toHost)>>
         /\ toBdi # <<>> => /\ Quiet /\ Tail(toBdi) = <<>>
                            /\ Head(toBdi) \in BdiFrames /\ BdiFits(Head(toBdi))
                            /\ toBdi = <<Head(toBdi)>>
         /\ at \in {"ready", "send"} \/ ret = "answer" => toBdi = <<>>
BY One DEF OneFrame, BdiFits, Quiet

\* On a link that stays calm the host goes on when nothing is under way.
LEMMA CalmGoesOn ==
  ASSUME Calm', GoesOn \/ GivesUp
  PROVE  toBdi = <<>>
BY DEF Calm, GoesOn, GivesUp, Disturbed

LEMMA CalmStays == ASSUME Calm', [LinkNext]_linkVars PROVE Calm
<1>1. GoesOn => Calm
  BY DEF GoesOn, Disturbed, Calm
<1>2. CASE UNCHANGED stray
  BY <1>2 DEF Calm
<1>3. CASE Open \/ ProbeFails \/ RateRefused \/ ConfirmFails \/ AnswerTimesOut
  BY <1>1, <1>2, <1>3 DEF Open, ProbeFails, RateRefused, ConfirmFails, AnswerTimesOut,
                         Unanswered, GivesUp
<1>4. CASE SendCommand
  BY <1>4 DEF SendCommand, Calm
<1>5. CASE \E s \in Attentions : BdiCallsAttention(s)
  BY <1>5 DEF BdiCallsAttention, Disturbed, Calm
<1>6. CASE \/ OpenFails \/ Close \/ Abort \/ SendFails \/ \E c \in Commands : Issue(c)
           \/ ProbeAnswered \/ RateConfirmed \/ ConfirmAnswered \/ Exhausted \/ AnswerTaken
           \/ AnswerDamaged \/ BdiLinkSteps \/ WireFaults \/ BdiRestarts
           \/ (\E d \in Outcomes, r \in Rates : BdiAnswers(d, r))
           \/ UNCHANGED <<port, call, toBdi, toHost, bdiRate, ran, stray>>
           \/ UNCHANGED linkVars
  <2>1. UNCHANGED stray
    BY <1>6 DEF OpenFails, Close, Abort, SendFails, Issue, ProbeAnswered, RateConfirmed,
                ConfirmAnswered, Exhausted, AnswerTaken, AnswerDamaged, BdiLinkSteps,
                BdiResets, BdiChangesRate, WireFaults, FrameLost, FrameDamaged, BdiRestarts,
                BdiAnswers, linkVars
  <2>2. QED
    BY <1>2, <2>1
<1>7. QED
  BY <1>3, <1>4, <1>5, <1>6 DEF LinkNext, HostSteps

LEMMA DisownOne ==
  /\ \A f \in BdiFrames : \E g \in BdiFrames :
       Disowned(<<f>>) = <<g>> /\ (g.kind = "command" => ~g.own)
  /\ \A f \in HostFrames : \E g \in HostFrames : Disowned(<<f>>) = <<g>>
<1> DEFINE d(f) == IF f.kind \in {"command", "answer"} THEN [f EXCEPT !.own = FALSE] ELSE f
<1>1. ASSUME NEW f PROVE Disowned(<<f>>) = <<d(f)>>
  <2>1. Disowned(<<f>>) = [i \in 1..1 |-> d(<<f>>[i])]
    BY DEF Disowned
  <2>2. \A i \in 1..1 : <<f>>[i] = f
    OBVIOUS
  <2>3. Disowned(<<f>>) = [i \in 1..1 |-> d(f)]
    BY <2>1, <2>2
  <2>4. \A x : [i \in 1..1 |-> x] = <<x>>
    OBVIOUS
  <2>5. QED
    BY <2>3, <2>4
<1>2. \A f \in CommandFrames : d(f) \in CommandFrames /\ ~d(f).own
  BY DEF CommandFrames
<1>3. (\A f \in AnswerFrames : d(f) \in AnswerFrames) /\ \A f \in AttentionFrames : d(f) = f
  BY DEF AnswerFrames, AttentionFrames
<1>4. \A f \in LinkFrames : d(f) = f /\ f.kind # "command"
  BY DEF LinkFrames
<1>5. d(Bad) = Bad
  BY DEF Bad
<1>6. \A f \in BdiFrames : d(f) \in BdiFrames /\ (d(f).kind = "command" => ~d(f).own)
  BY <1>2, <1>4 DEF BdiFrames
<1>7. \A f \in HostFrames : d(f) \in HostFrames
  BY <1>3, <1>4, <1>5 DEF HostFrames
<1>8. QED
  BY <1>1, <1>6, <1>7

\* A frame that is sent while nothing is under way is the only one.
LEMMA SendOne ==
  ASSUME NEW r \in Rates, NEW k \in {"reset", "baud"}, toBdi = <<>>,
         toBdi' = Put(toBdi, Link(k, r), rate', bdiRate) \/ toBdi' = Put(toBdi, Link(k, r), rate, bdiRate),
         toHost' = <<>>, at' \in {"probe", "setrate", "confirm"}, ret' = "none"
  PROVE  OneFrame'
<1>1. Link(k, r) \in BdiFrames /\ Link(k, r).kind # "command"
  BY FrameTypes DEF Link
<1>2. toBdi' = <<>> \/ toBdi' = <<Link(k, r)>>
  BY One
<1>3. QED
  BY <1>1, <1>2 DEF OneFrame, BdiFits, Quiet

\* While the link is opened, what was sent before has been answered or lost.
LEMMA OpenFits ==
  ASSUME Inv, Calm',
         Open \/ OpenFails \/ ProbeAnswered \/ ProbeFails \/ RateConfirmed
           \/ RateRefused \/ ConfirmAnswered \/ ConfirmFails \/ Close \/ Abort
  PROVE  OneFrame'
<1> USE DEF Inv, OwnInv
<1>1. toHost # <<>> /\ at \notin Deaf => toBdi = <<>> /\ Tail(toHost) = <<>>
  BY Reading
<1>2. ASSUME toBdi' = <<>>, at' \in Deaf PROVE OneFrame'
  BY <1>2 DEF OneFrame, Quiet
<1>3. at \in {"probe", "setrate", "confirm"} => ret = "none" /\ at \notin Deaf
  BY DEF AtWork, Deaf
<1>4. CASE Open
  <2>1. toBdi = <<>>
    BY <1>4, CalmGoesOn DEF Open
  <2>2. QED
    BY <1>4, <2>1, SendOne, LinkAssumption DEF Open, SendAt, Rates
<1>5. CASE OpenFails
  <2>1. UNCHANGED <<toBdi, toHost>> /\ at = "closed" /\ at' = "closed" /\ ret' = "setup"
    BY <1>5 DEF OpenFails, Returns
  <2>2. QED
    BY <2>1 DEF OneFrame, HostFits, BdiFits, Quiet, Deaf
<1>6. CASE ProbeAnswered
  <2>1. toBdi = <<>> /\ toHost' = <<>> /\ ret = "none"
    BY <1>1, <1>3, <1>6 DEF ProbeAnswered
  <2>2. CASE probe = 0
    BY <1>6, <2>1, <2>2 DEF ProbeAnswered, OneFrame, Quiet
  <2>3. CASE probe # 0
    BY <1>6, <2>1, <2>3, SendOne, LinkAssumption DEF ProbeAnswered
  <2>4. QED
    BY <2>2, <2>3
<1>7. CASE ProbeFails
  <2>1. toBdi = <<>> /\ ret = "none"
    BY <1>1, <1>3, <1>7, CalmGoesOn DEF ProbeFails, Unanswered
  <2>2. CASE MoreRates
    BY <1>7, <2>1, <2>2, SendOne, FrameTypes DEF ProbeFails, SendAt
  <2>3. CASE ~MoreRates
    BY <1>2, <1>7, <2>1, <2>3 DEF ProbeFails, Returns, Deaf
  <2>4. QED
    BY <2>2, <2>3
<1>8. CASE RateConfirmed
  <2>1. toBdi = <<>> /\ ret' = "none"
    BY <1>1, <1>3, <1>8 DEF RateConfirmed, call
  <2>2. QED
    BY <1>8, <2>1, SendOne, FrameTypes DEF RateConfirmed, SendAt
<1>9. CASE ConfirmAnswered
  BY <1>1, <1>2, <1>3, <1>9 DEF ConfirmAnswered, Connected, Returns, Deaf
<1>10. CASE RateRefused \/ ConfirmFails
  <2>1. toBdi = <<>>
    BY <1>1, <1>3, <1>10, CalmGoesOn DEF RateRefused, ConfirmFails, Unanswered
  <2>2. QED
    BY <1>2, <1>10, <2>1 DEF RateRefused, ConfirmFails, Returns, Connected, Deaf
<1>11. CASE Close
  BY <1>2, <1>11, Reading, One DEF Close, Deaf
<1>12. CASE Abort
  <2>1. toBdi' = Disowned(toBdi) /\ at' = "closed" /\ ret' = "none"
    BY <1>12 DEF Abort, Returns
  <2>2. QED
    BY <2>1, One, DisownOne DEF OneFrame, BdiFits, Quiet, Deaf
<1>13. QED
  BY <1>4, <1>5, <1>6, <1>7, <1>8, <1>9, <1>10, <1>11, <1>12

\* A transaction sends when nothing is under way to the BDI, and waits for that frame.
LEMMA TransactionFits ==
  ASSUME Inv, Calm',
         (\E c \in Commands : Issue(c)) \/ SendCommand \/ SendFails \/ Exhausted
           \/ AnswerTaken \/ AnswerDamaged \/ AnswerTimesOut
  PROVE  OneFrame'
<1> USE DEF Inv, OwnInv
<1>1. toHost # <<>> /\ at \notin Deaf => toBdi = <<>>
  BY Reading
<1>2. ASSUME toBdi' = <<>>, at' \in Deaf PROVE OneFrame'
  BY <1>2 DEF OneFrame, Quiet
<1>3. at \in {"ready", "send"} => toBdi = <<>>
  BY Reading
<1>4. CASE \E c \in Commands : Issue(c)
  BY <1>2, <1>3, <1>4, One DEF Issue, Deaf
<1>5. CASE SendCommand
  <2>1. /\ toBdi = <<>> /\ toHost' = <<>> /\ at' = "wait" /\ ret' = "none"
        /\ repeats' = repeats + 1 /\ ran' = ran /\ command' = command
    BY <1>3, <1>5 DEF SendCommand, FlushRxQueue, AtWork
  <2>2. /\ toBdi' = <<>> \/ toBdi' = <<Command(command, (frameCount + 3) % 4)>>
        /\ command \in Commands /\ (frameCount + 3) % 4 \in 0..3
    BY <1>5, <2>1, One DEF SendCommand, Types, LinkTypeOK
  <2>3. ran < repeats'
    BY <2>1, WireLengths DEF AnswersOwnCommand
  <2>4. QED
    BY <2>1, <2>2, <2>3, FrameTypes DEF OneFrame, BdiFits, Command, Quiet
<1>6. CASE SendFails \/ Exhausted
  BY <1>2, <1>3, <1>6 DEF SendFails, Exhausted, Returns, wire, Deaf
<1>7. CASE AnswerTaken \/ AnswerDamaged \/ AnswerTimesOut
  <2>1. toBdi = <<>>
    BY <1>1, <1>7, CalmGoesOn DEF AnswerTaken, AnswerDamaged, AnswerTimesOut, Deaf
  <2>2. QED
    BY <1>2, <1>7, <2>1 DEF AnswerTaken, AnswerDamaged, AnswerTimesOut, Returns, Deaf
<1>8. QED
  BY <1>4, <1>5, <1>6, <1>7

\* The BDI answers the only frame there is.
LEMMA OutsideFits ==
  ASSUME Inv, Calm',
         BdiLinkSteps \/ WireFaults \/ BdiRestarts
           \/ (\E s \in Attentions : BdiCallsAttention(s))
           \/ (\E d \in Outcomes, r \in Rates : BdiAnswers(d, r))
           \/ UNCHANGED <<port, call, toBdi, toHost, bdiRate, ran, stray>>
  PROVE  OneFrame'
<1> USE DEF Inv, OwnInv
<1>1. UNCHANGED <<at, repeats, command, ret>>
  BY DEF BdiLinkSteps, BdiResets, BdiChangesRate, WireFaults, FrameLost, FrameDamaged,
         BdiRestarts, BdiCallsAttention, BdiAnswers, port, call
<1>2. repeats \in Nat /\ ran \in Nat
  BY WireLengths
<1>3. ASSUME toBdi' = <<>>, at \in Deaf PROVE OneFrame'
  BY <1>1, <1>3 DEF OneFrame, Quiet
<1>4. ASSUME UNCHANGED <<toBdi, ran>>, at \in Deaf PROVE OneFrame'
  BY <1>1, <1>4 DEF OneFrame, BdiFits, HostFits, Quiet, Deaf
<1>5. CASE BdiLinkSteps
  <2>1. PICK k \in {"reset", "baud"}, r \in Rates :
          BdiReads(k) /\ toHost' = Put(toHost, Link(k, r), bdiRate, rate) /\ UNCHANGED ran
    <3>1. CASE BdiResets
      BY <3>1, LinkAssumption DEF BdiResets, Rates
    <3>2. CASE BdiChangesRate
      <4>1. PICK r \in 1..Head(toBdi).rate : toHost' = Put(toHost, Link("baud", r), bdiRate, rate)
        BY <3>2 DEF BdiChangesRate
      <4>2. Head(toBdi).rate \in Rates
        BY <3>2, KindTypes, WireTypes DEF BdiChangesRate, BdiReads, Types
      <4>3. r \in Rates
        BY <4>1, <4>2, LinkAssumption DEF Rates
      <4>4. QED
        BY <3>2, <4>1, <4>3 DEF BdiChangesRate
    <3>3. QED
      BY <1>5, <3>1, <3>2 DEF BdiLinkSteps
  <2>2. toBdi' = <<>> /\ Quiet /\ BdiFits(Head(toBdi)) /\ Head(toBdi).kind # "command"
    BY <2>1, Reading DEF BdiReads
  <2>3. at # "wait"
    BY <2>2 DEF BdiFits
  <2>4. CASE toHost = <<>>
    <3>1. toHost' = <<>> \/ toHost' = <<Link(k, r)>>
      BY <2>1, <2>4, One
    <3>2. Link(k, r) \in HostFrames
      BY FrameTypes
    <3>3. QED
      BY <1>1, <2>2, <2>3, <3>1, <3>2 DEF OneFrame, HostFits, Quiet
  <2>5. QED
    BY <1>3, <2>2, <2>4 DEF Quiet
<1>6. ASSUME NEW d \in Outcomes, NEW r \in Rates, BdiAnswers(d, r)
      PROVE  OneFrame'
  <2> DEFINE f == Head(toBdi)
  <2>1. /\ toBdi # <<>> /\ f.kind = "command" /\ toBdi' = Tail(toBdi)
        /\ toHost' = Put(toHost, Answer(f.cmd, d, f.own), bdiRate, rate)
        /\ ran' = IF f.own THEN ran + 1 ELSE ran
    BY <1>6 DEF BdiAnswers, BdiReads
  <2>2. Quiet /\ toBdi' = <<>> /\ f \in CommandFrames /\ BdiFits(f)
    BY <2>1, Reading, KindTypes
  <2>3. f.cmd \in Commands /\ f.own \in BOOLEAN
    BY <2>2 DEF CommandFrames
  <2>4. PICK g \in HostFrames : /\ g = Answer(f.cmd, d, f.own) /\ g.kind = "answer"
                               /\ g.own = f.own /\ g.cmd = f.cmd
    BY <2>3, FrameTypes DEF Answer
  <2>5. CASE toHost = <<>>
    <3>1. toHost' = <<>> \/ toHost' = <<g>>
      BY <2>1, <2>4, <2>5, One
    <3>2. at = "wait" => f.own /\ f.cmd = command
      BY <2>2 DEF BdiFits
    <3>3. at' = "wait" => g.kind = "answer" /\ g.own /\ g.cmd = command' /\ ran' > 0
      BY <1>1, <1>2, <2>1, <2>4, <3>2
    <3>4. HostFits(g)'
      BY <3>3 DEF HostFits, Fits
    <3>5. QED
      BY <2>2, <3>1, <3>4 DEF OneFrame, Quiet
  <2>6. QED
    BY <1>3, <2>2, <2>5 DEF Quiet
<1>7. CASE BdiRestarts
  <2>1. toBdi' = <<>> /\ UNCHANGED <<toHost, ran>>
    BY <1>7 DEF BdiRestarts
  <2>2. QED
    BY <1>1, <2>1 DEF OneFrame, HostFits, Fits, Quiet
<1>8. CASE FrameLost
  <2>1. CASE at \in Deaf
    BY <1>3, <1>4, <1>8, <2>1, Reading DEF FrameLost
  <2>2. CASE at \notin Deaf
    <3>1. toBdi' = <<>> /\ toHost' = <<>>
      BY <1>8, <2>2, Reading DEF FrameLost, Quiet
    <3>2. QED
      BY <3>1 DEF OneFrame, Quiet
  <2>3. QED
    BY <2>1, <2>2
<1>9. CASE FrameDamaged
  <2>1. CASE at \in Deaf
    BY <1>4, <1>9, <2>1 DEF FrameDamaged
  <2>2. CASE at \notin Deaf
    <3>1. toBdi = <<>> /\ UNCHANGED <<toBdi, ran>> /\ toHost' = <<Bad>> \o <<>>
      BY <1>9, <2>2, Reading DEF FrameDamaged
    <3>2. <<Bad>> \o <<>> = <<Bad>>
      OBVIOUS
    <3>3. QED
      BY <3>1, <3>2, FrameTypes DEF OneFrame, HostFits, Fits
  <2>3. QED
    BY <2>1, <2>2
<1>10. CASE \E s \in Attentions : BdiCallsAttention(s)
  <2>1. at \in {"send"}
    BY <1>10 DEF BdiCallsAttention, Calm, Disturbed, Types, LinkTypeOK, Places
  <2>2. QED
    BY <1>4, <1>10, <2>1 DEF BdiCallsAttention, Deaf
<1>11. CASE UNCHANGED <<port, call, toBdi, toHost, bdiRate, ran, stray>>
  BY <1>1, <1>11 DEF OneFrame, HostFits, Fits, BdiFits, Quiet
<1>12. QED
  BY <1>5, <1>6, <1>7, <1>8, <1>9, <1>10, <1>11 DEF WireFaults

LEMMA InitialInv == LinkInit => Inv
<1> SUFFICES ASSUME LinkInit PROVE Inv
  OBVIOUS
<1>1. toBdi = <<>> /\ toHost = <<>>
  BY DEF LinkInit
<1>2. OneFrame
  BY <1>1 DEF OneFrame, Quiet
<1>3. QED
  BY <1>2, InitialOwn DEF Inv

LEMMA StepInv == Inv /\ [LinkNext]_linkVars /\ Calm' => Inv'
<1> SUFFICES ASSUME Inv, [LinkNext]_linkVars, Calm' PROVE Inv'
  OBVIOUS
<1>1. OwnInv'
  BY StepOwn DEF Inv
<1>2. CASE UNCHANGED linkVars
  BY <1>1, <1>2, OutsideFits DEF linkVars, wire, Inv
<1>3. CASE LinkNext
  BY <1>1, <1>3, OpenFits, TransactionFits, OutsideFits DEF LinkNext, HostSteps, Inv
<1>4. QED
  BY <1>2, <1>3

\* As long as nothing comes late or unasked, no two frames meet.
THEOREM LinkInvariance == LinkSpec => [](OwnInv /\ (Calm => Inv))
<1>1. LinkInit => OwnInv /\ (Calm => Inv)
  BY InitialOwn, InitialInv
<1>2. OwnInv /\ (Calm => Inv) /\ [LinkNext]_linkVars => OwnInv' /\ (Calm' => Inv')
  BY StepOwn, StepInv, CalmStays
<1>3. QED
  BY <1>1, <1>2, PTL DEF LinkSpec
-----------------------------------------------------------------------------
(* The link implements BdiCommand.                                         *)

LEMMA ProgressIs ==
  /\ at \in {"send", "wait"} => Progress = "busy"
  /\ at \notin {"send", "wait", "ready"} => Progress = "none"
  /\ at = "ready" /\ ret = "answer" => Progress = "answered"
  /\ at = "ready" /\ ret = "noresponse" => Progress = "failed"
  /\ at = "ready" /\ ret \notin {"answer", "noresponse"} => Progress = "none"
  /\ at \notin {"send", "wait"} => Progress # "busy"
BY DEF Progress

LEMMA ProgressWillBe ==
  /\ at' \in {"send", "wait"} => Progress' = "busy"
  /\ at' \notin {"send", "wait", "ready"} => Progress' = "none"
  /\ at' = "ready" /\ ret' = "answer" => Progress' = "answered"
  /\ at' = "ready" /\ ret' = "noresponse" => Progress' = "failed"
  /\ at' = "ready" /\ ret' \notin {"answer", "noresponse"} => Progress' = "none"
BY DEF Progress

LEMMA StepImplements ==
  ASSUME OwnInv, OwnInv', [LinkNext]_linkVars
  PROVE  [Promise!Next]_<<command, ran, Progress, stray # "now">>
<1> DEFINE clear == stray # "now"
           Allowed == [Promise!Next]_<<command, ran, Progress, clear>>
<1> SUFFICES Allowed
  OBVIOUS
<1> USE DEF Promise!Next
<1>1. CASE UNCHANGED <<command, ran, at, ret>> /\ clear' = clear
  BY <1>1 DEF Progress
<1>2. ASSUME UNCHANGED <<command, ran>> \/ (command' = NoCommand /\ ran' = 0),
             Progress' = "none", clear' = clear
      PROVE  Allowed
  BY <1>2 DEF Promise!Forget
<1>3. CASE Open \/ OpenFails \/ ProbeAnswered \/ ProbeFails \/ RateConfirmed
           \/ RateRefused \/ ConfirmAnswered \/ ConfirmFails \/ Close \/ Abort
  <2>1. UNCHANGED <<command, ran>> \/ (command' = NoCommand /\ ran' = 0)
    BY <1>3 DEF Open, OpenFails, ProbeAnswered, ProbeFails, RateConfirmed, RateRefused,
                ConfirmAnswered, ConfirmFails, Close, Abort, call
  <2>2. at' \notin {"send", "wait"} /\ (at' = "ready" => ret' = "okay")
    BY <1>3 DEF Open, OpenFails, ProbeAnswered, ProbeFails, RateConfirmed, RateRefused,
                ConfirmAnswered, ConfirmFails, Close, Abort, Returns, Connected
  <2>3. Progress' = "none"
    BY <2>2, ProgressWillBe
  <2>4. clear' = clear
    BY <1>3 DEF Open, OpenFails, ProbeAnswered, ProbeFails, RateConfirmed, RateRefused,
                ConfirmAnswered, ConfirmFails, Close, Abort, Unanswered, GivesUp, GoesOn,
                Disturbed
  <2>5. QED
    BY <1>2, <2>1, <2>3, <2>4
<1>4. ASSUME NEW c \in Commands, Issue(c)
      PROVE  Allowed
  <2>1. /\ Progress # "busy" /\ Progress' = "busy"
        /\ command' \in Commands /\ ran' = 0 /\ clear' = clear
    BY <1>4, ProgressIs, ProgressWillBe DEF Issue
  <2>2. Promise!Ask
    BY <2>1 DEF Promise!Ask
  <2>3. QED
    BY <2>2
<1>5. CASE SendCommand
  <2>1. Progress = "busy" /\ Progress' = "busy" /\ UNCHANGED <<command, ran>>
    BY <1>5, ProgressIs, ProgressWillBe DEF SendCommand
  <2>2. Promise!Send
    BY <2>1 DEF Promise!Send
  <2>3. QED
    BY <2>2
<1>6. CASE SendFails \/ AnswerDamaged \/ AnswerTimesOut
  <2>1. at \in {"send", "wait"} /\ at' \in {"send", "wait"} /\ UNCHANGED <<command, ran>>
    BY <1>6 DEF SendFails, AnswerDamaged, AnswerTimesOut, call
  <2>2. clear' = clear
    BY <1>6 DEF SendFails, AnswerDamaged, AnswerTimesOut, GivesUp, GoesOn, Disturbed
  <2>3. QED
    BY <2>1, <2>2, ProgressIs, ProgressWillBe
<1>7. CASE Exhausted
  <2>1. Progress = "busy" /\ Progress' = "failed" /\ UNCHANGED <<command, ran>> /\ clear' = clear
    BY <1>7, ProgressIs, ProgressWillBe DEF Exhausted, Returns
  <2>2. Promise!Fail
    BY <2>1 DEF Promise!Fail
  <2>3. QED
    BY <2>2
<1>8. CASE AnswerTaken
  <2>1. Progress = "busy" /\ Progress' = "answered" /\ UNCHANGED <<command, ran>> /\ clear' = clear
    BY <1>8, ProgressIs, ProgressWillBe DEF AnswerTaken, Returns
  <2>2. clear => ran > 0
    BY <1>8, <2>1 DEF AnswerTaken, Returns, OwnInv, AnswersOwnCommand
  <2>3. Promise!Answer
    BY <2>1, <2>2 DEF Promise!Answer
  <2>4. QED
    BY <2>3
<1>9. ASSUME NEW d \in Outcomes, NEW r \in Rates, BdiAnswers(d, r)
      PROVE  Allowed
  <2>1. /\ UNCHANGED <<command, at, ret, repeats>> /\ clear' = clear
        /\ toBdi # <<>> /\ Head(toBdi).kind = "command"
        /\ ran' = IF Head(toBdi).own THEN ran + 1 ELSE ran
    BY <1>9 DEF BdiAnswers, BdiReads, port, call
  <2>2. CASE ~Head(toBdi).own
    BY <1>1, <2>1, <2>2
  <2>3. CASE Head(toBdi).own
    <3>1. repeats \in Nat /\ ran \in Nat /\ repeats <= Repeats /\ Repeats \in Nat
      BY LinkAssumption DEF OwnInv, Types, LinkTypeOK
    <3>2. ran + 1 <= repeats
      BY <2>1, <2>3 DEF OwnInv, AnswersOwnCommand
    <3>3. Progress # "none"
      <4>1. Len(toBdi) >= 1 /\ Head(toBdi) = toBdi[1] /\ Len(toBdi) \in Nat
        BY <2>1, WireLengths, TailElements DEF OwnInv
      <4>2. OwnCommand(toBdi[1])
        BY <2>1, <2>3, <4>1 DEF OwnCommand
      <4>3. InTransaction
        BY <4>1, <4>2 DEF OwnInv, OwnFits
      <4>4. QED
        BY <4>3 DEF InTransaction, Progress
    <3>4. Progress' = Progress
      BY <2>1 DEF Progress
    <3>5. Promise!CarryOut
      BY <2>1, <2>3, <3>1, <3>2, <3>3, <3>4 DEF Promise!CarryOut
    <3>6. QED
      BY <3>5
  <2>4. QED
    BY <2>2, <2>3
<1>10. CASE \E s \in Attentions : BdiCallsAttention(s)
  <2>1. UNCHANGED <<command, ran, at, ret>>
    BY <1>10 DEF BdiCallsAttention, port, call
  <2>2. CASE at = "wait"
    <3>1. Progress = "busy" /\ Progress' = "busy"
      BY <2>1, <2>2, ProgressIs, ProgressWillBe
    <3>2. Promise!Send
      BY <2>1, <3>1 DEF Promise!Send
    <3>3. QED
      BY <3>2
  <2>3. CASE at # "wait"
    <3>1. clear' = clear
      BY <1>10, <2>3 DEF BdiCallsAttention, Disturbed
    <3>2. QED
      BY <1>1, <2>1, <3>1
  <2>4. QED
    BY <2>2, <2>3
<1>11. CASE BdiLinkSteps \/ WireFaults \/ BdiRestarts
            \/ UNCHANGED <<port, call, toBdi, toHost, bdiRate, ran, stray>>
            \/ UNCHANGED linkVars
  <2>1. UNCHANGED <<command, ran, at, ret, stray>>
    BY <1>11 DEF BdiLinkSteps, BdiResets, BdiChangesRate, WireFaults, FrameLost,
                 FrameDamaged, BdiRestarts, linkVars, port, call
  <2>2. QED
    BY <1>1, <2>1
<1>12. QED
  BY <1>3, <1>4, <1>5, <1>6, <1>7, <1>8, <1>9, <1>10, <1>11 DEF LinkNext, HostSteps

\* A transaction keeps its promise: it carries a command out at most as often as it may
\* be sent, and returns an answer after the command was carried out as long as no stray
\* frame can reach it, whatever else comes late or unasked.
THEOREM Implements == LinkSpec => KeepsPromise
<1>1. LinkInit => Promise!Init
  BY DEF LinkInit, Promise!Init, Progress
<1>2. QED
  BY <1>1, OwnInvariance, StepImplements, PTL DEF LinkSpec, KeepsPromise, Promise!Spec
=============================================================================
