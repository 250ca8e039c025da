------------------------------ MODULE BdiLink ------------------------------
(***************************************************************************)
(* The link between the host and the BDI (bdidll.c): opening it, with the  *)
(* search for the baud rate the BDI uses, and the transactions, in which a *)
(* command is sent up to three times until an answer comes.                *)
(*                                                                         *)
(* A frame is the unit of the wires.  One that is damaged fails the block  *)
(* check of its receiver: the BDI ignores it, the host sees an error.  A   *)
(* frame sent at a rate its receiver does not use is lost.  The BDI itself *)
(* is not part of the repository: it answers what the host sends it, which *)
(* may be too late, and sends attention frames nobody asked for.           *)
(***************************************************************************)
EXTENDS Naturals, Sequences

CONSTANTS
  Commands,     \* the commands of the caller
  NoCommand,    \* none of them
  Outcomes,     \* what an answer may say besides the command it is for
  ShortCommands,\* the commands whose answers are one byte long
  TopRate,      \* rates are the indices 1..TopRate of the table of baud rates
  Requested,    \* the rate the caller asks for
  DefaultRate,  \* the rate of a BDI that has just started
  Repeats,      \* how often a command is sent (3)
  Attentions,   \* TRUE for attention frames as long as the answer to a reset
  Faults,       \* the kinds of fault that may happen, by their names in Fault(...)
  MaxFaults     \* bound on their number

Rates == 1..TopRate

ASSUME LinkAssumption ==
  /\ TopRate \in Nat \ {0} /\ Requested \in Rates /\ DefaultRate \in Rates
  /\ ShortCommands \subseteq Commands /\ NoCommand \notin Commands
  /\ Repeats \in Nat \ {0} /\ Attentions \subseteq BOOLEAN /\ MaxFaults \in Nat

VARIABLES
  at,         \* where the library is, see Places
  rate,       \* the baud rate of the host's port
  probe,      \* AsynResetLink: 0 for the requested rate, or an index of the table
  frameCount, \* the counter in a command frame, two bits of it are sent
  repeats,    \* how often the command has been sent
  command,    \* the command of the transaction, or the last one
  ret,        \* what the last call returned; "none" while it has not
  answer,     \* the frame a transaction took for its answer
  toBdi,      \* frames under way to the BDI
  toHost,     \* frames under way to the host
  bdiRate,    \* the baud rate of the BDI
  faults,     \* faults so far
  ran,        \* history: how often the BDI carried out the command since it was issued
  stray       \* history: whether frames came that the host was not waiting for:
              \* "never", "before", or "now" if one may be taken for the answer

port == <<at, rate, probe>>
call == <<frameCount, repeats, command, ret, answer>>
wire == <<toBdi, toHost, faults>>
linkVars == <<port, call, wire, bdiRate, ran, stray>>

Places == {"closed", "probe", "setrate", "confirm", "ready", "send", "wait"}
-----------------------------------------------------------------------------
(* Frames.  "own" is a history field: the frame belongs to the transaction *)
(* that is running.  The host cannot see it.                               *)

Link(k, r) == [kind |-> k, rate |-> r]
Command(c, n) == [kind |-> "command", cmd |-> c, count |-> n, own |-> TRUE]
Answer(c, d, o) == [kind |-> "answer", cmd |-> c, data |-> d, own |-> o]
Attention(s) == [kind |-> "attention", short |-> s]
Bad == [kind |-> "bad"]

LinkFrames == [kind : {"reset", "baud"}, rate : Rates]
CommandFrames ==
  [kind : {"command"}, cmd : Commands, count : 0..3, own : BOOLEAN]
AnswerFrames ==
  [kind : {"answer"}, cmd : Commands, data : Outcomes, own : BOOLEAN]
AttentionFrames == [kind : {"attention"}, short : BOOLEAN]
HostFrames == LinkFrames \cup AnswerFrames \cup AttentionFrames \cup {Bad}

\* AsynResetLink looks at nothing but the length of the frame it receives.
LongAsReset(f) ==
  \/ f.kind = "reset"
  \/ f.kind = "answer" /\ f.cmd \in ShortCommands
  \/ f.kind = "attention" /\ f.short
LongAsBaud(f) == f.kind = "baud"

\* What the wire carries once f was sent at rate r to a receiver at rate q.
Put(w, f, r, q) == IF r = q THEN Append(w, f) ELSE w

Disowned(w) ==
  [i \in 1..Len(w) |->
     IF w[i].kind \in {"command", "answer"} THEN [w[i] EXCEPT !.own = FALSE]
     ELSE w[i]]

Fault(kind) == kind \in Faults /\ faults < MaxFaults /\ faults' = faults + 1

Disturbed == IF stray = "now" THEN "now" ELSE "before"

\* Frames came one at a time, each when the host was waiting for it or about to
\* empty its queue.
Calm == stray = "never"

\* The host goes on.  If the BDI is not done, its answers are late.
GoesOn ==
  IF toBdi = <<>> THEN UNCHANGED <<faults, stray>>
  ELSE Fault("late") /\ stray' = Disturbed

\* The host stops waiting: nothing has come.
GivesUp == toHost = <<>> /\ GoesOn

\* No frame came, or one that does not fit.
Unanswered(fits(_)) ==
  GivesUp \/ (toHost # <<>> /\ ~fits(Head(toHost)) /\ UNCHANGED <<faults, stray>>)

LinkInit ==
  /\ at = "closed" /\ rate = 1 /\ probe = 0
  /\ frameCount = 0 /\ repeats = 0 /\ command = NoCommand /\ ret = "none"
  /\ answer = Bad /\ toBdi = <<>> /\ toHost = <<>> /\ faults = 0
  /\ bdiRate \in Rates /\ ran = 0 /\ stray = "never"
-----------------------------------------------------------------------------
(* BDI_Open.                                                               *)

\* Setting a baud rate empties the receive queue; then the frame is sent.
SendAt(r, f) ==
  /\ rate' = r /\ toHost' = <<>> /\ toBdi' = Put(toBdi, f, r, bdiRate)

Returns(place, result) == at' = place /\ ret' = result

\* AsynOpen, and the first reset at the requested rate.  What the last transaction left
\* in the receive buffer and its counters is not read again.
Open ==
  /\ at = "closed" /\ GoesOn
  /\ SendAt(Requested, Link("reset", 1)) /\ probe' = 0
  /\ at' = "probe" /\ ret' = "none"
  /\ repeats' = 0 /\ command' = NoCommand /\ ran' = 0 /\ answer' = Bad
  /\ UNCHANGED <<frameCount, bdiRate>>

OpenFails ==
  /\ at = "closed" /\ Fault("port") /\ Returns("closed", "setup")
  /\ UNCHANGED <<rate, probe, frameCount, repeats, command, answer, toBdi, toHost,
                 bdiRate, ran, stray>>

\* The channel as BDI_Open leaves it.
Connected == Returns("ready", "okay") /\ frameCount' = 0 /\ probe' = 0

\* The first attempt, at the requested rate, needs no change of the rate.
ProbeAnswered ==
  /\ at = "probe" /\ toHost # <<>> /\ LongAsReset(Head(toHost))
  /\ IF probe = 0
     THEN Connected /\ toHost' = Tail(toHost) /\ UNCHANGED toBdi
     ELSE /\ at' = "setrate" /\ UNCHANGED <<ret, frameCount, probe>>
          /\ toHost' = Tail(toHost)
          /\ toBdi' = Put(toBdi, Link("baud", Requested), rate, bdiRate)
  /\ UNCHANGED <<rate, repeats, command, answer, faults, bdiRate, ran, stray>>

\* Mutation: the last rate of the table is not tried.
MoreRatesShort == probe + 1 < TopRate

MoreRates == probe < TopRate

ProbeFails ==
  /\ at = "probe" /\ Unanswered(LongAsReset)
  /\ IF MoreRates
     THEN probe' = probe + 1 /\ SendAt(probe + 1, Link("reset", 1))
          /\ UNCHANGED <<at, ret>>
     ELSE Returns("closed", "noresponse") /\ UNCHANGED <<probe, rate, toBdi, toHost>>
  /\ UNCHANGED <<frameCount, repeats, command, answer, bdiRate, ran>>

\* The BDI confirms a rate; the host changes to it and resets once more.
RateConfirmed ==
  /\ at = "setrate" /\ toHost # <<>> /\ LongAsBaud(Head(toHost))
  /\ SendAt(Head(toHost).rate, Link("reset", 1)) /\ at' = "confirm"
  /\ UNCHANGED <<probe, call, faults, bdiRate, ran, stray>>

RateRefused ==
  /\ at = "setrate" /\ Unanswered(LongAsBaud) /\ Returns("closed", "setup")
  /\ UNCHANGED <<rate, probe, frameCount, repeats, command, answer, toBdi, toHost,
                 bdiRate, ran>>

ConfirmAnswered ==
  /\ at = "confirm" /\ toHost # <<>> /\ LongAsReset(Head(toHost))
  /\ toHost' = Tail(toHost) /\ Connected
  /\ UNCHANGED <<rate, repeats, command, answer, toBdi, faults, bdiRate, ran, stray>>

\* AsynResetLink ends without a return statement: its caller may see any value.
ConfirmFails ==
  /\ at = "confirm" /\ Unanswered(LongAsReset)
  /\ Connected \/ (Returns("closed", "noresponse") /\ UNCHANGED <<frameCount, probe>>)
  /\ UNCHANGED <<rate, repeats, command, answer, toBdi, toHost, bdiRate, ran>>

\* BDI_Close, which changes nothing when the port is closed already.
Close ==
  /\ at = "ready" /\ at' = "closed"
  /\ toBdi' = Disowned(toBdi) /\ toHost' = Disowned(toHost)
  /\ UNCHANGED <<rate, probe, call, faults, bdiRate, ran, stray>>

\* The operator stops the host program.
Abort ==
  /\ at # "closed" /\ Fault("abort") /\ Returns("closed", "none")
  /\ toBdi' = Disowned(toBdi) /\ toHost' = Disowned(toHost)
  /\ UNCHANGED <<rate, probe, frameCount, repeats, command, answer, bdiRate, ran, stray>>
-----------------------------------------------------------------------------
(* BDI_Transaction.                                                        *)

Issue(c) ==
  /\ at = "ready" /\ at' = "send" /\ command' = c /\ repeats' = 0 /\ ret' = "none"
  /\ frameCount' = (frameCount + 1) % 4
  /\ ran' = 0 /\ toBdi' = Disowned(toBdi) /\ toHost' = Disowned(toHost)
  /\ UNCHANGED <<rate, probe, answer, faults, bdiRate, stray>>

\* Mutation: the command is sent once more than the limit.
MoreRepeatsLong == repeats <= Repeats

MoreRepeats == repeats < Repeats

\* Mutation: the receive queue is not emptied.
FlushRxQueueNot == toHost' = toHost

FlushRxQueue == toHost' = <<>>

OwnCommand(f) == f.kind = "command" /\ f.own

\* The frame carries the count from before Issue.  What the host may still read
\* after the flush comes of the frames the BDI has not read yet.
SendCommand ==
  /\ at = "send" /\ MoreRepeats
  /\ FlushRxQueue /\ repeats' = repeats + 1 /\ at' = "wait"
  /\ toBdi' = Put(toBdi, Command(command, (frameCount + 3) % 4), rate, bdiRate)
  /\ stray' = IF \E i \in 1..Len(toBdi) : ~OwnCommand(toBdi[i]) THEN "now"
              ELSE IF Calm THEN "never" ELSE "before"
  /\ UNCHANGED <<rate, probe, frameCount, command, ret, answer, faults, bdiRate, ran>>

\* The port refuses the frame; the loop goes on without waiting.
SendFails ==
  /\ at = "send" /\ MoreRepeats /\ Fault("write")
  /\ FlushRxQueue /\ repeats' = repeats + 1
  /\ UNCHANGED <<at, rate, probe, frameCount, command, ret, answer, toBdi, bdiRate, ran,
                 stray>>

Exhausted ==
  /\ at = "send" /\ ~MoreRepeats /\ Returns("ready", "noresponse")
  /\ UNCHANGED <<rate, probe, frameCount, repeats, command, answer, wire, bdiRate, ran,
                 stray>>

\* Any frame whose length field fits is the answer: neither its count nor its
\* type is compared.
AnswerTaken ==
  /\ at = "wait" /\ toHost # <<>> /\ Head(toHost) # Bad
  /\ answer' = Head(toHost) /\ toHost' = Tail(toHost) /\ Returns("ready", "answer")
  /\ UNCHANGED <<rate, probe, frameCount, repeats, command, toBdi, faults, bdiRate, ran,
                 stray>>

AnswerDamaged ==
  /\ at = "wait" /\ toHost # <<>> /\ Head(toHost) = Bad
  /\ toHost' = Tail(toHost) /\ at' = "send"
  /\ UNCHANGED <<rate, probe, call, toBdi, faults, bdiRate, ran, stray>>

AnswerTimesOut ==
  /\ at = "wait" /\ GivesUp /\ at' = "send"
  /\ UNCHANGED <<rate, probe, call, toBdi, toHost, bdiRate, ran>>

HostSteps ==
  \/ ProbeAnswered \/ ProbeFails \/ RateConfirmed \/ RateRefused
  \/ ConfirmAnswered \/ ConfirmFails
  \/ SendCommand \/ Exhausted \/ AnswerTaken \/ AnswerDamaged \/ AnswerTimesOut
-----------------------------------------------------------------------------
(* The BDI and the wires.                                                  *)

BdiReads(kind) ==
  toBdi # <<>> /\ Head(toBdi).kind = kind /\ toBdi' = Tail(toBdi)

BdiResets ==
  /\ BdiReads("reset") /\ toHost' = Put(toHost, Link("reset", 1), bdiRate, rate)
  /\ UNCHANGED <<port, call, faults, bdiRate, ran, stray>>

\* It answers at the old rate; the rate it confirms may be a lower one.
BdiChangesRate ==
  /\ BdiReads("baud")
  /\ \E r \in 1..Head(toBdi).rate :
       /\ toHost' = Put(toHost, Link("baud", r), bdiRate, rate) /\ bdiRate' = r
  /\ UNCHANGED <<port, call, faults, ran, stray>>

\* It carries a command out, well or badly, and answers; r is its rate afterwards.
BdiAnswers(d, r) ==
  /\ BdiReads("command") /\ bdiRate' = r
  /\ LET f == Head(toBdi) IN
       /\ toHost' = Put(toHost, Answer(f.cmd, d, f.own), bdiRate, rate)
       /\ ran' = IF f.own THEN ran + 1 ELSE ran
  /\ UNCHANGED <<port, call, stray>>

\* It sends an attention frame and, when nobody takes it, sends it again.  What comes
\* before a transaction is dropped like what comes before the frame is sent.
BdiCallsAttention(s) ==
  /\ at \notin {"closed", "ready"} /\ bdiRate = rate /\ Fault("attention")
  /\ toHost' = Append(toHost, Attention(s))
  /\ stray' = CASE at = "wait" -> "now"
               [] at \in {"probe", "setrate", "confirm"} -> Disturbed
               [] OTHER -> stray
  /\ UNCHANGED <<port, call, toBdi, bdiRate, ran>>

\* It loses its supply and starts again.
BdiRestarts ==
  /\ Fault("power") /\ toBdi' = <<>> /\ bdiRate' = DefaultRate
  /\ UNCHANGED <<port, call, toHost, ran, stray>>

FrameLost ==
  /\ Fault("lost")
  /\ \/ toBdi # <<>> /\ toBdi' = Tail(toBdi) /\ UNCHANGED toHost
     \/ toHost # <<>> /\ toHost' = Tail(toHost) /\ UNCHANGED toBdi
  /\ UNCHANGED <<port, call, bdiRate, ran, stray>>

FrameDamaged ==
  /\ Fault("damaged") /\ toHost # <<>> /\ Head(toHost) # Bad
  /\ toHost' = <<Bad>> \o Tail(toHost)
  /\ UNCHANGED <<port, call, toBdi, bdiRate, ran, stray>>

BdiLinkSteps == BdiResets \/ BdiChangesRate
WireFaults == FrameLost \/ FrameDamaged

\* A fault that happens elsewhere, in the host program or inside the BDI.
FaultElsewhere == faults' = faults + 1 /\ faults < MaxFaults

LinkNext ==
  \/ Open \/ OpenFails \/ Close \/ Abort \/ SendFails
  \/ \E c \in Commands : Issue(c)
  \/ HostSteps \/ BdiLinkSteps \/ WireFaults \/ BdiRestarts
  \/ \E s \in Attentions : BdiCallsAttention(s)
  \/ \E d \in Outcomes, r \in Rates :
       BdiAnswers(d, r) /\ (UNCHANGED faults \/ FaultElsewhere)
  \/ FaultElsewhere /\ UNCHANGED <<port, call, toBdi, toHost, bdiRate, ran, stray>>

LinkSpec == LinkInit /\ [][LinkNext]_linkVars
-----------------------------------------------------------------------------
LinkTypeOK ==
  /\ at \in Places /\ rate \in Rates /\ probe \in 0..TopRate
  /\ frameCount \in 0..3 /\ repeats \in 0..Repeats
  /\ command \in Commands \cup {NoCommand}
  /\ ret \in {"none", "okay", "setup", "noresponse", "answer"}
  /\ answer \in HostFrames
  /\ toBdi \in Seq(LinkFrames \cup CommandFrames) /\ toHost \in Seq(HostFrames)
  /\ bdiRate \in Rates /\ faults \in 0..MaxFaults /\ ran \in Nat
  /\ stray \in {"never", "before", "now"}

\* The BDI carries a command out at most as often as it was sent, however late, and
\* a transaction that returns an answer (bdidll.c:781) returns the one to the command
\* it was given, which has been carried out.  Late answers and attention frames that
\* arrive before the queue is emptied (bdidll.c:762) do no harm.  Only when a frame
\* arrives after that which is no answer to this command, it may be what is returned:
\* neither its type nor its count is compared.
AnswersOwnCommand ==
  /\ ran <= repeats
  /\ ret = "answer" /\ stray # "now" =>
       answer.kind = "answer" /\ answer.own /\ answer.cmd = command /\ ran > 0

\* "0 if okay or a negativ number if error" (bdidll.c:660): BDI_Open returns 0
\* only when the BDI has just answered a reset at the rate the host goes on with.
OpenIsAnswered ==
  [][at # "ready" /\ at' = "ready" /\ ret' = "okay" =>
       toHost # <<>> /\ LongAsReset(Head(toHost))]_linkVars

\* What has become of the last command.
Progress ==
  CASE at \in {"send", "wait"} -> "busy"
    [] at = "ready" /\ ret = "answer" -> "answered"
    [] at = "ready" /\ ret = "noresponse" -> "failed"
    [] OTHER -> "none"

\* The link keeps the promise of a transaction.
Promise ==
  INSTANCE BdiCommand WITH asked <- command, ran <- ran, state <- Progress,
                           clear <- stray # "now"
KeepsPromise == Promise!Spec
=============================================================================
