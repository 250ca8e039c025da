-------------------------- MODULE BdiSetupProofs --------------------------
(***************************************************************************)
(* Proofs about the setup program, for every firmware file and fuse map.   *)
(* It uses the link as it is meant to be used: every step of the program,  *)
(* the BDI and the accidents is a step of BdiLink, so that the theorems    *)
(* about the link hold for the program's transactions, late answers and    *)
(* attention frames included.  On a calm link a whole trigger stands for   *)
(* all of the firmware that is sent, wherever an update is interrupted,    *)
(* and half a trigger does not go unreported; what an update or a          *)
(* configuration that is reported as passed leaves behind is all there;    *)
(* and new firmware is not made startable beside old logic.                *)
(***************************************************************************)
EXTENDS BdiScriptProofs, BdiLinkProofs

\* The link carries the loader's commands and their answers.
LEMMA Loaded == Commands = AllCommands /\ Outcomes = AllOutcomes
BY SetupAssumption

Scripted == todo \in Seq(AllCommands)

LEMMA PlainCommands ==
  Cmd("start", {}) \in AllCommands /\ Cmd("version", {}) \in AllCommands
BY DEF Cmd, AllCommands, Ops

LEMMA LastTaken == Scripted /\ todo # <<>> => Head(todo) \in AllCommands
BY HeadTailProperties DEF Scripted

\* The program issues commands, opens and closes the link.
LEMMA ProgramUsesLink ==
  ASSUME Scripted, Program
  PROVE  [LinkNext]_linkVars
<1>1. CASE Begin \/ ConnectFails \/ VersionRead \/ StepPasses \/ StepFails
  BY <1>1 DEF Begin, ConnectFails, VersionRead, StepPasses, StepFails
<1>2. CASE TryOpen \/ Reopen
  BY <1>2 DEF TryOpen, Reopen, LinkNext
<1>3. CASE LoaderStarts \/ LoaderFails \/ Finish
  BY <1>3 DEF LoaderStarts, LoaderFails, Finish, LinkNext
<1>4. CASE StartLoader \/ ReadVersion \/ IssueStep
  <2>1. \E c \in Commands : Issue(c)
    BY <1>4, Loaded, PlainCommands, LastTaken DEF StartLoader, ReadVersion, IssueStep
  <2>2. QED
    BY <2>1 DEF LinkNext
<1>5. QED
  BY <1>1, <1>2, <1>3, <1>4 DEF Program

LEMMA CodesSaid ==
  /\ \A code \in {"ok", "failed", "unknown"} : Data(code, <<>>) \in AllOutcomes
  /\ \A c \in Content : Data("ok", <<c>>) \in AllOutcomes
  /\ \A c, d \in Content : Data("ok", <<c, d>>) \in AllOutcomes
BY DEF Data, AllOutcomes

\* An answer of the BDI is one the link may carry.
LEMMA AnswerUsesLink ==
  ASSUME NEW d \in AllOutcomes, NEW r \in Rates, BdiAnswers(d, r),
         UNCHANGED faults \/ FaultElsewhere
  PROVE  LinkNext
BY Loaded DEF LinkNext

LEMMA FaultOf == \A kind : Fault(kind) => FaultElsewhere
BY DEF Fault, FaultElsewhere

\* What the BDI stores is content.
Stored == store \in [Cells -> Content]

LEMMA ContentKnown ==
  /\ \A cells : ContentOf(cells) \in Content
  /\ \A c \in Content : Written(c) \in Content
  /\ Stored => store[Trigger] \in Content /\ store[Ues] \in Content
BY DEF ContentOf, Content, Written, Stored, Cells

LEMMA SaysUsesLink ==
  ASSUME bdiRate \in Rates, NEW code \in {"ok", "failed", "unknown"},
         NEW what, Data(code, what) \in AllOutcomes, Says(code, what)
  PROVE  LinkNext
BY AnswerUsesLink DEF Says

\* So does the BDI, with an answer for every command.
LEMMA BdiUsesLink ==
  ASSUME Stored, bdiRate \in Rates, Bdi
  PROVE  [LinkNext]_linkVars
<1>1. CASE BdiLinkSteps
  BY <1>1 DEF LinkNext
<1>2. CASE BdiStartsLoader
  <2>1. CASE InLoader
    BY <1>2, <2>1, CodesSaid, SaysUsesLink DEF BdiStartsLoader
  <2>2. CASE ~InLoader
    BY <1>2, <2>2, CodesSaid, AnswerUsesLink, LinkAssumption DEF BdiStartsLoader
  <2>3. QED
    BY <2>1, <2>2
<1>3. CASE BdiKnowsNot
  BY <1>3, CodesSaid, SaysUsesLink DEF BdiKnowsNot
<1>4. CASE BdiTellsVersion
  BY <1>4, CodesSaid, ContentKnown, SaysUsesLink DEF BdiTellsVersion
<1>5. CASE BdiErases
  BY <1>5, CodesSaid, SaysUsesLink DEF BdiErases
<1>6. CASE BdiPrograms
  <2>1. PICK code \in {"ok", "failed"} : Says(code, <<>>)
    BY <1>6 DEF BdiPrograms
  <2>2. QED
    BY <2>1, CodesSaid, SaysUsesLink
<1>7. CASE BdiReadsBack
  <2>1. PICK c \in Content : Says("ok", <<c>>)
    BY <1>7, ContentKnown DEF BdiReadsBack, Content
  <2>2. QED
    BY <2>1, CodesSaid, SaysUsesLink
<1>8. CASE BdiIsp
  BY <1>8, CodesSaid, SaysUsesLink DEF BdiIsp
<1>9. CASE BdiExits
  BY <1>9, CodesSaid, AnswerUsesLink, LinkAssumption DEF BdiExits
<1>10. QED
  BY <1>1, <1>2, <1>3, <1>4, <1>5, <1>6, <1>7, <1>8, <1>9 DEF Bdi

\* And the accidents are faults of the link or elsewhere.
LEMMA AccidentsUseLink ==
  ASSUME bdiRate \in Rates, Accidents
  PROVE  [LinkNext]_linkVars
<1>1. CASE \/ WireFaults \/ SendFails \/ Stopped \/ PowerCycle
           \/ \E s \in Attentions : BdiCallsAttention(s)
  BY <1>1 DEF LinkNext, Stopped, PowerCycle
<1>2. CASE NoFiles \/ FileBad \/ FuseMapBad
  BY <1>2, FaultOf DEF NoFiles, FileBad, FuseMapBad, LinkNext
<1>3. CASE FlashFails
  BY <1>3, FaultOf, CodesSaid, AnswerUsesLink DEF FlashFails
<1>4. CASE RowFails
  BY <1>4, FaultOf, CodesSaid, AnswerUsesLink DEF RowFails
<1>5. QED
  BY <1>1, <1>2, <1>3, <1>4 DEF Accidents

LEMMA WritesContent ==
  ASSUME Stored, NEW good \in [Cells -> Content], BdiWrites(good)
  PROVE  Stored'
BY DEF Stored, BdiWrites

LEMMA StoredStays ==
  ASSUME Stored, [Next]_vars
  PROVE  Stored'
<1>1. CASE BdiErases \/ FlashFails \/ RowFails
  <2>1. /\ [c \in Cells |-> "erased"] \in [Cells -> Content]
        /\ [c \in Cells |-> "mixed"] \in [Cells -> Content]
    BY DEF Content
  <2>2. BdiWrites([c \in Cells |-> "erased"]) \/ BdiWrites([c \in Cells |-> "mixed"])
    BY <1>1 DEF BdiErases, FlashFails, RowFails
  <2>3. QED
    BY <2>1, <2>2, WritesContent
<1>2. [c \in Cells |-> Written(store[c])] \in [Cells -> Content]
  BY ContentKnown DEF Stored
<1>3. CASE BdiPrograms
  BY <1>2, <1>3, WritesContent DEF BdiPrograms
<1>4. CASE BdiIsp
  <2>1. CASE UNCHANGED store
    BY <2>1 DEF Stored
  <2>2. CASE BdiWrites([c \in Cells |-> IF isp THEN "erased" ELSE store[c]])
    <3>1. [c \in Cells |-> IF isp THEN "erased" ELSE store[c]] \in [Cells -> Content]
      BY DEF Stored, Content
    <3>2. QED
      BY <2>2, <3>1, WritesContent
  <2>3. CASE BdiWrites([c \in Cells |-> IF isp THEN Written(store[c]) ELSE store[c]])
    <3>1. [c \in Cells |-> IF isp THEN Written(store[c]) ELSE store[c]] \in [Cells -> Content]
      BY ContentKnown DEF Stored
    <3>2. QED
      BY <2>3, <3>1, WritesContent
  <2>4. QED
    BY <1>4, <2>1, <2>2, <2>3 DEF BdiIsp, bdi
<1>5. CASE Program \/ Library \/ Stopped \/ NoFiles \/ FileBad \/ FuseMapBad \/ PowerCycle
         \/ UNCHANGED vars
  <2>1. UNCHANGED store
    BY <1>5 DEF Program, Library, Stopped, NoFiles, FileBad, FuseMapBad, PowerCycle, vars, bdi,
       Begin, TryOpen, ConnectFails, StartLoader, LoaderStarts, Reopen, ReadVersion,
       LoaderFails, VersionRead, IssueStep, StepPasses, StepFails, Finish
  <2>2. QED
    BY <2>1 DEF Stored
<1>6. CASE UNCHANGED <<prog, bdi>>
  BY <1>6 DEF bdi, Stored
<1>7. CASE BdiStartsLoader \/ BdiKnowsNot \/ BdiTellsVersion \/ BdiReadsBack \/ BdiExits
  <2>1. UNCHANGED store
    BY <1>7 DEF BdiStartsLoader, BdiKnowsNot, BdiTellsVersion, BdiReadsBack, BdiExits, bdi
  <2>2. QED
    BY <2>1 DEF Stored
<1>8. QED
  BY <1>1, <1>3, <1>4, <1>5, <1>6, <1>7 DEF Next, Bdi, Accidents

\* The type of the BDI that is connected stays what it is.
LEMMA TypeKept == [Next]_vars => type' = type
<1>1. CASE Program \/ Library \/ UNCHANGED vars
  BY <1>1 DEF Program, Library, vars, bdi, Begin, TryOpen, ConnectFails, StartLoader,
     LoaderStarts, Reopen, ReadVersion, LoaderFails, VersionRead, IssueStep, StepPasses,
     StepFails, Finish
<1>2. CASE Bdi
  BY <1>2 DEF Bdi, bdi, BdiStartsLoader, BdiKnowsNot, BdiTellsVersion, BdiErases,
     BdiPrograms, BdiReadsBack, BdiIsp, BdiExits, BdiWrites
<1>3. CASE Accidents
  BY <1>3 DEF Accidents, bdi, NoFiles, FileBad, FuseMapBad, Stopped, FlashFails, RowFails,
     PowerCycle, BdiWrites
<1>4. QED
  BY <1>1, <1>2, <1>3 DEF Next

LEMMA SetupStepUsesLink ==
  ASSUME Scripted, Stored, Types, [Next]_vars
  PROVE  [LinkNext]_linkVars
<1>1. bdiRate \in Rates
  BY DEF Types, LinkTypeOK
<1>2. CASE Library
  BY <1>2 DEF Library, LinkNext
<1>3. CASE UNCHANGED vars
  BY <1>3 DEF vars
<1>4. QED
  BY <1>1, <1>2, <1>3, ProgramUsesLink, BdiUsesLink, AccidentsUseLink DEF Next

-----------------------------------------------------------------------------
(* Types.                                                                  *)

ProgTypes ==
  /\ stage \in Stages /\ task \in Tasks \cup {"none"}
  /\ tries \in 0..3 /\ Scripted
  /\ result \in {"none", "okay", "error"} /\ current \in BOOLEAN /\ cut \in BOOLEAN
  /\ type \in BdiTypes /\ mode \in {"loader", "firmware"} /\ isp \in BOOLEAN /\ Stored
  /\ stage = "check" => todo # <<>>
  /\ IF stage = "idle" THEN at = "closed" ELSE task \in Tasks

LEMMA RemainingType == Scripted /\ todo # <<>> => Remaining(todo) \in Seq(AllCommands)
<1>1. IspDisable \in AllCommands
  BY HarmlessCommands, VitalCommands
<1>2. <<IspDisable>> \in Seq(AllCommands) /\ <<>> \in Seq(AllCommands)
  BY <1>1
<1>3. Scripted /\ todo # <<>> => Tail(todo) \in Seq(AllCommands)
  BY HeadTailProperties DEF Scripted
<1>4. QED
  BY <1>2, <1>3 DEF Remaining

LEMMA ProgramTypes ==
  ASSUME ProgTypes, Program
  PROVE  ProgTypes'
<1>1. UNCHANGED <<type, mode, isp, store>>
  BY DEF Program, bdi, Begin, TryOpen, ConnectFails, StartLoader, LoaderStarts, Reopen,
     ReadVersion, LoaderFails, VersionRead, IssueStep, StepPasses, StepFails, Finish
<1>2. Stored'
  BY <1>1 DEF ProgTypes, Stored
<1> USE DEF Stages
<1>3. CASE Begin
  <2>1. todo' = <<>> /\ <<>> \in Seq(AllCommands)
    BY <1>3 DEF Begin
  <2>2. Scripted'
    BY <2>1 DEF Scripted
  <2>3. QED
    BY <1>1, <1>2, <1>3, <2>2 DEF Begin, ProgTypes, hist
<1>4. CASE TryOpen
  BY <1>1, <1>2, <1>4 DEF TryOpen, ProgTypes, hist, Scripted
<1>5. CASE ConnectFails \/ LoaderFails \/ Finish
  BY <1>1, <1>2, <1>5 DEF ConnectFails, LoaderFails, Finish, Ends, ProgTypes, hist, Scripted
<1>6. CASE StartLoader \/ LoaderStarts \/ ReadVersion \/ IssueStep
  BY <1>1, <1>2, <1>6
  DEF StartLoader, LoaderStarts, ReadVersion, IssueStep, Goes, ProgTypes, hist, Scripted
<1>7. CASE Reopen
  BY <1>1, <1>2, <1>7 DEF Reopen, prog, ProgTypes, hist, Scripted
<1>8. CASE VersionRead
  <2>1. task \in Tasks
    BY <1>8 DEF VersionRead, ProgTypes
  <2>2. Scripted'
    BY <1>8, <2>1, ScriptFits DEF VersionRead, Sound, Scripted
  <2>3. QED
    BY <1>1, <1>2, <1>8, <2>2 DEF VersionRead, ProgTypes
<1>9. CASE StepPasses \/ StepFails
  <2>1. todo # <<>>
    BY <1>9 DEF StepPasses, StepFails, ProgTypes
  <2>2. todo' = Tail(todo) \/ todo' = Remaining(todo)
    BY <1>9 DEF StepPasses, StepFails
  <2>3. Scripted'
    BY <2>1, <2>2, RemainingType, HeadTailProperties DEF ProgTypes, Scripted
  <2>4. QED
    BY <1>1, <1>2, <1>9, <2>3 DEF StepPasses, StepFails, ProgTypes, hist
<1>10. QED
  BY <1>3, <1>4, <1>5, <1>6, <1>7, <1>8, <1>9 DEF Program

LEMMA ProgStays ==
  ASSUME ProgTypes, UNCHANGED prog, at = "closed" => at' = "closed", type' = type, mode' \in {"loader", "firmware"},
         isp' \in BOOLEAN, Stored'
  PROVE  ProgTypes'
BY DEF ProgTypes, prog, hist, Scripted

LEMMA ClosedStays ==
  at = "closed" /\ (Library \/ Bdi \/ WireFaults \/ SendFails \/ FlashFails \/ RowFails \/ PowerCycle)
    => at' = "closed"
<1> SUFFICES ASSUME at = "closed",
                    Library \/ Bdi \/ WireFaults \/ SendFails \/ FlashFails \/ RowFails \/ PowerCycle
             PROVE  at' = at
  OBVIOUS
<1>1. CASE Library
  BY <1>1 DEF Library, HostSteps, ProbeAnswered, ProbeFails, RateConfirmed, RateRefused,
              ConfirmAnswered, ConfirmFails, SendCommand, Exhausted, AnswerTaken, AnswerDamaged,
              AnswerTimesOut
<1>2. CASE Bdi
  BY <1>2 DEF Bdi, BdiLinkSteps, BdiResets, BdiChangesRate, BdiStartsLoader, BdiKnowsNot,
              BdiTellsVersion, BdiErases, BdiPrograms, BdiReadsBack, BdiIsp, BdiExits,
              Says, BdiAnswers, port
<1>3. CASE WireFaults \/ SendFails \/ FlashFails \/ RowFails \/ PowerCycle
  BY <1>3 DEF WireFaults, FrameLost, FrameDamaged, SendFails, FlashFails, RowFails, PowerCycle,
              BdiRestarts, BdiAnswers, port
<1>4. QED
  BY <1>1, <1>2, <1>3

LEMMA OutsideTypesStay ==
  ASSUME ProgTypes, Library \/ Bdi
  PROVE  ProgTypes'
<1>1. Stored' /\ (at = "closed" => at' = "closed")
  BY StoredStays, ClosedStays DEF ProgTypes, Next
<1>2. CASE UNCHANGED <<prog, bdi>>
  BY <1>1, <1>2, ProgStays DEF ProgTypes, bdi
<1>3. CASE BdiStartsLoader
  BY <1>1, <1>3, ProgStays DEF BdiStartsLoader, ProgTypes
<1>4. CASE BdiErases \/ BdiPrograms
  BY <1>1, <1>4, ProgStays DEF BdiErases, BdiPrograms, BdiWrites, ProgTypes
<1>5. CASE BdiIsp
  <2>1. isp' \in BOOLEAN
    BY <1>5 DEF BdiIsp, BdiWrites, bdi, ProgTypes, AnswersTo
  <2>2. UNCHANGED <<prog, type, mode>>
    BY <1>5 DEF BdiIsp, BdiWrites, bdi
  <2>3. QED
    BY <1>1, <2>1, <2>2, ProgStays DEF ProgTypes
<1>6. CASE BdiExits
  BY <1>1, <1>6, ProgStays DEF BdiExits, Boots
<1>7. QED
  BY <1>2, <1>3, <1>4, <1>5, <1>6
  DEF Library, Bdi, BdiKnowsNot, BdiTellsVersion, BdiReadsBack

LEMMA AccidentTypes ==
  ASSUME ProgTypes, Accidents
  PROVE  ProgTypes'
<1>1. Stored'
  BY StoredStays DEF ProgTypes, Next
<1> USE DEF Stages
<1>2. CASE /\ WireFaults \/ SendFails \/ \E s \in Attentions : BdiCallsAttention(s)
           /\ UNCHANGED <<prog, bdi>>
  <2>1. at = "closed" => at' = "closed"
    BY <1>2, ClosedStays DEF BdiCallsAttention
  <2>2. QED
    BY <1>1, <1>2, <2>1, ProgStays DEF ProgTypes, bdi
<1>3. CASE FlashFails \/ RowFails
  BY <1>1, <1>3, ProgStays, ClosedStays DEF FlashFails, RowFails, BdiWrites, ProgTypes
<1>4. CASE NoFiles \/ FileBad \/ FuseMapBad \/ Stopped
  <2>1. IspDisable \in AllCommands
    BY HarmlessCommands, VitalCommands
  <2>2. todo' \in {<<>>, <<IspDisable>>}
    BY <1>4 DEF NoFiles, FileBad, FuseMapBad, Stopped
  <2>3. Scripted'
    <3>1. <<IspDisable>> \in Seq(AllCommands) /\ <<>> \in Seq(AllCommands)
      BY <2>1
    <3>2. QED
      BY <2>2, <3>1 DEF Scripted
  <2>4. /\ stage' \in {"work", "over"} /\ task' = task /\ tries' = tries /\ result' = "error"
        /\ UNCHANGED <<current, cut, bdi>>
    BY <1>4 DEF NoFiles, FileBad, FuseMapBad, Stopped, hist
  <2>5. task \in Tasks
    <3>1. CASE Stopped
      BY <3>1 DEF Stopped, Abort, ProgTypes
    <3>2. CASE NoFiles \/ FileBad \/ FuseMapBad
      BY <3>2 DEF NoFiles, FileBad, FuseMapBad, ProgTypes
    <3>3. QED
      BY <1>4, <3>1, <3>2
  <2>6. QED
    BY <1>1, <2>3, <2>4, <2>5 DEF ProgTypes, bdi
<1>5. CASE PowerCycle
  BY <1>1, <1>5, ClosedStays DEF PowerCycle, Boots, ProgTypes, Scripted
<1>6. QED
  BY <1>2, <1>3, <1>4, <1>5 DEF Accidents

LEMMA SetupStep ==
  ASSUME ProgTypes, Types, [Next]_vars
  PROVE  ProgTypes' /\ Types' /\ [LinkNext]_linkVars
<1>1. [LinkNext]_linkVars
  BY SetupStepUsesLink DEF ProgTypes
<1>2. Types'
  BY <1>1, StepTypes
<1>3. CASE UNCHANGED vars
  BY <1>1, <1>2, <1>3 DEF vars, linkVars, port, prog, hist, bdi, ProgTypes, Scripted, Stored
<1>4. CASE Next
  BY <1>1, <1>2, <1>4, ProgramTypes, OutsideTypesStay, AccidentTypes DEF Next
<1>5. QED
  BY <1>1, <1>2, <1>3, <1>4

LEMMA SetupInit == Init => ProgTypes /\ Types /\ LinkInit
<1> SUFFICES ASSUME Init PROVE ProgTypes /\ Types
  BY DEF Init
<1>1. Types
  BY InitialTypes DEF Init
<1>2. Stored
  BY SetupAssumption DEF Init, Stored, Content
<1>3. Scripted
  BY DEF Init, Scripted
<1>4. /\ stage = "idle" /\ task = "none" /\ tries = 0 /\ result = "none" /\ at = "closed"
      /\ type \in BdiTypes /\ mode \in {"loader", "firmware"}
  BY DEF Init, LinkInit
<1>5. current \in BOOLEAN /\ cut \in BOOLEAN /\ isp \in BOOLEAN
  BY DEF Init
<1>6. QED
  BY <1>1, <1>2, <1>3, <1>4, <1>5 DEF ProgTypes, Stages
-----------------------------------------------------------------------------
\* The setup program's transactions are transactions of the link.
THEOREM SetupUsesLink == Spec => LinkSpec
<1> DEFINE J == ProgTypes /\ Types
<1>1. Init => LinkInit /\ J
  BY SetupInit
<1>2. J /\ [Next]_vars => J' /\ [LinkNext]_linkVars
  BY SetupStep
<1>3. QED
  BY <1>1, <1>2, PTL DEF Spec, LinkSpec

\* Type correctness of the program and the BDI.
THEOREM SetupTypeCorrect == Spec => []TypeOK
<1> DEFINE J == ProgTypes /\ Types
<1>1. Init => J
  BY SetupInit
<1>2. J /\ [Next]_vars => J'
  BY SetupStep
<1>3. J => TypeOK
  BY DEF ProgTypes, Types, TypeOK, Scripted, Stored
<1>4. QED
  BY <1>1, <1>2, <1>3, PTL DEF Spec

\* While no stray frame can reach a transaction, the answer the program acts on is the
\* answer to the command it has just given, whatever else has come late or unasked.
THEOREM SetupAnswersOwn == Spec => []AnswersOwnCommand
BY SetupUsesLink, AnswersOwn, PTL

\* And its transactions keep the promise of BdiCommand.
THEOREM SetupKeepsPromise == Spec => KeepsPromise
BY SetupUsesLink, Implements, PTL
-----------------------------------------------------------------------------
(* A firmware that can be started is complete.                             *)

\* No version can be started.
Down == store[Trigger] \notin {"old", "new"}

\* What a byte of the firmware holds when it is complete.
Final(b) == IF b \in Reached THEN "new" ELSE "erased"

\* What TriggerMeansComplete says of a calm link.
TriggerFits ==
  /\ store[Trigger] = "old" => \A c \in Image : store[c] = "old"
  /\ store[Trigger] = "new" => \A c \in Image : store[c] = Final(c)

LEMMA FinalStays == type' = type => Reached' = Reached /\ \A b : Final(b)' = Final(b)
BY DEF Reached, Final

\* A command that is harmless whenever it is carried out: bytes change while no version
\* can be started, and the trigger is programmed when all bytes are complete.
Safe(c) ==
  /\ Proper(c)
  /\ Touches(c) /\ Rank(c) \in {2, 3} => Down
  /\ Touches(c) /\ Rank(c) = 4 => \A b \in Image : store[b] = Final(b)

\* An answer that is "ok" is right about what is stored.
Right(f, stored) ==
  f.kind = "answer" /\ f.data.code = "ok" =>
    /\ f.cmd.op = "erase" => \A c \in f.cmd.cells : stored[c] = "erased"
    /\ f.cmd.op = "program" => \A c \in f.cmd.cells : stored[c] = "new"

Underway ==
  /\ toBdi # <<>> /\ Head(toBdi).kind = "command" => Safe(Head(toBdi).cmd)
  /\ at \notin Deaf /\ toHost # <<>> => Right(Head(toHost), store)
  /\ ret = "answer" => Right(answer, store)

\* Which command is given at which stage.
StageFits ==
  /\ at \in {"send", "wait"} => stage \in {"start", "version", "check"}
  /\ stage \in {"start", "version"} => command \in Harmless
  /\ stage = "work" => at = "ready"
  /\ stage = "check" => at \in {"ready", "send", "wait"} /\ command = Head(todo)

\* The rest of a script, with what is stored: a byte it touches is not startable or will
\* first be made so; and before the trigger is programmed, what is sent of the firmware is
\* new or will be programmed, and what is not sent is erased or will be.
RestFits ==
  stage \in {"work", "check"} =>
    /\ Sound(todo)
    /\ Has(todo, 2) \/ Has(todo, 3) => Down \/ Has(todo, 1)
    /\ Has(todo, 4) =>
         \A b \in Image :
           IF b \in Reached
           THEN ProgramsByte(todo, b) \/ (store[b] = "new" /\ ~Erases(todo, b))
           ELSE Erases(todo, b) \/ store[b] = "erased"
    /\ \A b \in Image : b \notin Reached => ~ProgramsByte(todo, b)
    /\ task = "startup" => ToSet(todo) \subseteq Harmless

SafeInv ==
  /\ Calm /\ Inv /\ ProgTypes /\ StageFits /\ RestFits /\ Underway /\ TriggerFits

LEMMA SafeTypes ==
  SafeInv => Types /\ OneFrame /\ (at \notin {"closed", "ready"} => ret = "none")
BY DEF SafeInv, Inv, OwnInv, AtWork

LEMMA RankIs == \A c : Rank(c) \in 1..4
BY DEF Rank

\* The command the program gives next is safe.
LEMMA NextIsSafe ==
  ASSUME ProgTypes, RestFits, stage = "check"
  PROVE  Safe(Head(todo)) /\ Head(todo) \in AllCommands
<1> DEFINE c == Head(todo)
<1>1. todo \in Seq(AllCommands) /\ todo # <<>> /\ Sound(todo)
  BY DEF ProgTypes, Scripted, RestFits
<1>2. /\ c \in AllCommands /\ ToSet(todo) = {c} \cup ToSet(Tail(todo))
      /\ \A d \in ToSet(Tail(todo)) : Precedes(c, d)
  BY <1>1, TailOf, Zenon DEF Sound
<1> HIDE DEF c
<1>3. Proper(c)
  BY <1>1, <1>2 DEF Sound
<1>4. ASSUME Touches(c) PROVE \A d \in ToSet(todo) : Touches(d) => Rank(c) <= Rank(d)
  <2>1. Rank(c) <= Rank(c)
    BY RankIs
  <2>2. QED
    BY <1>2, <1>4, <2>1 DEF Precedes
<1>5. ASSUME Touches(c), Rank(c) \in {2, 3} PROVE Down
  <2>1. Has(todo, 2) \/ Has(todo, 3)
    BY <1>2, <1>5 DEF Has
  <2>2. ~Has(todo, 1)
    BY <1>4, <1>5 DEF Has
  <2>3. QED
    BY <2>1, <2>2 DEF RestFits
<1>6. ASSUME Touches(c), Rank(c) = 4, NEW b \in Image PROVE store[b] = Final(b)
  <2>1. Has(todo, 4)
    BY <1>2, <1>6 DEF Has
  <2>2. ASSUME NEW d \in ToSet(todo), d.op = "program", b \in d.cells PROVE FALSE
    <3>1. Touches(d)
      BY <2>2 DEF Touches, Vital
    <3>2. Rank(d) = 4 /\ Proper(d)
      BY <1>1, <1>4, <1>6, <2>2, <3>1, RankIs DEF Sound
    <3>3. Trigger \in d.cells
      BY <2>2, <3>2 DEF Rank
    <3>4. d.cells = {Trigger}
      BY <2>2, <3>1, <3>2, <3>3 DEF Proper
    <3>5. QED
      BY <2>2, <3>4, ImageCells
  <2>3. ~ProgramsByte(todo, b)
    BY <2>2 DEF ProgramsByte
  <2>4. ~Erases(todo, b)
    <3>1. SUFFICES ASSUME NEW d \in ToSet(todo), d.op = "erase", b \in d.cells PROVE FALSE
      BY DEF Erases
    <3>2. Touches(d) /\ Rank(d) \in {1, 2}
      BY <3>1 DEF Touches, Vital, Rank
    <3>3. QED
      BY <1>4, <1>6, <3>2
  <2>5. QED
    BY <2>1, <2>3, <2>4 DEF RestFits, Final
<1>7. QED
  BY <1>2, <1>3, <1>5, <1>6 DEF Safe, c

\* What carrying a command out does to the bytes and the trigger.
CarriesOut(c, good) ==
  /\ store' = [x \in Cells |-> IF x \in c.cells THEN good[x] ELSE store[x]]
  /\ c.op = "erase" => \A x \in Cells : good[x] \in {"erased", "mixed"}
  /\ c.op = "program" => \A x \in Cells : good[x] \in {"new", "mixed"}

LEMMA CarriedOut ==
  ASSUME NEW c \in AllCommands, NEW good, CarriesOut(c, good), Safe(c), Stored,
         c.op \in {"erase", "program", "wipe", "line", "ues"}, TriggerFits, type' = type
  PROVE  /\ TriggerFits'
         /\ Touches(c) /\ Rank(c) = 1 => Down'
         /\ ~Touches(c) \/ Rank(c) \in {2, 3} => store'[Trigger] = store[Trigger]
         /\ \A b \in Image : b \notin c.cells => store'[b] = store[b]
<1>1. Trigger \in Cells /\ \A b \in Image : b \in Cells
  BY DEF Cells
<1>2. \A x \in Cells : store'[x] = IF x \in c.cells THEN good[x] ELSE store[x]
  BY DEF CarriesOut
<1>3. \A b \in Image : b \notin c.cells => store'[b] = store[b]
  BY <1>1, <1>2
<1>4. Trigger \notin c.cells => store'[Trigger] = store[Trigger]
  BY <1>1, <1>2
<1>5. CASE ~Touches(c)
  <2>1. Trigger \notin c.cells /\ \A b \in Image : b \notin c.cells
    BY <1>5 DEF Touches, Vital
  <2>2. QED
    BY <1>3, <1>4, <1>5, <2>1, FinalStays DEF TriggerFits
<1>6. CASE Touches(c) /\ Rank(c) = 1
  <2>1. c.op = "erase" /\ Trigger \in c.cells
    BY <1>6 DEF Rank
  <2>2. store'[Trigger] \in {"erased", "mixed"}
    BY <1>1, <1>2, <2>1 DEF CarriesOut
  <2>3. Down'
    BY <2>2 DEF Down
  <2>4. QED
    BY <1>3, <1>6, <2>2, <2>3 DEF TriggerFits
<1>7. CASE Touches(c) /\ Rank(c) \in {2, 3}
  <2>1. Trigger \notin c.cells
    BY <1>7 DEF Rank
  <2>2. store'[Trigger] = store[Trigger] /\ Down
    BY <1>4, <1>7, <2>1 DEF Safe
  <2>3. QED
    BY <1>3, <1>7, <2>2 DEF TriggerFits, Down
<1>8. CASE Touches(c) /\ Rank(c) = 4
  <2>1. c.op # "erase" /\ Trigger \in c.cells
    BY <1>8 DEF Rank
  <2>2. c.op = "program" /\ c.cells = {Trigger}
    BY <1>8, <2>1 DEF Safe, Proper
  <2>3. store'[Trigger] \in {"new", "mixed"}
    BY <1>1, <1>2, <2>2 DEF CarriesOut
  <2>4. \A b \in Image : store'[b] = Final(b)
    BY <1>3, <1>8, <2>2, ImageCells DEF Safe
  <2>5. QED
    BY <1>3, <1>8, <2>3, <2>4, FinalStays DEF TriggerFits
<1>9. QED
  BY <1>5, <1>6, <1>7, <1>8, RankIs

\* The rest of the script stays right when the command that heads it is carried out.
LEMMA RestStays ==
  ASSUME SafeInv, NEW good, CarriesOut(Head(todo), good), stage = "check",
         Head(todo).op \in {"erase", "program", "wipe", "line", "ues"},
         UNCHANGED <<stage, todo, task, type>>
  PROVE  RestFits'
<1> DEFINE c == Head(todo)
<1>1. /\ todo \in Seq(AllCommands) /\ todo # <<>> /\ Sound(todo) /\ Stored
      /\ TriggerFits
  BY DEF SafeInv, ProgTypes, Scripted, RestFits
<1>2. /\ c \in AllCommands /\ ToSet(todo) = {c} \cup ToSet(Tail(todo))
      /\ \A d \in ToSet(Tail(todo)) : Precedes(c, d)
  BY <1>1, TailOf, Zenon DEF Sound
<1>3. Safe(c)
  BY NextIsSafe DEF SafeInv
<1> HIDE DEF c
<1>4. /\ Touches(c) /\ Rank(c) = 1 => Down'
      /\ ~Touches(c) \/ Rank(c) \in {2, 3} => store'[Trigger] = store[Trigger]
      /\ \A b \in Image : b \notin c.cells => store'[b] = store[b]
  BY <1>1, <1>2, <1>3, CarriedOut DEF c
<1>5. ASSUME Has(todo, 2) \/ Has(todo, 3) PROVE Down' \/ Has(todo, 1)
  <2>1. Down \/ Has(todo, 1)
    BY <1>5 DEF SafeInv, RestFits
  <2>2. ~(Touches(c) /\ Rank(c) = 4)
    BY <1>2, <1>5 DEF Has, Precedes
  <2>3. Rank(c) \in 1..4
    BY RankIs
  <2>4. QED
    BY <1>4, <2>1, <2>2, <2>3 DEF Down
<1>6. ASSUME NEW b \in Image, ~ProgramsByte(todo, b), ~Erases(todo, b)
      PROVE  store'[b] = store[b]
  <2>1. b \notin c.cells \/ ~Touches(c)
    BY <1>2, <1>3, <1>6 DEF Safe, Proper, Erases, ProgramsByte
  <2>2. ~Touches(c) => b \notin c.cells
    BY DEF Touches, Vital, c
  <2>3. QED
    BY <1>4, <2>1, <2>2
<1>7. Reached' = Reached
  BY FinalStays
<1>8. QED
  BY <1>5, <1>6, <1>7 DEF SafeInv, RestFits

\* An answer of the BDI, with what it has changed.
LEMMA AnswerIsSafe ==
  ASSUME SafeInv, NEW d, NEW r, BdiAnswers(d, r), UNCHANGED prog,
         \/ UNCHANGED store
         \/ \E good : /\ CarriesOut(Head(toBdi).cmd, good)
                      /\ Head(toBdi).cmd.op \in {"erase", "program", "wipe", "line", "ues"},
         Right(Answer(Head(toBdi).cmd, d, TRUE), store'), type' = type
  PROVE  StageFits' /\ RestFits' /\ Underway' /\ TriggerFits'
<1> DEFINE f == Head(toBdi)
           c == f.cmd
<1>1. /\ toBdi # <<>> /\ f.kind = "command" /\ toBdi' = Tail(toBdi)
      /\ toHost' = Put(toHost, Answer(c, d, f.own), bdiRate, rate)
      /\ UNCHANGED <<at, command, ret, answer, stage, task, todo>>
  BY DEF BdiAnswers, BdiReads, port, call, prog
<1>2. OneFrame /\ Types /\ ProgTypes /\ StageFits /\ RestFits /\ Underway /\ TriggerFits
  BY SafeTypes DEF SafeInv
<1>3. /\ toHost = <<>> \/ at \in Deaf
      /\ toBdi' = <<>> /\ f \in BdiFrames /\ BdiFits(f)
  BY <1>1, <1>2, Reading DEF Quiet
<1>4. c \in AllCommands /\ Safe(c)
  BY <1>1, <1>2, <1>3, KindTypes, Loaded DEF Underway
<1>5. ret' # "answer" /\ at \notin {"ready", "send"}
      /\ (at = "wait" => c = command)
  BY <1>1, <1>3 DEF BdiFits
<1>6. at' \in Deaf \/ toHost' = <<>> \/ toHost' = <<Answer(c, d, f.own)>>
  BY <1>1, <1>3, One
<1>7. Underway'
  <2>1. at' \notin Deaf /\ toHost' # <<>> => Head(toHost') = Answer(c, d, f.own)
    BY <1>6, One
  <2>2. at' \notin Deaf /\ toHost' # <<>> => Right(Head(toHost'), store')
    BY <2>1 DEF Right, Answer
  <2>3. QED
    BY <1>3, <1>5, <2>2 DEF Underway
<1>8. StageFits'
  BY <1>1, <1>2 DEF StageFits
<1>9. CASE UNCHANGED store
  BY <1>1, <1>2, <1>7, <1>8, <1>9, FinalStays DEF RestFits, Down, TriggerFits
<1>10. ASSUME NEW good, CarriesOut(c, good), c.op \in {"erase", "program", "wipe", "line", "ues"}
       PROVE  TriggerFits' /\ RestFits'
  <2>1. TriggerFits'
    BY <1>2, <1>4, <1>10, CarriedOut DEF ProgTypes
  <2>2. CASE stage = "check"
    <3>1. c = Head(todo)
      BY <1>2, <1>5, <2>2 DEF StageFits
    <3>2. QED
      BY <1>1, <1>10, <2>1, <2>2, <3>1, RestStays
  <2>3. CASE stage # "check"
    <3>1. stage' \notin {"work", "check"}
      BY <1>1, <1>2, <1>5, <2>3 DEF StageFits
    <3>2. QED
      BY <2>1, <3>1 DEF RestFits
  <2>4. QED
    BY <2>2, <2>3
<1>11. QED
  BY <1>7, <1>8, <1>9, <1>10

LEMMA BdiIsSafe ==
  ASSUME SafeInv,
         \/ BdiStartsLoader \/ BdiKnowsNot \/ BdiTellsVersion \/ BdiErases \/ BdiPrograms
         \/ BdiReadsBack \/ BdiIsp \/ BdiExits \/ FlashFails \/ RowFails
  PROVE  StageFits' /\ RestFits' /\ Underway' /\ TriggerFits'
<1>1. type' = type
  BY TypeKept DEF Next, Bdi, Accidents
<1> DEFINE c == Head(toBdi).cmd
           Kept(d) == Right(Answer(c, d, TRUE), store')
<1>2. \A code, what : ~(code = "ok" /\ c.op \in {"erase", "program"}) => Kept(Data(code, what))
  BY DEF Right, Answer, Data
<1>3. ASSUME NEW code, NEW what, NEW r, BdiAnswers(Data(code, what), r), UNCHANGED <<prog, store>>,
             ~(code = "ok" /\ c.op \in {"erase", "program"})
      PROVE  StageFits' /\ RestFits' /\ Underway' /\ TriggerFits'
  BY <1>1, <1>2, <1>3, AnswerIsSafe
<1>4. CASE BdiStartsLoader
  <2>1. c.op = "start" /\ UNCHANGED <<prog, store>>
    BY <1>4 DEF BdiStartsLoader, AnswersTo
  <2>2. \E code \in {"ok", "unknown"} : \E r : BdiAnswers(Data(code, <<>>), r)
    BY <1>4 DEF BdiStartsLoader, Says
  <2>3. QED
    BY <1>3, <2>1, <2>2
<1>5. CASE BdiKnowsNot
  BY <1>3, <1>5 DEF BdiKnowsNot, Says, bdi
<1>6. CASE BdiTellsVersion
  BY <1>3, <1>6 DEF BdiTellsVersion, Says, AnswersTo, bdi
<1>7. CASE BdiReadsBack
  <2>1. c.op \in {"read", "readline", "readues"} /\ UNCHANGED <<prog, store>>
    BY <1>7 DEF BdiReadsBack, AnswersTo, bdi
  <2>2. \E what : BdiAnswers(Data("ok", what), bdiRate)
    BY <1>7 DEF BdiReadsBack, Says
  <2>3. QED
    BY <1>3, <2>1, <2>2
<1>8. CASE BdiExits
  BY <1>3, <1>8 DEF BdiExits, AnswersTo
<1>9. ASSUME NEW code, NEW r, NEW good,
             BdiAnswers(Data(code, <<>>), r), BdiWrites(good), CarriesOut(c, good),
             c.op \in {"erase", "program", "wipe", "line", "ues"},
             Kept(Data(code, <<>>))
      PROVE  StageFits' /\ RestFits' /\ Underway' /\ TriggerFits'
  BY <1>1, <1>9, AnswerIsSafe DEF BdiWrites
<1>10. \A good : BdiWrites(good) =>
        store' = [x \in Cells |-> IF x \in c.cells THEN good[x] ELSE store[x]]
  BY DEF BdiWrites, Target
<1>11. \A op : AnswersTo(op) => c.op = op /\ c \in AllCommands
  BY KindTypes, WireTypes, SafeTypes, Loaded DEF AnswersTo, Types
<1>12. c \in AllCommands => \A x \in c.cells : x \in Cells
  BY DEF AllCommands
<1> HIDE DEF c
<1>13. CASE BdiErases
  <2> DEFINE good == [x \in Cells |-> "erased"]
  <2>1. BdiAnswers(Data("ok", <<>>), bdiRate) /\ BdiWrites(good) /\ c.op = "erase" /\ c \in AllCommands
    BY <1>11, <1>13 DEF BdiErases, Says
  <2>2. \A x \in Cells : good[x] = "erased"
    OBVIOUS
  <2> HIDE DEF good
  <2>3. CarriesOut(c, good)
    BY <1>10, <2>1, <2>2 DEF CarriesOut
  <2>4. \A x \in c.cells : store'[x] = "erased"
    BY <1>12, <2>1, <2>2, <2>3 DEF CarriesOut
  <2>5. Kept(Data("ok", <<>>))
    BY <2>1, <2>4 DEF Right, Answer, c
  <2>6. QED
    BY <1>9, <2>1, <2>3, <2>5
<1>14. CASE BdiPrograms
  <2> DEFINE good == [x \in Cells |-> Written(store[x])]
  <2>1. PICK code : /\ code = "ok" => \A x \in c.cells : Written(store[x]) = "new"
                    /\ BdiAnswers(Data(code, <<>>), bdiRate)
    BY <1>14 DEF BdiPrograms, Says, Target, c
  <2>2. BdiWrites(good) /\ c.op = "program" /\ c \in AllCommands
    BY <1>11, <1>14 DEF BdiPrograms
  <2>3. \A x \in Cells : good[x] = Written(store[x]) /\ good[x] \in {"new", "mixed"}
    BY DEF Written
  <2> HIDE DEF good
  <2>4. CarriesOut(c, good)
    BY <1>10, <2>2, <2>3 DEF CarriesOut
  <2>5. code = "ok" => \A x \in c.cells : store'[x] = "new"
    BY <1>12, <2>1, <2>2, <2>3, <2>4 DEF CarriesOut
  <2>6. Kept(Data(code, <<>>))
    BY <2>2, <2>5 DEF Right, Answer, Data, c
  <2>7. QED
    BY <1>9, <2>1, <2>2, <2>4, <2>6
<1>15. CASE FlashFails
  <2> DEFINE good == [x \in Cells |-> "mixed"]
  <2>1. /\ BdiAnswers(Data("failed", <<>>), bdiRate) /\ BdiWrites(good)
        /\ c.op \in {"erase", "program"}
    BY <1>11, <1>15 DEF FlashFails
  <2>2. \A x \in Cells : good[x] = "mixed"
    OBVIOUS
  <2> HIDE DEF good
  <2>3. CarriesOut(c, good)
    BY <1>10, <2>1, <2>2 DEF CarriesOut
  <2>4. QED
    BY <1>2, <1>9, <2>1, <2>3
<1>16. ASSUME NEW good, BdiWrites(good), BdiAnswers(Data("ok", <<>>), bdiRate),
              c.op \in {"wipe", "line", "ues"}
       PROVE  StageFits' /\ RestFits' /\ Underway' /\ TriggerFits'
  <2>1. CarriesOut(c, good)
    BY <1>10, <1>16 DEF CarriesOut
  <2>2. QED
    BY <1>2, <1>9, <1>16, <2>1
<1>17. CASE RowFails
  BY <1>11, <1>16, <1>17 DEF RowFails
<1>18. CASE BdiIsp
  <2>1. BdiAnswers(Data("ok", <<>>), bdiRate)
    BY <1>18 DEF BdiIsp, Says
  <2>2. CASE AnswersTo("enable") \/ AnswersTo("disable") \/ AnswersTo("id")
    <3>1. c.op \in {"enable", "disable", "id"}
      BY <1>11, <2>2
    <3>2. UNCHANGED <<prog, store>>
      BY <1>11, <1>18, <3>1 DEF BdiIsp, bdi
    <3>3. QED
      BY <1>3, <2>1, <3>1, <3>2
  <2>3. CASE AnswersTo("wipe") \/ AnswersTo("line") \/ AnswersTo("ues")
    <3>1. c.op \in {"wipe", "line", "ues"}
      BY <1>11, <2>3
    <3>2. \E good : BdiWrites(good)
      BY <1>11, <1>18, <3>1 DEF BdiIsp
    <3>3. QED
      BY <1>16, <2>1, <3>1, <3>2
  <2>4. QED
    BY <1>18, <2>2, <2>3 DEF BdiIsp
<1>19. QED
  BY <1>4, <1>5, <1>6, <1>7, <1>8, <1>13, <1>14, <1>15, <1>17, <1>18

\* Nothing is stored, and no frame is under way that was not there before.
Still ==
  /\ UNCHANGED <<store, type>>
  /\ toBdi' # <<>> /\ Head(toBdi').kind = "command" =>
       /\ toBdi # <<>> /\ Head(toBdi).kind = "command"
       /\ Head(toBdi').cmd = Head(toBdi).cmd
  /\ at' \notin Deaf /\ toHost' # <<>> /\ Head(toHost').kind = "answer" =>
       at \notin Deaf /\ toHost # <<>> /\ Head(toHost') = Head(toHost)
  /\ ret' = "answer" =>
       \/ ret = "answer" /\ answer' = answer
       \/ at \notin Deaf /\ toHost # <<>> /\ answer' = Head(toHost)

LEMMA StillIsSafe ==
  ASSUME Underway, TriggerFits, Still
  PROVE  Underway' /\ TriggerFits'
<1>1. toBdi' # <<>> /\ Head(toBdi').kind = "command" => Safe(Head(toBdi').cmd)
  BY DEF Underway, Still
<1>2. \A c : Safe(c) => Safe(c)'
  BY FinalStays DEF Still, Safe, Down
<1>3. at' \notin Deaf /\ toHost' # <<>> => Right(Head(toHost'), store')
  BY DEF Underway, Still, Right
<1>4. ret' = "answer" => Right(answer', store')
  BY DEF Underway, Still
<1>5. TriggerFits'
  BY FinalStays DEF TriggerFits, Still
<1>6. toBdi' # <<>> /\ Head(toBdi').kind = "command" => Safe(Head(toBdi).cmd)'
  BY <1>1, <1>2
<1>7. QED
  BY <1>3, <1>4, <1>5, <1>6 DEF Underway

LEMMA DisownedSame ==
  ASSUME OneFrame
  PROVE  Disowned(toBdi) # <<>> /\ Head(Disowned(toBdi)).kind = "command" =>
           /\ toBdi # <<>> /\ Head(toBdi).kind = "command"
           /\ Head(Disowned(toBdi)).cmd = Head(toBdi).cmd
<1> DEFINE d(f) == IF f.kind \in {"command", "answer"} THEN [f EXCEPT !.own = FALSE] ELSE f
<1>1. ASSUME NEW f PROVE Disowned(<<f>>) = <<d(f)>>
  <2>1. Disowned(<<f>>) = [i \in 1..1 |-> d(<<f>>[i])]
    BY DEF Disowned
  <2>2. \A i \in 1..1 : <<f>>[i] = f
    OBVIOUS
  <2>3. Disowned(<<f>>) = [i \in 1..1 |-> d(f)]
    BY <2>1, <2>2
  <2>4. \A x : [i \in 1..1 |-> x] = <<x>>
    OBVIOUS
  <2>5. QED
    BY <2>3, <2>4
<1>2. \A f \in CommandFrames : d(f).kind = f.kind /\ d(f).cmd = f.cmd
  BY DEF CommandFrames
<1>3. \A f \in LinkFrames : d(f) = f /\ f.kind \notin {"command", "answer"}
  BY DEF LinkFrames
<1>4. \A f \in BdiFrames : d(f).kind = f.kind /\ (f.kind = "command" => d(f).cmd = f.cmd)
  BY <1>2, <1>3 DEF BdiFrames
<1> HIDE DEF d
<1>5. toBdi # <<>> => /\ Head(Disowned(toBdi)) = d(Head(toBdi)) /\ Head(toBdi) \in BdiFrames
  <2>1. toBdi # <<>> => toBdi = <<Head(toBdi)>> /\ Head(toBdi) \in BdiFrames
    BY Reading
  <2>2. toBdi # <<>> => Disowned(toBdi) = <<d(Head(toBdi))>>
    BY <1>1, <2>1
  <2>3. QED
    BY <2>1, <2>2, One
<1>6. QED
  BY <1>4, <1>5, One

\* What may have become of the frames under way.
ToBdiStill ==
  \/ toBdi' \in {toBdi, <<>>, Disowned(toBdi)}
  \/ toBdi = <<>> /\ \E k \in {"reset", "baud"} : \E r, p, q : toBdi' = Put(<<>>, Link(k, r), p, q)

ToHostStill ==
  \/ at' \in Deaf
  \/ toHost' = <<>>
  \/ at \notin Deaf /\ toHost' \in {toHost, <<Bad>>}
  \/ \E k \in {"reset", "baud"} : \E r, p, q : toHost' = Put(<<>>, Link(k, r), p, q)

LEMMA WiresStill ==
  ASSUME OneFrame, UNCHANGED <<store, type>>, ToBdiStill, ToHostStill,
         \/ ret' # "answer" \/ UNCHANGED <<ret, answer>>
         \/ at \notin Deaf /\ toHost # <<>> /\ answer' = Head(toHost)
  PROVE  Still
<1>1. ASSUME NEW k \in {"reset", "baud"}, NEW r, NEW p, NEW q,
             Put(<<>>, Link(k, r), p, q) # <<>>
      PROVE  Head(Put(<<>>, Link(k, r), p, q)).kind \notin {"command", "answer"}
  <2>1. Link(k, r).kind = k
    BY DEF Link
  <2>2. QED
    BY <1>1, <2>1, One
<1>2. Head(<<Bad>>).kind = "bad"
  BY One DEF Bad
<1>3. toBdi' # <<>> /\ Head(toBdi').kind = "command" =>
        /\ toBdi # <<>> /\ Head(toBdi).kind = "command"
        /\ Head(toBdi').cmd = Head(toBdi).cmd
  BY <1>1, DisownedSame DEF ToBdiStill
<1>4. at' \notin Deaf /\ toHost' # <<>> /\ Head(toHost').kind = "answer" =>
        at \notin Deaf /\ toHost # <<>> /\ Head(toHost') = Head(toHost)
  BY <1>1, <1>2 DEF ToHostStill
<1>5. QED
  BY <1>3, <1>4 DEF Still

\* Opening and closing the link, issuing a command and waiting for its answer change
\* nothing of that, and neither do the accidents of a link that stays calm.
LEMMA LinkIsStill ==
  ASSUME Calm, Inv, Calm', UNCHANGED <<store, type>>,
         \/ UNCHANGED <<at, toBdi, toHost, ret, answer>>
         \/ Open \/ OpenFails \/ Close \/ Abort \/ SendFails
         \/ \E c : Issue(c)
         \/ HostSteps /\ ~SendCommand
         \/ BdiLinkSteps \/ WireFaults \/ BdiRestarts
         \/ \E s \in Attentions : BdiCallsAttention(s)
  PROVE  Still
<1>1. OneFrame /\ AtWork
  BY DEF Inv, OwnInv
<1>2. toHost # <<>> /\ at \notin Deaf => toBdi = <<>> /\ Tail(toHost) = <<>>
  BY <1>1, Reading
<1>3. toBdi # <<>> => (toHost = <<>> \/ at \in Deaf) /\ Tail(toBdi) = <<>>
  BY <1>1, Reading DEF Quiet
<1>4. GoesOn \/ GivesUp => toBdi = <<>>
  BY CalmGoesOn
<1>5. at \in {"probe", "setrate", "confirm", "wait"} => at \notin Deaf /\ ret # "answer"
  BY <1>1 DEF Deaf, AtWork
<1>6. CASE UNCHANGED <<at, toBdi, toHost, ret, answer>>
  BY <1>1, <1>6, WiresStill DEF ToBdiStill, ToHostStill
<1>7. CASE Open
  <2>1. /\ toHost' = <<>> /\ ret' = "none" /\ toBdi = <<>>
        /\ toBdi' = Put(toBdi, Link("reset", 1), Requested, bdiRate)
    BY <1>4, <1>7 DEF Open, SendAt
  <2>2. QED
    BY <1>1, <2>1, WiresStill DEF ToBdiStill, ToHostStill
<1>8. CASE OpenFails \/ RateRefused \/ ConfirmFails \/ Exhausted \/ AnswerTimesOut
  <2>1. UNCHANGED <<toBdi, answer>> /\ at' \in Deaf
    BY <1>8 DEF OpenFails, RateRefused, ConfirmFails, Exhausted, AnswerTimesOut, wire, call,
                Returns, Connected, Deaf
  <2>2. ret' # "answer" \/ ret' = ret
    BY <1>8 DEF OpenFails, RateRefused, ConfirmFails, Exhausted, AnswerTimesOut, call,
                Returns, Connected
  <2>3. QED
    BY <1>1, <2>1, <2>2, WiresStill DEF ToBdiStill, ToHostStill
<1>9. CASE Close \/ Abort \/ \E c : Issue(c)
  <2>1. toBdi' = Disowned(toBdi) /\ at' \in Deaf /\ (ret' = "none" \/ UNCHANGED <<ret, answer>>)
    BY <1>9 DEF Close, Abort, Issue, Returns, call, Deaf
  <2>2. QED
    BY <1>1, <2>1, WiresStill DEF ToBdiStill, ToHostStill
<1>10. CASE SendFails
  <2>1. toHost' = <<>> /\ UNCHANGED <<toBdi, ret, answer>>
    BY <1>10 DEF SendFails, FlushRxQueue
  <2>2. QED
    BY <1>1, <2>1, WiresStill DEF ToBdiStill, ToHostStill
<1>11. CASE ProbeAnswered \/ ConfirmAnswered
  <2>1. toHost' = <<>> /\ toBdi = <<>> /\ ret' # "answer"
    BY <1>2, <1>5, <1>11 DEF ProbeAnswered, ConfirmAnswered, Connected, Returns
  <2>2. toBdi' = toBdi \/ toBdi' = Put(toBdi, Link("baud", Requested), rate, bdiRate)
    BY <1>11 DEF ProbeAnswered, ConfirmAnswered
  <2>3. QED
    BY <1>1, <2>1, <2>2, WiresStill DEF ToBdiStill, ToHostStill
<1>12. CASE ProbeFails
  <2>1. toBdi = <<>>
    BY <1>2, <1>4, <1>5, <1>12 DEF ProbeFails, Unanswered
  <2>2. CASE MoreRates
    <3>1. /\ toHost' = <<>> /\ UNCHANGED <<ret, answer>>
          /\ toBdi' = Put(toBdi, Link("reset", 1), probe + 1, bdiRate)
      BY <1>12, <2>2 DEF ProbeFails, SendAt
    <3>2. QED
      BY <1>1, <2>1, <3>1, WiresStill DEF ToBdiStill, ToHostStill
  <2>3. CASE ~MoreRates
    <3>1. UNCHANGED toBdi /\ at' \in Deaf /\ ret' = "noresponse"
      BY <1>12, <2>3 DEF ProbeFails, Returns, Deaf
    <3>2. QED
      BY <1>1, <3>1, WiresStill DEF ToBdiStill, ToHostStill
  <2>4. QED
    BY <2>2, <2>3
<1>13. CASE RateConfirmed
  <2>1. /\ toBdi = <<>> /\ toHost' = <<>> /\ UNCHANGED <<ret, answer>>
        /\ toBdi' = Put(toBdi, Link("reset", 1), Head(toHost).rate, bdiRate)
    BY <1>2, <1>5, <1>13 DEF RateConfirmed, SendAt, call
  <2>2. QED
    BY <1>1, <2>1, WiresStill DEF ToBdiStill, ToHostStill
<1>14. CASE AnswerTaken \/ AnswerDamaged
  <2>1. /\ at' \in Deaf /\ toHost # <<>> /\ at \notin Deaf /\ toBdi' = toBdi
        /\ answer' = Head(toHost) \/ UNCHANGED <<ret, answer>>
    BY <1>14 DEF AnswerTaken, AnswerDamaged, Returns, Deaf, call
  <2>2. QED
    BY <1>1, <2>1, WiresStill DEF ToBdiStill, ToHostStill
<1>15. CASE BdiLinkSteps
  <2>1. /\ toBdi # <<>> /\ toBdi' = <<>> /\ at' = at /\ UNCHANGED <<ret, answer>>
        /\ at \notin Deaf => toHost = <<>>
    BY <1>3, <1>15 DEF BdiLinkSteps, BdiResets, BdiChangesRate, BdiReads, call, port
  <2>2. \E k \in {"reset", "baud"} : \E r, p, q : toHost' = Put(toHost, Link(k, r), p, q)
    BY <1>15 DEF BdiLinkSteps, BdiResets, BdiChangesRate
  <2>3. QED
    BY <1>1, <2>1, <2>2, WiresStill DEF ToBdiStill, ToHostStill
<1>16. CASE FrameLost
  <2>1. /\ at' = at /\ UNCHANGED <<ret, answer>> /\ toBdi' \in {toBdi, <<>>}
        /\ at \notin Deaf => toHost' \in {toHost, <<>>}
    BY <1>2, <1>3, <1>16 DEF FrameLost, call, port
  <2>2. QED
    BY <1>1, <2>1, WiresStill DEF ToBdiStill, ToHostStill
<1>17. CASE FrameDamaged
  <2>1. /\ UNCHANGED <<at, toBdi, ret, answer>>
        /\ at \notin Deaf => toHost' = <<Bad>> \o <<>>
    BY <1>2, <1>17 DEF FrameDamaged, call, port
  <2>2. <<Bad>> \o <<>> = <<Bad>>
    OBVIOUS
  <2>3. QED
    BY <1>1, <2>1, <2>2, WiresStill DEF ToBdiStill, ToHostStill
<1>18. CASE BdiRestarts
  <2>1. toBdi' = <<>> /\ UNCHANGED <<at, toHost, ret, answer>>
    BY <1>18 DEF BdiRestarts, call, port
  <2>2. QED
    BY <1>1, <2>1, WiresStill DEF ToBdiStill, ToHostStill
<1>19. CASE \E s \in Attentions : BdiCallsAttention(s)
  <2>1. PICK s \in Attentions : BdiCallsAttention(s)
    BY <1>19
  <2>2. at' = at /\ UNCHANGED <<toBdi, ret, answer>>
    BY <2>1 DEF BdiCallsAttention, call, port
  <2>3. at \notin {"closed", "ready", "wait", "probe", "setrate", "confirm"}
    BY <2>1 DEF BdiCallsAttention, Calm, Disturbed
  <2>4. at \in Places
    BY DEF Inv, OwnInv, Types, LinkTypeOK
  <2>5. at' \in Deaf
    BY <2>2, <2>3, <2>4 DEF Places, Deaf
  <2>6. QED
    BY <1>1, <2>2, <2>5, WiresStill DEF ToBdiStill, ToHostStill
<1>20. QED
  BY <1>6, <1>7, <1>8, <1>9, <1>10, <1>11, <1>12, <1>13, <1>14, <1>15, <1>16, <1>17, <1>18, <1>19
  DEF HostSteps, WireFaults

\* A frame the program sends carries a command that is safe.
LEMMA SentIsSafe ==
  ASSUME SafeInv, SendCommand, UNCHANGED <<prog, bdi>>
  PROVE  Underway' /\ TriggerFits'
<1>1. /\ OneFrame /\ Types /\ ProgTypes /\ StageFits /\ RestFits /\ TriggerFits
      /\ at = "send" /\ ret # "answer"
  BY SafeTypes DEF SafeInv, SendCommand
<1>2. /\ toBdi = <<>> /\ toHost' = <<>> /\ ret' = ret /\ UNCHANGED <<store, type>>
      /\ \E n : toBdi' = Put(toBdi, Command(command, n), rate, bdiRate)
  BY <1>1, Reading DEF SendCommand, FlushRxQueue, bdi
<1>3. Safe(command)
  <2>1. stage \in {"start", "version", "check"}
    BY <1>1 DEF StageFits
  <2>2. CASE stage \in {"start", "version"}
    BY <1>1, <2>2, VitalCommands DEF StageFits, Safe
  <2>3. CASE stage = "check"
    BY <1>1, <2>3, NextIsSafe DEF StageFits
  <2>4. QED
    BY <2>1, <2>2, <2>3
<1>4. toBdi' # <<>> => Head(toBdi').cmd = command
  BY <1>2, One DEF Command
<1>5. Safe(command)'
  BY <1>1, <1>2, <1>3, FinalStays DEF Safe, Down, SendCommand
<1>6. Underway'
  <2>1. command' = command
    BY DEF SendCommand
  <2>2. toBdi' # <<>> => Safe(Head(toBdi).cmd)'
    BY <1>4, <1>5, <2>1
  <2>3. QED
    BY <1>1, <1>2, <2>2 DEF Underway
<1>7. TriggerFits'
  BY <1>1, <1>2, FinalStays DEF TriggerFits
<1>8. QED
  BY <1>6, <1>7

\* What is left of a script is right when it changes no byte and not the trigger.
LEMMA HarmlessRest ==
  ASSUME Sound(todo'), ToSet(todo') \subseteq Harmless
  PROVE  RestFits'
<1>1. \A k : ~Has(todo', k)
  BY VitalCommands DEF Has
<1>2. \A b \in Image : ~ProgramsByte(todo', b)
  BY VitalCommands, PartsDiffer DEF ProgramsByte, Touches
<1>3. QED
  BY <1>1, <1>2 DEF RestFits

LEMMA ShortRest ==
  ASSUME todo' \in {<<>>, <<IspDisable>>}
  PROVE  RestFits'
<1>1. /\ <<>> \in Seq(Harmless) /\ <<IspDisable>> \in Seq(Harmless)
      /\ InOrder(<<>>) /\ InOrder(<<IspDisable>>)
  BY HarmlessCommands, EmptyOf, SingleOf
<1>2. Sound(todo') /\ ToSet(todo') \subseteq Harmless
  BY <1>1, HarmlessScript
<1>3. QED
  BY <1>2, HarmlessRest

\* The answer to a step of the script says what it has done.
LEMMA PassedIsDone ==
  ASSUME SafeInv, StepPasses
  PROVE  LET c == Head(todo) IN
         /\ c.op = "erase" => \A x \in c.cells : store[x] = "erased"
         /\ c.op = "program" => \A x \in c.cells : store[x] = "new"
<1>1. /\ StageFits /\ Underway
      /\ stage = "check" /\ ret = "answer" /\ Accepted(Head(todo), answer)
  BY DEF SafeInv, StepPasses
<1>2. answer.kind = "answer" /\ answer.cmd = Head(todo) /\ Right(answer, store)
  BY <1>1, CalmInv DEF SafeInv, StageFits, Underway
<1>3. Head(todo).op \in {"erase", "program"} => answer.data.code = "ok"
  BY <1>1 DEF Accepted
<1>4. QED
  BY <1>2, <1>3 DEF Right

LEMMA PassesFits ==
  ASSUME SafeInv, StepPasses
  PROVE  RestFits'
<1> DEFINE c == Head(todo)
           rest == Tail(todo)
<1>1. /\ ProgTypes /\ RestFits /\ stage = "check"
      /\ todo' = rest /\ UNCHANGED <<task, store, type>>
  BY DEF SafeInv, StepPasses, bdi
<1>2. todo \in Seq(AllCommands) /\ todo # <<>> /\ Sound(todo)
  BY <1>1 DEF ProgTypes, Scripted, RestFits
<1>3. /\ c \in AllCommands /\ rest \in Seq(AllCommands) /\ InOrder(rest)
      /\ ToSet(todo) = {c} \cup ToSet(rest) /\ \A d \in ToSet(rest) : Precedes(c, d)
  BY <1>2, TailOf, Zenon DEF Sound
<1>4. /\ c.op = "erase" => \A x \in c.cells : store[x] = "erased"
      /\ c.op = "program" => \A x \in c.cells : store[x] = "new"
  BY PassedIsDone
<1> HIDE DEF c, rest
<1>5. Sound(rest)
  BY <1>2, <1>3 DEF Sound
<1>6. ASSUME Has(rest, 2) \/ Has(rest, 3) PROVE Down \/ Has(rest, 1)
  <2>1. Down \/ Has(todo, 1)
    BY <1>1, <1>3, <1>6 DEF RestFits, Has
  <2>2. ASSUME Has(todo, 1), ~Has(rest, 1) PROVE Down
    <3>1. Rank(c) = 1
      BY <1>3, <2>2 DEF Has
    <3>2. c.op = "erase" /\ Trigger \in c.cells
      BY <3>1 DEF Rank
    <3>3. QED
      BY <1>4, <3>2 DEF Down
  <2>3. QED
    BY <2>1, <2>2
<1>7. ASSUME Has(rest, 4), NEW b \in Image, b \in Reached
      PROVE  ProgramsByte(rest, b) \/ (store[b] = "new" /\ ~Erases(rest, b))
  <2>1. ProgramsByte(todo, b) \/ (store[b] = "new" /\ ~Erases(todo, b))
    BY <1>1, <1>3, <1>7 DEF RestFits, Has
  <2>2. CASE store[b] = "new" /\ ~Erases(todo, b)
    BY <1>3, <2>2 DEF Erases
  <2>3. CASE ProgramsByte(todo, b) /\ ~ProgramsByte(rest, b)
    <3>1. c.op = "program" /\ b \in c.cells
      BY <1>3, <2>3 DEF ProgramsByte
    <3>2. Touches(c) /\ Rank(c) \in {3, 4}
      BY <3>1 DEF Touches, Vital, Rank
    <3>3. ASSUME NEW d \in ToSet(rest), d.op = "erase", b \in d.cells PROVE FALSE
      <4>1. Touches(d) /\ Rank(d) \in {1, 2}
        BY <3>3 DEF Touches, Vital, Rank
      <4>2. QED
        BY <1>3, <3>2, <4>1 DEF Precedes
    <3>4. QED
      BY <1>4, <3>1, <3>3 DEF Erases
  <2>4. QED
    BY <2>1, <2>2, <2>3
<1>8. ASSUME NEW b \in Image, b \notin Reached
      PROVE  /\ ~ProgramsByte(rest, b)
             /\ Has(rest, 4) => Erases(rest, b) \/ store[b] = "erased"
  <2>1. /\ ~ProgramsByte(todo, b)
        /\ Has(todo, 4) => Erases(todo, b) \/ store[b] = "erased"
    BY <1>1, <1>8 DEF RestFits
  <2>2. Erases(todo, b) => Erases(rest, b) \/ store[b] = "erased"
    BY <1>3, <1>4 DEF Erases
  <2>3. QED
    BY <1>3, <2>1, <2>2 DEF ProgramsByte, Has
<1>9. task = "startup" => ToSet(rest) \subseteq Harmless
  BY <1>1, <1>3 DEF RestFits
<1>10. QED
  BY <1>1, <1>5, <1>6, <1>7, <1>8, <1>9, FinalStays DEF RestFits, Down

LEMMA FailsFits ==
  ASSUME SafeInv, StepFails
  PROVE  RestFits'
<1>1. /\ ProgTypes /\ RestFits /\ stage = "check" /\ todo' = Remaining(todo)
  BY DEF SafeInv, StepFails
<1>2. CASE task = "startup"
  <2>1. todo \in Seq(AllCommands) /\ todo # <<>> /\ Sound(todo) /\ ToSet(todo) \subseteq Harmless
    BY <1>1, <1>2 DEF ProgTypes, Scripted, RestFits
  <2>2. /\ Tail(todo) \in Seq(AllCommands) /\ InOrder(Tail(todo))
        /\ ToSet(todo) = {Head(todo)} \cup ToSet(Tail(todo))
    BY <2>1, TailOf, Zenon DEF Sound
  <2>3. Sound(Tail(todo)) /\ ToSet(Tail(todo)) \subseteq Harmless
    BY <2>1, <2>2 DEF Sound
  <2>4. todo' = Tail(todo)
    BY <1>1, <1>2 DEF Remaining
  <2>5. QED
    BY <2>3, <2>4, HarmlessRest
<1>3. CASE task # "startup"
  <2>1. todo' \in {<<>>, <<IspDisable>>}
    BY <1>1, <1>3 DEF Remaining
  <2>2. QED
    BY <2>1, ShortRest
<1>4. QED
  BY <1>2, <1>3

\* A step of the program leaves a script that is right, and gives the command it heads.
LEMMA ProgramFits ==
  ASSUME SafeInv, Program
  PROVE  StageFits' /\ RestFits'
<1>1. ProgTypes /\ StageFits /\ RestFits
  BY DEF SafeInv
<1>2. CASE Begin \/ TryOpen \/ ConnectFails \/ LoaderStarts \/ Reopen \/ LoaderFails \/ Finish
  <2>1. stage' \in {"opening", "over", "reopen"}
    BY <1>2
    DEF Begin, TryOpen, ConnectFails, LoaderStarts, Reopen, LoaderFails, Finish, Ends, Goes, prog
  <2>2. at' \in {"closed", "probe"}
    BY <1>2
    DEF Begin, TryOpen, ConnectFails, LoaderStarts, Reopen, LoaderFails, Finish, Open, OpenFails,
        Returns, Close, linkVars, port
  <2>3. QED
    BY <2>1, <2>2 DEF StageFits, RestFits
<1>3. CASE StartLoader \/ ReadVersion
  <2>1. /\ at' = "send" /\ stage' \in {"start", "version"}
        /\ command' \in {Cmd("start", {}), Cmd("version", {})}
    BY <1>3 DEF StartLoader, ReadVersion, Issue, Goes
  <2>2. command' \in Harmless
    BY <2>1, HarmlessCommands
  <2>3. Harmless' = Harmless
    BY DEF Harmless, AllCommands, Touches, Vital, Cells, Image, Fuses
  <2>4. QED
    BY <2>1, <2>2 DEF StageFits, RestFits
<1>4. CASE IssueStep
  <2>1. /\ at' = "send" /\ stage = "work" /\ stage' = "check" /\ command' = Head(todo)
        /\ UNCHANGED <<todo, task, store, type>>
    BY <1>4 DEF IssueStep, Issue, Goes, bdi
  <2>2. QED
    BY <1>1, <2>1, FinalStays DEF StageFits, RestFits, Down
<1>5. CASE VersionRead
  <2>1. /\ at' = "ready" /\ stage' = "work" /\ task \in Tasks /\ task' = task /\ type' = type
        /\ \E firmware, logic : todo' = Script(task, firmware, logic)
    BY <1>1, <1>5 DEF VersionRead, ProgTypes, linkVars, port, bdi
  <2>2. Sound(todo') /\ Whole(todo') /\ (task = "startup" => ToSet(todo') \subseteq Harmless)
    BY <2>1, ScriptFits
  <2>3. QED
    BY <2>1, <2>2, FinalStays DEF StageFits, RestFits, Whole
<1>6. CASE StepPasses \/ StepFails
  <2>1. at' = "ready" /\ stage' = "work"
    BY <1>6 DEF StepPasses, StepFails, linkVars, port
  <2>2. QED
    BY <1>6, <2>1, PassesFits, FailsFits DEF StageFits
<1>7. QED
  BY <1>2, <1>3, <1>4, <1>5, <1>6 DEF Program

\* The library works on the command it was given.
LEMMA LibraryFits ==
  ASSUME SafeInv, Library
  PROVE  StageFits' /\ RestFits'
<1>1. /\ StageFits /\ RestFits /\ UNCHANGED <<stage, task, todo, store, type, command>>
  BY DEF SafeInv, Library, HostSteps, prog, bdi, ProbeAnswered, ProbeFails, RateConfirmed,
         RateRefused, ConfirmAnswered, ConfirmFails, SendCommand, Exhausted, AnswerTaken,
         AnswerDamaged, AnswerTimesOut, call
<1>2. \/ at \in {"send", "wait"} /\ at' \in {"ready", "send", "wait"}
      \/ at \in {"probe", "setrate", "confirm"} /\ at' \notin {"send", "wait"}
  BY DEF Library, HostSteps, ProbeAnswered, ProbeFails, RateConfirmed,
         RateRefused, ConfirmAnswered, ConfirmFails, SendCommand, Exhausted, AnswerTaken,
         AnswerDamaged, AnswerTimesOut, Returns, Connected
<1>3. StageFits'
  BY <1>1, <1>2 DEF StageFits
<1>4. RestFits'
  BY <1>1, FinalStays DEF RestFits, Down
<1>5. QED
  BY <1>3, <1>4

\* When nothing of the program moves, its script stays right; when a file cannot be read
\* or the program is stopped, what is left of it is harmless.
LEMMA NothingMoves ==
  ASSUME SafeInv, UNCHANGED <<at, command, stage, task, todo, store, type>>
  PROVE  StageFits' /\ RestFits'
<1>1. StageFits /\ RestFits
  BY DEF SafeInv
<1>2. QED
  BY <1>1, FinalStays DEF StageFits, RestFits, Down

LEMMA FilesFit ==
  ASSUME SafeInv, NoFiles \/ FileBad \/ FuseMapBad \/ Stopped
  PROVE  StageFits' /\ RestFits'
<1>1. todo' \in {<<>>, <<IspDisable>>}
  BY DEF NoFiles, FileBad, FuseMapBad, Stopped
<1>2. RestFits'
  BY <1>1, ShortRest
<1>3. \/ stage' = "work" /\ at' = "ready"
      \/ stage' = "over" /\ at' = "closed"
  <2>1. StageFits
    BY DEF SafeInv
  <2>2. CASE Stopped
    BY <2>2 DEF Stopped, Abort, Returns
  <2>3. CASE NoFiles \/ FileBad \/ FuseMapBad
    BY <2>1, <2>3 DEF NoFiles, FileBad, FuseMapBad, port, StageFits
  <2>4. QED
    BY <2>2, <2>3
<1>4. QED
  BY <1>2, <1>3 DEF StageFits
-----------------------------------------------------------------------------
LEMMA ProgramIsSafe ==
  ASSUME SafeInv, Calm', Program \/ Library
  PROVE  StageFits' /\ RestFits' /\ Underway' /\ TriggerFits'
<1>1. Calm /\ Inv /\ Underway /\ TriggerFits
  BY DEF SafeInv
<1>2. StageFits' /\ RestFits'
  BY ProgramFits, LibraryFits
<1>3. UNCHANGED <<store, type>>
  BY DEF Program, Library, bdi, Begin, TryOpen, ConnectFails, StartLoader, LoaderStarts, Reopen,
     ReadVersion, LoaderFails, VersionRead, IssueStep, StepPasses, StepFails, Finish
<1>4. CASE Begin \/ ConnectFails \/ VersionRead \/ StepPasses \/ StepFails
  <2>1. UNCHANGED <<at, toBdi, toHost, ret, answer>>
    BY <1>4 DEF Begin, ConnectFails, VersionRead, StepPasses, StepFails, linkVars, port, call, wire
  <2>2. QED
    BY <1>1, <1>2, <1>3, <2>1, LinkIsStill, StillIsSafe
<1>5. CASE TryOpen \/ Reopen \/ LoaderStarts \/ LoaderFails \/ Finish
  <2>1. Open \/ OpenFails \/ Close
    BY <1>5 DEF TryOpen, Reopen, LoaderStarts, LoaderFails, Finish
  <2>2. QED
    BY <1>1, <1>2, <1>3, <2>1, LinkIsStill, StillIsSafe
<1>6. CASE StartLoader \/ ReadVersion \/ IssueStep
  <2>1. \E c : Issue(c)
    BY <1>6 DEF StartLoader, ReadVersion, IssueStep
  <2>2. QED
    BY <1>1, <1>2, <1>3, <2>1, LinkIsStill, StillIsSafe
<1>7. CASE Library
  <2>1. CASE SendCommand
    BY <1>2, <1>7, <2>1, SentIsSafe DEF Library
  <2>2. CASE ~SendCommand
    <3>1. HostSteps
      BY <1>7 DEF Library
    <3>2. QED
      BY <1>1, <1>2, <1>3, <2>2, <3>1, LinkIsStill, StillIsSafe
  <2>3. QED
    BY <2>1, <2>2
<1>8. QED
  BY <1>4, <1>5, <1>6, <1>7 DEF Program

LEMMA OthersAreSafe ==
  ASSUME SafeInv, Calm',
         \/ (BdiLinkSteps \/ WireFaults \/ SendFails) /\ UNCHANGED <<prog, bdi>>
         \/ (\E s \in Attentions : BdiCallsAttention(s)) /\ UNCHANGED <<prog, bdi>>
         \/ NoFiles \/ FileBad \/ FuseMapBad \/ Stopped \/ PowerCycle
         \/ UNCHANGED vars
  PROVE  StageFits' /\ RestFits' /\ Underway' /\ TriggerFits'
<1>1. Calm /\ Inv /\ Underway /\ TriggerFits
  BY DEF SafeInv
<1>2. CASE /\ \/ BdiLinkSteps \/ WireFaults \/ SendFails
              \/ \E s \in Attentions : BdiCallsAttention(s)
           /\ UNCHANGED <<prog, bdi>>
  <2>1. UNCHANGED <<at, command>>
    BY <1>2 DEF BdiLinkSteps, BdiResets, BdiChangesRate, WireFaults, FrameLost, FrameDamaged,
                SendFails, BdiCallsAttention, port, call
  <2>2. UNCHANGED <<stage, task, todo, store, type>>
    BY <1>2 DEF prog, bdi
  <2>3. Still
    BY <1>1, <1>2, <2>2, LinkIsStill
  <2>4. QED
    BY <1>1, <2>1, <2>2, <2>3, NothingMoves, StillIsSafe
<1>3. CASE NoFiles \/ FileBad \/ FuseMapBad
  <2>1. UNCHANGED <<at, toBdi, toHost, ret, answer, store, type>>
    BY <1>3 DEF NoFiles, FileBad, FuseMapBad, port, call, bdi
  <2>2. QED
    BY <1>1, <1>3, <2>1, FilesFit, LinkIsStill, StillIsSafe
<1>4. CASE Stopped
  <2>1. Abort /\ UNCHANGED <<store, type>>
    BY <1>4 DEF Stopped, bdi
  <2>2. QED
    BY <1>1, <1>4, <2>1, FilesFit, LinkIsStill, StillIsSafe
<1>5. CASE PowerCycle
  <2>1. BdiRestarts /\ UNCHANGED <<at, command, stage, task, todo, store, type>>
    BY <1>5 DEF PowerCycle, BdiRestarts, port, call
  <2>2. QED
    BY <1>1, <2>1, NothingMoves, LinkIsStill, StillIsSafe
<1>6. CASE UNCHANGED vars
  <2>1. UNCHANGED <<at, command, stage, task, todo, store, type, toBdi, toHost, ret, answer>>
    BY <1>6 DEF vars, linkVars, port, call, wire, prog, bdi
  <2>2. QED
    BY <1>1, <2>1, NothingMoves, LinkIsStill, StillIsSafe
<1>7. QED
  BY <1>2, <1>3, <1>4, <1>5, <1>6

LEMMA SafeStep == SafeInv /\ [Next]_vars /\ Calm' => SafeInv'
<1> SUFFICES ASSUME SafeInv, [Next]_vars, Calm' PROVE SafeInv'
  OBVIOUS
<1>1. ProgTypes' /\ [LinkNext]_linkVars
  BY SetupStep, SafeTypes DEF SafeInv
<1>2. Inv'
  BY <1>1, StepInv DEF SafeInv
<1>3. StageFits' /\ RestFits' /\ Underway' /\ TriggerFits'
  BY ProgramIsSafe, BdiIsSafe, OthersAreSafe DEF Next, Bdi, Accidents
<1>4. QED
  BY <1>1, <1>2, <1>3 DEF SafeInv

LEMMA SafeInit == Init => SafeInv
<1> SUFFICES ASSUME Init PROVE SafeInv
  OBVIOUS
<1>1. ProgTypes /\ Inv
  BY SetupInit, InitialInv
<1>2. /\ at = "closed" /\ stage = "idle" /\ ret = "none" /\ toBdi = <<>> /\ toHost = <<>>
      /\ Calm
  BY DEF Init, LinkInit, Calm
<1>3. TriggerFits
  <2>1. PICK fw \in {"old", "erased"} : \A c \in Image \cup {Trigger} : store[c] = fw
    <3>1. \A c \in Image \cup {Trigger} : c \in Cells
      BY DEF Cells
    <3>2. QED
      BY <3>1, SetupAssumption DEF Init
  <2>2. QED
    BY <2>1 DEF TriggerFits
<1>4. QED
  BY <1>1, <1>2, <1>3 DEF SafeInv, StageFits, RestFits, Underway

\* Whatever the firmware file holds, and wherever an update or an erasure is interrupted
\* by a lost frame, a refusing flash, a power cut or the operator: as long as nothing has
\* come late or unasked, a whole trigger of a version is stored only with all of that
\* version that is sent to the BDI (bdisetup.c:854, :953, :1058).
THEOREM TriggerComplete == Spec => []TriggerMeansComplete
<1> DEFINE J == ProgTypes /\ Types /\ (Calm => SafeInv)
<1>1. Init => J
  BY SafeInit, SetupInit
<1>2. J /\ [Next]_vars => J'
  BY SafeStep, SetupStep, CalmStays
<1>3. J => TriggerMeansComplete
  BY DEF SafeInv, TriggerFits, TriggerMeansComplete, Final
<1>4. QED
  BY <1>1, <1>2, <1>3, PTL DEF Spec
-----------------------------------------------------------------------------
(* What a script leaves behind.                                            *)

NotOld == \A x \in Fuses : store[x] # "old"

\* ISP mode, which the program has entered, may have been lost.
Spoilt == cut \/ mode = "firmware"

\* A command that fits what is stored: the init list is programmed while no mode refers to
\* it and the mode when it is there, and the trigger beside logic that is not old.
Fit(c) ==
  /\ c.op = "program" /\ InitList \in c.cells => store[ModeList] # "new"
  /\ c.op = "program" /\ ModeList \in c.cells => store[InitList] = "new"
  /\ Touches(c) /\ Rank(c) = 4 => Spoilt \/ NotOld

\* An answer tells what is stored.
Tells(f, stored) ==
  f.kind = "answer" =>
    /\ f.cmd.op \in Readers /\ f.data.what = <<"new">> => \A x \in f.cmd.cells : stored[x] = "new"
    /\ f.cmd.op = "version" /\ f.data.code # "unknown" =>
         f.data.what = <<stored[Trigger], stored[Ues]>>

\* The BDI has carried out the command that heads the script.
Answered == ret = "answer" \/ (at = "wait" /\ toHost # <<>> /\ Head(toHost).kind = "answer")

WayFits ==
  /\ toBdi # <<>> /\ Head(toBdi).kind = "command" => Fit(Head(toBdi).cmd)
  /\ at \notin Deaf /\ toHost # <<>> => Tells(Head(toHost), store)
  /\ ret = "answer" => Tells(answer, store)
  /\ stage = "check" /\ Answered =>
       /\ Head(todo).op = "enable" => Spoilt \/ isp
       /\ Head(todo).op = "wipe" => Spoilt \/ NotOld

\* The rest of a script, with what is stored: the logic is erased in ISP mode, and before
\* the trigger is programmed.
LogicRest(s) ==
  /\ Wipes(s) => Spoilt \/ isp \/ Head(s).op = "enable"
  /\ Has(s, 4) => Spoilt \/ NotOld \/ Wipes(s)
  /\ Restarts(s) => ~Wipes(s) /\ ~Has(s, 4)

\* The init list is programmed after the mode was erased, and before the mode.
ConfigRest(s) ==
  /\ ProgramsByte(s, InitList) => store[ModeList] # "new" \/ Erases(s, ModeList)
  /\ ProgramsByte(s, ModeList) =>
       ProgramsByte(s, InitList) \/ (store[InitList] = "new" /\ ~Erases(s, InitList))

\* While no step has failed, what the program is to leave behind is there to stay or
\* will be read back.
Settled(s, x) == store[x] = "new" /\ Unwritten(s, x)

ReadRest(s) ==
  result = "none" =>
    /\ task = "config" =>
         \A x \in {Network, InitList, ModeList} : Settled(s, x) \/ WillRead(s, x)
    /\ task = "update" =>
         /\ Settled(s, Trigger) \/ Has(s, 4)
         /\ \/ current /\ Settled(s, Ues)
            \/ \A x \in Sector("logic") : Settled(s, x) \/ WillRead(s, x)

WorkFits ==
  stage \in {"work", "check"} =>
    /\ LogicRest(todo) /\ ConfigRest(todo) /\ ReadRest(todo)
    /\ task = "startup" => WritesNone(todo)

StoreFits ==
  /\ store[ModeList] = "new" => store[InitList] = "new"
  /\ store[Ues] \in {"erased", "new"} => NotOld

\* What a program that has returned 0 leaves behind.
Done ==
  /\ task = "config" => \A x \in {Network, InitList, ModeList} : store[x] = "new"
  /\ task = "update" =>
       /\ store[Trigger] = "new" /\ store[Ues] = "new"
       /\ current \/ \A x \in Fuses : store[x] = "new"

OverFits ==
  /\ stage \in {"idle", "over"} => at = "closed"
  /\ IF stage \in {"idle", "over"} THEN result = "okay" => toBdi = <<>> /\ Done
     ELSE result # "okay"
  /\ stage \in {"start", "version"} => command.op \in {"start", "version"} /\ command.cells = {}

WorkInv == SafeInv /\ WayFits /\ WorkFits /\ StoreFits /\ OverFits

-----------------------------------------------------------------------------
\* What carrying out a command does to the store, and to mode and ISP mode.
Effect(c) ==
  /\ \A x \in Cells : store'[x] # store[x] => x \in c.cells /\ c.op \in Writers /\ InLoader
  /\ \A x \in Cells : store'[x] = "old" => store[x] = "old"
  /\ c.op \in {"line", "ues"} =>
       \A x \in Cells : store'[x] \in {"erased", "new"} => store[x] \in {"erased", "new"}
  /\ c.op = "erase" /\ InLoader => \A x \in c.cells : store'[x] # "new"
  /\ c.op = "wipe" =>
       \A x \in c.cells : store'[x] = IF isp /\ InLoader THEN "erased" ELSE store[x]

Turns(c) ==
  /\ mode' # mode => c.op \in {"start", "exit"}
  /\ isp /\ ~isp' => c.op \in {"start", "exit", "disable"}
  /\ c.op = "enable" => isp' \/ mode = "firmware"

Executes(d) ==
  LET c == Head(toBdi).cmd IN
  /\ \E r : BdiAnswers(d, r)
  /\ UNCHANGED prog /\ Effect(c) /\ Turns(c) /\ Tells(Answer(c, d, TRUE), store')

LEMMA ContentNew ==
  ASSUME NEW cells, ContentOf(cells) = "new"
  PROVE  \A x \in cells : store[x] = "new"
<1> DEFINE seen == {store[c] : c \in cells}
<1>1. \E x \in Content : seen = {x}
  BY DEF ContentOf
<1>2. ContentOf(cells) = CHOOSE x \in Content : seen = {x}
  BY <1>1 DEF ContentOf
<1>3. seen = {"new"}
  BY <1>1, <1>2
<1>4. QED
  BY <1>3

\* Every answer of the BDI to a command comes with carrying it out.
LEMMA AnswerExecutes ==
  ASSUME SafeInv,
         \/ BdiStartsLoader \/ BdiKnowsNot \/ BdiTellsVersion \/ BdiErases \/ BdiPrograms
         \/ BdiReadsBack \/ BdiIsp \/ BdiExits \/ FlashFails \/ RowFails
  PROVE  \E d : Executes(d)
<1> DEFINE c == Head(toBdi).cmd
<1>1. \A op : AnswersTo(op) => c.op = op /\ c \in AllCommands
  BY KindTypes, WireTypes, SafeTypes, Loaded DEF AnswersTo, Types
<1>2. c \in AllCommands => c.cells \subseteq Cells
  BY DEF AllCommands
<1>3. mode \in {"loader", "firmware"} /\ isp \in BOOLEAN /\ Stored
  BY DEF SafeInv, ProgTypes
<1>4. \A good : BdiWrites(good) => \A x \in Cells : store'[x] = IF x \in c.cells THEN good[x] ELSE store[x]
  BY DEF BdiWrites, Target
<1> HIDE DEF c
<1>5. ASSUME NEW code, NEW what, NEW r, BdiAnswers(Data(code, what), r), UNCHANGED prog,
             Effect(c), Turns(c),
             c.op \in Readers /\ what = <<"new">> => \A x \in c.cells : store'[x] = "new",
             c.op = "version" /\ code # "unknown" => what = <<store'[Trigger], store'[Ues]>>
      PROVE  \E d : Executes(d)
  <2>1. Tells(Answer(c, Data(code, what), TRUE), store')
    BY <1>5 DEF Tells, Answer, Data
  <2>2. Executes(Data(code, what))
    BY <1>5, <2>1 DEF Executes, c
  <2>3. QED
    BY <2>2
<1>6. <<>> # <<"new">>
  OBVIOUS
<1>7. UNCHANGED store => Effect(c) \/ (c.op = "erase" /\ InLoader) \/ (c.op = "wipe" /\ InLoader /\ isp)
  BY DEF Effect
<1>8. UNCHANGED <<mode, isp>> => Turns(c) \/ (c.op = "enable" /\ InLoader)
  BY <1>3 DEF Turns, InLoader
<1>9. CASE BdiStartsLoader
  <2>1. c.op = "start" /\ UNCHANGED <<prog, store>>
    BY <1>1, <1>9 DEF BdiStartsLoader
  <2>2. PICK code : \E r : BdiAnswers(Data(code, <<>>), r)
    BY <1>9 DEF BdiStartsLoader, Says
  <2>3. Turns(c) /\ Effect(c)
    BY <1>7, <2>1 DEF Turns
  <2>4. QED
    BY <1>5, <1>6, <2>1, <2>2, <2>3 DEF Readers
<1>10. CASE BdiKnowsNot
  <2>1. BdiAnswers(Data("unknown", <<>>), bdiRate) /\ UNCHANGED <<prog, store, mode, isp>> /\ ~InLoader
    BY <1>10 DEF BdiKnowsNot, Says, bdi
  <2>2. Turns(c) /\ Effect(c)
    BY <1>7, <1>8, <2>1
  <2>3. QED
    BY <1>5, <1>6, <2>1, <2>2
<1>11. CASE BdiTellsVersion
  <2>1. /\ BdiAnswers(Data("ok", <<store[Trigger], store[Ues]>>), bdiRate)
        /\ UNCHANGED <<prog, store, mode, isp>> /\ c.op = "version"
    BY <1>1, <1>11 DEF BdiTellsVersion, Says, bdi
  <2>2. Turns(c) /\ Effect(c)
    BY <1>7, <1>8, <2>1
  <2>3. QED
    BY <1>5, <2>1, <2>2 DEF Readers
<1>12. CASE BdiReadsBack
  <2>1. PICK x : /\ BdiAnswers(Data("ok", <<x>>), bdiRate) /\ x \in {ContentOf(c.cells), "mixed"}
                 /\ UNCHANGED <<prog, store, mode, isp>> /\ c.op \in Readers
    BY <1>1, <1>12 DEF BdiReadsBack, Says, bdi, Target, c, Readers
  <2>2. Turns(c) /\ Effect(c)
    BY <1>7, <1>8, <2>1 DEF Readers
  <2>3. <<x>> = <<"new">> => \A y \in c.cells : store'[y] = "new"
    BY <2>1, ContentNew
  <2>4. QED
    BY <1>5, <2>1, <2>2, <2>3 DEF Readers
<1>13. CASE BdiExits
  <2>1. BdiAnswers(Data("ok", <<>>), DefaultRate) /\ UNCHANGED <<prog, store>> /\ c.op = "exit"
    BY <1>1, <1>13 DEF BdiExits
  <2>2. Turns(c) /\ Effect(c)
    BY <1>7, <2>1 DEF Turns
  <2>3. QED
    BY <1>5, <1>6, <2>1, <2>2 DEF Readers
<1>14. ASSUME NEW code, NEW good, BdiAnswers(Data(code, <<>>), bdiRate), BdiWrites(good),
              InLoader, c.op \in Writers, Effect(c)
       PROVE  \E d : Executes(d)
  <2>1. UNCHANGED <<prog, mode, isp>>
    BY <1>14 DEF BdiWrites
  <2>2. Turns(c)
    BY <1>8, <1>14, <2>1 DEF Writers
  <2>3. QED
    BY <1>5, <1>6, <1>14, <2>1, <2>2 DEF Writers
<1>15. ASSUME NEW code, NEW v \in {"erased", "mixed"}, BdiAnswers(Data(code, <<>>), bdiRate),
              BdiWrites([x \in Cells |-> v]), InLoader, c.op \in {"erase", "program", "line"},
              c \in AllCommands, c.op = "line" => v = "mixed"
       PROVE  \E d : Executes(d)
  <2>1. \A x \in Cells : store'[x] = IF x \in c.cells THEN v ELSE store[x]
    BY <1>4, <1>15
  <2>2. Effect(c)
    BY <1>2, <1>15, <2>1 DEF Effect, Writers
  <2>3. QED
    BY <1>14, <1>15, <2>2 DEF Writers
<1>16. \A x \in Content : Written(x) # "old" /\ (Written(x) \in {"erased", "new"} => x \in {"erased", "new"})
  BY DEF Written
<1>17. CASE BdiPrograms
  <2>1. PICK code : BdiAnswers(Data(code, <<>>), bdiRate)
    BY <1>17 DEF BdiPrograms, Says
  <2>2. /\ InLoader /\ c.op = "program" /\ c \in AllCommands
        /\ BdiWrites([x \in Cells |-> Written(store[x])])
    BY <1>1, <1>17 DEF BdiPrograms
  <2>3. \A x \in Cells : store'[x] = IF x \in c.cells THEN Written(store[x]) ELSE store[x]
    BY <1>4, <2>2
  <2>4. Effect(c)
    BY <1>3, <1>16, <2>2, <2>3 DEF Effect, Writers, Stored
  <2>5. QED
    BY <1>14, <2>1, <2>2, <2>4 DEF Writers
<1>18. CASE BdiErases \/ FlashFails \/ RowFails
  <2>1. CASE BdiErases
    BY <1>1, <1>15, <2>1 DEF BdiErases, Says
  <2>2. CASE FlashFails
    BY <1>1, <1>15, <2>2 DEF FlashFails
  <2>3. CASE RowFails
    BY <1>1, <1>15, <2>3 DEF RowFails
  <2>4. QED
    BY <1>18, <2>1, <2>2, <2>3
<1>19. CASE BdiIsp
  <2>1. BdiAnswers(Data("ok", <<>>), bdiRate) /\ InLoader
    BY <1>19 DEF BdiIsp, Says
  <2>2. CASE AnswersTo("enable") \/ AnswersTo("disable")
    <3>1. c.op \in {"enable", "disable"}
      BY <1>1, <2>2
    <3>2. UNCHANGED <<prog, store, mode>> /\ (c.op = "enable" => isp')
      BY <1>1, <1>19, <3>1 DEF BdiIsp, bdi
    <3>3. Turns(c) /\ Effect(c)
      BY <1>7, <3>1, <3>2 DEF Turns
    <3>4. QED
      BY <1>5, <1>6, <2>1, <3>1, <3>2, <3>3 DEF Readers
  <2>3. CASE AnswersTo("id")
    <3>1. c.op = "id" /\ UNCHANGED <<prog, store, mode, isp>>
      BY <1>1, <1>19, <2>3 DEF BdiIsp, bdi
    <3>2. Turns(c) /\ Effect(c)
      BY <1>7, <1>8, <3>1
    <3>3. QED
      BY <1>5, <1>6, <2>1, <3>1, <3>2 DEF Readers
  <2>4. CASE AnswersTo("wipe")
    <3>1. /\ c.op = "wipe" /\ c \in AllCommands
          /\ BdiWrites([x \in Cells |-> IF isp THEN "erased" ELSE store[x]])
      BY <1>1, <1>19, <2>4 DEF BdiIsp
    <3>2. \A x \in Cells : store'[x] = IF x \in c.cells /\ isp THEN "erased" ELSE store[x]
      BY <1>4, <3>1
    <3>3. Effect(c)
      BY <1>2, <2>1, <3>1, <3>2 DEF Effect, Writers
    <3>4. QED
      BY <1>14, <2>1, <3>1, <3>3 DEF Writers
  <2>5. CASE AnswersTo("line") \/ AnswersTo("ues")
    <3>1. /\ c.op \in {"line", "ues"}
          /\ BdiWrites([x \in Cells |-> IF isp THEN Written(store[x]) ELSE store[x]])
      BY <1>1, <1>19, <2>5 DEF BdiIsp
    <3>2. \A x \in Cells : store'[x] = IF x \in c.cells /\ isp THEN Written(store[x]) ELSE store[x]
      BY <1>4, <3>1
    <3>3. Effect(c)
      BY <1>3, <1>16, <2>1, <3>1, <3>2 DEF Effect, Writers, Stored
    <3>4. QED
      BY <1>14, <2>1, <3>1, <3>3 DEF Writers
  <2>6. QED
    BY <1>19, <2>2, <2>3, <2>4, <2>5 DEF BdiIsp
<1>20. QED
  BY <1>9, <1>10, <1>11, <1>12, <1>13, <1>17, <1>18, <1>19

-----------------------------------------------------------------------------
(* The step of the BDI.                                                    *)

\* The command that heads the script, and the commands after it.
Heads(c) ==
  /\ todo # <<>> /\ c = Head(todo) /\ c \in AllCommands /\ Proper(c)
  /\ ToSet(todo) = {c} \cup ToSet(Tail(todo))
  /\ \A d \in ToSet(Tail(todo)) : Proper(d) /\ Precedes(c, d)

LEMMA HeadsScript == SafeInv /\ stage = "check" => Heads(Head(todo))
<1> SUFFICES ASSUME SafeInv, stage = "check" PROVE Heads(Head(todo))
  OBVIOUS
<1>1. todo \in Seq(AllCommands) /\ todo # <<>> /\ Sound(todo)
  BY DEF SafeInv, ProgTypes, Scripted, RestFits
<1>2. /\ Head(todo) \in AllCommands /\ ToSet(todo) = {Head(todo)} \cup ToSet(Tail(todo))
      /\ \A d \in ToSet(Tail(todo)) : Precedes(Head(todo), d)
  BY <1>1, TailOf, Zenon DEF Sound
<1>3. QED
  BY <1>1, <1>2 DEF Heads, Sound

\* What a command that heads a script tells of the others.
LEMMA HeadTells ==
  ASSUME NEW c, Heads(c)
  PROVE  /\ \A x : c.op = "program" /\ x \in c.cells => ~Erases(todo, x)
         /\ c.op = "program" /\ ModeList \in c.cells => ~ProgramsByte(todo, InitList)
         /\ Wipes(todo) => c.op \in {"enable", "id", "wipe"}
<1>1. \A d \in ToSet(Tail(todo)) : Follows(c, d)
  BY DEF Heads, Precedes
<1>2. ASSUME NEW x, c.op = "program", x \in c.cells, NEW d \in ToSet(todo), d.op = "erase", x \in d.cells
      PROVE  FALSE
  <2>1. d \in ToSet(Tail(todo))
    BY <1>2 DEF Heads
  <2>2. Grade(c) = 2 /\ Grade(d) = 1
    BY <1>2 DEF Grade, Readers
  <2>3. QED
    BY <1>1, <1>2, <2>1, <2>2 DEF Follows
<1>3. ASSUME c.op = "program", ModeList \in c.cells, NEW d \in ToSet(todo), d.op = "program",
             InitList \in d.cells
      PROVE  FALSE
  BY <1>1, <1>3 DEF Heads, Follows, Proper, Legit
<1>4. ASSUME Wipes(todo) PROVE c.op \in {"enable", "id", "wipe"}
  BY <1>1, <1>4 DEF Heads, Follows, Wipes
<1>5. QED
  BY <1>2, <1>3, <1>4 DEF Erases, ProgramsByte

\* The command the program gives next fits what is stored.
LEMMA NextFits ==
  ASSUME SafeInv, WorkFits, stage = "check"
  PROVE  Fit(Head(todo))
<1> DEFINE c == Head(todo)
<1>1. Heads(c) /\ LogicRest(todo) /\ ConfigRest(todo)
  BY HeadsScript DEF WorkFits
<1> HIDE DEF c
<1>2. \A d \in ToSet(todo) : Proper(d)
  BY <1>1 DEF Heads
<1>3. ASSUME c.op = "program", InitList \in c.cells PROVE store[ModeList] # "new"
  <2>1. ~Erases(todo, InitList)
    BY <1>1, <1>3, HeadTells
  <2>2. ~Erases(todo, ModeList)
    BY <1>2, <2>1 DEF Erases, Proper, Legit
  <2>3. ProgramsByte(todo, InitList)
    BY <1>1, <1>3 DEF ProgramsByte, Heads
  <2>4. QED
    BY <1>1, <2>2, <2>3 DEF ConfigRest
<1>4. ASSUME c.op = "program", ModeList \in c.cells PROVE store[InitList] = "new"
  <2>1. ~ProgramsByte(todo, InitList) /\ ProgramsByte(todo, ModeList)
    BY <1>1, <1>4, HeadTells DEF ProgramsByte, Heads
  <2>2. QED
    BY <1>1, <2>1 DEF ConfigRest
<1>5. ASSUME Touches(c), Rank(c) = 4 PROVE Spoilt \/ NotOld
  <2>1. c.op \in {"erase", "program"}
    BY <1>1, <1>5 DEF Heads, Proper
  <2>2. ~Wipes(todo) /\ Has(todo, 4)
    BY <1>1, <1>5, <2>1, HeadTells DEF Has, Heads
  <2>3. QED
    BY <1>1, <2>2 DEF LogicRest
<1>6. QED
  BY <1>3, <1>4, <1>5 DEF Fit, c

\* How an answer to a command finds the program, which gave the command if it waits.
LEMMA Answering ==
  ASSUME WorkInv, NEW d, Executes(d)
  PROVE  LET c == Head(toBdi).cmd IN
         /\ c \in AllCommands /\ Proper(c) /\ Fit(c)
         /\ UNCHANGED <<at, command, ret, stage, task, tries, todo, result, current, cut>>
         /\ toBdi # <<>> /\ toBdi' = <<>> /\ ret # "answer"
         /\ at' \notin Deaf /\ toHost' # <<>> => Tells(Head(toHost'), store')
         /\ stage # "work" /\ (stage = "check" => at = "wait" /\ c = Head(todo) /\ Heads(c))
<1> DEFINE f == Head(toBdi)
           c == f.cmd
<1>1. PICK r : BdiAnswers(d, r)
  BY DEF Executes
<1>2. /\ toBdi # <<>> /\ f.kind = "command" /\ toBdi' = Tail(toBdi)
      /\ toHost' = Put(toHost, Answer(c, d, f.own), bdiRate, rate)
      /\ UNCHANGED <<at, command, ret, stage, task, tries, todo, result, current, cut>>
  BY <1>1 DEF BdiAnswers, BdiReads, port, call, prog, hist, Executes
<1>3. SafeInv /\ OneFrame /\ Types /\ StageFits /\ Underway /\ WayFits
  BY SafeTypes DEF WorkInv, SafeInv
<1>4. /\ toHost = <<>> \/ at \in Deaf
      /\ toBdi' = <<>> /\ f \in BdiFrames /\ BdiFits(f)
  BY <1>2, <1>3, Reading DEF Quiet
<1>5. c \in AllCommands /\ Proper(c) /\ Fit(c)
  BY <1>2, <1>3, <1>4, KindTypes, Loaded DEF Underway, WayFits, Safe
<1>6. ret # "answer" /\ at \notin {"ready", "send"} /\ (at = "wait" => c = command)
  BY <1>2, <1>4 DEF BdiFits
<1>7. at' \in Deaf \/ toHost' = <<>> \/ toHost' = <<Answer(c, d, f.own)>>
  BY <1>2, <1>4, One
<1>8. at' \notin Deaf /\ toHost' # <<>> => Tells(Head(toHost'), store')
  <2>1. at' \notin Deaf /\ toHost' # <<>> => Head(toHost') = Answer(c, d, f.own)
    BY <1>7, One
  <2>2. Tells(Answer(c, d, TRUE), store')
    BY DEF Executes
  <2>3. QED
    BY <2>1, <2>2 DEF Tells, Answer
<1>9. stage # "work" /\ (stage = "check" => at = "wait" /\ c = Head(todo) /\ Heads(c))
  BY <1>3, <1>6, HeadsScript DEF StageFits
<1>10. QED
  BY <1>2, <1>4, <1>5, <1>6, <1>8, <1>9

\* Cells a command does not write keep their content; init list and mode, and the logic,
\* are written as follows.
LEMMA EffectOn ==
  ASSUME NEW c \in AllCommands, Proper(c), Effect(c)
  PROVE  /\ NotOld => NotOld'
         /\ \A x \in Cells : x \notin c.cells \/ c.op \notin Writers => store'[x] = store[x]
         /\ \A x \in {InitList, ModeList} : store'[x] # store[x] =>
              /\ c.op \in {"erase", "program"} /\ x \in c.cells
              /\ c.op = "erase" => store'[InitList] # "new" /\ store'[ModeList] # "new"
         /\ store'[Ues] # store[Ues] /\ store'[Ues] \in {"erased", "new"} =>
              store[Ues] \in {"erased", "new"} \/ NotOld'
<1>1. /\ Fuses \subseteq Cells /\ Ues \in Cells /\ InitList \in Cells /\ ModeList \in Cells
      /\ Sector("logic") = Fuses \cup {Ues}
      /\ InitList \notin Sector("logic") /\ ModeList \notin Sector("logic")
  BY PartsDiffer
<1>2. Legit(c)
  BY DEF Proper
<1>3. NotOld => NotOld'
  BY <1>1 DEF NotOld, Effect
<1>4. \A x \in Cells : x \notin c.cells \/ c.op \notin Writers => store'[x] = store[x]
  BY DEF Effect
<1>5. ASSUME NEW x \in {InitList, ModeList}, store'[x] # store[x]
      PROVE  /\ c.op \in {"erase", "program"} /\ x \in c.cells
             /\ c.op = "erase" => store'[InitList] # "new" /\ store'[ModeList] # "new"
  <2>1. x \in c.cells /\ c.op \in Writers /\ InLoader
    BY <1>1, <1>5 DEF Effect
  <2>2. c.op \in {"erase", "program"}
    BY <1>1, <1>2, <2>1 DEF Legit, Writers
  <2>3. c.op = "erase" => InitList \in c.cells /\ ModeList \in c.cells
    BY <1>2, <2>1 DEF Legit
  <2>4. QED
    BY <2>1, <2>2, <2>3 DEF Effect
<1>6. ASSUME store'[Ues] # store[Ues], store'[Ues] \in {"erased", "new"}
      PROVE  store[Ues] \in {"erased", "new"} \/ NotOld'
  <2>1. Ues \in c.cells /\ c.op \in Writers
    BY <1>1, <1>6 DEF Effect
  <2>2. c.op \in {"wipe", "line", "ues"}
    BY <1>1, <1>2, <2>1 DEF Legit, Writers
  <2>3. CASE c.op \in {"line", "ues"}
    BY <1>1, <1>6, <2>3 DEF Effect
  <2>4. CASE c.op = "wipe"
    <3>1. c.cells = Sector("logic")
      BY <1>2, <2>4 DEF Legit
    <3>2. isp /\ InLoader
      BY <1>6, <2>1, <2>4 DEF Effect
    <3>3. \A x \in Fuses : store'[x] = "erased"
      BY <1>1, <2>4, <3>1, <3>2 DEF Effect
    <3>4. QED
      BY <3>3 DEF NotOld
  <2>5. QED
    BY <2>2, <2>3, <2>4
<1>7. QED
  BY <1>3, <1>4, <1>5, <1>6

LEMMA AnswerStoreFits ==
  ASSUME NEW c \in AllCommands, Proper(c), Fit(c), Effect(c), StoreFits
  PROVE  StoreFits'
<1>1. InitList \in Cells /\ ModeList \in Cells
  BY PartsDiffer
<1>2. ASSUME store'[ModeList] = "new" PROVE store'[InitList] = "new"
  <2>1. CASE store'[ModeList] = store[ModeList]
    <3>1. store[ModeList] = "new" /\ store[InitList] = "new"
      BY <1>2, <2>1 DEF StoreFits
    <3>2. store'[InitList] = store[InitList]
      BY <1>2, <3>1, EffectOn DEF Fit
    <3>3. QED
      BY <3>1, <3>2
  <2>2. CASE store'[ModeList] # store[ModeList]
    <3>1. c.op = "program" /\ ModeList \in c.cells
      BY <1>2, <2>2, EffectOn
    <3>2. store[InitList] = "new" /\ InitList \notin c.cells
      BY <3>1 DEF Fit, Proper, Legit
    <3>3. QED
      BY <1>1, <3>2, EffectOn
  <2>3. QED
    BY <2>1, <2>2
<1>3. ASSUME store'[Ues] \in {"erased", "new"} PROVE NotOld'
  <2>1. store'[Ues] = store[Ues] => NotOld
    BY <1>3 DEF StoreFits
  <2>2. QED
    BY <1>3, <2>1, EffectOn DEF StoreFits
<1>4. QED
  BY <1>2, <1>3 DEF StoreFits

\* The way into ISP mode and the erasure of the logic, when they are carried out.
LEMMA AnswerWayFits ==
  ASSUME WorkInv, NEW d, Executes(d)
  PROVE  WayFits'
<1> DEFINE c == Head(toBdi).cmd
<1>1. /\ UNCHANGED <<ret, stage, todo, cut>> /\ c \in AllCommands /\ Proper(c)
      /\ toBdi' = <<>> /\ ret # "answer"
      /\ at' \notin Deaf /\ toHost' # <<>> => Tells(Head(toHost'), store')
      /\ stage = "check" => c = Head(todo) /\ Heads(c)
  BY Answering, Zenon
<1>2. Effect(c) /\ Turns(c)
  BY DEF Executes
<1>3. mode \in {"loader", "firmware"} /\ WorkFits
  BY DEF WorkInv, SafeInv, ProgTypes
<1> HIDE DEF c
<1>4. ASSUME stage = "check", Head(todo).op = "enable" PROVE Spoilt' \/ isp'
  BY <1>1, <1>2, <1>4 DEF Turns, Spoilt
<1>5. ASSUME stage = "check", Head(todo).op = "wipe" PROVE Spoilt' \/ NotOld'
  <2>1. c.op = "wipe" /\ Wipes(todo)
    BY <1>1, <1>5 DEF Wipes, Heads
  <2>2. Spoilt \/ isp
    BY <1>1, <1>3, <1>5, <2>1 DEF WorkFits, LogicRest
  <2>3. CASE Spoilt
    BY <1>1, <1>2, <2>1, <2>3 DEF Turns, Spoilt
  <2>4. CASE isp /\ InLoader
    <3>1. c.cells = Sector("logic")
      BY <1>1, <2>1 DEF Proper, Legit
    <3>2. \A x \in Fuses : store'[x] = "erased"
      BY <1>2, <2>1, <2>4, <3>1, PartsDiffer DEF Effect
    <3>3. QED
      BY <3>2 DEF NotOld
  <2>5. QED
    BY <1>3, <2>2, <2>3, <2>4 DEF Spoilt, InLoader
<1>6. QED
  BY <1>1, <1>4, <1>5 DEF WayFits

\* The rest of the script fits when the command that heads it is carried out.
LEMMA AnswerWorkFits ==
  ASSUME WorkInv, NEW d, Executes(d)
  PROVE  WorkFits'
<1> DEFINE c == Head(toBdi).cmd
<1>1. /\ UNCHANGED <<stage, task, todo, result, current, cut>> /\ c \in AllCommands /\ Proper(c)
      /\ stage # "work" /\ (stage = "check" => c = Head(todo) /\ Heads(c))
  BY Answering, Zenon
<1>2. Effect(c) /\ Turns(c)
  BY DEF Executes
<1>3. WorkFits
  BY DEF WorkInv
<1> HIDE DEF c
<1> SUFFICES ASSUME stage = "check"
             PROVE  LogicRest(todo)' /\ ConfigRest(todo)' /\ ReadRest(todo)'
  BY <1>1, <1>3 DEF WorkFits
<1>4. Heads(c) /\ c = Head(todo) /\ LogicRest(todo) /\ ConfigRest(todo) /\ ReadRest(todo)
  BY <1>1, <1>3 DEF WorkFits
<1>5. c \in ToSet(todo)
  BY <1>4 DEF Heads
<1>6. Spoilt /\ ~Restarts(todo) => Spoilt'
  BY <1>1, <1>2, <1>5 DEF Restarts, Turns, Spoilt
<1>7. LogicRest(todo)'
  <2>1. ASSUME Wipes(todo) PROVE Spoilt' \/ isp' \/ Head(todo).op = "enable"
    <3>1. Spoilt \/ isp \/ Head(todo).op = "enable"
      BY <1>4, <2>1 DEF LogicRest
    <3>2. ~Restarts(todo)
      BY <1>4, <2>1 DEF LogicRest
    <3>3. c.op \in {"enable", "id", "wipe"}
      BY <1>4, <2>1, HeadTells
    <3>4. isp => isp'
      BY <1>2, <3>3 DEF Turns
    <3>5. QED
      BY <1>6, <3>1, <3>2, <3>4
  <2>2. ASSUME Has(todo, 4) PROVE Spoilt' \/ NotOld' \/ Wipes(todo)
    <3>1. ~Restarts(todo) /\ (Spoilt \/ NotOld \/ Wipes(todo))
      BY <1>4, <2>2 DEF LogicRest
    <3>2. NotOld => NotOld'
      BY <1>1, <1>2, EffectOn
    <3>3. QED
      BY <1>6, <3>1, <3>2
  <2>3. QED
    BY <1>1, <1>4, <2>1, <2>2 DEF LogicRest
<1>8. ConfigRest(todo)'
  <2>1. ASSUME ProgramsByte(todo, InitList), ~Erases(todo, ModeList) PROVE store'[ModeList] # "new"
    <3>1. store[ModeList] # "new"
      BY <1>4, <2>1 DEF ConfigRest
    <3>2. ~(c.op = "program" /\ ModeList \in c.cells)
      BY <1>4, <2>1, HeadTells
    <3>3. ~(c.op = "erase" /\ ModeList \in c.cells)
      BY <1>5, <2>1 DEF Erases
    <3>4. store'[ModeList] = store[ModeList]
      BY <1>1, <1>2, <3>2, <3>3, EffectOn
    <3>5. QED
      BY <3>1, <3>4
  <2>2. ASSUME ProgramsByte(todo, ModeList), ~ProgramsByte(todo, InitList)
        PROVE  store'[InitList] = "new" /\ ~Erases(todo, InitList)
    <3>1. store[InitList] = "new" /\ ~Erases(todo, InitList)
      BY <1>4, <2>2 DEF ConfigRest
    <3>2. ~(c.op \in {"erase", "program"} /\ InitList \in c.cells)
      BY <1>5, <2>2, <3>1 DEF Erases, ProgramsByte
    <3>3. store'[InitList] = store[InitList]
      BY <1>1, <1>2, <3>2, EffectOn
    <3>4. QED
      BY <3>1, <3>3
  <2>3. QED
    BY <1>1, <2>1, <2>2 DEF ConfigRest
<1>9. ReadRest(todo)'
  <2>1. ASSUME NEW x \in Cells, Settled(todo, x) PROVE store'[x] = "new"
    <3>1. store[x] = "new" /\ (x \in c.cells => c.op \notin Writers)
      BY <1>5, <2>1 DEF Settled, Unwritten
    <3>2. QED
      BY <1>1, <1>2, <3>1, EffectOn
  <2>2. \A x \in Cells : Settled(todo, x) => Settled(todo, x)'
    BY <1>1, <2>1 DEF Settled, Unwritten
  <2>3. /\ \A x \in {Network, InitList, ModeList} : x \in Cells
        /\ Trigger \in Cells /\ Ues \in Cells /\ \A x \in Sector("logic") : x \in Cells
    BY PartsDiffer
  <2>4. QED
    BY <1>1, <1>4, <2>2, <2>3 DEF ReadRest
<1>10. QED
  BY <1>7, <1>8, <1>9

LEMMA AnswerFits ==
  ASSUME WorkInv, NEW d, Executes(d)
  PROVE  WayFits' /\ WorkFits' /\ StoreFits' /\ OverFits'
<1> DEFINE c == Head(toBdi).cmd
<1>1. /\ UNCHANGED <<at, command, stage, task, result, current>> /\ toBdi # <<>>
      /\ c \in AllCommands /\ Proper(c) /\ Fit(c) /\ Effect(c) /\ StoreFits /\ OverFits
  BY Answering, Zenon DEF Executes, WorkInv
<1> HIDE DEF c
<1>2. StoreFits'
  BY <1>1, AnswerStoreFits
<1>3. OverFits'
  BY <1>1 DEF OverFits
<1>4. QED
  BY <1>2, <1>3, AnswerWayFits, AnswerWorkFits
-----------------------------------------------------------------------------
(* The steps that store nothing.                                           *)

\* ISP mode is lost only with the BDI's supply, and what has been answered stays so.
Steady ==
  /\ Still
  /\ Spoilt => Spoilt' \/ (stage' = "work" /\ toBdi' = <<>>)
  /\ stage' = "check" => UNCHANGED todo /\ (isp => Spoilt' \/ isp')
  /\ stage' = "check" /\ Answered' => stage = "check" /\ Answered

LEMMA SteadyFits ==
  ASSUME WorkInv, Steady
  PROVE  WayFits' /\ StoreFits'
<1>1. WayFits /\ StoreFits /\ Still /\ UNCHANGED store
  BY DEF WorkInv, Steady, Still
<1>2. StoreFits'
  BY <1>1 DEF StoreFits, NotOld
<1>3. NotOld => NotOld'
  BY <1>1 DEF NotOld
<1>4. \A c : Fit(c) /\ (Spoilt => Spoilt') => Fit(c)'
  BY <1>1, <1>3 DEF Fit
<1>5. toBdi' # <<>> /\ Head(toBdi').kind = "command" => Fit(Head(toBdi').cmd) /\ (Spoilt => Spoilt')
  BY <1>1 DEF WayFits, Still, Steady
<1>6. toBdi' # <<>> /\ Head(toBdi').kind = "command" => Fit(Head(toBdi).cmd)'
  BY <1>4, <1>5
<1>7. at' \notin Deaf /\ toHost' # <<>> => Tells(Head(toHost'), store')
  BY <1>1 DEF WayFits, Still, Tells
<1>8. ret' = "answer" => Tells(answer', store')
  BY <1>1 DEF WayFits, Still
<1>9. ASSUME stage' = "check", Answered'
      PROVE  /\ Head(todo').op = "enable" => Spoilt' \/ isp'
             /\ Head(todo').op = "wipe" => Spoilt' \/ NotOld'
  <2>1. /\ Head(todo').op = "enable" => Spoilt \/ isp
        /\ Head(todo').op = "wipe" => Spoilt \/ NotOld
    BY <1>1, <1>9 DEF Steady, WayFits
  <2>2. Spoilt => Spoilt'
    BY <1>9 DEF Steady
  <2>3. QED
    BY <1>3, <1>9, <2>1, <2>2 DEF Steady
<1>10. QED
  BY <1>2, <1>6, <1>7, <1>8, <1>9 DEF WayFits

\* The rest of the script fits still when nothing it is about has changed.
LEMMA WorkStays ==
  ASSUME WorkInv, stage' \in {"work", "check"} => stage \in {"work", "check"},
         Spoilt => Spoilt', isp => isp' \/ Spoilt',
         UNCHANGED <<task, todo, result, current, store>>
  PROVE  WorkFits'
<1>1. NotOld => NotOld'
  BY DEF NotOld
<1>2. WorkFits /\ (stage' \in {"work", "check"} => stage \in {"work", "check"})
  BY DEF WorkInv
<1>3. LogicRest(todo) => LogicRest(todo)'
  BY <1>1 DEF LogicRest
<1>4. ConfigRest(todo) => ConfigRest(todo)'
  BY DEF ConfigRest
<1>5. ReadRest(todo) => ReadRest(todo)'
  BY DEF ReadRest, Settled
<1>6. QED
  BY <1>2, <1>3, <1>4, <1>5 DEF WorkFits

\* The library, the link and the accidents of the wires go on with what there is.
LEMMA LinkFits ==
  ASSUME WorkInv, SafeInv', UNCHANGED <<prog, bdi>>,
         \/ HostSteps /\ ~SendCommand
         \/ BdiLinkSteps \/ WireFaults \/ SendFails
         \/ \E s \in Attentions : BdiCallsAttention(s)
  PROVE  WayFits' /\ WorkFits' /\ StoreFits' /\ OverFits'
<1>1. /\ SafeInv /\ Calm /\ Calm' /\ Inv /\ OverFits
      /\ UNCHANGED <<stage, task, tries, todo, result, current, cut, mode, isp, store, type>>
  BY DEF WorkInv, SafeInv, prog, hist, bdi
<1>2. Still
  BY <1>1, LinkIsStill
<1> DEFINE Deeds == \/ ProbeAnswered \/ ProbeFails \/ RateConfirmed \/ RateRefused
                    \/ ConfirmAnswered \/ ConfirmFails \/ Exhausted \/ AnswerTaken
                    \/ AnswerDamaged \/ AnswerTimesOut \/ BdiResets \/ BdiChangesRate
                    \/ FrameLost \/ FrameDamaged \/ SendFails
                    \/ \E s \in Attentions : BdiCallsAttention(s)
<1> USE DEF ProbeAnswered, ProbeFails, RateConfirmed, RateRefused, ConfirmAnswered,
            ConfirmFails, Exhausted, AnswerTaken, AnswerDamaged, AnswerTimesOut, BdiResets,
            BdiChangesRate, BdiReads, FrameLost, FrameDamaged, SendFails, BdiCallsAttention,
            Returns, Connected, port, call
<1>3. Deeds /\ ret' = "answer" =>
        ret = "answer" \/ (at = "wait" /\ toHost # <<>> /\ answer' = Head(toHost))
  OBVIOUS
<1>4. Deeds /\ at' = "wait" => at = "wait"
  OBVIOUS
<1>5. Deeds /\ at = "closed" => at' = "closed" /\ (toBdi = <<>> => toBdi' = <<>>)
  OBVIOUS
<1>6. Deeds => command' = command
  OBVIOUS
<1>7. Deeds
  BY DEF HostSteps, BdiLinkSteps, WireFaults
<1>8. ret' = "answer" => answer'.kind = "answer"
  BY DEF SafeInv, Inv, OwnInv, AnswersOwnCommand, Calm
<1>9. Answered' => Answered
  <2>1. CASE ret' = "answer"
    BY <1>7, <1>3, <1>8, <2>1 DEF Answered
  <2>2. CASE ret' # "answer"
    BY <1>7, <1>2, <1>4, <2>2 DEF Answered, Still, Deaf
  <2>3. QED
    BY <2>1, <2>2
<1>10. Steady
  BY <1>1, <1>2, <1>9 DEF Steady, Spoilt
<1>11. WorkFits'
  BY <1>1, WorkStays DEF Spoilt
<1>12. OverFits'
  BY <1>7, <1>1, <1>5, <1>6 DEF OverFits, Done
<1>13. QED
  BY <1>10, <1>11, <1>12, SteadyFits

\* A frame the program sends carries a command that fits.
LEMMA SentFits ==
  ASSUME WorkInv, SendCommand, UNCHANGED <<prog, bdi>>
  PROVE  WayFits' /\ WorkFits' /\ StoreFits' /\ OverFits'
<1>1. /\ SafeInv /\ OneFrame /\ StageFits /\ WorkFits /\ StoreFits /\ OverFits
      /\ at = "send" /\ ret # "answer"
      /\ UNCHANGED <<stage, task, tries, todo, result, current, cut, mode, isp, store>>
  BY SafeTypes DEF WorkInv, SafeInv, SendCommand, prog, hist, bdi
<1>2. /\ toBdi = <<>> /\ toHost' = <<>> /\ ret' = ret /\ command' = command /\ at' = "wait"
      /\ \E n : toBdi' = Put(toBdi, Command(command, n), rate, bdiRate)
  BY <1>1, Reading DEF SendCommand, FlushRxQueue
<1>3. stage \in {"start", "version", "check"}
  BY <1>1 DEF StageFits
<1>4. Fit(command)
  <2>1. CASE stage \in {"start", "version"}
    BY <1>1, <2>1 DEF OverFits, Fit, Touches
  <2>2. CASE stage = "check"
    BY <1>1, <2>2, NextFits DEF StageFits
  <2>3. QED
    BY <1>3, <2>1, <2>2
<1>5. toBdi' # <<>> => Head(toBdi').cmd = command
  BY <1>2, One DEF Command
<1>6. NotOld' = NotOld /\ Spoilt' = Spoilt
  BY <1>1 DEF NotOld, Spoilt
<1>7. Fit(command)'
  BY <1>1, <1>2, <1>4, <1>6 DEF Fit
<1>8. toBdi' # <<>> => Fit(Head(toBdi).cmd)'
  BY <1>2, <1>5, <1>7
<1>9. WayFits'
  BY <1>1, <1>2, <1>8 DEF WayFits, Answered
<1>10. WorkFits'
  BY <1>1, <1>6, WorkStays
<1>11. StoreFits' /\ OverFits'
  BY <1>1, <1>2, <1>3, <1>6 DEF StoreFits, OverFits, Done
<1>12. QED
  BY <1>9, <1>10, <1>11

\* The BDI loses its supply.
LEMMA PowerFits ==
  ASSUME WorkInv, Calm', PowerCycle
  PROVE  WayFits' /\ WorkFits' /\ StoreFits' /\ OverFits'
<1>1. /\ cut' = TRUE /\ toBdi' = <<>> /\ BdiRestarts
      /\ UNCHANGED <<at, command, ret, toHost, stage, task, todo, result, current, store, type>>
  BY DEF PowerCycle, BdiRestarts, port, call
<1>2. Still
  BY <1>1, LinkIsStill DEF WorkInv, SafeInv
<1>3. Spoilt'
  BY <1>1 DEF Spoilt
<1>4. Steady
  BY <1>1, <1>2, <1>3 DEF Steady, Answered
<1>5. WorkFits'
  BY <1>1, <1>3, WorkStays
<1>6. OverFits'
  BY <1>1 DEF WorkInv, OverFits, Done
<1>7. QED
  BY <1>4, <1>5, <1>6, SteadyFits

\* Where no script is worked on, or nothing is left of one that failed.
LEMMA AwayFits ==
  ASSUME WorkInv, Still, UNCHANGED <<cut, mode>>,
         \/ stage' \notin {"work", "check"}
         \/ stage' = "work" /\ todo' \in {<<>>, <<IspDisable>>} /\ result' = "error"
  PROVE  WayFits' /\ WorkFits' /\ StoreFits'
<1>1. Steady
  BY DEF Steady, Spoilt
<1>2. CASE stage' \notin {"work", "check"}
  BY <1>1, <1>2, SteadyFits DEF WorkFits
<1>3. CASE todo' \in {<<>>, <<IspDisable>>} /\ result' = "error"
  <2>1. ToSet(todo') \subseteq {IspDisable}
    <3>1. ToSet(<<>>) = {} /\ ToSet(<<IspDisable>>) = {IspDisable}
      BY EmptyOf, SingleOf
    <3>2. QED
      BY <1>3, <3>1
  <2>2. \A c \in ToSet(todo') : c.op = "disable"
    BY <2>1, NoCells
  <2>3. /\ ~Wipes(todo') /\ ~Restarts(todo') /\ ~Has(todo', 4) /\ WritesNone(todo')
        /\ \A x : ~ProgramsByte(todo', x)
    BY <2>2 DEF Wipes, Restarts, Has, Touches, WritesNone, Writers, ProgramsByte
  <2>4. LogicRest(todo)' /\ ConfigRest(todo)' /\ ReadRest(todo)'
    BY <1>3, <2>3 DEF LogicRest, ConfigRest, ReadRest
  <2>5. QED
    BY <1>1, <2>3, <2>4, SteadyFits DEF WorkFits
<1>4. QED
  BY <1>2, <1>3

\* A step that has passed has been carried out, and what it has read back is new.
LEMMA PassedTells ==
  ASSUME WorkInv, StepPasses
  PROVE  LET c == Head(todo) IN
         /\ Heads(c)
         /\ c.op = "erase" => \A x \in c.cells : store[x] = "erased"
         /\ c.op = "program" => \A x \in c.cells : store[x] = "new"
         /\ c.op \in Readers /\ task # "startup" => \A x \in c.cells : store[x] = "new"
         /\ c.op = "enable" => Spoilt \/ isp
         /\ c.op = "wipe" => Spoilt \/ NotOld
<1> DEFINE c == Head(todo)
<1>1. /\ SafeInv /\ StageFits /\ WayFits
      /\ stage = "check" /\ ret = "answer" /\ Accepted(c, answer)
  BY DEF WorkInv, SafeInv, StepPasses
<1>2. answer.kind = "answer" /\ answer.cmd = c /\ Tells(answer, store)
  BY <1>1, CalmInv DEF SafeInv, StageFits, WayFits
<1>3. c.op \in Readers /\ task # "startup" => answer.data.what = <<"new">>
  BY <1>1 DEF Accepted, Readers
<1>4. /\ c.op = "enable" => Spoilt \/ isp
      /\ c.op = "wipe" => Spoilt \/ NotOld
  BY <1>1 DEF WayFits, Answered
<1>5. Heads(c)
  BY <1>1, HeadsScript
<1>6. QED
  BY <1>1, <1>2, <1>3, <1>4, <1>5, PassedIsDone DEF Tells

LEMMA PassesWorkFits ==
  ASSUME WorkInv, StepPasses
  PROVE  WorkFits'
<1> DEFINE c == Head(todo)
           rest == Tail(todo)
<1>1. /\ stage = "check" /\ todo' = rest
      /\ UNCHANGED <<task, result, current, cut, mode, isp, store>> /\ WorkFits
  BY DEF WorkInv, StepPasses, hist, bdi
<1>2. /\ Heads(c)
      /\ c.op = "erase" => \A x \in c.cells : store[x] = "erased"
      /\ c.op = "program" => \A x \in c.cells : store[x] = "new"
      /\ c.op \in Readers /\ task # "startup" => \A x \in c.cells : store[x] = "new"
      /\ c.op = "enable" => Spoilt \/ isp
      /\ c.op = "wipe" => Spoilt \/ NotOld
  BY PassedTells
<1>3. /\ ToSet(todo) = {c} \cup ToSet(rest) /\ Proper(c)
      /\ \A d \in ToSet(rest) : Precedes(c, d) /\ Follows(c, d)
  BY <1>2 DEF Heads, Precedes
<1>4. /\ LogicRest(todo) /\ ConfigRest(todo) /\ ReadRest(todo)
      /\ task = "startup" => WritesNone(todo)
  BY <1>1 DEF WorkFits
<1>5. (c.op = "enable") = (Head(todo).op = "enable")
  OBVIOUS
<1> HIDE DEF c, rest
<1>6. LogicRest(rest)
  <2>1. ASSUME Wipes(rest) PROVE Spoilt \/ isp
    <3>1. Wipes(todo)
      BY <1>3, <2>1 DEF Wipes
    <3>2. QED
      BY <1>2, <1>4, <1>5, <3>1 DEF LogicRest
  <2>2. ASSUME Has(rest, 4), ~Wipes(rest) PROVE Spoilt \/ NotOld
    <3>1. Has(todo, 4)
      BY <1>3, <2>2 DEF Has
    <3>2. Wipes(todo) => c.op = "wipe"
      BY <1>3, <2>2 DEF Wipes
    <3>3. QED
      BY <1>2, <1>4, <3>1, <3>2 DEF LogicRest
  <2>3. ASSUME Restarts(rest) PROVE ~Wipes(rest) /\ ~Has(rest, 4)
    BY <1>3, <1>4, <2>3 DEF LogicRest, Restarts, Wipes, Has
  <2>4. QED
    BY <2>1, <2>2, <2>3 DEF LogicRest
<1>7. ConfigRest(rest)
  <2>1. ASSUME ProgramsByte(rest, InitList), ~Erases(rest, ModeList) PROVE store[ModeList] # "new"
    <3>1. ProgramsByte(todo, InitList)
      BY <1>3, <2>1 DEF ProgramsByte
    <3>2. Erases(todo, ModeList) => c.op = "erase" /\ ModeList \in c.cells
      BY <1>3, <2>1 DEF Erases
    <3>3. QED
      BY <1>2, <1>4, <3>1, <3>2 DEF ConfigRest
  <2>2. ASSUME ProgramsByte(rest, ModeList), ~ProgramsByte(rest, InitList)
        PROVE  store[InitList] = "new" /\ ~Erases(rest, InitList)
    <3>1. ProgramsByte(todo, ModeList)
      BY <1>3, <2>2 DEF ProgramsByte
    <3>2. ProgramsByte(todo, InitList) => c.op = "program" /\ InitList \in c.cells
      BY <1>3, <2>2 DEF ProgramsByte
    <3>3. Erases(rest, InitList) => Erases(todo, InitList)
      BY <1>3 DEF Erases
    <3>4. c.op = "program" /\ InitList \in c.cells => ~Erases(todo, InitList)
      BY <1>2, HeadTells
    <3>5. QED
      BY <1>2, <1>4, <3>1, <3>2, <3>3, <3>4 DEF ConfigRest
  <2>3. QED
    BY <2>1, <2>2 DEF ConfigRest
<1>8. \A x : Settled(todo, x) => Settled(rest, x)
  BY <1>3 DEF Settled, Unwritten
<1>9. ASSUME task # "startup", NEW x, WillRead(todo, x), ~WillRead(rest, x) PROVE Settled(rest, x)
  <2>1. c.op \in Readers /\ x \in c.cells
    BY <1>3, <1>9 DEF WillRead
  <2>2. ASSUME NEW d \in ToSet(rest), x \in d.cells PROVE d.op \notin Writers
    <3>1. Grade(c) = 3 /\ Grade(c) <= Grade(d)
      BY <1>3, <2>1, <2>2 DEF Follows, Grade, Readers
    <3>2. QED
      BY <3>1 DEF Grade, Readers, Writers
  <2>3. QED
    BY <1>2, <1>9, <2>1, <2>2 DEF Settled, Unwritten
<1>10. ASSUME Has(todo, 4), ~Has(rest, 4) PROVE Settled(rest, Trigger)
  <2>1. Touches(c) /\ Rank(c) = 4
    BY <1>3, <1>10 DEF Has
  <2>2. c.op = "program" /\ Trigger \in c.cells
    BY <1>3, <2>1 DEF Proper, Rank
  <2>3. ASSUME NEW d \in ToSet(rest), Trigger \in d.cells, d.op \in Writers PROVE FALSE
    <3>1. Touches(d)
      BY <2>3, PartsDiffer DEF Touches, Writers
    <3>2. Rank(c) <= Rank(d)
      BY <1>3, <2>1, <3>1 DEF Precedes
    <3>3. Rank(d) = 4
      BY <2>1, <3>2, RankIs
    <3>4. QED
      BY <1>10, <2>3, <3>1, <3>3 DEF Has
  <2>4. QED
    BY <1>2, <2>2, <2>3 DEF Settled, Unwritten
<1>11. ReadRest(rest)
  BY <1>4, <1>8, <1>9, <1>10 DEF ReadRest
<1>12. task = "startup" => WritesNone(rest)
  BY <1>3, <1>4 DEF WritesNone
<1>13. LogicRest(todo)' /\ ConfigRest(todo)' /\ ReadRest(todo)'
  BY <1>1, <1>6, <1>7, <1>11 DEF LogicRest, ConfigRest, ReadRest, Settled, Spoilt, NotOld
<1>14. QED
  BY <1>1, <1>12, <1>13 DEF WorkFits

LEMMA FailsWorkFits ==
  ASSUME WorkInv, StepFails, task = "startup"
  PROVE  WorkFits'
<1>1. /\ WritesNone(todo) /\ ToSet(todo) = {Head(todo)} \cup ToSet(Tail(todo))
      /\ todo' = Tail(todo) /\ task' = task
  BY HeadsScript DEF WorkInv, WorkFits, StepFails, Remaining, Heads
<1>2. WritesNone(todo')
  BY <1>1 DEF WritesNone
<1>3. ~Wipes(todo') /\ ~Has(todo', 4) /\ \A x : ~ProgramsByte(todo', x)
  BY <1>2 DEF WritesNone, Writers, Wipes, Has, Touches, ProgramsByte
<1>4. LogicRest(todo)' /\ ConfigRest(todo)' /\ ReadRest(todo)'
  BY <1>1, <1>3 DEF LogicRest, ConfigRest, ReadRest
<1>5. QED
  BY <1>2, <1>4 DEF WorkFits

\* The script that is chosen fits what the loader has told.
LEMMA ChosenFits ==
  ASSUME WorkInv, VersionRead
  PROVE  WorkFits'
<1> DEFINE firmware == answer.data.what[1]
           logic == answer.data.what[2]
<1>1. /\ ret = "answer" /\ CodeOf(answer) = "version"
      /\ todo' = Script(task, firmware, logic) /\ current' = (logic = "new")
      /\ UNCHANGED <<task, result, mode, isp, store>>
  BY DEF VersionRead, bdi
<1>2. answer.kind = "answer" /\ answer.data.code # "unknown" /\ answer.cmd.op = "version"
  BY <1>1 DEF CodeOf
<1>3. answer.data.what = <<store[Trigger], store[Ues]>> /\ StoreFits /\ task \in Tasks
  BY <1>1, <1>2 DEF WorkInv, SafeInv, ProgTypes, WayFits, Tells, VersionRead
<1>4. firmware = store[Trigger] /\ logic = store[Ues]
  BY <1>3
<1> HIDE DEF firmware, logic
<1>5. Purposeful(task, firmware, logic, todo')
  BY <1>1, <1>3, ScriptFits
<1>6. logic = "new" => NotOld
  BY <1>3, <1>4 DEF StoreFits
<1>7. NotOld' = NotOld
  BY <1>1 DEF NotOld
<1>8. LogicRest(todo)'
  BY <1>5, <1>6, <1>7 DEF Purposeful, LogicRest
<1>9. ConfigRest(todo)'
  BY <1>5 DEF Purposeful, ConfigRest
<1>10. ReadRest(todo)'
  BY <1>1, <1>4, <1>5 DEF Purposeful, ReadRest, Settled
<1>11. QED
  BY <1>1, <1>5, <1>8, <1>9, <1>10 DEF WorkFits, Purposeful

\* A program that returns 0 leaves behind what it was started for.
LEMMA FinishFits ==
  ASSUME WorkInv, Finish
  PROVE  OverFits'
<1>1. /\ stage = "work" /\ todo = <<>> /\ at = "ready" /\ at' = "closed" /\ stage' = "over"
      /\ result' = (IF result = "none" THEN "okay" ELSE result)
      /\ UNCHANGED <<task, current, store>> /\ toBdi' = Disowned(toBdi)
  BY DEF Finish, Close, Ends, hist, bdi
<1>2. toBdi' = <<>>
  BY <1>1, Reading, One DEF WorkInv, SafeInv, Inv
<1>3. result \in {"none", "error"}
  BY <1>1 DEF WorkInv, SafeInv, ProgTypes, OverFits
<1>4. ToSet(<<>>) = {}
  BY EmptyOf
<1>5. ~Has(<<>>, 4) /\ \A x : ~WillRead(<<>>, x)
  BY <1>4 DEF Has, WillRead
<1>6. ReadRest(<<>>)
  BY <1>1 DEF WorkInv, WorkFits
<1>7. result = "none" => Done
  BY <1>5, <1>6, PartsDiffer DEF ReadRest, Settled, Done
<1>8. result = "none" => Done'
  BY <1>1, <1>7 DEF Done
<1>9. QED
  BY <1>1, <1>2, <1>3, <1>8 DEF OverFits

\* A step of the program stores nothing, and sends no command itself.
LEMMA ProgramIsStill ==
  ASSUME Calm, Inv, Calm', Program
  PROVE  Still /\ UNCHANGED <<mode, isp, store, type>>
<1>1. UNCHANGED <<mode, isp, store, type>>
  BY DEF Program, bdi, Begin, TryOpen, ConnectFails, StartLoader, LoaderStarts, Reopen,
     ReadVersion, LoaderFails, VersionRead, IssueStep, StepPasses, StepFails, Finish
<1>2. CASE Begin \/ ConnectFails \/ VersionRead \/ StepPasses \/ StepFails
  <2>1. UNCHANGED <<at, toBdi, toHost, ret, answer>>
    BY <1>2 DEF Begin, ConnectFails, VersionRead, StepPasses, StepFails, linkVars, port, call,
                wire
  <2>2. QED
    BY <1>1, <2>1, LinkIsStill
<1>3. CASE TryOpen \/ Reopen \/ LoaderStarts \/ LoaderFails \/ Finish
  <2>1. Open \/ OpenFails \/ Close
    BY <1>3 DEF TryOpen, Reopen, LoaderStarts, LoaderFails, Finish
  <2>2. QED
    BY <1>1, <2>1, LinkIsStill
<1>4. CASE StartLoader \/ ReadVersion \/ IssueStep
  <2>1. \E c : Issue(c)
    BY <1>4 DEF StartLoader, ReadVersion, IssueStep
  <2>2. QED
    BY <1>1, <2>1, LinkIsStill
<1>5. QED
  BY <1>1, <1>2, <1>3, <1>4 DEF Program

\* The steps of the program.
LEMMA ProgramWorks ==
  ASSUME WorkInv, Calm', Program
  PROVE  WayFits' /\ WorkFits' /\ StoreFits' /\ OverFits'
<1>1. /\ Calm /\ Inv /\ ProgTypes /\ OverFits /\ UNCHANGED <<mode, isp, store, type>>
  BY DEF WorkInv, SafeInv, Program, bdi, Begin, TryOpen, ConnectFails, StartLoader, LoaderStarts,
     Reopen, ReadVersion, LoaderFails, VersionRead, IssueStep, StepPasses, StepFails, Finish
<1>2. Still
  BY <1>1, ProgramIsStill
<1>3. CASE Begin \/ TryOpen \/ ConnectFails \/ StartLoader \/ LoaderStarts \/ Reopen \/ ReadVersion
             \/ LoaderFails \/ Finish
  <2>1. stage' \in {"opening", "start", "reopen", "version", "over"} /\ cut' = cut
    BY <1>3 DEF Begin, TryOpen, ConnectFails, StartLoader, LoaderStarts, Reopen, ReadVersion,
                LoaderFails, Finish, Ends, Goes, prog, hist
  <2>2. WayFits' /\ WorkFits' /\ StoreFits'
    BY <1>1, <1>2, <2>1, AwayFits
  <2>3. OverFits'
    <3>1. CASE Begin
      BY <3>1 DEF Begin, OverFits
    <3>2. CASE TryOpen \/ Reopen \/ LoaderStarts
      <4>1. stage' \in {"opening", "reopen"} /\ result' = result /\ stage \notin {"idle", "over"}
        BY <3>2 DEF TryOpen, Reopen, LoaderStarts, Goes, prog
      <4>2. QED
        BY <1>1, <4>1 DEF OverFits
    <3>3. CASE ConnectFails \/ LoaderFails
      <4>1. stage' = "over" /\ at' = "closed" /\ result' = "error"
        BY <3>3 DEF ConnectFails, LoaderFails, Ends, Close, linkVars, port
      <4>2. QED
        BY <4>1 DEF OverFits
    <3>4. CASE StartLoader \/ ReadVersion
      <4>1. /\ stage' \in {"start", "version"} /\ result' = result /\ stage \notin {"idle", "over"}
            /\ command' \in {Cmd("start", {}), Cmd("version", {})}
        BY <3>4 DEF StartLoader, ReadVersion, Issue, Goes
      <4>2. command'.op \in {"start", "version"} /\ command'.cells = {}
        BY <4>1 DEF Cmd
      <4>3. QED
        BY <1>1, <4>1, <4>2 DEF OverFits
    <3>5. QED
      BY <1>3, <3>1, <3>2, <3>3, <3>4, FinishFits
  <2>4. QED
    BY <2>2, <2>3
<1>4. CASE IssueStep
  <2>1. /\ stage = "work" /\ stage' = "check" /\ at' = "send" /\ ret' = "none"
        /\ UNCHANGED <<task, todo, result, current, cut>>
    BY <1>4 DEF IssueStep, Goes, Issue, hist
  <2>2. Steady
    BY <1>1, <1>2, <2>1 DEF Steady, Spoilt, Answered
  <2>3. WorkFits'
    BY <1>1, <2>1, WorkStays DEF Spoilt
  <2>4. OverFits'
    BY <1>1, <2>1 DEF OverFits
  <2>5. QED
    BY <2>2, <2>3, <2>4, SteadyFits
<1>5. CASE VersionRead
  <2>1. at = "ready" /\ stage = "version" /\ stage' = "work" /\ UNCHANGED <<toBdi, result>>
    BY <1>5 DEF VersionRead, linkVars, wire
  <2>2. toBdi' = <<>>
    BY <1>1, <2>1, Reading DEF Inv
  <2>3. Steady
    BY <1>2, <2>1, <2>2 DEF Steady
  <2>4. OverFits'
    BY <1>1, <2>1 DEF OverFits
  <2>5. QED
    BY <1>5, <2>3, <2>4, SteadyFits, ChosenFits
<1>6. CASE StepPasses \/ StepFails
  <2>1. stage = "check" /\ stage' = "work" /\ cut' = cut
    BY <1>6 DEF StepPasses, StepFails, hist
  <2>2. Steady
    BY <1>1, <1>2, <2>1 DEF Steady, Spoilt
  <2>3. result' \in {result, "error"}
    BY <1>6 DEF StepPasses, StepFails
  <2>4. OverFits'
    BY <1>1, <2>1, <2>3 DEF OverFits
  <2>5. WorkFits'
    <3>1. CASE StepPasses
      BY <3>1, PassesWorkFits
    <3>2. CASE StepFails /\ task = "startup"
      BY <3>2, FailsWorkFits
    <3>3. CASE StepFails /\ task # "startup"
      <4>1. todo' \in {<<>>, <<IspDisable>>} /\ result' = "error"
        BY <3>3 DEF StepFails, Remaining
      <4>2. QED
        BY <1>1, <1>2, <2>1, <4>1, AwayFits
    <3>4. QED
      BY <1>6, <3>1, <3>2, <3>3
  <2>6. QED
    BY <2>2, <2>4, <2>5, SteadyFits
<1>7. QED
  BY <1>3, <1>4, <1>5, <1>6 DEF Program

LEMMA AccidentsFit ==
  ASSUME WorkInv, Calm', NoFiles \/ FileBad \/ FuseMapBad \/ Stopped
  PROVE  WayFits' /\ WorkFits' /\ StoreFits' /\ OverFits'
<1>1. /\ UNCHANGED <<cut, mode, isp, store, type>> /\ result' = "error" /\ Calm /\ Inv
      /\ todo' \in {<<>>, <<IspDisable>>}
  BY DEF NoFiles, FileBad, FuseMapBad, Stopped, hist, bdi, WorkInv, SafeInv
<1>2. stage' = "work" \/ (stage' = "over" /\ at' = "closed")
  BY DEF NoFiles, FileBad, FuseMapBad, Stopped, Abort, Returns
<1>3. UNCHANGED <<at, toBdi, toHost, ret, answer>> \/ Abort
  BY DEF NoFiles, FileBad, FuseMapBad, Stopped, port, call
<1>4. Still
  BY <1>1, <1>3, LinkIsStill
<1>5. WayFits' /\ WorkFits' /\ StoreFits'
  BY <1>1, <1>2, <1>4, AwayFits
<1>6. OverFits'
  BY <1>1, <1>2 DEF OverFits
<1>7. QED
  BY <1>5, <1>6

LEMMA WorkStep == WorkInv /\ [Next]_vars /\ Calm' => WorkInv'
<1> SUFFICES ASSUME WorkInv, [Next]_vars, Calm'
             PROVE  SafeInv' /\ WayFits' /\ WorkFits' /\ StoreFits' /\ OverFits'
  BY DEF WorkInv
<1>1. SafeInv /\ SafeInv'
  BY SafeStep DEF WorkInv
<1>2. CASE Program
  BY <1>1, <1>2, ProgramWorks
<1>3. CASE \/ Library
           \/ (BdiLinkSteps \/ WireFaults \/ SendFails) /\ UNCHANGED <<prog, bdi>>
           \/ (\E s \in Attentions : BdiCallsAttention(s)) /\ UNCHANGED <<prog, bdi>>
  BY <1>1, <1>3, LinkFits, SentFits DEF Library
<1>4. CASE \/ BdiStartsLoader \/ BdiKnowsNot \/ BdiTellsVersion \/ BdiErases \/ BdiPrograms
           \/ BdiReadsBack \/ BdiIsp \/ BdiExits \/ FlashFails \/ RowFails
  BY <1>1, <1>4, AnswerExecutes, AnswerFits
<1>5. CASE NoFiles \/ FileBad \/ FuseMapBad \/ Stopped
  BY <1>1, <1>5, AccidentsFit
<1>6. CASE PowerCycle
  BY <1>1, <1>6, PowerFits
<1>7. CASE UNCHANGED vars
  <2>1. UNCHANGED <<at, command, ret, answer, toBdi, toHost, stage, task, todo, result, current,
                    cut, mode, isp, store, type>>
    BY <1>7 DEF vars, linkVars, port, call, wire, prog, hist, bdi
  <2>2. Still
    BY <1>1, <2>1, LinkIsStill DEF SafeInv
  <2>3. Steady
    BY <2>1, <2>2 DEF Steady, Spoilt, Answered
  <2>4. WorkFits'
    BY <2>1, WorkStays DEF Spoilt
  <2>5. OverFits'
    BY <2>1 DEF WorkInv, OverFits, Done
  <2>6. QED
    BY <1>1, <2>3, <2>4, <2>5, SteadyFits
<1>8. QED
  BY <1>2, <1>3, <1>4, <1>5, <1>6, <1>7 DEF Next, Bdi, Accidents

LEMMA WorkInit == Init => WorkInv
<1> SUFFICES ASSUME Init PROVE WorkInv
  OBVIOUS
<1>1. SafeInv /\ toBdi = <<>> /\ toHost = <<>> /\ ret = "none" /\ at = "closed"
      /\ stage = "idle" /\ result = "none"
  BY SafeInit DEF Init, LinkInit
<1>2. PICK fw, lg : store = [c \in Cells |-> IF c \in Image \cup {Trigger} THEN fw
                                             ELSE IF c \in Sector("logic") THEN lg ELSE "old"]
  BY DEF Init
<1>3. store[ModeList] = "old"
  BY <1>2, PartsDiffer DEF Vital
<1>4. store[Ues] = lg /\ \A x \in Fuses : store[x] = lg
  BY <1>2, PartsDiffer DEF Vital
<1>5. StoreFits
  BY <1>3, <1>4 DEF StoreFits, NotOld
<1>6. QED
  BY <1>1, <1>5 DEF WorkInv, WayFits, WorkFits, OverFits

LEMMA WorkInvariant == Spec => [](Types /\ (Calm => WorkInv))
<1> DEFINE J == ProgTypes /\ Types /\ (Calm => WorkInv)
<1>1. Init => J
  BY WorkInit, SetupInit
<1>2. J /\ [Next]_vars => J'
  BY WorkStep, SetupStep, CalmStays
<1>3. J => Types /\ (Calm => WorkInv)
  OBVIOUS
<1>4. QED
  BY <1>1, <1>2, <1>3, PTL DEF Spec
-----------------------------------------------------------------------------
\* As long as nothing has come late or unasked: the mode, from which the firmware
\* configures itself, is never stored without the init list it refers to, wherever a
\* configuration is interrupted and whatever the flash, the wires or the operator do to
\* it, and a configuration that is reported as passed is all there (bdisetup.c:1820 and
\* :1837).
THEOREM ConfigIsComplete == Spec => [](Calm => ConfigComplete)
<1>1. WorkInv => ConfigComplete
  BY DEF WorkInv, StoreFits, OverFits, Done, ConfigComplete, Over
<1>2. QED
  BY <1>1, WorkInvariant, PTL

\* As long as nothing has come late or unasked: an update that returns 0 (bdisetup.c:2078)
\* leaves behind all of the file's firmware that is sent, and logic that it has read back
\* or that the loader reported to be new, for every firmware file and fuse map and
\* whatever an update that failed before has left.
THEOREM UpdateIsCurrent == Spec => []UpdatedIsCurrent
<1>1. (Calm => WorkInv) => UpdatedIsCurrent
  <2> SUFFICES ASSUME WorkInv, Over("update") PROVE
        /\ \A c \in Reached \cup {Trigger, Ues} : store[c] = "new"
        /\ current \/ \A c \in Fuses : store[c] = "new"
    BY DEF UpdatedIsCurrent
  <2>1. /\ store[Trigger] = "new" /\ store[Ues] = "new"
        /\ current \/ \A x \in Fuses : store[x] = "new"
    BY DEF WorkInv, OverFits, Done, Over
  <2>2. TriggerFits
    BY DEF WorkInv, SafeInv
  <2>3. Reached \subseteq Image
    BY WordsInImage, RecordTypes DEF Reached
  <2>4. \A c \in Reached : store[c] = "new"
    BY <2>1, <2>2, <2>3 DEF TriggerFits, Final
  <2>5. QED
    BY <2>1, <2>4
<1>2. QED
  BY <1>1, WorkInvariant, PTL

\* What is stored changes when the BDI carries a command out, and only then.
LEMMA StoreChanges ==
  ASSUME WorkInv, [Next]_vars, store' # store
  PROVE  \E d : Executes(d)
<1>1. ~(Program \/ Library \/ Stopped \/ NoFiles \/ FileBad \/ FuseMapBad \/ PowerCycle
        \/ UNCHANGED vars)
  BY DEF Program, Library, Stopped, NoFiles, FileBad, FuseMapBad, PowerCycle, vars, bdi,
     Begin, TryOpen, ConnectFails, StartLoader, LoaderStarts, Reopen, ReadVersion,
     LoaderFails, VersionRead, IssueStep, StepPasses, StepFails, Finish
<1>2. ~UNCHANGED <<prog, bdi>>
  BY DEF bdi
<1>3. \/ BdiStartsLoader \/ BdiKnowsNot \/ BdiTellsVersion \/ BdiErases \/ BdiPrograms
      \/ BdiReadsBack \/ BdiIsp \/ BdiExits \/ FlashFails \/ RowFails
  BY <1>1, <1>2 DEF Next, Bdi, Accidents
<1>4. QED
  BY <1>3, AnswerExecutes DEF WorkInv

\* "first, erase logic" (bdisetup.c:2147): as long as nothing has come late or unasked,
\* new firmware is never made startable beside logic of the old version, unless the BDI
\* has lost its supply during the update, in whatever order frames are lost, repeated or
\* refused, and whatever an erasure or an update before it has left.
THEOREM NewBesideNew == Spec => NoOldLogicBesideNew
<1>1. ASSUME WorkInv, [Next]_vars, store[Trigger] # "new", store'[Trigger] = "new"
      PROVE  cut \/ \A c \in Fuses : store'[c] # "old"
  <2> DEFINE c == Head(toBdi).cmd
  <2>1. PICK d : Executes(d)
    BY <1>1, StoreChanges
  <2>2. c \in AllCommands /\ Proper(c) /\ Fit(c)
    BY <1>1, <2>1, Answering, Zenon
  <2>3. Effect(c)
    BY <2>1 DEF Executes
  <2> HIDE DEF c
  <2>4. Trigger \in c.cells /\ c.op \in Writers /\ InLoader /\ Trigger \in Vital
    BY <1>1, <2>3, PartsDiffer DEF Effect
  <2>5. Touches(c) /\ c.op # "erase"
    BY <1>1, <2>3, <2>4 DEF Touches, Writers, Effect
  <2>6. Rank(c) = 4
    BY <2>4, <2>5 DEF Rank
  <2>7. Spoilt \/ NotOld
    BY <2>2, <2>5, <2>6 DEF Fit
  <2>8. NotOld => NotOld'
    BY <2>2, <2>3, EffectOn
  <2>9. QED
    BY <2>4, <2>7, <2>8 DEF Spoilt, InLoader, NotOld
<1>2. (Calm => WorkInv) /\ [Next]_vars =>
        [Calm /\ store[Trigger] # "new" /\ store'[Trigger] = "new" =>
           cut \/ \A c \in Fuses : store'[c] # "old"]_vars
  BY <1>1
<1>3. QED
  BY <1>2, WorkInvariant, PTL DEF Spec, NoOldLogicBesideNew
-----------------------------------------------------------------------------
(* Half a trigger.                                                         *)

\* An update or an erasure is at work, or has failed.
Accountable ==
  task \in {"update", "erase"} /\ stage # "idle" /\ (stage = "over" => result = "error")

\* The command under way may change the firmware or the trigger.
Striking == toBdi # <<>> /\ Head(toBdi).kind = "command" /\ Touches(Head(toBdi).cmd)

\* Whoever has left half a trigger will erase or program it, or has failed.
ReportFits ==
  /\ Striking => Accountable
  /\ stage \in {"work", "check"} /\ task \notin {"update", "erase"} =>
       \A c \in ToSet(todo) : ~Touches(c)
  /\ store[Trigger] = "mixed" =>
       /\ Accountable
       /\ stage \in {"work", "check"} => result = "error" \/ Has(todo, 1) \/ Has(todo, 4)

\* A script that is left alone keeps its promise.
LEMMA StillStrikes == Still => (Striking' => Striking)
BY DEF Still, Striking

LEMMA StillReports ==
  ASSUME ReportFits, Still, UNCHANGED <<stage, task, todo, result>>
  PROVE  ReportFits'
BY StillStrikes DEF ReportFits, Still, Accountable

\* A command that is sent is the one that heads the script.
LEMMA SentReports ==
  ASSUME WorkInv, ReportFits, SendCommand, UNCHANGED <<prog, bdi>>
  PROVE  ReportFits'
<1>1. /\ OneFrame /\ StageFits /\ at = "send" /\ command' = command
      /\ UNCHANGED <<stage, task, todo, result, store>>
  BY SafeTypes DEF WorkInv, SafeInv, SendCommand, prog, bdi
<1>2. \E n : toBdi' = Put(<<>>, Command(command, n), rate, bdiRate)
  <2>1. toBdi = <<>>
    BY <1>1, Reading
  <2>2. QED
    BY <2>1 DEF SendCommand
<1>3. toBdi' # <<>> => Head(toBdi').cmd = command
  BY <1>2, One DEF Command
<1>4. ASSUME Touches(command) PROVE Accountable /\ stage = "check"
  <2>1. stage = "check" /\ command = Head(todo)
    BY <1>1, <1>4 DEF StageFits, Harmless
  <2>2. Head(todo) \in ToSet(todo)
    BY <2>1, HeadsScript DEF WorkInv, Heads
  <2>3. QED
    BY <1>4, <2>1, <2>2 DEF ReportFits, Accountable
<1>5. Striking' => Accountable
  BY <1>3, <1>4 DEF Striking
<1>6. QED
  BY <1>1, <1>5 DEF ReportFits, Accountable

\* What the BDI carries out was given by a script that still has it at its head.
LEMMA AnswerReports ==
  ASSUME WorkInv, ReportFits, NEW d, Executes(d)
  PROVE  ReportFits'
<1> DEFINE c == Head(toBdi).cmd
<1>1. /\ c \in AllCommands /\ Proper(c)
      /\ UNCHANGED <<stage, task, todo, result>> /\ toBdi # <<>> /\ toBdi' = <<>>
      /\ stage # "work" /\ (stage = "check" => c = Head(todo) /\ Heads(c))
  BY Answering, Zenon
<1>2. Head(toBdi).kind = "command" /\ Effect(c)
  BY DEF Executes, BdiAnswers, BdiReads
<1> HIDE DEF c
<1>3. ASSUME store'[Trigger] # store[Trigger]
      PROVE  Accountable /\ (stage = "check" => Has(todo, 1) \/ Has(todo, 4))
  <2>1. Trigger \in Cells /\ Trigger \in Vital
    BY DEF Cells, Vital
  <2>2. Trigger \in c.cells /\ c.op \in Writers
    BY <1>2, <1>3, <2>1 DEF Effect
  <2>3. Touches(c) /\ Rank(c) \in {1, 4}
    BY <2>1, <2>2 DEF Touches, Rank, Writers
  <2>4. Accountable
    BY <1>1, <1>2, <2>3 DEF ReportFits, Striking, c
  <2>5. stage = "check" => Has(todo, 1) \/ Has(todo, 4)
    BY <1>1, <2>3 DEF Heads, Has
  <2>6. QED
    BY <2>4, <2>5
<1>4. ~Striking'
  BY <1>1 DEF Striking
<1>5. QED
  BY <1>1, <1>3, <1>4 DEF ReportFits, Accountable

\* A step that has passed has made the trigger erased or new.
LEMMA PassReports ==
  ASSUME WorkInv, ReportFits, StepPasses, Still
  PROVE  ReportFits'
<1> DEFINE c == Head(todo)
<1>1. /\ stage = "check" /\ stage' = "work" /\ todo' = Tail(todo)
      /\ UNCHANGED <<task, result, store>>
  BY DEF StepPasses, bdi
<1>2. /\ Heads(c)
      /\ c.op = "erase" => \A x \in c.cells : store[x] = "erased"
      /\ c.op = "program" => \A x \in c.cells : store[x] = "new"
  BY PassedTells
<1> HIDE DEF c
<1>3. ToSet(todo) = {c} \cup ToSet(todo') /\ Proper(c)
  BY <1>1, <1>2 DEF Heads, c
<1>4. ASSUME store[Trigger] = "mixed", Touches(c) PROVE Rank(c) \notin {1, 4}
  <2>1. c.op \in {"erase", "program"} /\ Trigger \notin c.cells
    BY <1>2, <1>3, <1>4 DEF Proper
  <2>2. QED
    BY <2>1 DEF Rank
<1>5. store[Trigger] = "mixed" => \A k \in {1, 4} : Has(todo, k) => Has(todo', k)
  BY <1>3, <1>4 DEF Has
<1>6. Striking' => Accountable
  BY StillStrikes DEF ReportFits
<1>7. QED
  BY <1>1, <1>3, <1>5, <1>6 DEF ReportFits, Accountable

\* The script that is chosen touches nothing, or erases or programs the trigger.
LEMMA ChosenReports ==
  ASSUME WorkInv, ReportFits, VersionRead, Still
  PROVE  ReportFits'
<1> DEFINE firmware == answer.data.what[1]
           logic == answer.data.what[2]
<1>1. /\ ret = "answer" /\ CodeOf(answer) = "version" /\ stage = "version" /\ stage' = "work"
      /\ todo' = Script(task, firmware, logic)
      /\ UNCHANGED <<task, result, store>>
  BY DEF VersionRead, bdi
<1>2. answer.kind = "answer" /\ answer.data.code # "unknown" /\ answer.cmd.op = "version"
  BY <1>1 DEF CodeOf
<1>3. answer.data.what = <<store[Trigger], store[Ues]>> /\ task \in Tasks
  BY <1>1, <1>2 DEF WorkInv, SafeInv, ProgTypes, WayFits, Tells, VersionRead
<1>4. firmware = store[Trigger]
  BY <1>3
<1> HIDE DEF firmware, logic
<1>5. Purposeful(task, firmware, logic, todo')
  BY <1>1, <1>3, ScriptFits
<1>6. task \notin {"update", "erase"} => \A c \in ToSet(todo') : ~Touches(c)
  BY <1>5 DEF Purposeful
<1>7. store[Trigger] = "mixed" /\ task \in {"update", "erase"} => Has(todo', 1) \/ Has(todo', 4)
  BY <1>4, <1>5 DEF Purposeful
<1>8. Striking' => Accountable
  BY StillStrikes DEF ReportFits
<1>9. QED
  BY <1>1, <1>6, <1>7, <1>8 DEF ReportFits, Accountable

LEMMA ProgramReports ==
  ASSUME WorkInv, ReportFits, Calm', Program
  PROVE  ReportFits'
<1>1. Still /\ store' = store
  BY ProgramIsStill DEF WorkInv, SafeInv
<1>2. Striking' => Striking
  BY <1>1, StillStrikes
<1>3. CASE Begin
  <2>1. /\ stage \in {"idle", "over"} /\ stage' = "opening"
        /\ stage = "over" /\ result = "error" => task' = task
    BY <1>3 DEF Begin
  <2>2. QED
    BY <1>1, <1>2, <2>1 DEF ReportFits, Accountable
<1>4. CASE ConnectFails \/ LoaderFails
  <2>1. stage' = "over" /\ result' = "error" /\ task' = task /\ stage # "idle"
    BY <1>4 DEF ConnectFails, LoaderFails, Ends
  <2>2. QED
    BY <1>1, <1>2, <2>1 DEF ReportFits, Accountable
<1>5. CASE TryOpen \/ StartLoader \/ LoaderStarts \/ Reopen \/ ReadVersion
  <2>1. stage' \in {"opening", "start", "reopen", "version"} /\ task' = task
    BY <1>5 DEF TryOpen, StartLoader, LoaderStarts, Reopen, ReadVersion, Goes, prog
  <2>2. QED
    BY <1>1, <1>2, <2>1 DEF ReportFits, Accountable
<1>6. CASE IssueStep
  <2>1. stage = "work" /\ stage' = "check" /\ UNCHANGED <<task, todo, result>>
    BY <1>6 DEF IssueStep, Goes
  <2>2. QED
    BY <1>1, <1>2, <2>1 DEF ReportFits, Accountable
<1>7. CASE VersionRead \/ StepPasses
  BY <1>1, <1>7, ChosenReports, PassReports
<1>8. CASE StepFails
  <2>1. /\ stage = "check" /\ stage' = "work" /\ task' = task /\ todo' = Remaining(todo)
        /\ task # "startup" => result' = "error"
    BY <1>8 DEF StepFails
  <2>2. ASSUME task \notin {"update", "erase"} PROVE ToSet(todo') \subseteq ToSet(todo)
    <3>1. todo' \in {<<>>, Tail(todo)}
      BY <2>1, <2>2 DEF Remaining
    <3>2. ToSet(Tail(todo)) \subseteq ToSet(todo) /\ ToSet(<<>>) = {}
      BY <2>1, HeadsScript, EmptyOf DEF Heads, WorkInv
    <3>3. QED
      BY <3>1, <3>2
  <2>3. QED
    BY <1>1, <1>2, <2>1, <2>2 DEF ReportFits, Accountable
<1>9. CASE Finish
  <2>1. /\ stage = "work" /\ stage' = "over" /\ todo = <<>> /\ at = "ready" /\ task' = task
        /\ result' = (IF result = "none" THEN "okay" ELSE result)
        /\ toBdi' = Disowned(toBdi)
    BY <1>9 DEF Finish, Close, Ends
  <2>2. toBdi' = <<>>
    BY <2>1, Reading, One DEF WorkInv, SafeInv, Inv
  <2>3. ~Has(<<>>, 1) /\ ~Has(<<>>, 4)
    BY EmptyOf DEF Has
  <2>4. QED
    BY <1>1, <2>1, <2>2, <2>3 DEF ReportFits, Accountable, Striking
<1>10. QED
  BY <1>3, <1>4, <1>5, <1>6, <1>7, <1>8, <1>9 DEF Program

LEMMA ReportStep == WorkInv /\ ReportFits /\ [Next]_vars /\ Calm' => ReportFits'
<1> SUFFICES ASSUME WorkInv, ReportFits, [Next]_vars, Calm' PROVE ReportFits'
  OBVIOUS
<1>1. Calm /\ Inv
  BY DEF WorkInv, SafeInv
<1>2. CASE Program
  BY <1>2, ProgramReports
<1>3. CASE \/ Library
           \/ (BdiLinkSteps \/ WireFaults \/ SendFails) /\ UNCHANGED <<prog, bdi>>
           \/ (\E s \in Attentions : BdiCallsAttention(s)) /\ UNCHANGED <<prog, bdi>>
  <2>1. UNCHANGED <<prog, bdi, stage, task, todo, result, store, type>>
    BY <1>3 DEF Library, prog, bdi
  <2>2. CASE SendCommand
    BY <2>1, <2>2, SentReports
  <2>3. CASE ~SendCommand
    <3>1. Still
      BY <1>1, <1>3, <2>1, <2>3, LinkIsStill DEF Library
    <3>2. QED
      BY <2>1, <3>1, StillReports
  <2>4. QED
    BY <2>2, <2>3
<1>4. CASE \/ BdiStartsLoader \/ BdiKnowsNot \/ BdiTellsVersion \/ BdiErases \/ BdiPrograms
           \/ BdiReadsBack \/ BdiIsp \/ BdiExits \/ FlashFails \/ RowFails
  BY <1>4, AnswerExecutes, AnswerReports DEF WorkInv
<1>5. CASE NoFiles \/ FileBad \/ FuseMapBad
  <2>1. /\ UNCHANGED <<at, toBdi, toHost, ret, answer, store, type, task>>
        /\ result' = "error" /\ task = "update" /\ stage' = "work"
    BY <1>5 DEF NoFiles, FileBad, FuseMapBad, port, call, bdi
  <2>2. Still
    BY <1>1, <2>1, LinkIsStill
  <2>3. QED
    BY <2>1, <2>2, StillStrikes DEF ReportFits, Accountable
<1>6. CASE Stopped
  <2>1. /\ Abort /\ UNCHANGED <<task, store, type>> /\ stage' = "over" /\ result' = "error"
        /\ at # "closed"
    BY <1>6 DEF Stopped, bdi, Abort
  <2>2. Still
    BY <1>1, <2>1, LinkIsStill
  <2>3. QED
    BY <2>1, <2>2, StillStrikes DEF ReportFits, Accountable
<1>7. CASE PowerCycle \/ UNCHANGED vars
  <2>1. /\ BdiRestarts \/ UNCHANGED <<at, toBdi, toHost, ret, answer>>
        /\ UNCHANGED <<stage, task, todo, result, store, type>>
    BY <1>7 DEF PowerCycle, vars, linkVars, port, call, wire, prog, bdi
  <2>2. Still
    BY <1>1, <2>1, LinkIsStill
  <2>3. QED
    BY <2>1, <2>2, StillReports
<1>8. QED
  BY <1>2, <1>3, <1>4, <1>5, <1>6, <1>7 DEF Next, Bdi, Accidents

\* As long as nothing has come late or unasked: half a trigger, which the BDI may take for
\* a whole one when it starts, is never left behind by a program that returns 0; the flash
\* that has refused an erasure or the trigger is reported (bdisetup.c:702, :750), however
\* often the program is stopped, fails or is started anew.
THEOREM HalfIsReported == Spec => []HalfTriggerReported
<1> DEFINE J == ProgTypes /\ Types /\ (Calm => WorkInv /\ ReportFits)
<1>1. Init => J
  <2>1. Init => ReportFits
    <3> SUFFICES ASSUME Init PROVE ReportFits
      OBVIOUS
    <3>1. toBdi = <<>> /\ stage = "idle"
      BY DEF Init, LinkInit
    <3>2. store[Trigger] # "mixed"
      BY SetupAssumption DEF Init, Cells
    <3>3. QED
      BY <3>1, <3>2 DEF ReportFits, Striking
  <2>2. QED
    BY <2>1, WorkInit, SetupInit
<1>2. J /\ [Next]_vars => J'
  BY WorkStep, ReportStep, SetupStep, CalmStays
<1>3. J => HalfTriggerReported
  BY DEF ReportFits, Accountable, HalfTriggerReported
<1>4. QED
  BY <1>1, <1>2, <1>3, PTL DEF Spec
=============================================================================
