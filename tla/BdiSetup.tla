------------------------------ MODULE BdiSetup ------------------------------
(***************************************************************************)
(* The setup program of the BDI2000 (bdisetup.c) over the link BdiLink: it *)
(* connects to the BDI's loader, updates firmware and logic, erases them,  *)
(* writes the configuration, or starts the firmware.  The operator runs it *)
(* again when it failed.  Frames are lost, damaged or late, the BDI sends  *)
(* attention frames, it may restart, and the program may be stopped        *)
(* between any two steps.                                                  *)
(*                                                                         *)
(* After it has connected, the program is a script: a sequence of commands *)
(* of which each is issued when the one before succeeded.  What a command  *)
(* does in the BDI is inferred from what the program expects of it.        *)
(***************************************************************************)
EXTENDS BdiLink, FiniteSets, SequencesExt

CONSTANTS
  Tasks,       \* what the operator may ask for
  BdiTypes,    \* the types of BDI that may be connected: "HS", "20", "10"
  Found,       \* what firmware and logic it may have at first, a set of pairs
  Records,     \* the firmware file: its data, [first |-> address, len |-> bytes]
  MaxBlock,    \* BDI_MAX_BLOCK_SIZE
  SectorSize,  \* addresses from here on are in the second firmware sector
  Rows         \* rows of the fuse map

VARIABLES
  stage,   \* where the program is, see Stages
  task,    \* what it was started for
  tries,   \* BDI_ConnectLoader: attempts to open the link
  todo,    \* the commands of the script still to do
  result,  \* "none" while no step has failed, then as main returns it
  current, \* history: the loader reported the new logic when the script was chosen
  cut,     \* history: the BDI has lost its supply since then
  type,    \* the type of the BDI that is connected
  mode,    \* what the BDI runs: its "loader" or its "firmware"
  isp,     \* the BDI is in ISP mode, in which its logic can be changed
  store    \* the contents of its flash and logic

hist == <<current, cut>>
prog == <<stage, task, tries, todo, result, hist>>
bdi  == <<type, mode, isp, store>>
vars == <<linkVars, prog, bdi>>

Stages == {"idle", "opening", "start", "reopen", "version", "work", "check", "over"}
-----------------------------------------------------------------------------
(* What the BDI stores.                                                    *)

Trigger == <<"trigger", 0>>
Network == <<"network", 0>>
InitList == <<"init", 0>>
ModeList == <<"mode", 0>>
Ues == <<"ues", 0>>
Row(r) == <<"row", r>>
Byte(a) == <<"fw", a>>

BytesOf(record) == {Byte(a) : a \in record.first..(record.first + record.len - 1)}
Image == UNION {BytesOf(Records[i]) : i \in DOMAIN Records}
Fuses == {Row(r) : r \in 1..Rows}
Cells == Image \cup Fuses \cup {Trigger, Network, InitList, ModeList, Ues}

Sector(s) ==
  CASE s = "network"   -> {Network}
    [] s = "config"    -> {InitList, ModeList}
    [] s = "firmware1" -> {Trigger} \cup {c \in Image : c[2] < SectorSize}
    [] s = "firmware2" -> {c \in Image : c[2] >= SectorSize}
    [] s = "logic"     -> Fuses \cup {Ues}

\* The bytes of a record that a BDI-HS programs: it is sent the number of words, in
\* which the last byte of an odd record does not count.
WordsOf(record) ==
  {Byte(a) : a \in record.first..(record.first + 2 * (record.len \div 2) - 1)}

\* The part of the firmware that an update programs.
Reached ==
  IF type = "HS" THEN UNION {WordsOf(Records[i]) : i \in DOMAIN Records} ELSE Image

\* "old" and "new" are two versions; "mixed" is anything else, such as what is left
\* when the flash refuses.
Content == {"erased", "old", "new", "mixed"}

Written(content) == IF content \in {"erased", "new"} THEN "new" ELSE "mixed"
-----------------------------------------------------------------------------
(* The commands of the loader.                                             *)

Cmd(op, cells) == [op |-> op, cells |-> cells]

Ops == {"start", "version", "erase", "program", "read", "exit", "enable", "disable",
        "id", "wipe", "line", "ues", "readline", "readues"}
AllCommands == [op : Ops, cells : SUBSET Cells]
OneByteAnswers ==
  [op : {"start", "exit", "enable", "disable", "wipe", "line", "ues"},
   cells : SUBSET Cells]

\* The data of an answer: a code, and what was read.
Data(code, what) == [code |-> code, what |-> what]
AllOutcomes ==
  [code : {"ok", "failed", "unknown"}, what : {<<>>} \cup {<<c>> : c \in Content}
                                              \cup (Content \X Content)]

ASSUME SetupAssumption ==
  /\ Commands = AllCommands /\ Outcomes = AllOutcomes
  /\ Tasks \subseteq {"update", "erase", "config", "startup"}
  /\ BdiTypes \subseteq {"HS", "20", "10"}
  /\ Found \subseteq {"old", "erased"} \X {"old", "erased", "new"}
  /\ Records \in Seq([first : Nat, len : Nat \ {0}]) /\ MaxBlock \in Nat
  /\ SectorSize \in Nat /\ Rows \in Nat

\* The one content of some cells, "mixed" when they differ.
ContentOf(cells) ==
  LET seen == {store[c] : c \in cells} IN
  IF \E x \in Content : seen = {x} THEN CHOOSE x \in Content : seen = {x} ELSE "mixed"

\* The answer code the program extracts; the firmware knows no loader command.
CodeOf(f) ==
  IF f.kind # "answer" THEN "other"
  ELSE IF f.data.code = "unknown" THEN "other" ELSE f.cmd.op

EraseSector(s) == Cmd("erase", Sector(s))
ProgramFlash(cells) == Cmd("program", cells)
ReadMemory(cells) == Cmd("read", cells)
IspEnable == Cmd("enable", {})
IspDisable == Cmd("disable", {})

\* Mutation: what was read back is not compared.
AcceptedUnverified(c, f) ==
  CASE c.op \in {"erase", "program"}  -> CodeOf(f) = c.op /\ f.data.code = "ok"
    [] OTHER -> TRUE

\* Mutation: the error byte is not looked at.
AcceptedRefused(c, f) ==
  CASE c.op \in {"erase", "program"}  -> CodeOf(f) = c.op
    [] c.op \in {"read", "readline", "readues"} ->
         CodeOf(f) = c.op /\ (task # "startup" => f.data.what = <<"new">>)
    [] OTHER -> TRUE

\* Whether a step has succeeded with answer f.  What is read back is compared,
\* except by BDI_DisplayVersion; the other ISP commands look at no answer.
Accepted(c, f) ==
  CASE c.op \in {"erase", "program"}  -> CodeOf(f) = c.op /\ f.data.code = "ok"
    [] c.op \in {"read", "readline", "readues"} ->
         CodeOf(f) = c.op /\ (task # "startup" => f.data.what = <<"new">>)
    [] OTHER -> TRUE
-----------------------------------------------------------------------------
(* The scripts.                                                            *)

\* B20_UpdateFirmware and B10_UpdateFirmware collect the records of the file
\* in a block until the next one does not follow or does not fit.  (The block
\* is filled up with 0xFF, which leaves erased flash as it is.)
NoBlock == [sent |-> <<>>, block |-> {}, next |-> 0]

Full(was, r) ==
  was.block # {}
    /\ (was.next # r.first \/ Cardinality(was.block) + r.len > MaxBlock)

Collect(was, r) ==
  [sent  |-> IF Full(was, r) THEN Append(was.sent, ProgramFlash(was.block)) ELSE was.sent,
   block |-> IF Full(was, r) THEN BytesOf(r) ELSE was.block \cup BytesOf(r),
   next  |-> r.first + r.len]

Collected ==
  LET step[n \in 0..Len(Records)] ==
        IF n = 0 THEN NoBlock ELSE Collect(step[n - 1], Records[n])
  IN  step[Len(Records)]

Blocks ==
  IF Collected.block = {} THEN Collected.sent
  ELSE Append(Collected.sent, ProgramFlash(Collected.block))

\* BHS_UpdateFirmware programs record by record, the whole words of each.
RecordByRecord == [i \in DOMAIN Records |-> ProgramFlash(WordsOf(Records[i]))]

\* Mutation: the trigger is programmed before the firmware.
UpdateFirmwareEager ==
  <<EraseSector("config"), EraseSector("firmware1"), EraseSector("firmware2"),
    ProgramFlash({Trigger})>> \o (IF type = "HS" THEN RecordByRecord ELSE Blocks)

UpdateFirmware ==
  <<EraseSector("config"), EraseSector("firmware1"), EraseSector("firmware2")>>
    \o (IF type = "HS" THEN RecordByRecord ELSE Blocks) \o <<ProgramFlash({Trigger})>>

EraseLogic == <<IspEnable, Cmd("id", {}), Cmd("wipe", Sector("logic")), IspDisable>>

UpdateLogic ==
  <<IspEnable>> \o [r \in 1..Rows |-> Cmd("line", {Row(r)})] \o <<Cmd("ues", {Ues})>>
    \o [r \in 1..Rows |-> Cmd("readline", {Row(r)})]
    \o <<Cmd("readues", {Ues}), IspDisable>>

\* Mutation: the logic is erased after the firmware.
FirmwareLogicLate(firmware, logic) ==
  (IF firmware # "new" THEN UpdateFirmware ELSE <<>>)
    \o (IF logic # "new" THEN EraseLogic \o UpdateLogic ELSE <<>>)

\* What is not the newest version is updated; the logic is erased first.
FirmwareLogic(firmware, logic) ==
  (IF logic # "new" THEN EraseLogic ELSE <<>>)
    \o (IF firmware # "new" THEN UpdateFirmware ELSE <<>>)
    \o (IF logic # "new" THEN UpdateLogic ELSE <<>>)

EraseAll ==
  EraseLogic \o
    (IF type = "HS" THEN <<EraseSector("firmware1")>>
     ELSE <<EraseSector("network"), EraseSector("config"),
            EraseSector("firmware1"), EraseSector("firmware2")>>)

\* Mutation: the mode is programmed before the init list.
FlashConfigReversed ==
  <<ProgramFlash({ModeList}), ReadMemory({ModeList}),
    ProgramFlash({InitList}), ReadMemory({InitList})>>

FlashConfig ==
  <<ProgramFlash({InitList}), ReadMemory({InitList}),
    ProgramFlash({ModeList}), ReadMemory({ModeList})>>

UpdateConfig ==
  <<EraseSector("network"), ProgramFlash({Network}), ReadMemory({Network}),
    EraseSector("config")>> \o FlashConfig

\* BDI_DisplayVersion, asked to start the firmware.
Startup == (IF type = "HS" THEN <<>> ELSE <<ReadMemory({Network})>>) \o <<Cmd("exit", {})>>

Script(t, firmware, logic) ==
  CASE t = "update"  -> FirmwareLogic(firmware, logic)
    [] t = "erase"   -> EraseAll
    [] t = "config"  -> UpdateConfig
    [] t = "startup" -> Startup

\* The steps left when the head of a script has failed: UpdateLogic still leaves
\* ISP mode, BDI_DisplayVersion still starts the firmware.
InUpdateLogic(steps) ==
  Len(steps) > 1 /\ Len(steps) <= Len(UpdateLogic) /\ Last(steps) = IspDisable
Remaining(steps) ==
  IF task = "update" /\ InUpdateLogic(steps) THEN <<IspDisable>>
  ELSE IF task = "startup" THEN Tail(steps) ELSE <<>>
-----------------------------------------------------------------------------
(* The program.                                                            *)

Init ==
  /\ LinkInit
  /\ stage = "idle" /\ task = "none" /\ tries = 0 /\ todo = <<>> /\ result = "none"
  /\ current = FALSE /\ cut = FALSE
  /\ type \in BdiTypes /\ mode \in {"loader", "firmware"} /\ isp = FALSE
  /\ \E found \in Found :
       /\ mode = "firmware" => found[1] = "old"
       /\ store = [c \in Cells |-> IF c \in Image \cup {Trigger} THEN found[1]
                                   ELSE IF c \in Sector("logic") THEN found[2] ELSE "old"]

Begin ==
  /\ stage \in {"idle", "over"} /\ at = "closed"
  /\ task' \in IF stage = "over" /\ result = "error" THEN {task} ELSE Tasks
  /\ stage' = "opening" /\ tries' = 0 /\ todo' = <<>> /\ result' = "none"
  /\ UNCHANGED <<hist, linkVars, bdi>>

\* BDI_ConnectLoader tries three times, unless the port cannot be set up.
TryOpen ==
  /\ stage = "opening" /\ tries < 3 /\ (tries = 0 \/ ret = "noresponse")
  /\ Open \/ OpenFails
  /\ tries' = tries + 1
  /\ UNCHANGED <<stage, task, todo, result, hist, bdi>>

Ends(res) == stage' = "over" /\ result' = res /\ UNCHANGED <<task, tries, todo, hist>>

ConnectFails ==
  /\ at = "closed"
  /\ \/ stage = "opening" /\ tries > 0 /\ (ret = "setup" \/ (tries = 3 /\ ret = "noresponse"))
     \/ stage = "reopen" /\ ret \in {"setup", "noresponse"}
  /\ Ends("error")
  /\ UNCHANGED <<linkVars, bdi>>

Goes(s) == stage' = s /\ UNCHANGED <<task, tries, todo, result, hist>>

StartLoader ==
  /\ stage = "opening" /\ Issue(Cmd("start", {}))
  /\ stage' = "start" /\ tries' = 0 /\ UNCHANGED <<task, todo, result, hist, bdi>>

\* The loader was not active: it is now starting, and the link is opened again.
LoaderStarts ==
  /\ stage = "start" /\ at = "ready" /\ ret = "answer" /\ CodeOf(answer) = "start"
  /\ Close /\ Goes("reopen") /\ UNCHANGED bdi

Reopen ==
  /\ stage = "reopen" /\ ret = "answer" /\ (Open \/ OpenFails)
  /\ UNCHANGED <<prog, bdi>>

ReadVersion ==
  /\ \/ stage = "start" /\ ret = "answer" /\ CodeOf(answer) # "start"
     \/ stage = "reopen"
  /\ Issue(Cmd("version", {})) /\ Goes("version")
  /\ UNCHANGED bdi

\* No answer, one that is no version, or a type that cannot be configured.
LoaderFails ==
  /\ at = "ready"
  /\ \/ stage \in {"start", "version"} /\ ret = "noresponse"
     \/ /\ stage = "version" /\ ret = "answer"
        /\ CodeOf(answer) # "version" \/ (task = "config" /\ type = "HS")
  /\ Close /\ Ends("error") /\ UNCHANGED bdi

VersionRead ==
  /\ stage = "version" /\ at = "ready" /\ ret = "answer" /\ CodeOf(answer) = "version"
  /\ ~(task = "config" /\ type = "HS")
  /\ stage' = "work"
  /\ todo' = Script(task, answer.data.what[1], answer.data.what[2])
  /\ current' = (answer.data.what[2] = "new") /\ cut' = FALSE
  /\ UNCHANGED <<task, tries, result, linkVars, bdi>>

IssueStep ==
  /\ stage = "work" /\ todo # <<>> /\ Issue(Head(todo)) /\ Goes("check")
  /\ UNCHANGED bdi

StepPasses ==
  /\ stage = "check" /\ at = "ready" /\ ret = "answer" /\ Accepted(Head(todo), answer)
  /\ stage' = "work" /\ todo' = Tail(todo)
  /\ UNCHANGED <<task, tries, result, hist, linkVars, bdi>>

StepFails ==
  /\ stage = "check" /\ at = "ready"
  /\ ret = "noresponse" \/ (ret = "answer" /\ ~Accepted(Head(todo), answer))
  /\ stage' = "work" /\ todo' = Remaining(todo)
  /\ result' = IF task = "startup" /\ Len(todo) > 1 THEN result ELSE "error"
  /\ UNCHANGED <<task, tries, hist, linkVars, bdi>>

\* No file of the firmware or of the logic is found: nothing is done.
NoFiles ==
  /\ stage = "version" /\ at = "ready" /\ ret = "answer" /\ CodeOf(answer) = "version"
  /\ task = "update" /\ Fault("file")
  /\ stage' = "work" /\ todo' = <<>> /\ result' = "error"
  /\ UNCHANGED <<task, tries, hist, port, call, toBdi, toHost, bdiRate, ran, stray, bdi>>

\* A line of the firmware file that is no valid record.
FileBad ==
  /\ stage = "work" /\ task = "update" /\ todo # <<>>
  /\ Head(todo).op = "program" /\ Head(todo) # ProgramFlash({Trigger})
  /\ Fault("file") /\ result' = "error" /\ todo' = <<>>
  /\ UNCHANGED <<stage, task, tries, hist, port, call, toBdi, toHost, bdiRate, ran,
                 stray, bdi>>

\* The fuse map is read before ISP mode is entered, which is left all the same.
FuseMapBad ==
  /\ stage = "work" /\ task = "update"
  /\ Len(todo) = Len(UpdateLogic) /\ Last(todo) = IspDisable
  /\ Fault("file") /\ result' = "error" /\ todo' = <<IspDisable>>
  /\ UNCHANGED <<stage, task, tries, hist, port, call, toBdi, toHost, bdiRate, ran,
                 stray, bdi>>

Finish ==
  /\ stage = "work" /\ todo = <<>> /\ Close
  /\ Ends(IF result = "none" THEN "okay" ELSE result) /\ UNCHANGED bdi

Stopped ==
  /\ Abort /\ stage' = "over" /\ result' = "error" /\ todo' = <<>>
  /\ UNCHANGED <<task, tries, hist, bdi>>

Program ==
  \/ Begin \/ TryOpen \/ ConnectFails \/ StartLoader \/ LoaderStarts \/ Reopen
  \/ ReadVersion \/ LoaderFails \/ VersionRead \/ IssueStep \/ StepPasses
  \/ StepFails \/ Finish

Library == HostSteps /\ UNCHANGED <<prog, bdi>>
-----------------------------------------------------------------------------
(* The BDI.                                                                *)

AnswersTo(op) == toBdi # <<>> /\ Head(toBdi).kind = "command" /\ Head(toBdi).cmd.op = op
InLoader == mode = "loader"
Target == Head(toBdi).cmd.cells
Says(code, what) == BdiAnswers(Data(code, what), bdiRate) /\ UNCHANGED faults

BdiStartsLoader ==
  /\ AnswersTo("start")
  /\ IF InLoader THEN Says("unknown", <<>>) /\ UNCHANGED <<mode, isp>>
     ELSE /\ BdiAnswers(Data("ok", <<>>), DefaultRate) /\ UNCHANGED faults
          /\ mode' = "loader" /\ isp' = FALSE
  /\ UNCHANGED <<type, store, prog>>

\* The firmware answers a command of the loader that it does not know it.
BdiKnowsNot ==
  /\ ~InLoader /\ toBdi # <<>> /\ Head(toBdi).kind = "command" /\ ~AnswersTo("start")
  /\ Says("unknown", <<>>) /\ UNCHANGED <<prog, bdi>>

\* A version is known of what can be started, and of the logic's signature.
BdiTellsVersion ==
  /\ AnswersTo("version") /\ InLoader
  /\ Says("ok", <<store[Trigger], store[Ues]>>) /\ UNCHANGED <<prog, bdi>>

BdiWrites(good) ==
  /\ store' = [c \in Cells |-> IF c \in Target THEN good[c] ELSE store[c]]
  /\ UNCHANGED <<type, mode, isp, prog>>

BdiErases ==
  /\ AnswersTo("erase") /\ InLoader /\ Says("ok", <<>>)
  /\ BdiWrites([c \in Cells |-> "erased"])

\* Flash that was not erased cannot take the data, and the loader notices.
BdiPrograms ==
  /\ AnswersTo("program") /\ InLoader
  /\ Says(IF \A c \in Target : Written(store[c]) = "new" THEN "ok" ELSE "failed", <<>>)
  /\ BdiWrites([c \in Cells |-> Written(store[c])])

\* The flash refuses; the error byte of the answer says so.
FlashFails ==
  /\ AnswersTo("erase") \/ AnswersTo("program")
  /\ InLoader /\ Fault("flash") /\ BdiAnswers(Data("failed", <<>>), bdiRate)
  /\ BdiWrites([c \in Cells |-> "mixed"])

\* Contents of the logic can be read and changed in ISP mode only.
BdiReadsBack ==
  /\ \E op \in {"read", "readline", "readues"} : AnswersTo(op)
  /\ InLoader
  /\ Says("ok", <<IF AnswersTo("read") \/ isp THEN ContentOf(Target) ELSE "mixed">>)
  /\ UNCHANGED <<prog, bdi>>

BdiIsp ==
  /\ InLoader
  /\ \/ /\ AnswersTo("enable") \/ AnswersTo("disable")
        /\ isp' = AnswersTo("enable") /\ UNCHANGED <<type, mode, store, prog>>
     \/ /\ AnswersTo("wipe")
        /\ BdiWrites([c \in Cells |-> IF isp THEN "erased" ELSE store[c]])
     \/ /\ AnswersTo("line") \/ AnswersTo("ues")
        /\ BdiWrites([c \in Cells |-> IF isp THEN Written(store[c]) ELSE store[c]])
     \/ AnswersTo("id") /\ UNCHANGED <<prog, bdi>>
  /\ Says("ok", <<>>)

\* A row of the logic that does not take its data; no answer reports it.
RowFails ==
  /\ AnswersTo("line") /\ InLoader /\ isp /\ Fault("row")
  /\ BdiAnswers(Data("ok", <<>>), bdiRate)
  /\ BdiWrites([c \in Cells |-> "mixed"])

\* What a BDI runs when it starts: its firmware if the trigger is there, either if the
\* flash holds what was left of one.
Boots ==
  /\ mode' \in {"loader", "firmware"} /\ isp' = FALSE
  /\ store[Trigger] = "erased" => mode' = "loader"
  /\ store[Trigger] \in {"old", "new"} => mode' = "firmware"

BdiExits ==
  /\ AnswersTo("exit") /\ InLoader /\ BdiAnswers(Data("ok", <<>>), DefaultRate)
  /\ Boots /\ UNCHANGED faults /\ UNCHANGED <<type, store, prog>>

PowerCycle ==
  /\ BdiRestarts /\ Boots /\ cut' = TRUE
  /\ UNCHANGED <<type, store, stage, task, tries, todo, result, current>>

Bdi ==
  \/ BdiLinkSteps /\ UNCHANGED <<prog, bdi>>
  \/ BdiStartsLoader \/ BdiKnowsNot \/ BdiTellsVersion \/ BdiErases \/ BdiPrograms
  \/ BdiReadsBack \/ BdiIsp \/ BdiExits

Accidents ==
  \/ (WireFaults \/ SendFails) /\ UNCHANGED <<prog, bdi>>
  \/ \E s \in Attentions : BdiCallsAttention(s) /\ UNCHANGED <<prog, bdi>>
  \/ NoFiles \/ FileBad \/ FuseMapBad \/ Stopped \/ FlashFails \/ RowFails
  \/ PowerCycle

Next == Program \/ Library \/ Bdi \/ Accidents

Spec == Init /\ [][Next]_vars

\* The operator starts the program, the program and the BDI go on.
FairSpec ==
  Spec /\ WF_vars(Program) /\ WF_vars(Library) /\ WF_vars(Bdi)
-----------------------------------------------------------------------------
TypeOK ==
  /\ LinkTypeOK /\ stage \in Stages /\ task \in Tasks \cup {"none"}
  /\ tries \in 0..3 /\ todo \in Seq(AllCommands)
  /\ result \in {"none", "okay", "error"}
  /\ current \in BOOLEAN /\ cut \in BOOLEAN
  /\ type \in BdiTypes /\ mode \in {"loader", "firmware"} /\ isp \in BOOLEAN
  /\ store \in [Cells -> Content]

Over(t) == stage = "over" /\ task = t /\ result = "okay"

\* A whole trigger stands for whole firmware, wherever an update was interrupted: it is
\* erased before and programmed after all of it that is sent (bdisetup.c:854, :953,
\* :1058).  What a BDI-HS is not told to program (:736) is then missing, not old.
TriggerMeansComplete ==
  Calm =>
    /\ store[Trigger] = "old" => \A c \in Image : store[c] = "old"
    /\ store[Trigger] = "new" =>
         \A c \in Image : store[c] = (IF c \in Reached THEN "new" ELSE "erased")

\* Half a trigger, which the BDI may start all the same, is left only by an update or
\* an erasure that is still at work or has reported an error (bdisetup.c:702, :750).
HalfTriggerReported ==
  Calm /\ store[Trigger] = "mixed" => ~(stage = "over" /\ result = "okay")

\* An update that returns 0 (bdisetup.c:2078) leaves firmware and logic of the
\* new version, as much of it as is sent, whatever an earlier, failed one left behind;
\* only logic that the loader reports to be new already is not looked at again.
UpdatedIsCurrent ==
  Calm /\ Over("update") =>
    /\ \A c \in Reached \cup {Trigger, Ues} : store[c] = "new"
    /\ current \/ \A c \in Fuses : store[c] = "new"

\* "first, erase logic" (bdisetup.c:2147): new firmware is never made startable
\* beside the logic of the old version, unless the BDI has lost its supply, and with
\* it ISP mode, during the update.
NoOldLogicBesideNew ==
  [][Calm /\ store[Trigger] # "new" /\ store'[Trigger] = "new" =>
       cut \/ \A c \in Fuses : store'[c] # "old"]_vars

\* The mode, from which the firmware configures itself, is there only together
\* with the init list it refers to (bdisetup.c:1820 and :1837), and a configuration
\* that is reported as passed is all there.
ConfigComplete ==
  /\ store[ModeList] = "new" => store[InitList] = "new"
  /\ Over("config") => \A c \in {Network, InitList, ModeList} : store[c] = "new"

\* An operator who runs a failed update again gets it done.
UpdateGetsDone == [](task = "update" => <>(Over("update") \/ task # "update"))
=============================================================================
