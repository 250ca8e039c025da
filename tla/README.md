# Verification of the at91_bdi2000 firmware and host tools

TLA+ models of the programs in this repository, TLC configurations that check
them on small instances, and TLAPS proofs of the results that matter most for
every value of the constants. The reference is the code: every definition names
in `PROJECT.json` ("map") the lines it stands for.

## 1. The system

The repository holds the software of an AT91RM9200 board that is brought up over
a serial line and debugged with a BDI2000 box.

| component | where | state it keeps | operations | interacts with |
|---|---|---|---|---|
| host program sx-at91 | `sourcecode/serial/sx-at91.c` | file position, frame number, frame last sent, retries | read a verdict; send the next frame, repeat it, send EOT, give up | the board, over the line |
| XMODEM service | `bootloader/include/obj_svcxmodem.c` | packet id expected, packet descriptor, data pointer, EOT and descriptor flags, UART interrupt mask and PDC descriptors | StartRx, ReadHandler (header, descriptor, data), SendC; StartTx, WriteHandler | UART and PDC, buffer, timer, interrupt handler |
| simple buffer | `obj_sbuffer.c` | cursor and size for each direction | set, reset, get, fill, empty; callback of the pipe at zero | service, pipe |
| pipe | `obj_pipe.c` | callbacks, their data | open, read, write, abort, reset | buffer, service |
| software timers | `obj_svctempo.c` | list of timers, list of new ones, flag/tick/reload/callback of each | create, remove, start, stop, tick | system timer interrupt; callbacks |
| boot loader | `bootloader/source/main.c` | `XmodemComplete`, `StTick` | boot, ST handler, XmodemProtocol, XmodemComplete | everything above |
| DataFlash service | `obj_svcdataflash.c` | SPI descriptor, command buffer, state | read, write, erase, poll, SPI handler | SPI, PDC |
| BDI2000 library | `tools/bdi/bdisetup/bdidll.c` | line, frame count, buffers | open, reset link, transaction (retry, timeout) | BDI2000 loader or firmware, over the line |
| BDI2000 setup | `bdisetup.c`, `bdicnf.c` | configuration | connect, update firmware and logic, configure | the library |
| latency measurement | `sourcecode/source/*.c`, `isr.S` | timer counters, samples | configure, start, interrupt, convert, print | timers, LEDs, UART |
| SD card driver | `mci_device.c` | device state, transfer descriptor | commands, block read and write, MCI handler | MCI, PDC |

What makes each part correct, and what of it is checked here:

* *Download as a whole*: the board starts an image, and the host reports success,
  only when every block is in RAM; a download whose damaged blocks are repeated
  often enough ends well on both sides.
* *XMODEM service*: blocks are accepted in order, none twice; an accepted block
  is never overwritten; its counts of the blocks agree; while it waits it
  listens, and when it no longer serves interrupts it has none enabled.
* *Timers*: a created timer is in exactly one list; a tick notifies every timer
  once, whatever callbacks do; a timer fires on its tick; the tick ends.
* *Host program*: no old verdict is taken for the new frame; it retries as often
  as it says. (Within the download.)
* *Pipe, buffer*: the callback comes exactly once, with the last unit. (Within the
  download; writing and aborting have no caller and are left out.)
* *DataFlash service*: an accepted command is carried out as it was given, whatever
  calls are refused while it runs; the status is one the DataFlash has sent; the
  service fails only through an abort; commands end, except one case after an abort.
* *BDI2000 library*: an answer is the answer to the command just sent, which has
  been carried out at least once, unless another frame came while the host waited
  (the code cannot tell them apart); no command is carried out more often than it was
  sent; opening succeeds only when the BDI has answered.
* *BDI2000 setup*: a whole trigger stands for all of the firmware that is sent; half a
  trigger is reported as an error, or its update did not end; what is reported done is
  done, as far as it is sent; a configuration is complete or not used; an update
  that failed gets done when it is run again.
* *Latency measurement*: the measured time is the time that has passed, however
  often the counter overflows; the input is never left without its interrupt; the
  last line on the terminal is the last measurement.
* *SD card driver*: a transfer ends with the device idle, also after an error. (Not
  modelled: nothing calls the driver.)

What makes it hard:

* *Interrupts against the main program.* The receive handler runs between any two
  register writes of `StartRx`, and between any two statements of `boot()`; the
  SPI's handler runs between any two of `AbortCommand`.
* *Nested interrupts.* The overflow interrupt comes between any two accesses of the
  measured one, and both use the overflow count.
* *The lines.* Characters and frames are changed or lost, a receiver notices some of
  it; answers are lost; neither side of the download has a timeout once a frame is
  under way; the BDI library has one, and sends commands again.
* *Crashes.* The BDI loses its supply and the setup program is stopped, between any
  two steps of an update of flash and logic; the next run starts from what is left.
* *Hardware that runs ahead.* The PDC stores characters at addresses it was given
  earlier, and sends lines from a buffer that is being filled again.
* *Time.* One timer is used for the invitations and for the delayed completion.
* *Limits.* The packet id wraps at 256, the region is filled exactly, the number of
  retries is bounded, a PDC takes two transfers and no third.

## 2. Modules

| module | what it models |
|---|---|
| `Download` | The promise of a download: blocks arrive one by one, the board starts the image and the host reports success only when all are there. |
| `SBuffer` | One side of the simple buffer, as operators on a record. |
| `SvcTempo` | One software timer, as operators on a record. |
| `XmodemDownload` | The download itself: host, line, UART and PDC, interrupt handler, timer, main program. It uses `SBuffer` and `SvcTempo` and implements `Download`. |
| `TempoList` | The timers of the ROM services: the two lists, the tick that walks one of them, the calls of the main program and of callbacks. It uses `SvcTempo`. |
| `BdiCommand` | The promise of a transaction with the BDI: carried out at most so often, and answered only when it was, unless another frame is in the way. |
| `BdiLink` | The BDI2000 library: the search for the baud rate, transactions with repeats, the frames on the wires, late answers and attention frames. It implements `BdiCommand`. |
| `BdiSetup` | The setup program over `BdiLink`, with a BDI, its flash and its logic, faults, restarts, and an operator who runs it again. |
| `Latency` | The measured interrupt, the overflow interrupt nested in it, timer, input and the PDC that sends the results. |
| `DataFlash` | The DataFlash service: its operations, `AbortCommand` step by step, the interrupt handler, the SPI's PDC. |
| `MCTempoList`, `MCBdiSetup` | Values of constants for TLC: three timers and how they are started; the records of a firmware file. |
| `XmodemDownloadProofs`, `XmodemSafetyProofs`, `TempoListProofs`, `BdiLinkProofs`, `BdiScriptProofs`, `BdiSetupProofs`, `LatencyProofs`, `DataFlashProofs` | Theorems and their proofs, see section 4. |

Operators named in a comment as a mutation are wrong variants of the operator
below them; they are used by no specification and serve only to see that the
properties notice the bug (`PROJECT.json`, "mutants").

### 2.1 XmodemDownload

One step is one run of the interrupt handler, one call of the main program, one
character on the line, or one turn of the host's loop; steps of different actors
interleave.

| actor | variables | actions | code |
|---|---|---|---|
| host | `hpc`, `packCounter`, `retryNum` | `HostOpen`, `HostInvited`, `HostAcked`, `HostNaked`, `HostFatal`, `HostEnds` | `sx-at91.c`, `main` |
| line | `toDev`, `toHost`, `faults` | `CharArrives`, `CharGarbled`, `CharLost`, `ReplyFails` | (external) |
| UART, PDC | `rhr`, `csr`, `imr`, `cur`, `nxt` | within `Receive`: `PdcMoves`, `UartHolds` | (external; the `usart2` services of the ROM, used in `obj_svcxmodem.c`) |
| receive handler | `svc`, `packetDesc`, `mem`, `sb` | `IsrLineError`, `IsrHeader`, `IsrOtherHeader`, `IsrEot`, `IsrDescriptor`, `IsrAccept`, `IsrReject` | `main.c` `AT91F_ST_HANDLER`, `obj_svcxmodem.c` `ReadHandler`, `CheckHeader`, `CheckData`, `obj_sbuffer.c` |
| timer | `tempo`, `complete`, `pauseLeft` | `Tick` | `main.c` `AT91F_ST_HANDLER`, `XmodemComplete`; `obj_svcxmodem.c` `SendC`; `obj_svctempo.c` |
| main program | `bpc` | `BootPrompt`, `ReadSetup`, `ReadEnable`, `ReadMask`, `ReadInvite`, `ReadPrint`, `Downloaded`, `Jump` | `main.c` `boot`, `obj_pipe.c` Read, `obj_svcxmodem.c` `StartRx` |

`got` is a history variable: the blocks accepted.

What is abstracted:

* A block of 128 bytes is one unit and its CRC one unit. The CRC is free of
  collisions: it fits exactly the block it was computed from.
* A character changed on the line (`Garbage`) passes none of the receiver's
  tests. A *lost* character shifts the frame, so ids and headers may still
  be taken for one another; that is kept, with the numbers they have.
* A message printed by the board is one character `TXT` that is no verdict.
* The receiver's status bits are a set; the one error bit `ERR` stands for
  overrun, framing and parity.
* The period of the invitations, one second, is long against the line (115200
  baud): an invitation is not sent while characters travel or an interrupt is
  pending. `PromptHost` says the same of the host; the noisy run drops it.
* An enabled RXRDY interrupt is served within one character time (87 us). With
  `PromptHandler` every enabled interrupt is.
* RAM and flags that Init sets are those of the zeroed bss. `crt0.S` is not
  modelled.
* Bounds: `MaxFaults` on the faults, `HostFifo` on unread invitations; nothing
  else is bounded.

`Download` is implemented under the refinement mapping of `Promise`: `stored` is
the number of leading blocks that are accepted *and still undamaged in RAM*,
`board` is "starting" from the announcement on, `host` is what `sx-at91` has reported.

### 2.2 TempoList

`first` and `new` are `pFirstTempo` and `pNewTempo`, `next` is `pNextTempo`, `timer`
the other fields. The tick runs in an interrupt, so the main program's calls
(`MainCalls`) come between ticks; callbacks make up to `MaxCalls` calls each
(`CallbackCalls`) while the tick's pointer `cursor` stands on their timer, and the
next timer is looked up when they return (`CallbackReturns`), as the code does.
`pPreviousTempo` is written and never read: it is left out. Stores and reads through
the null pointer (lines 199, 203, 211, 234) are assumed to change no timer.
`member`, `waiting`, `age` and `want` are history variables: who should be listed, whom
the tick still has to notify, and when each timer should fire.

### 2.3 BdiLink

One step is one return of the library's wait, one frame sent, or one frame the BDI reads.

| actor | variables | actions | code (`bdidll.c`) |
|---|---|---|---|
| opening | `at`, `rate`, `probe` | `Open`, `OpenFails`, `ProbeAnswered`, `ProbeFails`, `RateConfirmed`, `RateRefused`, `ConfirmAnswered`, `ConfirmFails`, `Close` | `BDI_Open`, `AsynOpen`, `AsynResetLink`, `BDI_Close` |
| transaction | `frameCount`, `repeats`, `command`, `ret`, `answer` | `Issue`, `SendCommand`, `SendFails`, `AnswerTaken`, `AnswerDamaged`, `AnswerTimesOut`, `Exhausted` | `BDI_Transaction`, `AsynReadFrame`, `AsynWriteFrame` |
| wires, BDI | `toBdi`, `toHost`, `bdiRate`, `faults` | `FrameLost`, `FrameDamaged`, `BdiResets`, `BdiChangesRate`, `BdiAnswers`, `BdiCallsAttention`, `BdiRestarts`; `GoesOn`, when it is late | (external) |
| operator | | `Abort` | |

`ran`, `stray` and the field `own` of a frame are history. What is abstracted:

* A frame is one unit. Its SLIP escapes, padding and block check are there as one
  fact: a damaged frame is seen to be damaged. Its length field is kept where the
  code looks at it: in `AsynResetLink` an answer of one byte is as long as a reset,
  and an attention frame may be.
* A frame sent at a rate its receiver does not use is lost.

The BDI is not part of the repository, and nothing in it says how late it may be. The host waits
for the command's own time, the time of the characters and 200 ms more. When the host stops waiting
(`GivesUp`, `GoesOn`) while the BDI still has frames to read, its answers are late: they
come after the host has sent the command again, or another one. Opening the link while it still has
some counts as late too.

The BDI sends attention frames nobody asked for (`bdidll.c:70`, and :762, "attention frames will be
repeated by BDI"). `BdiCallsAttention` puts one into the host's queue at any time
while the library is at work. One that comes when no call is running stays in the queue
until the next call empties it; it is the same as one that comes before the command is
sent. What an attention frame says is not in the repository. It is assumed that
it is never as long as the confirmation of a rate, and that it is no answer the
setup program would accept.

`BDI_Transaction` compares neither the type nor the count of a frame (776): an attention frame, or an answer
to an earlier command, that arrives after the queue was emptied and before the answer is returned
as the answer. The model does the same, and `stray` notes it: "now" when such a frame may be
returned by the call that is running, "before" when it only came earlier. `AnswersOwnCommand` holds
whatever has come before, and leaves out nothing but "now"; `BdiCommand` calls this `clear`.
`Calm` says that there was no late answer, no attention frame while the host waited for an answer and none during
the search for the rate. Attention frames that come before a command is sent are calm: the
queue is emptied, which is what line 762 relies on.

### 2.4 BdiSetup

After it has connected the program is a script: the commands that one function after
the other issues, each when the one before has succeeded. `todo` is the rest of it;
`UpdateFirmware`, `EraseLogic`, `UpdateLogic`, `EraseAll`, `UpdateConfig`, `Startup`
translate the functions of these names, `Accepted` what they test in an answer,
`Remaining` what they still do after an error. `Collected` goes through the records of
the file as the loop of `B20_UpdateFirmware` does, one `Collect` for each; records without
data, which the loop skips, are not in `Records`.

| actor | variables | actions | code (`bdisetup.c`) |
|---|---|---|---|
| program | `stage`, `task`, `tries`, `todo`, `result` | `Begin`, `TryOpen`, `ConnectFails`, `StartLoader`, `LoaderStarts`, `Reopen`, `ReadVersion`, `LoaderFails`, `VersionRead`, `IssueStep`, `StepPasses`, `StepFails`, `NoFiles`, `FileBad`, `FuseMapBad`, `Finish` | `main`, `BDI_ConnectLoader`, `BDI_UpdateFirmwareLogic`, `BDI_UpdateConfig`, `BDI_DisplayVersion` and what they call |
| BDI | `type`, `mode`, `isp`, `store` | `BdiStartsLoader`, `BdiKnowsNot`, `BdiTellsVersion`, `BdiErases`, `BdiPrograms`, `FlashFails`, `BdiReadsBack`, `BdiIsp`, `RowFails`, `BdiExits`, `PowerCycle` | (external) |
| operator | | `Begin`, `Stopped` | |

The BDI is not part of the repository. What a command does in it is what the program
expects of it: erasing makes cells blank, programming a blank cell makes it new and any
other one mixed, and the trigger is what makes it start a firmware. A flash that refuses leaves
"mixed", which stands for anything: a trigger half erased or half programmed may be
started or not (`Boots`). What a firmware that is started answers is the same whether it is complete
or not; that a broken one still answers the command that starts the loader is an
assumption, without which no update could be repaired.

A BDI-HS is sent the number of *words* of a record, `count/2` (`bdisetup.c:736`): the last byte of
a record of odd length is not programmed, and nothing reads it back. `WordsOf` is
the part of a record that is sent, `Reached` the part of the firmware an update programs; for the
other types it is all. The properties of the firmware speak of `Reached`: with such a record an update of
a BDI-HS reports success although a byte is missing.

What is abstracted:

* Contents have four values. A version is what the trigger and the logic's signature say.
* The four sectors of the firmware are two, the two of the configuration one; the
  list of init entries is one cell. A file is a few records of one and two bytes, among them two that
  follow each other and one that does not, and one that no longer fits a block.
* The type 1000 differs from the 2000 in addresses and in the letter of its version.
* The update is the automatic one (newest files); the comparison of device ids, the
  parsing of setup files and fuse maps, and the texts printed are left out; a file is
  valid or not. The setup file is given, so `UpdateConfig` writes init list and mode.
* `current` and `cut` are history: what the loader reported, and a lost supply since.

### 2.5 Latency

One step is one access of the measured interrupt routine to a register or to a
variable that the overflow interrupt shares; timer, input and PDC go on between any two.
The exception is `SendFrame`, which reads `TCR` and `TNCR` and then writes them: if the transmitter
is done in between, it loads the next transfer as soon as that is written, and the outcome is that
of an order the model has.

| actor | variables | actions | code |
|---|---|---|---|
| measured interrupt | `pc`, `measurements`, `ticks`, `buffer` | `Enter` to `SendFrame` | `main.c` `Measured_Interrupt_Highlevel`, `Timer.c`, `InterruptMeasurmentService.c`, `isr.S` |
| overflow interrupt | `tcHandler`, `TimerOverflowCnt` | `TcEnter`, `TcAcknowledge`, `TcCount` | `Timer.c` |
| timer | `TC_CV`, `CLKEN`, `COVFS`, `IMR`, `tcPending` | `Tick` | (external) |
| input | `pin`, `PIO_ISR`, `pinPending` | `Toggle` | (external) |
| PDC | `current`, `next`, `line`, `lastLine` | `PdcSends` | (external; what `AT91F_PDC_SendFrame` makes of it) |

What is abstracted: the overflow interrupt has the higher priority and is taken before
the routine's next access; it is served before the counter overflows again (at the
counter's rate that is 65536 ticks). The line is a few pieces, the last of them the value. Compensation,
conversion to microseconds and the contents of the time stamp are left out, as are
pulses shorter than the entry of the interrupt and 2^32 overflows. `elapsed` and `late`
are history.

### 2.6 DataFlash

| actor | variables | actions | code (`obj_svcdataflash.c`) |
|---|---|---|---|
| caller | `calls`, `state`, `DataFlash_state`, `data` | `AT91F_DataFlashGetStatus`, `CommandWithData`, `CommandAlone`, `BufferCommand` | the operations, `AT91F_DataFlashSendCommand`, `AT91F_SpiWrite` |
| abort | `abort`, `status` | `AbortRead`, `AbortIdle`, `AbortDisable`, `AbortReturn` | `AT91F_DataFlashAbortCommand` |
| interrupt | `IMR`, `enabled` | `AT91F_DataFlashHandler` | the function of this name |
| SPI, PDC | `transmit`, `receive`, `RDR` | `Transmit`, `Receive` | (external) |

An operation returns before its transfer is done, and is refused while another one is
there; each of its calls has a buffer of its own, named by the call's number. What is
abstracted: opcode, address and contents; calls that an illegal command, address or size
ends before anything is touched. `asked`, `stored`, `clean`, `marked` and `cut` are history: what
the accepted command asks for, what was received and where, what an abort has left in
the PDC, and whether the mark of an earlier status command was still there.

The mark `GET_STATUS` is the value 0x0F in the byte that receives the status
(`AT91C_SPI_DataFlash.h:39`, :97). A status that is itself 0x0F leaves the mark up: `CommandEnds` may do so, and the first byte
of the next command's answer is then taken for the status.

## 3. Runs

Every run checks with `tlc -config <cfg> <module>`.

| run | instance | checked | shows |
|---|---|---|---|
| `retry` | 10 blocks, 11 in the region, ids modulo 8, 2 retries, 3 damaged blocks | `LockStep`, `AcceptedInOrder`, `KeepsPromise`, `EndsWell` | Repairs work up to the limit, also across the wrap of the id; the host is always served the verdict on its last frame; both sides end well. |
| `full` | 8 blocks in a region of 8, ids modulo 8, no fault | `KeepsPromise`, `BoardStarts` | The region closes with its last block, where the id has wrapped to 1 and the condition at EOT would hold again; the host gives up on the board's message, the board starts the image. |
| `noisy` | 2 blocks, 3 in the region, 3 faults of any kind, a late host or one started too early | `TypeOK`, `AcceptedInOrder`, `RamKeepsAccepted`, `PdcAhead`, `CountersAgree`, `NoInterruptStorm`, `ImageIsStill` | What is accepted is the image in its order, and stays; the counters of the service agree; no interrupt is raised for ever after EOT. |
| `timers` | 3 timers, timeouts 0 to 2, reloads 0 to 2, 1 call in a callback | `TypeOK`, `FiresOnTime`, `NoneOverdue`, `MembersListed`, `AllNotified`, `TickNearsEnd` | Callbacks may create, remove, start and stop timers in any part of the list; timers fire on their tick and the tick ends. |
| `setup` | 2 accidents of 11 kinds, late answers and attention frames among them, 2 rates, 2 repeats, 4 records, 1 row, types HS and 2000 | `TypeOK`, `AnswersOwnCommand`, `TriggerMeansComplete`, `HalfTriggerReported`, `UpdatedIsCurrent`, `ConfigComplete`, `NoOldLogicBesideNew`, `UpdateGetsDone`, `KeepsPromise` | Whatever is interrupted, a whole trigger stands for all of the firmware that is sent, half a trigger is not reported as success, and what is reported done is done; a failed update that is run again gets done. |
| `latency` | 3 measurements of up to 8 ticks, overflows every 3, lines of 2 pieces | `TypeOK`, `MeasuredRight`, `InputRearmed`, `LastLineIsLatest` | The measured time is right at any overflow but one (finding 4), the input stays armed, the last line is the last measurement. |
| `dataflash` | 4 calls, data of up to 2 pieces | `TypeOK`, `CarriedOutAlone`, `StatusIsAnswer`, `ErrorNeedsAbort`, `Ends` | Commands are carried out as given, whatever is refused meanwhile; they end unless an abort has left them more to receive than they send (finding 5). |
| `false_success` | 3 blocks, 1 changed character | `AnnouncedIsComplete` violated | Finding 1. |
| `deaf` | no fault, host started at any time | `ReadSuccessListens` violated | Finding 2. |
| `blind_open` | 1 lost frame, a BDI at another rate | `OpenIsAnswered` violated | Finding 3. |
| `latency_stop` | as `latency` | `EveryMeasurementRight` violated | Finding 4. |
| `dataflash_abort` | 2 calls | `StoresInOwn` violated | Finding 5. |

`CHECK_DEADLOCK FALSE` is set where the system really stops: in the runs of the download (the
image has been started and the host has ended, or both wait for each other after a lost
character) and of the measurement (`MaxMeasurements` are done and all is sent). The runs of
the timers, of the setup program and of the DataFlash service check for deadlock.

Why the bounds are enough:

* `IdMod` 8 stands for 256. It must exceed EOT + 1, so that header codes are
  still different ids. An image of 10 blocks passes the wrap; a region of 8
  blocks with 8 ids has the shape of the real one, 1024 blocks with 256 ids: the
  id is back at 1 when the region is full.
* Three faults hit the header, the descriptor and the data of one frame, or one
  frame, its answer and the repeat.
* In `retry` three damaged blocks in a row are exactly what two "retries" of the
  code's test (`retryNum > MaxRetry`, before the count) allow.
* Timer periods of 2 and a pause of 1 tick give every order of expiry, header
  and answer; the actual 1000, 10 and 100 ticks only add idle ones.
* A callback that takes out its own timer, its neighbour or the first one, and
  a list with a beginning, a middle and an end, take three timers.
* Two accidents interrupt an update and then the run that repairs it, or lose an
  answer and then what the program does about it, or make two answers late. A late answer is one
  fault, however late. Two repeats instead of three make
  two faults enough to exhaust them. A second row of the fuse map would be written as
  the first. Two rates are the one the BDI has and another.
  The records have what the collection of blocks distinguishes: a neighbour, a block
  that is full, a gap, the end of the file; they lie in both sectors, and two of them are of odd
  length. The BDI is found with the old version, or without a firmware and with new logic; the other
  beginnings (`Found`) are covered by the proofs, and many are reached on the way. 1.05 million states.
* Eight ticks with an overflow every third pass two overflows, at any point of the
  routine; the third measurement finds both places of the PDC taken.
* Four calls are one that is aborted, one that inherits, one refused and one more.

Fairness is weak everywhere. In the download (`FairSpec`): the operator starts the host
program; the host's loop runs; characters travel (the number of faults is
bounded); an enabled interrupt is served; the system timer ticks; the main
program runs between interrupts. `EndsWell` and `BoardStarts` are claimed only where
every fault is answered (damaged data or CRC) and, for `EndsWell`, the image is
smaller than the region: after a lost
character or answer neither side has a timeout, and they wait for ever.
In the setup program: the program, the library, the BDI with its wires go on, and the
operator starts the program again; nothing makes an accident happen or not. In
the DataFlash service: the SPI transmits and receives, and its interrupt is served. The
timers need none: `TickNearsEnd` says that every step of the tick brings its end nearer.

Where headers may be damaged, `ImageIsStill` is claimed for an image smaller than the region only. When the image fills
the region the completion timer starts with the last block while the host may
still send, and a frame the host sends after noise is written behind the region.

### Findings

1. *False success.* A damaged header is acknowledged before its frame is there
   (`obj_svcxmodem.c:190-196`); the frame is answered again. The host is one verdict
   ahead from then on, sends EOT early, and the loader announces and starts an
   incomplete image.
2. *Deaf service.* `StartRx` enables RXRDY and then disables ENDRX (357-358). A
   header served between the two lines leaves no receive interrupt enabled.
3. *Blind open.* `AsynResetLink` ends without a return statement when the BDI does not
   answer at the rate it has just confirmed (`bdidll.c:639-641`); `BDI_Open` may
   return 0, and the first command then fails as not answered.
4. *Lost overflow.* `StopTimer` disables the overflow interrupt before it stops the
   counter (`Timer.c:58-59`). An overflow between the two is missing in this
   measurement and, as the flag stays up, too many in the next.
5. *Abort leaves the second transfer.* `AbortCommand` disables the PDC and leaves its
   next counters (`obj_svcdataflash.c:135`); the next command, if it has no data of
   its own, sends and stores the rest of the aborted one's. If the abort comes when the last
   command byte has been sent and not yet stored, the receiver's counter is left and the transmitter's
   is not: the next command without data waits for bytes nobody sends, and the service is
   busy for ever. `Ends` excepts exactly this (`WillFill`); without the exception TLC finds it.

Limits that are plain in the code, and for which no run is spent: `packetDesc` of an earlier
frame decides after a damaged header (`obj_svcxmodem.c:205`), which takes five faults
to accept a wrong block; the CRC of the last block of a full region is written behind
it (181); only one block is ever transmitted (255); `Remove` searches the
first list only (`obj_svctempo.c:194`); a callback that removes and creates its own
timer leads the walk into the new list (255); the ticks of the pause wrap
(`main.c:188`); `obj_pipe.c` stores a callback before it asks whether the service is ready (123) and
takes the success of a stop for a failure (214); a buffer address may be one too large
(`obj_svcdataflash.c:288`); the conversion to microseconds overflows 32 bits
(`conversion.c:123`); time and date are read one after the other across midnight
(`InterruptMeasurmentService.c:57`); an empty list of modes passes silently
(`bdisetup.c:2312`); a BDI-HS loses the last byte of an odd record (736); a frame that comes while
the library waits is returned whatever it is (`bdidll.c:776`). What the last one can do is modelled: on a link that
is not calm an update can go on with the answer of another frame, and TLC finds `TriggerMeansComplete`,
`HalfTriggerReported`, `UpdatedIsCurrent` and `NoOldLogicBesideNew` violated without `Calm`.

## 4. Proofs

| theorem | module | property | holds for |
|---|---|---|---|
| `TypeCorrect` | `XmodemDownloadProofs` | `TypeOK` | every image and region, id space, timer setting, number and kind of faults, start of the host |
| `Invariance`, `AcceptedStays`, `PdcStaysAhead`, `CountersStayEqual`, `NoStorm` | `XmodemSafetyProofs` | `RamKeepsAccepted`, `PdcAhead`, `CountersAgree`, `NoInterruptStorm` | the same |
| `InOrder`, `StaysStill`, `Implements` | `XmodemSafetyProofs` | `AcceptedInOrder`, `ImageIsStill`, `KeepsPromise` | the same; `Orderly` |
| `VerdictIsNew` | `XmodemSafetyProofs` | `LockStep` | the same; `Orderly`, `RoomLeft` |
| `TypeCorrect` | `TempoListProofs` | `TypeOK` | every finite set of timers, timeouts and reloads, calls in a callback |
| `ListsHoldMembers` | `TempoListProofs` | `MembersListed` | the same |
| `AllAreNotified`, `EndComesNearer`, `FiresInTime`, `NoneLate` | `TempoListProofs` | `AllNotified`, `TickNearsEnd`, `FiresOnTime`, `NoneOverdue` | the same, in every behaviour with `[][OwnLast]_vars` |
| `OneCallIsLast` | `TempoListProofs` | | one call in a callback at most: `OwnLast` holds |
| `AnswersOwn`, `Implements` | `BdiLinkProofs` | `AnswersOwnCommand`, `KeepsPromise` | every set of commands, rates, repeats, kinds and number of faults, late answers and attention frames included |
| `SetupUsesLink`, `SetupTypeCorrect` | `BdiSetupProofs` | `TypeOK` | every firmware file, size of a block, fuse map, number of repeats, rates and faults, and every state the BDI may be found in |
| `SetupAnswersOwn`, `SetupKeepsPromise` | `BdiSetupProofs` | `AnswersOwnCommand`, `KeepsPromise` | the same |
| `TriggerComplete`, `HalfIsReported`, `UpdateIsCurrent`, `NewBesideNew` | `BdiSetupProofs` | `TriggerMeansComplete`, `HalfTriggerReported`, `UpdatedIsCurrent`, `NoOldLogicBesideNew` | the same; `Calm`, which the properties state |
| `ConfigIsComplete` | `BdiSetupProofs` | `ConfigComplete` | the same; `Calm`, which the theorem states (the run checks it without) |
| `Invariance`, `TypeCorrect`, `Measures`, `StaysArmed`, `LatestIsOut` | `LatencyProofs` | `TypeOK`, `MeasuredRight`, `InputRearmed`, `LastLineIsLatest` | every width of the counter, length and number of measurements, length of a line |
| `Invariance`, `TypeCorrect`, `CarriesOut`, `StatusIsTrue`, `FailsByAbort` | `DataFlashProofs` | `TypeOK`, `CarriedOutAlone`, `StatusIsAnswer`, `ErrorNeedsAbort` | any number of calls and size of data |

Assumptions are those each module names: `XmodemAssumption` (the image is not
empty and fits, ids are more than EOT + 1, periods are positive), `TempoAssumption`,
`LinkAssumption`, `SetupAssumption` (the link carries the loader's commands and outcomes,
the file is a sequence of records, the BDI is found with old or erased firmware and old, erased or new logic), `LatencyAssumption`, `DataFlashAssumption`. The hypotheses in the last
column are stated in the theorems:

* `Orderly`: the line damages data, CRCs and answers and loses answers, as often as it likes, but
  headers and descriptors arrive as they were sent, and the operator starts the host when
  the board listens. Nothing is assumed of the speed of the host or of the handler. Without it
  `KeepsPromise` and `LockStep` are false after one damaged header (finding 1), `AcceptedInOrder`
  after five, and `ImageIsStill` for a full region (section 3). A host started too early takes
  any character for the invitation.
* `RoomLeft`, for `VerdictIsNew`: no answer is lost, or the image is smaller than the region. When
  the last block fills the buffer, the loader's message comes before its ACK; if the line loses
  the message alone, the host sends EOT, takes the next message for a refusal and sends EOT again
  while the first is still being answered.
* `Calm`: nothing came but what the host was waiting for or was about to drop (2.3). All other accidents may
  happen on a calm link: frames are lost and damaged, the BDI restarts, flash refuses, the program is
  stopped. Without it the four properties that state it are false (section 3).
* `[][OwnLast]_vars`: a callback that has removed the timer it was called for does not create
  that timer again and removes no other in the same call. Without it `AllNotified` is
  false: the tick's pointer stands on a timer that is no longer listed, so what is created
  or removed then passes it by. `OneCallIsLast` proves it for callbacks that make one call at
  most. Those of the sources do (`XmodemComplete` stops its timer, `main.c:75`; the others make none), and
  so do those of run `timers`.

**The download.** That an accepted block stays is not inductive by itself; `IInv` of
`XmodemSafetyProofs` adds why it holds:

* `PdcAhead`: a write of the PDC cannot hit an accepted block, because what it has
  still to write lies behind them. When a block is accepted, "behind" moves on,
  so the PDC must then be idle:
* `PdcIdle`: RXRDY and RXBUFF rise only when no descriptor is left, and there is
  no next descriptor without a current one.
* `MaskFits`: the handler checks data only after RXBUFF, because ENDRX is enabled only
  while a descriptor is awaited; no interrupt is enabled before `ReadEnable` and
  after EOT. Without it the handler could check data half received. It also gives
  `NoStorm` at once.
* `CursorFits`: the place the service checks (`pData`) is where the next accepted
  block belongs, so the block accepted is the one in RAM.
* `CountersAgree`: the buffer's cursor, from which every descriptor is programmed,
  is the number of accepted blocks; the wrap of the id needs the arithmetic
  lemmas `ModUnique` and `NextMod`.

There is one lemma per actor (`ReceiveSafe`, `IsrSafe`, `BootSafe`, `BoardStillSafe` for
the host, the answers and the timer), with one step per action below it.

Order, promise and lock step need to know which frame is under way and how much of it has
arrived. `PInv` says it in phases:

* `Before`: the host is not started; `Resting`: no frame is under way; `Ending`: every
  block is accepted and EOT follows.
* `Sending`: the frame of block `packCounter` is in one of the places of `Stage`, and no verdict
  is under way. It is on the line (`Announced`), its SOH in the UART (`Heard`), its
  descriptor on the way to `packetDesc` (`Describing`), its data on the way to RAM
  (`Loading`), or all of it has arrived (`Loaded`). Each place fixes what the line still holds, what the PDC
  still has to move and where to, which flags are up and which one is enabled. In the last two the
  handler may have looked at the descriptor or not (`Described`): ENDRX may be served at any time before the check.
* `VerdictFits`: in `Resting` an ACK under way means that the board has accepted as many blocks
  as the host has sent, a NAK that it has one fewer, and there is one verdict at most. So the next
  frame is that of the block after those accepted, new or repeated.

`ReceiveSends` takes a frame from place to place as its characters arrive, `IsrSends` as the handler is
served, `HostPhase` ends and begins the phases. The descriptor in `Described` is that of the block
expected, so the handler accepts no other one; the CRC fits nothing but the block it was sent with (2.1), so
what is accepted is right. `Implements` maps each step by the refinement mapping of 2.1; `AllIntact`
shows that under `PInv` every accepted block counts as stored, with the help of `RamKeepsAccepted`.

`LInv` is what `LockStep` needs besides: the timer, which prints the loader's message and the invitations,
is silent while the host waits for a verdict (`TimerQuiet`); completion is due to a full buffer or to EOT
(`FullOrEnded`); an ACK is the last answer under way, or the message on the full buffer comes
before it (`AckAlone`); EOT is answered once, and an EOT sent again finds nobody who answers (`EndsOnce`).

**The timers.** What the lists hold is reachability along `next`, which the provers cannot
follow step by step. `Linked` says it another way: each timer has a number (`r`) such that the head of a list
is the timer with its highest number, and each timer's successor the one with the next lower (`Ordered`).
Creating a timer gives it a number
above those of its list, a tick that joins the lists raises one of them above the other, removing a timer changes none.
That `Listed` is this set needs only that no set is smaller and closed under `next`
(`ListsHoldMembers`). For the walk, `Walk` says that the timers still waiting are those the numbers put
under the tick's pointer, also while a callback changes the list; `AllAreNotified` follows, and with it
`EndComesNearer`, because each timer is taken from those waiting as it is met. `AllOnTime` ties an enabled timer's count to its age: together they make
what it was started with, one more while the running tick has still to meet
it, one less when a callback started it before its turn.

**The link.** `AnswersOwnCommand` must hold on a wire with any number of frames from anywhere.
`OwnFits` says whose they are: among those on their way to the BDI the ones that are `own` are the command
that is running; while no stray frame can be in the way, what the host may read is damaged or the right
answer, and a command that is answered has been carried out (`WayClear`). A command on its way is counted once: `ran` and
the own commands still on the wire are together no more than `repeats`. `Implements`
then maps each step to a step of `BdiCommand` or a stutter, and `SetupUsesLink` shows that
the setup program does nothing with the link that `LinkSpec` does not allow: both results carry over.
On a calm link at most one frame that matters is under way (`OneFrame`), which the proofs of the setup program need;
`CalmStays` shows that a link that is calm has always been, so that `Calm'` may be assumed of a step.

**The setup program.** That the trigger means a complete firmware depends on the scripts, on
what is under way and on what the answers say, so `SafeInv` ties four things together:

* *The scripts* (`BdiScriptProofs`). A command that touches a byte or the trigger has a rank:
  erase the trigger's sector, erase another one, program bytes, program the trigger.
  `ScriptFits` shows of every script that ranks never fall (`Sound`), that a script which
  touches bytes erases the trigger, and that one which programs the trigger programs every
  byte of the file that is sent (`Whole`). For the last, `CollectedAll` follows the loop that
  collects records in blocks: after n records every byte of them is in a block sent or in
  the block being filled. The induction over the records is stated for a set of numbers
  (`SetInduction`, from the least-element principle of the natural numbers), since the library's
  induction theorem takes an operator.
* *The rest of the script* (`RestFits`). These facts weaken as the script is worked off: either
  the trigger's sector is still to be erased or no version can be started, and
  each byte is still to be programmed or new, with no erasure of it left.
* *What is under way* (`Underway`). A command on the wire is `Safe`: carried out now it does
  no harm. It must stay so while it waits on the wire of a program that was stopped and
  started again, or is sent twice, or refused by the flash; it does, as nothing but a command
  changes the store, and there is one frame at a time. An answer that says "ok" is right about the store.
* *Who gives commands* (`StageFits`). What is on its way is the head of the script or one of the
  two commands of the connection.

`NextIsSafe` shows that the head of a right rest is safe, `CarriedOut` what a safe command
leaves, also when the flash refuses half way, and `PassesFits` that with the answer of
the head the tail is right again; it needs `AnswersOwnCommand`: with the answer of another
command the program would go on to bytes while the old trigger is still there.

`WorkInv` extends it to what a script leaves behind, for the properties of the configuration,
the logic and the result:

* `ScriptFits` also orders the reading after the writing: what a script writes and then reads back it does not
  write again (`Unwritten`), and a restart of the BDI comes after the logic is erased and the trigger stored.
* *Configuration* (`ConfigRest`, `StoreFits`): the mode is erased before the init list is
  programmed, and programmed after it; so a stored mode has a list, wherever the script stops.
* *Logic* (`LogicRest`, `NotOld`): the logic is erased in ISP mode, before the trigger. ISP mode is
  a state of the BDI, which a power failure or the firmware takes away (`Spoilt`), also while the
  answer that granted it is on its way.
* *Result* (`ReadRest`, `OverFits`): while no step has failed, each cell the program answers for is new
  and will not be written any more, or is still to be read back. An answer tells what is stored
  (`Tells`), and nothing but a command changes that. At the end nothing is on its way, so no late
  command undoes it.

For `HalfTriggerReported`, `ReportFits` adds that whoever may leave half a trigger is an update or an erasure that has
failed or still has the trigger to erase or to program.

`WayFits` carries these facts over the wire as `Underway` does. `Effect` and `Turns` say once what
carrying out a command can change; `AnswerFits`, `ProgramWorks` and `AccidentsFit` then go through the
steps of the BDI, the program and the faults.

**The measurement.** `TicksCounted` accounts for each tick: the overflows counted, one more if the flag
is up or the nested handler has not counted yet, and the counter. It holds because
flag, interrupt and handler go together (`OverflowFits`), and a flag that is up
with its interrupt disabled is a late overflow (`FlagFits`). For the lines `LineInv`
says that a line that is waiting is sent after all that is written to the buffer
before it starts, so the result that is refused is still in the one that waits.

**The DataFlash service.** `Conveyor` says where each piece of the accepted command is: what was
stored, the one in the receive register, the rest in the two transfers of transmitter and receiver, which
run in step. `StatusFits` and `InterruptFits` tie the mark for a status and the interrupt to
the command that set them.

Only model-checked: liveness (`EndsWell`, `BoardStarts`, `UpdateGetsDone`, `Ends`; out of the prover's
reach), and `AcceptedInOrder` and `ImageIsStill` under the faults of run `noisy`, which `Orderly` excludes. There
`AcceptedInOrder` holds for three faults and not for five, so there is nothing to prove for every number of them;
of `ImageIsStill` nothing is claimed beyond that run.

## 5. Plan

Done: the download with its promise, proved as far as the code keeps it; the timers; the BDI2000 library with its
promise and the setup program over it, proved to leave nothing half done that counts as done; the measurement; the DataFlash service. Left:

1. What the download still promises when headers are damaged: how far the host can be ahead after
   so many of them, and that a wrong block takes five faults.
2. A BDI that is late: what remains of an update if at most one answer is.
3. `com.c` (the wait flag against its signal), should it grow beyond one flag, and the
   transmit side of the services and the SD card driver, should they get a caller.

## 6. Not modelled

* *SD card driver* (`mci_device.c`): nothing calls it, `Mci_init` included; the reader and
  writer its handler tests are never set (`Hal.c:27`).
* *Transmit side of the XMODEM service, pipe write and abort, `MsgRead`, `MsgWritten`*: no caller;
  what is wrong with them is plain (section 3).
* *com*: a terminal loop of one flag and one signal handler.
* *Boot-time initialisation* (`initboot.c`, `crt0.S`, `init.c`): straight-line register
  writes; the waits for the oscillator and the PLLs are bounded, and what they return
  is not looked at. (`crt0.S:36` clears bss with a pointer other than the one it has loaded.)
* *Device drivers of the application*: register writes without a state of their own.
* *Parsing* of the BDI's setup files (`bdicnf.c`), fuse maps and command lines: valid or not.
* *Vendor headers, peripheral library, descriptors, examples, Linux files, documents*: code
  of others, constant tables, or none. They make up most of the repository's lines.
* Within the modelled parts: the interrupt controller's own registers, `Start` of a running
  timer interrupted by a tick (stores that a tick sees half done), times of day.
