# Specifications of the OpenRISC virtual prototype

TLA+ modules, TLC configurations and TLAPS proofs for an OpenRISC system: its
hardware in `systems/singleCore` and `modules` (an OR1420 processor, a bus with
an arbiter, an SDRAM controller, a flash, a UART, a boot ROM, a camera
interface, an I2C master and an HDMI screen), and its software, the monitors in
`modules/bios/c` and the library and programs in `programs`. Every definition is
translated from the Verilog or the C; `PROJECT.json` gives for each of them the
lines it stands for.

Paths below are relative to the repository. "Clock" means an edge of the
system clock. `bios/c` is `modules/bios/c`, `support` is `programs/support/src`.

## 1. The system

### Hardware: parts and their state

| part | source | state | operations |
|---|---|---|---|
| bus arbiter | `modules/bus_arbiter/verilog/busArbiter.v`, `queueMemory.v` | state machine, circular queue of requests with two pointers and a mask, time-out, grant/error/end outputs | queue one request per clock, grant the head, wait for the begin, watch the transaction, raise and end a bus error, remove the head |
| load/store unit | `modules/or1420/verilog/dCache.v` | operation in the unit, stall, error, two state machines | take an operation from the execute stage, put it on the bus, release the pipeline |
| fetch stage | `modules/or1420/verilog/fetchStage.v` | program counters, tags, valid bits, lines, fill and bus machines | look an address up, fill a line by a burst, deliver an instruction |
| boot ROM | `modules/bios/verilog/bios.v` | state machine, burst counter, address | answer a burst, refuse a write |
| UART port | `modules/uart/verilog/uartBus.v` | latched access, read machine, write pulse | answer a byte read, write a register, refuse words |
| UART | `uartTx.v`, `uartRx.v`, `uartRxFifo.v`, `uartTxFifo.v`, `baudGenerator.v` | two queues with flags and marks, shifter, error bits, divider | send, receive, refuse on overrun, tick |
| clock crossing | `modules/support/verilog/synchroFlop.v` | three flip-flops | carry a pulse into another clock |
| flash reader | `modules/spi/verilog/spiBus.v`, `spiShiftQuad.v` | latched access, shifter machine, word counter | wait for the flash, shift words out, end the burst |
| SDRAM controller | `modules/sdram/verilog/sdram.v`, `sdramFifo.v` | bus registers, write handshake, state machine at twice the clock, refresh and distance counters, read buffer | initialise, refresh, read a burst (in two parts across a row), write word by word |
| graphics controller | `modules/hdmi_720p/verilog/graphicsController.v` | registers, fetch machine, line address, write index | register access, fetch a line in one or two bursts, fill a line with black |
| camera interface | `modules/camera/verilog/camera.v` | control bits, line buffer, copying machine | start, stop, single image, copy a line in bursts |
| I2C master | `modules/i2c/verilog/i2cMaster.v`, `i2cCustomInstr.v` | state machine, pass of a read, acknowledge error, flags of the instruction | read, write |
| custom instruction port | `decodeStage.v:814-846`, `executeStage.v:156-206` | start, done and extended flags, saved result | start a unit, stall, take the result |

### Software: parts and their state

| part | source | state | operations |
|---|---|---|---|
| monitors | `bios/c/bios1.c` (OR1420), `bios/c/bios.c` (OR1300) | target, mode, address, bytes of the word under way, repetition; SDRAM, flash, soft BIOS | commands, downloads, start, store into the flash, erase, check, boot |
| flash routines | `bios/c/flash.c` | the flash | erase a page, program a block, check the last page |
| serial routines | `bios/c/uart.c`, `support/uart.c`, `platform.c` | divisor, latch, the number under way | set the line up, send, receive, read a number |
| I2C routines, clock | `support/rtc.c` | retry | read with up to four attempts, write |
| camera driver | `support/ov7670.c` | registers of the chip; image under way | set up for a resolution; take one image, wait for it, grab continuously |
| locks, barrier | `support/locks.c`, `barriers.c` | one byte per lock; one bit per processor | `get_lock`, `release_lock`; enter, wait |
| other processors | `support/cpu2.c`, `cpu3.c`, `exception.c`, `crt0.s` | stacks, start bits, vectors | start, install handlers, take an exception |
| random numbers | `support/lfsr.c` | state, mask, feedback | set up, draw |
| memory routines | `support/string.c` | pointers | `memcpy`, `memmove`, `bcopy`, `memset` |
| caches, timer, counters | `cache.h`, `tickTimer.h`, `perf.c`, `perf.h` | special registers | switch on and off, measure, convert |
| image programs | `programs/camera/src`, `programs/grayscale/src` | error array, pictures | grey values, dithering, edges |

### How they interact

All hardware hangs on one shared bus whose wires are the OR of everything that is
driven (`or1420SingleCore.v:682-693`). A master raises a request line (31 the
load/store unit, 30 the fetch stage, 29 the graphics controller, 28 the
camera; lines 652-661), waits for a pulse on its grant line, drives one
clock of *begin* with the address, and then words go one way or the other with
*data valid* until *end of transaction*. Reads are ended by the slave, writes by the
master. *Busy* holds a writer, and only the SDRAM drives it. *Bus error* comes
from slaves that refuse and from the arbiter when nobody acts for 32768
clocks. Parts also act on each other outside the bus: stalls between fetch
stage, load/store unit and custom instructions (`or1420Top.v:314-316`), the
busy flag between the two flash shifters, pulses from the pixel clock, the
camera clock and the baud clock.

Programs reach the devices by polling registers (UART), by custom instructions
that stall (I2C) or return at once (camera), and each other through bytes and
bits that several processors write.

### What is hard

* **Registered outputs everywhere.** A party sees the effect of its own output
  one or two clocks later; what it decides meanwhile rests on old values. The
  grant comes from a memory read a clock ago; a posted store is over before the
  slave can refuse it; a sent byte leaves its queue two clocks after it was copied.
* **Ends from several sides.** Master, slave and arbiter may each end a
  transaction, sometimes together with its last word.
* **Time-outs against late answers**: a flash that is being erased, an address
  nobody answers, a master that begins in the very clock the arbiter gives up.
* **Refresh at any moment**, across the write handshake and split bursts.
* **Producers that do not wait**: the sensor, the screen, the serial line.
* **Two clocks** that tick in any order, with pulses that may merge.
* **Power cuts** between any two operations of the flash and in the middle of one.
* **Nobody looks**: writes to the camera whose acknowledge is ignored, a flash
  whose error flags are never read.
* **Processors in any order** in locks, barrier and exceptions.
* **Edges of numbers**: an assertion that is always true, errors kept in 16 bits,
  overlapping copies, a counter read in two halves.

What makes each part correct is stated by the properties of section 3; the
hazards are listed with their lines in `PROJECT.json`.

## 2. Modules

| module | models | notes |
|---|---|---|
| `BusArbiter` | the arbiter | one action per state of the machine; `Clock` is an edge without, `Reset` one with reset |
| `FifoArbiter` | what the arbiter promises | first come, first served, one holder |
| `DCache`, `LoadStorePort` | load/store unit, its promise | |
| `FetchStage` | fetch stage | |
| `SdramFifo`, `ReadQueue` | read buffer, its promise | |
| `ClockCrossing` | `synchroFlop.v` behind the baud generator | two actors, one per clock |
| `MCUnits` | instance of the five above, each in an environment that does anything its inputs allow; refinement mappings | |
| `Bios`, `UartPort`, `FlashPort` | the slow slaves | |
| `SystemBus`, `MCSystemBus` | `BusArbiter` + `DCache` + `FetchStage` + the slaves on the wires | every part takes its clock edge in one step |
| `Sdram` | the controller and the chip | `MidClock` (fast clock) then `EndClock` (bus clock) make one step |
| `SdramTraffic` | masters that use it; properties | |
| `GraphicsDma`, `CameraDma`, `FrameMemory` | screen and camera masters; the SDRAM as they see it | |
| `VideoBus`, `MCVideoBus` | those with `BusArbiter`, a processor, a screen and a sensor | the instance adds a program that keeps to one use of screen or camera |
| `Uart` | queues, transmitter, receiver | one step per clock; a queue is a record, its next value an operator |
| `SerialDriver` | the serial routines over `Uart` | one bus access per step, clocks between |
| `I2cMaster` | master, instruction and the port of the pipeline | a byte on the wire is one state |
| `I2cDriver` | the I2C routines over it, and a device that may refuse any byte | |
| `CameraDriver` | the grabbing calls over the control part of `CameraDma`; the register lists and the setup | |
| `Locks`, `Barrier`, `MultiCpu` | the multi-core library | one access to shared memory per step |
| `FlashDriver` | flash routines and the chip | the contents before and after each round of their loops |
| `Monitor`, `Monitor1300` | the two monitors | one step per command, byte and flash operation |
| `Lfsr`, `MemCopy`, `Images`, `Registers` | the rest of the library and the kernels | one step per number, round, pixel, call |
| `MCConcurrent`, `MCSoftware` | instances of the software modules, one in each behaviour | the first has the fairness and the liveness |
| `BusArbiterProofs`, `UnitsProofs`, `SdramProofs`, `VideoBusProofs`, `MultiCoreProofs`, `MonitorProofs`, `SystemBusProofs`, `LibraryProofs` | proofs (section 4) | |

Conventions. In the hardware a step is one edge of the system clock: all registers are assigned
from the values before it, as non-blocking assignments do. A register keeps the
name of the source where one exists, with a prefix per module where several
modules meet (`dc`, `fs`, `bs`, `ur`, `fl`, `rf`, `sd`, `gr`, `cm`, `fm`, `ut`, `ux`, `xc`, `im`, `cu`; in the
software `lk`, `br`, `ex`, `cd`, `cs`, `sr`, `id`, `lf`, `cp`, `dt`, `ed`, `gy`, `rg`); the comments of the
VARIABLES give the name in the source. A state of a machine, and a function of
a program, is an action of the same name. Combinational wires are operators. A mask of lines is a set.
A word is represented by the address it belongs to, so that "the right word"
can be stated; `NoWord` is a wire that nobody drives. Operators introduced by a comment
`Mutant:` are faulty variants of the definition that follows; no
specification uses them, they show that a property can fail (section 3).

In software a step is what other actors can tell apart: an access to memory that another processor shares, a bus
access to a device, an operation of the flash, a custom instruction. Code between two of them is part of the step.

Abstractions that matter to a reader:

* `SystemBus`: the target of an access stands for address and byte enables
  together; code is in two lines, each at one slave. Refills of the cache and
  loads compete for the bus in every order.
* `FetchStage`: addresses count words; tag, index and word of an address are
  computed as the code slices them.
* `FlashPort`: the bits of a word take `ShiftClocks` clocks and the word counter
  is bounded by `CountLimit`. With so narrow a counter the long run of the
  shifter after a refused byte read (`spiBus.v:46-47`) does not occur in the runs; no
  property speaks of it.
* `Sdram`: the contents of one half word, chosen at the start, are watched.
  A transaction that reads or writes another one shows its place only. A master
  writes different values only where they are watched.
* `FrameMemory`: each word may take 1 to `MaxPause + 1` clocks. It stands for
  the bus side of `sdram.v`; that `Sdram` implements it is not shown.
* `VideoBus`: the address wires that a slave latches are those of the master
  that begins; `frame` tells for each word of memory which image it is from.
* `Uart`: a frame on the line is its byte and its kind (good, without stop bit, with wrong
  parity, break); the sampling of its bits and the parity trees are left out. Frames are far enough apart for the four clocks
  that storing one takes. `uxClear` is a wire that nothing drives (`uartBus.v:153`), so it is either constant.
* `I2cMaster`: the bits of a byte go together; a state is left when the divider
  has sampled its last bit.
* `Monitor`: a word has two digits of base 4, the flash four pages of four words;
  a program is a list of words whose first is the magic word. The bytes of a download are those the host sends, with
  repetitions. `sent` and `image` record what was sent and stored.
* `MultiCpu`: a program is words that it keeps on its stack and takes back, at most `ProgramWords`; a handler puts `HandlerWords` below the
  frame, for what `puts` and `printf` use, and is named by the entry of the table. Behind a table is anything, so the processor jumps anywhere: it and one
  that has gone on with a wrong word are *astray*, and may overwrite the SDRAM and their scratchpad, but write no special registers. No stack
  reaches the bottom of its memory. `exBase` and `exAsked` record with which stack a program began and which one was asked for.
* `Lfsr`: a register is the set of the positions of its ones. `Images`: small pictures; the dithering goes on from one to the next with the errors it has.
* `Registers`: SPR 9 is its low byte and the clock in kHz, whose six decimal digits the code takes apart.
* The parameters of burst lengths, line lengths, queue length and time-outs are
  CONSTANTS, with the values of the code in comments.

External, modelled from how the code uses them: the chip behind `sdram.v`, the flash chip,
the sensor, the I2C device, the camera chip behind its registers, the host on the serial line, the
power supply, and the special registers of the OR1300 platform, whose hardware is not in the repository.

## 3. Runs

Each property of a passing run has a mutant in `PROJECT.json`: a plausible bug in a
definition of the model with which TLC finds that property violated. Properties
that answer one question together are conjunctions of named parts.

| run | bounds | states | what it shows |
|---|---|---|---|
| `units` | arbiter with 3 lines, time-out 2, queue memory empty or full of ones at power-up; load/store unit with 2 targets and 2 words; cache of 2 lines of 2 words, 8 addresses, 3 jump targets; read buffer of 4 entries; divisors 0, 2, 5 and 27 with up to 2 reference edges per clock | 370 000 | the queue and the grants are right (`IInv`), the arbiter refines `FifoArbiter` and always comes back; each access once on the bus (`LoadStorePort`), its error reaches the pipeline; instruction and address match; the buffer is a queue (`ReadQueue`); no tick is lost or doubled |
| `sysbus` | cache of 1 line of 2 words, code in ROM and flash, time-out 16 | 3.5 million | one driver of the wires, every access has its outcome, instructions are right |
| `sysbus_live` | time-out 6, flash busy at will, code and data nobody answers for, custom-instruction stalls | 500 000 | every stall ends |
| `sdram` | 2 rows of 2 words, read buffer of 2, bursts of 1 and 3, a refresh every 5 clocks | 900 000 | data, order, protocol of the chip, refresh in time, every transaction ends |
| `screen` | bursts of 2 words; lines of 3 words, or of 2 and 1 with double pixels, grayscale or doubled lines; a base in memory, one nobody answers for, and black | 900 000 | the line shown is the right one |
| `camera` | lines of 3 words in two bursts, images of 2 lines; single images, or continuous ones with two frame buffers; or the screen with a base nobody answers for | 430 000 | images land complete and in place; late lines stay in the frame buffer; both masters come to rest |
| `concurrent` | 3 processors, 2 locks, 3 rounds of the barrier; 1 word of a program, 1 of a handler and frames of 3, stacks at the top of memory or 9 words below it, exceptions 4 (tick) and 5 (alignment); 2 setups of the camera chip with all its registers; 2 frame buffers; 1 call of the serial and I2C routines | 78 000 | exclusion, the barrier, programs that survive exceptions and run on the stacks asked for, fresh images, a setup that forgets the last one; everybody who waits is served |
| `software` | flash of 4 pages of 4 words, 3 commands, 1 fault, downloads of 4 bytes to the words 0 to 2, the last of which is the limit of the soft BIOS; queues of 2 bytes, 3 frames, 2 calls; registers 0 and 1 of an I2C device; generators of 4 to 6 bits through their whole period; copies in 11 bytes with words of 4; pictures of 4 by 2 for dithering and of 3 by 3 for edges; a counter of 4 values whose words have 2 | 3.6 million | downloads, flash and boot; what is sent and received; the device is read and written as asked; the algorithms |
| `sdram_distance` | distance 2, refresh delay 5 | 190 000 | finding 1 |
| `camera_poll` | one line | 470 | finding 2 |
| `monitor_start` | as `software` | 90 000 | finding 3 |
| `lfsr` | as `software` | 28 | finding 4 |

Why the bounds are enough. Three lines make a circular queue wrap with one master
served, one waiting and one arriving; the time-outs are as short as
keeps every order of expiry and late event possible. A cache of two lines with
four lines of code has every conflict of tag and index. Two rows of two words
with bursts of three, the longest that cross only one end, cross a row in both possible places and wrap a buffer of
two entries. A refresh period of 5 clocks is shorter than a transaction, so a refresh falls into every state.
In `sysbus` the time-out of 16 is longer than the slowest answer of the flash with
two bits per word, as 32768 is in the system; in `sysbus_live` it is shorter than
a busy flash. Three words per line with bursts of two give a full burst
and a rest. Three processors make one wait for another while a third is a round ahead. Nine words are
exactly `Room` of `MultiCpu`, so stacks at the distance asked for touch but do not overlap, and those that the displaced `set_stack_cpu3` leaves in one place do overlap. Both
exceptions are entries of each table, and differ: 4 and 5 are tick and alignment for the first processor, alignment, which traps behind the table, and illegal instruction
for the others. The stack registers of the helpers come up alike, and in the SDRAM only next to a first processor with its stack in its scratchpad, to keep the run short; the
theorem has no such bound. Pictures of 4 by 2 have pixels whose error falls on four neighbours, and a last line whose error the next picture takes. A download of four bytes is two
words, at any of three places, with one left over after a refused or a new address; four pages have one that holds the program, the
test page at the end and one that neither touches; with three commands a program is downloaded, stored, and something is done to it,
and the fault may come anywhere. Queues of two bytes are empty, in use and full, and three frames overrun them.
Eleven bytes hold a word with bytes on both sides, at every alignment and overlap. No constraint cuts the state space: the
counters are bounded by the model itself (registers of fixed width, places
modulo the size of the chip, lines of an image, lines of the screen, or one of the constants with *bound* in its comment).

`units`, `concurrent` and `software` check several components in one TLC run: a variable `part`, chosen at the start, tells which
of them moves. The rest stay as they were, in one fixed initial state.

The arbiter of `VideoBus` has fewer lines than the four of the system: three, one for each
master of the composition, and a queue of two entries in the runs `screen` and `camera`, where at most two masters are active. The camera run has no other master on the bus (the memory alone makes lines late), and a
program that takes single images does not switch to continuous ones: next to two
lines of words that arrive at any clock this does not fit. `CameraDriver` has that switch, without the copying.
The screen run has the processor as the competing master.

Deadlock is checked in all hardware runs. The software runs switch it off: a program that has made its bounded calls is at its end.

### Fairness

In the hardware the only actor that must go on is the clock, so fairness is weak fairness of
the step that is a clock edge: `FairSpec`, `SbFairSpec`, `TrFairSpec`. It forces
no event from outside: a step that changes nothing at all satisfies it only in
states where the liveness property already holds (arbiter in IDLE or with
a reloaded time-out, no stall, no transaction), so as long as something is
outstanding each clock changes a register, and requests, answers and stalls are
still free. In `VideoBus`, where masters and pulses come from outside,
`VideoFairSpec` (and `CameraUseSpec` of `MCVideoBus`) asks only for `QuietClock`, a clock in which nothing comes
from outside.

In `MCConcurrent` fairness is per actor: each processor keeps executing what it is in (`LkStep`, `BrStep`; its program need
not call again), the driver of the camera its call (`CdDriverStep`), the serial routines their polling and the baud generator its
ticks (`SrPoll`, `SrTick`), the I2C divider its ticks and the pipeline the release of its stalls (`IdTick`, `IdReleased`), all weak.
The only strong fairness is that of the sensor (`Often`): it sends frames for ever, but in which clock one begins is not its business.

`NeverStuck` has the escape the code has: data valid in SERVICING reloads the
time-out (`busArbiter.v:36`), so a transaction in which data keep coming never times out.
`CameraRests` excludes a sensor that never stops sending lines. `FreeLockTaken` promises that a free lock is taken by somebody; nothing
in `locks.c` promises it to a given processor. `BarrierOpens` needs programs that do not
enter the barrier again before everybody has left it (`brPatient`): one that does toggles its bit while a slower one still
compares, and both wait for ever. No program of the repository uses the barrier, and nothing in the code ensures it.
`StallsEnd`, `TransactionsEnd` and `CallsReturn` have no escape.

### Findings

1. `sdram_distance` (`sdram.v:151`): the correction for a memory distance of 2, called a "dirty
   bug fix" in the source, misses a store that waits for a refresh; the store is never
   acknowledged and the bus never freed. The single-core system uses distance 0,
   so the fault is latent there.
2. `camera_poll` (`camera.v:224`): the list of custom instructions calls the done bit of a single image
   "self clearing"; reading it clears nothing, only the next request or a reset does.
3. `monitor_start` (`bios1.c:125`): the help text says that `**` starts the program loaded in the target; it looks for the magic word in the
   target and starts the SDRAM.
4. `lfsr` (`lfsr.c:107`): "The state cannot be all ones for XNOR-based feedback" (`lfsr.h:27`); the assertion meant to
   refuse that state is true for every unsigned number, so the generator is started in the one state it never leaves.

Other observations made while modelling, without a run of their own:

* a store that a slave refuses is never reported (`dCache.v:215-216` ends the transaction before the error can come;
  `AccessOutcome` states what holds instead);
* the refresh period is ten times the usual 7.8 us (`sdram.v:49`);
* the frame error bit of the receiver is set by a good stop bit (`uartRx.v:142`), and a break in a full queue is dropped without an overrun (`:144`);
* `s_clearError` of `uartBus.v:153` is driven by nothing: if the build takes it for 1, no error bit is ever seen. `LossReported` and `MarksFollowByte` hold for 0;
* `uart_init` of the library writes the line status register where it means line control, so the latch stays closed and the low half of the divisor is sent as a byte (`support/uart.c:4`);
  on a line that the monitor has set up this is the only effect (`NothingDropped`, `LineSetUp`);
* `*f` also stores a "program" of one word: its size in the flash is then whatever word 1 of the flash held before, and the boot copies that many words.
  `BootsWholeImage` speaks of programs with a size;
* `vectors2` and `vectors3` have no entry for the reset, so the handler of an exception of processors 2 and 3 is the one of its successor, and a trap,
  which the handlers of the alignment raise themselves, fetches the word behind the table (`HandlerFor`);
* `set_stack_cpu3` writes the stack register of processor 2 (`cpu3.c:180`): the second processor starts with the stack meant for the third, which keeps what
  its register came up with. When that is in the SDRAM, both or all three run on the same words and programs are corrupted; `ProgramsKept` therefore excludes stacks
  that are not `Room` apart, and `StacksAsAsked` promises the second its stack only until `set_stack_cpu3` is called;
* a stack a frame apart is not enough: the handlers use the stack below the frame, and the one of the alignment takes a second frame;
* `~1<<1` of `enableTickTimerIrq` (`tickTimer.h:52`) clears bit 0 of the supervision register with bit 1, and nothing sets it again (`ControlAsAsked`);
* `perf_cpu_freq` waits for `cpu_info & 0xFFFFFF` (`perf.c:17`), which has the identity of the processor in its low byte and so is never 0: it does not wait at all.
  The clock is known only because the monitor waited for it before it started the program (`bios.c:92-94`, `ClockKnown`). The OR1420 reads 0 from SPR 9, which it
  lacks (`sprUnit.v:29`), so the loop would never end there; the model is of the OR1300;
* a counter read while it runs may be torn (`perf.h:69`): too large, and up to one lower word ahead of the counter (`ReadBounded`);
* `floyd_steinberg` does not clear its array, so the last line of a picture passes its errors to the first line of the next. With an even height each is taken once; with an odd one the lines of
  both have the same parity and some are taken twice. All resolutions of the camera are even (`ErrorPassedOn`).

## 4. Proofs

Each theorem holds for every value of the constants that the named assumptions allow; TLC evaluates the assumptions in the
runs. Each inductive invariant was checked by TLC, as an invariant of the run of its module, before it was proved.

`BusArbiterProofs`, for every number of request lines, every time-out
and every power-up contents of the queue memory (`NAssumption`,
`TimeoutAssumption`, `PowerUpAssumption`):
`Invariance`, `Spec => []IInv`, with
`IInv == TypeOK /\ QueueConsistent /\ ServesHead /\ GrantsOldest`, and
`TypeCorrect`, `QueueCorrect`, `HeadCorrect`, `GrantCorrect`, its four parts.
`QueueConsistent` is not inductive alone: REMOVE takes `grantMask` out of the set
of queued requests, which is the head of the queue only because the registered read
port shows it (`ServesHead`); and `GrantsOldest` follows from `ServesHead` in the clock before. That an
insertion does not overwrite an entry needs that N queued masters leave no
request outstanding (lemma `FullQueue`, a cardinality argument: the entries of a full
queue are distinct singletons). The rest is circular arithmetic, one lemma each for the
insertion alone (`KeepConsistent`) and for a removal together with an insertion
(`RemoveConsistent`). `NextIInv` has one step per action.

`UnitsProofs`, the other units of `MCUnits`, each in an environment that does anything its inputs allow:

* `ArbiterIsFifo`, `Spec => ImplementsFifo`, for what `Invariance` is proved for. The queue of `FifoArbiter` is the list of the masters
  in the slots from the remove pointer on, as long as there are queued requests; `IInv` in both states gives how an insertion, a removal or both
  change that list, and that the master removed is the one at its head.
* `UnitIsPort`, `DcAloneSpec => ImplementsPort`, and `ErrorTold`, `DcAloneSpec => []ErrorReachesPipeline`, for all targets and words. Both rest on `DcInv`
  (`LoadStoreInvariant`): where the machine of the bus may be while that of the pipeline is in a given state, whether the stall is high then, and in which of
  the registers on the way the error is. Without the first part the unit might put an operation on the bus that it has not taken.
* `FlagsCorrect`, `RfSpec => [](RfTypeOK /\ FlagsAgree)`, and
  `BufferIsQueue`, `RfSpec => ImplementsQueue`, the refinement of `ReadQueue`, for every depth and every set of words (`DepthAssumption`). The mapping takes the entries
  from the read to the write pointer; `ContentsStep` says how a push, a pop or both change it, `ShowStep`
  that the word shown is the head.
* `CrossingHolds`, for every divisor and every ratio of the clocks (`DivisorsAssumption`, `ClockRatioAssumption`):
  ticks more than two periods of the slow clock apart arrive once each. `PulseAge` relates the place of a
  pulse in the three flip-flops to the reference edges since it began, so that there is never a second one behind it.
* `UnitsTyped`, `UnitsSpec => []TypesOK`, for all five, the crossing with its counter of sixteen bits included (`CrossingTypes`): a behaviour of all units is one of each unit alone (`UnitsAreAlone`), because the parts that do not move
  stutter. The fetch stage needs targets of jumps that are addresses (`JumpAssumption`).
* `FetchIsTruthful`, `FetchTypes` and `LinesTrue`, for every number of lines and of words per line, every number of addresses they divide and every reset vector
  (`FetchAssumption`). The inductive invariant `FsInv` (`FetchInvariant`) says which machine
  waits for which; that the burst under way delivers the rest of the line whose address was put on the bus, its next word for
  the place the burst counter shows; that the words before that place are in the line already; that a line that is valid is being filled, has failed or holds the words
  of its tag; and that the registered read port and the instruction hold the word of the program counter, or that the lookup knows they do not.
  A jump in the middle of a fill is why the invariant speaks of the line being filled and of the program counter separately.

`SdramProofs`, the SDRAM controller with the masters that use it, for every size of the chip and depth of the read buffer, every delay and refresh period, any lengths of bursts
up to one word more than a row has (in the code 256, the words of a row), and any lanes of a store (`SdramAssumption`, `DepthAssumption`, `TrafficAssumption`). The theorems have the hypothesis `NoDistance`, that
`s_memoryDistance` is 0, which is what every system of the repository ties it to (`or1420SingleCore.v:53`, `or1420SingleCoreOURS.v:57`); for distance 2 finding 1 shows a store that never ends.

* `ReadsAreComplete`, `TrSpec => []ReadsComplete`; `StoredBeforeAcknowledged`, `TrSpec => []AcknowledgedIsStored`; `ChipIsServed`, `TrSpec => []ChipServed`.

All three follow from one inductive invariant, `SdInv`, because none of them can be kept alone: that a word is right needs the place the controller is at, that the place is right
needs the count of words, and the count needs to know which flags may meet. `SdTurn` and `SdBetween` relate the transaction on the bus to the one the controller is in, and say that nothing of the last
transaction is left over: no pending end, no word in the buffer or on the way to the output. `SdSending`, `SdSendingPlace` and `SdSendingCell` follow a written word from the bus to the two halves of
the chip, and say in which states which half is there already. `SdReceiving` says which of the flags of a read may meet in which state, `SdReceivingCount` and `SdReceivingPlace` that the words that have left the chip
(read by the master, shown, on their way through the output registers, in the buffer or about to be pushed: `Delivered`) are what the length counter has counted, in the first or in the only part of a burst, and that
the column stays in the row; `SdReceivingWords` names the word in each of these five places. The buffer never holds more than one word, so every depth does.
For the time to a refresh `ClocksToIdle` counts in each state the clocks that are left of the access under way, the second part of a burst included; `SdLate` says that they never exceed what is left of `LongestAccess`.
`StateTable` gives the successor of each state over both halves of a clock; writes (`SendWork`) and reads (`ReceiveWork`) have then one lemma for each part of the invariant.

`VideoBusProofs`, the composition of the arbiter with the masters and slaves of `VideoBus`, for any number of request lines, any time-out of at least two clocks, any
lengths of bursts, lines, images and pictures, and any program, screen and sensor (`VideoAssumption`, `GraphicsAssumption`, `CameraAssumption` and those of the arbiter; the theorems
have the hypothesis `OwnLines`, that the three masters use lines the arbiter has, which the run `camera_poll` satisfies, and in the system they are 28, 29 and 31 of 32):

* `BusIsShared`, `VideoSpec => []BusShared`. The invariant `VbInv` says in which states of the arbiter each master is in which part of its transaction: `CpuPhase`, `CmPhase`,
  `GrPhase`, and for the memory `FmPhase`. It carries why only the screen is ever timed out: the registers answer within two clocks, and the camera has
  a valid word on the bus in every clock of a burst, which reloads the time-out. The screen sees an end one clock late, and an error ends it without the arbiter:
  it may still be in a transaction while the arbiter is in REMOVE or back in IDLE, but it has left before the next master can begin (`GrPhase`, `ArbiterOutputs`).
  With a time-out of one clock a master that is granted the bus could find it taken away again, hence the bound. `Room` counts the words that are still on the way to the line buffer.
* `ImageConfined`, `VideoSpec => Confined`, from `VbInv` and `InFrame`: the master never owes more words than the sensor has sent (`Owed`), also when a line comes in the middle of the copy of
  the last one and loads the count again, and the memory stores each word at the address at which the master counts it.
* `ImageIsStored`, `VideoSpec => []ImageStored`, and `ImageIsSingle`, `VideoSpec => SingleImage`, from these and `ImageInv`. It has each word of the line in the one place where it is:
  in the line buffer (`LineBuffer`), at its port, which is a clock late, on the bus, or in the memory (`ImageUnderWay`); the port shows the word after the one on the bus exactly when the memory is done with that one or a burst begins.
  The places that the next line overwrites are those already copied, or the image is late. `SingleDone` relates the bit that the program reads to the two requests before it.
* `LineIsShown`, `VideoSpec => []PictureShown`, from `VbInv` and `ScreenInv`. `LineFollows` says which words of the line the buffer has in each state of the master and at which address the next one is, `WordsFollow` that the
  words still in the memory, on the bus and in the register of the data are together the rest of the burst. An error, a late line or a write to a register ends the claim until the next screen,
  which loads the address anew (`PictureBegins`). `BurstIsLine` is the arithmetic of the burst lengths: the bursts bring the words of the line, neither more nor fewer, for every width but one.
  The hypothesis `WidthsServed` names that one: with 513 pixels (`BufferWords + 1`) the code subtracts to -1, and asks for a second burst of 256 words where none is left to fetch; it also says that a width is not negative, as a register is not.

`MultiCoreProofs`, the library for several processors and the camera driver:

* `LocksExclude`, for any number of locks and any of the processors 1 to 15 (`CpusAssumption`, `LocksAssumption`):
  two processors never have the same lock. The invariant `LkInv` says that the byte of a lock
  that somebody has is the number of that processor (`HeldIsMarked`), so that it cannot be two numbers; and that nobody uses a lock
  while `init_locks` clears them (`NobodyBeforeInit`), without which a cleared byte would break it.
* `BarrierHolds`, for any processors and any number of rounds (`RoundsAssumption`):
  nobody leaves a round early. A bit is only a parity; it decides because no two processors are more than one round apart (`OneRoundAhead`),
  and of two such numbers with equal parity the larger is not larger (`ParityDecides`).
* `ExceptionsApart`, `ExSpec => []RegistersSurvive`, for any number of registers, sizes of memories, programs and handlers, and any distances (`StackAssumption`, `RaisedAssumption`): a program whose stack is
  undisturbed never goes on with a wrong word. Undisturbed is a stack in the own scratchpad, or one with `Room` to all others in the SDRAM and nobody astray. `ExInv` follows the stack of each
  processor: how deep it is (`StackDeep`; a second frame only for a trap, after which nothing is continued), and that program words, frame and words of the handler are where they were put
  (`StackIntact`). A step of one processor touches only words it may use (`Local`, `Mine`), which are apart from those of an undisturbed one (`WordsApart`), so the rest is a lemma
  per action about the own stack. `StacksAsAsked` needs what was asked to stay in the register until the start (`AskedKept`).
* `ImageIsFresh`, for any frame buffers (`CameraAssumption`): the image that `waitForNextImage` has waited for began after the call. `CdInv` follows the request
  through the registers of the interface (requested, grabbing, ending, ready) and relates each to what the sensor has begun since the call.
* `SetUpHolds`, for any number of setups of the camera chip, `CsSpec => []SetUpFromAnyState`, about the lists of the source as they are. During a setup each register has what the last write so far
  that reaches it has written (`AsFar`); at its end no memory of an earlier one is left because every setup writes the same registers (`SameRegisters`: what a resolution needs, the defaults
  write too). A write to the multiplexor reaches the cell that the write just before it selects (`Sound`, `CellSelected`), so that an earlier selection does no harm.

`MonitorProofs`, for every size of flash, page and block that `FlashAssumption` allows and any number of commands and faults:
`ProgramSafe`, `MnSpec => []StoredProgramSafe`, and `Or1300ProgramSafe`, the same of the other monitor. `StoreInv` adds to the property what the loops of
`*f`, `*e` and the test of a page have done so far: erased up to a place, programmed up to a place, the rest erased still (`ScanErases`,
`WriteProgresses`, `CheckScans`, `CheckPrograms`), and that no program counts as stored while one of them is under way (`Storing`). That erasing a page leaves the
places outside it alone, and that the last page starts where the test does, is arithmetic (`LastPage`, `ProgramBelow`).

`SystemBusProofs`, the composition `SystemBus` of the arbiter with the load/store unit, the fetch stage and the slow slaves, for any program, jumps, lines of any length, any number of them, and any layout of the code over the slaves:

* `MastersTakeTurns`, `SbSpec => []OneMaster`, with the one hypothesis that the arbiter has the two lines of the processor (`TwoLines`). The bus only makes steps that the arbiter's own
  specification allows, so its invariant carries over (`ArbiterOnBus`). `Tenure` says where the arbiter is in each state of a master: that it waits for a begin exactly while somebody holds a grant,
  that it has not given up while a master still waits, and that a master which saw the error is gone before the next grant.
* `WiresHaveOneDriver`, `SbSpec => []OneDriver`. `SbInv` adds for each slave what it does and for whom: a word on the wires answers the transaction that is under way (`Served`), a slave at rest drives nothing,
  and a read of the flash is never abandoned. The last is a count: `FlSlack` is the number of clocks to the next word of the flash, always less than what the arbiter will still wait.
  It needs its hypotheses, `Circumstances`: a time-out of at least `4 * ShiftClocks + 10` clocks, an idle flash (`FlashIdle`), no loads of single bytes from the flash (`WholeWords`) and jumps to addresses the
  program counter can hold (`JumpsToCode`). Without them the code does not have the property, as TLC shows on variants of the run `sysbus`: the flash goes on with a read after the arbiter has given it up (a busy flash) or after it has refused it itself
  (a byte), and then drives its words into whatever transaction is next. `OneMaster` holds also then.
* `UnitsGetTheirResults`, `SbSpec => []ResultsCorrect`: both units get from the bus what they asked for, but only with all of these hypotheses: the four of `Circumstances`, so that no load is given up while the flash
  still works on it (for a busy flash, or a load of a single byte, nothing is claimed, and words do come late), and three more: programs use the
  accesses of the address map (`ProgramKnown`), code lies in the boot ROM or the flash (`CodeInMemory`; the UART answers no bursts), and shifting a word out of the flash takes time (`ShiftsTakeTime`: 6 to 16 clocks
  in the code; without it the last word and the end would meet in one clock). The run `sysbus` satisfies all of them. `CalmInv` says that what the slaves have latched is what the waiting master still asks for (`AsAsked`), who is in a
  transaction in each state of the arbiter (`Errand`), and that no end of an earlier transaction reaches the next (`Ended`); `Counts` that each slave delivers the
  words of its burst in the order of their addresses and the end after the last (`Sent`, `Delivery`). For the load/store unit, `Outcome` follows one access to its end and gives `AccessesConclude`.
  For the fetch stage there is a refinement: the bus with its arbiter and slaves is one of the memories that the fetch stage is proved with in `UnitsProofs` (`FetchRefines`), so that `FetchIsTruthful` carries over (`FetchesCorrect`).

`LibraryProofs`, the serial routines, the rest of the library and the kernels:

* `CopyCorrect`, for every word size, memory, alignment, length and overlap (`CopyAssumption`): the call ends with the old
  source in the destination and everything else unchanged. The invariant `CopyUnderWay` says that exactly the bytes behind the pointers are done, that as many
  bytes remain as the rounds left will copy, and that the direction is the one in which the source is read before it is overwritten.
* `GeneratorNeverFrozen`, for every width of the table below 64 and every start value (`WidthsAssumption`, `StartsAssumption`).
  With XOR the last one to fall out is the only one tapped above the rest, so its parity is 1 (`XorKeepsAOne`); with XNOR the number of taps is even, and
  a zero among ones gives a zero (`XnorKeepsAZero`).
* `DitheringBounded`, for pictures of any size and content (`ImagesAssumption`): errors stay in -127 .. 128 and sums
  in -2032 .. 6128, well inside the `int16_t`: the weights add up to sixteen (`SumStays`), and the threshold leaves an error in the
  bounds that made the sum (`ErrorStays`).
* `RegistersCorrect`, for all identities, frequencies, durations and widths of a word (`RegistersAssumption`): the whole supervision register is what was asked for last, without bit 0 once the tick was switched
  off; the clock is known after `perf_init`, through the wait of the monitor (`ClockMeasured`); the hours, minutes, seconds and milliseconds of a conversion add up to its cycles; a counter read in two halves is
  right when no carry came between them, and otherwise bounded by one lower word (`TornRead`).
* `SendingHolds`, `SrSpec => []SendingCorrect`, and `ReceivingHolds`, `SrSpec => []ReceivingCorrect`, the serial routines of both libraries with the UART behind them,
  for every depth of the queues from two on, any number of ticks per byte from three on, any frames, and any texts but the empty one
  (`UfDepthAssumption`, `HalfBitsAssumption`, `TextsAssumption`). What has entered a queue is what has left it followed by what
  is between its pointers (`Waits`, `ContentOf`), and one lemma for each of the ways a queue changes says that this stays so: `Enters`, `Leaves`, `Passes` for both at once,
  `Refuses`, `Keeps`. The invariant `SrInv` has the registers on the way: the byte that the transmitter has loaded is the head of the queue until it is acknowledged (`UtInv`),
  a byte that was read stays the head for one clock more and the program does not read in that clock (`UxInv`), and
  a frame that was not refused still finds room two clocks later, since programs can only make room meanwhile (`UxLossInv`). Marks are claimed only for bytes that did not
  arrive at a full queue (`UxMarksInv`). Nothing is dropped because programs store a byte only when the line is idle; that the byte of the divisor is sent is in the invariant too (`SetUpAt`, `Stray`).

Out of reach of the prover and left to TLC: liveness and ENABLED (`NeverStuck`, `StallsEnd`, `TransactionsEnd`, `MastersRest`, `CallsReturn` and the others of that kind), and
facts about recursively defined data. No module declares a RECURSIVE operator; what is out of reach for the same reason are the folds
and recursive functions in `DownloadsStored` (the value of the digits of a word), `NumberRead` (the number that digits spell) and
`FullPeriod`. Model-checked only, and not attempted yet: the I2C driver, and `AlgorithmsExact` apart from what `LibraryProofs` has of it.

## 5. Not modelled

* The pipeline other than fetch and the custom instruction port: its interlocks and exceptions are the
  free environment of the modelled stages.
* The control registers of the flash and the single-bit programmer: their effect is the chip of `FlashDriver`.
* FIFO control, modem, interrupt and scratch registers of the UART, which no program touches; the sampling of its bits.
* The counters with which the camera measures its sensor, the profiler, the microsecond delay: counters without interleaving.
* Text controller, text output, string functions, `*i` and `*c` of the monitors, printing: layout.
* Stateless data paths (ALU, custom instructions on pixels except the grey value, TMDS, pixel formats), memories, ROM images, fonts, the vendored printf, build scripts,
  testbenches and alternative sources that the build does not read: no behaviour to check.
* The main loops of the image programs, which call what is modelled. PLLs, the reset counter and pins: electrical.

## 6. Plan

Done, in this order: arbiter and its proof; load/store unit; fetch stage; slow slaves and `SystemBus`;
SDRAM buffer, its proof, controller; picture masters and `VideoBus`; monitors and flash; UART, I2C and clock crossing with
their drivers; locks, barrier and exceptions; camera driver; library and kernels; proofs of locks, barrier, crossing, dithering, generator and copy;
proofs of the refinements of arbiter and load/store unit, of the fetch stage, the exceptions, the camera driver, the monitors and the registers; proofs of
the setup of the camera chip, of the sharing of the bus and of the bounds of the image in `VideoBus`; proofs of the serial routines over the UART;
proofs of the SDRAM controller, of the image in memory and on the screen in `VideoBus`, and of the drivers of the wires and the results of both units in `SystemBus`.

Next:

* `FlashProgrammer` (`spiShiftSingle.v`) with the control registers of `spiBus.v`; then the
  busy flag of `FlashPort` and the chip of `FlashDriver` become components;
* `Decode`: interlock and exception priority; `SystemBus` gets a pipeline instead of a free one;
* `Sdram` implements `FrameMemory`.

## 7. How to run

    tlc -workers 2 -config MCUnits.cfg MCUnits
    tlapm BusArbiterProofs.tla

The runs, their modules and configurations are listed in `PROJECT.json`.
