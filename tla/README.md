# ECO32: a TLA+ model of the simulator's devices and the monitor's drivers

ECO32 is a small RISC computer: a CPU, an MMU, two caches, memory and a set of
memory-mapped devices. The repository holds its manual (`doc/`), its
simulator (`sim/`), hardware descriptions, a ROM monitor with polling device
drivers (`monitor/`), disk tools and an operating system. This project
specifies the simulator, which is the executable definition of the
machine, the parts of the monitor that drive its devices, the disk server at
the other end of a serial line, and a small operating system that runs on the
MMU. All paths in this file are relative to `src/`.

The simulator is one thread that executes instructions (`cpuRun` in
`sim/cpu.c`) plus one thread per window (`graph1.c`, `graph2.c`) that delivers
key and mouse events. Everything else that looks concurrent, device operations
that take time, is made of timer callbacks that the CPU thread runs between two
instructions.

1. [Inventory](#1-inventory)
2. [Modules and how they correspond to the code](#2-modules-and-how-they-correspond-to-the-code)
3. [Runs, bounds and fairness](#3-runs-bounds-and-fairness)
4. [Proofs](#4-proofs)
5. [Where the code and the manual disagree](#5-where-the-code-and-the-manual-disagree)
6. [What is not modelled, and the plan](#6-what-is-not-modelled-and-the-plan)


## 1. Inventory

| Component | Source | State | Operations | What is hard | What makes it correct |
|---|---|---|---|---|---|
| Memory | `sim/ram.c`, `rom.c` | contents of RAM, image of ROM | read, write, reset; an address nothing backs throws | exceptions leave callers by `longjmp` | only RAM is ever written |
| Data cache | `sim/dcache.c` | lines (valid, dirty, tag, data), lru bits | load and store of word, half, byte; flush, invalidate, reset | replacement, write-back and refill may each fail half way; a flush stops at the first failure | loads return the last store; a clean line is droppable; no block twice |
| Instruction cache | `sim/icache.c`, `mmu.c`, `cctl` in `cpu.c` | lines, lru bits | fetch, invalidate, reset | nothing keeps it coherent but `cctl` | fetches see everything stored before the last complete `cctl 7` |
| Event queue | `sim/timer.c` | current time, sorted list of active timers, pool of 20 | `timerStart`, `timerTick`, reset | time wraps around; callbacks start timers from within the loop that runs them; an empty pool ends the simulator | every callback runs once, in time, ties in start order; the loop ends |
| Timer/counter device | `sim/timer.c` | two counters: control, divisor, counter | register accesses, tick | unsigned arithmetic; the tick is longer than a clock cycle | exact period; interrupt line equals expired and enabled |
| Serial lines | `sim/serial.c` | receiver and transmitter registers of each line, interrupt lines | register accesses, polling of the terminal, end of transmission, reset | the transmitter outputs its register's contents when the timer expires; a busy transmitter can be written again | a busy transmitter recovers; interrupt lines equal ready and enabled |
| Serial driver | `monitor/.../serial.s` | none but its registers | `serXin`, `serXout` and two polls | the device runs between any two instructions | characters arrive once, in order |
| Keyboard, mouse | `sim/kbd.c`, `mouse.c` | ring buffer, mutex, registers, shared interrupt line | window events, commands, register accesses, reset | several threads, of which the reader takes no lock; receiver and transmitter share one interrupt line | a queue of whole packets; commands are finished |
| Disk | `sim/disk.c` | image, sector buffer, registers, running timers | register accesses, startup, end of operation, reset | an operation reads its registers when it ends; several can be in progress | transfers stay within buffer and image; interrupt line equals done and enabled |
| Disk driver | `monitor/.../dskctl.s`, `boot.c` | its registers | `dskcapctl`, `dskioctl` | the timer expires between any two of its stores; polling with and without a limit | what it reports as copied is copied |
| CPU control | `sim/cpu.c`, `except.c` | pc, status word, pending interrupts, link | instructions, exceptions, interrupts, `rfx`, reset | a three-level stack in the status word; instructions that enable a pending interrupt; a link that must not survive a switch | modes are restored; no enabled interrupt waits; user mode is confined |
| MMU | `sim/mmu.c` | TLB, access registers, random index | translation, TLB instructions, register accesses, reset | faults leave registers behind; replacement at random | a translation is what the tables say |
| Two-task system | `stdalone/twotasks-2/os` | current task, page directory and stack, saved registers | user miss, interrupt entry, trap, task switch, return | stale TLB entries; an instruction that misses twice; interrupts between any two instructions | each task has a machine of its own, until one addresses a page without page table |
| SD card | `sim/sdcard.c` | command bytes, phase, image | one byte exchanged | a protocol machine byte by byte | as its driver's |
| SD card driver | `monitor/.../dsksdc.c` | whether initialized, size | initialize, `dskcapsdc`, `dskiosdc` | no byte is numbered; restarts half way; answers that are ignored | in step with the card; a block device |
| Serial disk driver | `monitor/.../dskser.s` | its registers | `dskcapser`, `dskioser` | timeouts and retries against late answers | a block device |
| Disk server | `disk/diskserv/diskserv.c` | image, stream buffer, connection | handshake, capacity, read, write | started late, killed, restarted; buffered writes | a block device; a kill loses at most the last write |
| Program loader | `load.c`, `monitor/loadserv` | two peers on a serial line | handshake, records | as the serial disk | not modelled |
| Graphics, sound, board I/O, console | `graph*.c`, `dsp.c`, `bio.c`, `output.c`, `shutdown.c`, `command.c`, `asm.c`, ... | frame buffers, switches, text | pure output, formatting, parsing | nothing that takes more than one step | not modelled |

How they interact:

* The CPU thread calls `timerTick` before every instruction. Callbacks run there,
  so *no callback interrupts an instruction*, but any number of them may run
  between two instructions of a driver.
* A load or store goes through `mmu.c` to the data cache or, for I/O addresses,
  through `io.c` to a device's `xxxRead`/`xxxWrite`. A fetch goes to the
  instruction cache.
* Devices raise and lower interrupt lines with `cpuSetInterrupt` and
  `cpuResetInterrupt`; the CPU looks at them after each instruction.
* An error throws (`longjmp`) out of the instruction; whatever state changed
  before stays changed.
* Window threads meet the CPU thread only in the ring buffers of keyboard
  and mouse.
* The ROM monitor boots from any of three disks through the same pair of calls,
  capacity and transfer (`boot.c`): IDE disk (`dskctl.s`), SD card
  (`dsksdc.c`), serial disk (`dskser.s`). They promise the same, `BlockDevice`.
* The console's `i` command resets the devices one after the other and the CPU,
  which lowers all interrupt lines, last. A reset of the timers removes every
  active timer.

What could go wrong in this code and would hardly be met by a test is listed, with its
line and the properties that cover it, under `hazards` in `PROJECT.json`.


## 2. Modules and how they correspond to the code

The definition-by-definition correspondence, with line numbers, is `map` in `PROJECT.json`.
An action is one call of the C interface, one callback, or,
where several actors interleave, one load or store of shared state. Operators
marked `(mutant)` in the modules are plausible bugs of the definition that
follows them; each property is shown to fail when one of them takes the
definition's place.

### Memory: `PhysMem`, `DCache`, `BufferedMemory`, `ICache`, `MemSys`

`PhysMem` has memory in blocks of one cache line, each backed by RAM, by ROM
or by nothing. `DCache` extends it with `line[i][w]` (`line_0`, `line_1` of
`dcache.c`), `lru` and `outcome`, what the last call returned or that
it threw. `getWordPtr` and its callers are `AccessHit`, `EvictFails` and
`AccessMiss`: the last two differ in *where* the call throws and thus in what has changed
by then. `Flush` is a loop in index order that stops at the first line
that belongs to ROM; `Flushed` says which lines it reaches. At power-on lines hold garbage
with the valid bit cleared, because `dcacheInit` does not initialise them. Bytes are
abstracted to positions of a line (`Offset`) and an access to the set of
positions it covers, so that stores of parts of a word are stores of fewer positions.

`BufferedMemory` is the promise to programs: a load returns what was stored
last, a backing store lags behind, and a call may fail with a bus timeout only
if nothing backs its block or an earlier store to ROM is still waiting to be
written back. `DCache!ImplementsBufferedMemory` is the refinement; its mapping
reads the view off the lines and the memory.

`ICache` is the read-only counterpart; `MemSys` composes both caches over one
memory with the routing of `mmu.c` and the instruction `cctl`. The
history variable `unsynced` holds the blocks stored to since the last `cctl`
that synchronised.

### Events: `Timer`

`active` is the linked list as a sequence, `free` the pool. `timerTick` is
split at each callback: `TickBegin` advances and wraps the time, `Expire`
runs the head of the list if it is due, `TickEnd` advances the counters. `Expire`
may start a timer again, as the devices' callbacks do; `Start` is a device
access that starts one. With an empty pool a start ends the simulator
(`mode = "exited"`). History variables say what the code does not know:
`truth`, for each timer, the cycles since its start and to its expiry counted
without any wrap-around; `phase`, the cycles of a counter since its last expiry.

The other device modules abstract from time: a started timer may expire
at any step. This is sound for safety since `Timer` allows any
delay to be met by other instructions in between, and it drops only the
relative speed of devices. Timers with equal callbacks and equal delays are
interchangeable (`TiesFireInStartOrder` says they expire in the order of
their start), so `Serial` and `Disk` count them.

### Serial line and its driver: `Serial`, `SerialDriver`

`Serial` has `rcvr[d]` and `xmtr[d]` (ready, enable, data), `xmtrTimers[d]` and
the raised interrupt lines. `SNext` is the device under arbitrary software:
any register access at any time, also writes to a busy transmitter.
`SerialDriver` gives one of the lines, `line`, to the code of
`serXin`/`serXout`: `pc` is the program counter, each load or store of a device
register a step, and callbacks come in between. The other lines stay under
arbitrary software (`Elsewhere`), and the console may reset the machine between two
calls (`Restart`). `typed`, `output`, `sent` and `received` are histories.

### Keyboard and mouse: `InputDevice`, `InputQueue`

`kbd.c` and the device half of `mouse.c` are the same program with other
commands and sizes. A window thread's `kbdBufWrite` is split at each
access of a shared pointer: `Lock`, `Compare` (the comparison in `kbdBufFree`),
`Accept` or `Reject` (the subtraction, which loads the pointers again), `Put`
and `Bump` for each byte. The CPU thread writes with the same steps, but its reads
(`RcvrCallback`) and its `kbdBufInit` take no lock. Handlers of the CPU
thread that write more than once are a list of remaining steps, `todo`; the
CPU thread starts no other handler before it is empty. The pointers
are plain C variables shared without synchronisation; the simulator is built without
optimisation (`sim/Makefile`: `CFLAGS = -g -Wall ...`), so loads and stores
happen one by one in the order of the source, and that is what the steps are.

`InputQueue` is the promise: a bounded queue of whole packets, read byte by byte into a
receiver register. It is kept while no thread writes during a buffer reset
(`RacingResets = FALSE`).

### Disk and its driver: `Disk`, `DskCtl`, `BlockDevice`

`Disk` has the registers, the sector buffer, `startup` and `ops`, the number of
operations in progress. `OperationCallback` reads the registers as they
are when it runs, as `diskCallback` does. `DskCtl` puts `dskcapctl` and
`dskioctl`, as called by `boot`, in front of it, every register access a step; copying one
sector between memory and buffer is one step, since the buffer is not touched
by the controller meanwhile (that is `NeverDisturbed`). `BlockDevice` is the
promise: a call copies the sectors asked for one after the other and reports
truthfully whether it did.

### CPU: `Cpu`

One step is one pass through the loop of `cpuRun`: devices change lines, an
instruction completes or throws, `handleInterrupts` accepts at most one
exception or interrupt. Arithmetic, memory and addresses are abstracted to a choice of
the next address. `prev` and `old` record the modes that were interrupted,
`broken` whether another program ran since the last load-link. The constant `LinkDiscipline`
is an assumption about system software: a service routine
does not return with a link of its own (it executed as many `stcw` as `ldlw`).


### MMU and a system on it: `Mmu`, `TwoTasks`, `AddressSpaces`

`Mmu` has the TLB as a function, the registers and the random index, an action
per function of `mmu.h`. `Assoc` takes the *last* entry that matches, as the
loop in `assoc` does. Addresses are pages; user pages, system pages and direct
pages are disjoint sets, and only as many direct pages exist as `flushTLB` names. After a failed search
the index register holds a number whose masked part is 0, hence `NotFound = TLB_SIZE`.

`TwoTasks` is `stdalone/twotasks-2/os`. Its steps are the translations of a
task's instruction (fetch, then load or store), the user miss routine, and the
pieces of a service routine between which registers are saved and restored. The kernel
runs in direct pages with interrupts disabled, so nothing comes between
these pieces but its own accesses, each of which moves the random index: an unknown
number (`KernelRuns`), except in `userMiss`, where it matters and is counted: 21
translations up to `tbwr`, 23 in all. They are those of the machine code, not of the
source lines: the first is the jump that `start.s:134-138` puts at the vector, and the assembler
makes four instructions of `ldw $26,$0,currentPageDir`, whose address does not
fit into 16 bits (`formatRRS`, `binutils/as/as.c:1457-1468`). `Boot` may be preceded by any software,
so the system starts with any TLB. The tasks' instructions are arbitrary and come from any
page, since no page is protected from execution; one
general register stands for all of those that `isr` saves.

`loadTask` sets two entries of a page directory, the first and the last. A task that addresses
a page in between (`Outside`) *goes astray*: `userMiss` takes the empty entry for a page table at
address 0, which is the task's own page 0, and loads the entry from there. `StrayWalk` is that walk
if page 0 is in the TLB: what it writes is any word of the task. `StrayMiss` is the other case: the
load misses in turn, within the miss routine, and the registers it works with and the
task's resumption address are gone. There the description ends (`Astray`): what
follows depends on the words in the task's memory, and with them a task can map any frame. So the
properties hold *until a task goes astray*; uniqueness of pages includes
the entry that `StrayWalk` writes.

`AddressSpaces` is the promise: two machines that never see each other, each with
a code and a data page and registers of its own. It has no TLB, no
frames, no kernel. A task executes from either of its pages. Its access to a page that its page
table does not map, a store to its code and an access to a system page have no effect.

### Serial disk: `SerialDisk`

The driver (`driver`, `tries`, `capacity`, ...) is written like `DskCtl`, the server is the
variable `server` with the image `file` and the sectors `unwritten` that are still in
the C library's stream. Neither side sends again before the other answered, so what is sent at once is one
message, and a line is a sequence of messages. Time
is abstracted: `Timeout` may happen whenever no answer has arrived. The fault model:
the server is started late, with or without what was sent to it meanwhile;
is killed by a signal (`KillServer`), which drops `unwritten`; is started again
(`RestartServer`) once the line is quiet; the client is reset while it waits for a command or
while nothing is on its way and no server is in a transfer (`ResetClient`). A reset in the
middle of a transfer is left out, because the protocol does not survive it (section 5). `late` is a history variable: a SYN was sent while an earlier
one could still be answered.

### SD card: `SdCard`, `SdDriver`

`SdCard` is `sdcardCallback` as one action per state. `left` stands for `xpctCnt -
currCnt`. A data block and its checksum are one byte each, told from every
other byte by its value. `SdDriver` sends and receives byte by byte; `op` is the command under
way, `pc` its phase, which is the same for all commands up to the
answer. `Restart` starts the monitor between two commands, with or without a
reset of the card.


## 3. Runs, bounds and fairness

| Run | What it asks | Bounds, and why they suffice |
|---|---|---|
| `dcache` | Is the cache invisible to programs, whatever fails? | One two-way set, four competing blocks (two of RAM, one of ROM, a hole), lines of two halves that are loaded and stored separately, two values. Sets do not interact but in flushes; two ways and four tags give every order of hit, eviction, failing eviction and failing refill; the flush stops between the two lines of the set. |
| `memsys` | What does `cctl` synchronise? | One data line, two instruction lines, the same four blocks; a different number of ways makes the caches evict different blocks. |
| `timer` | Do timers run once, in time and in order; do counters keep their period? | Four timers, ticks of 2, wrap-around at 5, delays 1, 4 and 6 (one longer than the wrap-around period), one counter with divisors 1, 2 and 5. The list insertion needs three timers to have a middle; the fourth empties the pool. |
| `serial_driver` | What arrives at the other end of a line, while software confuses another one and the machine is reset? | Two lines, one of them the driver's; two characters each way, of two kinds; two timers per line: the second is the one a write to a busy transmitter adds. The driver keeps at most one character in flight. |
| `keyboard_queue` | Is the half-locked ring buffer a queue of packets? | Two window threads and the CPU, packets of one and two bytes, five slots of which two must be free, so that the buffer fills, wraps and rejects. |
| `keyboard_commands` | Are commands finished, without spurious interrupts, while the buffer is reset under a writer's feet? | One window thread, four slots, two outstanding commands. |
| `keyboard_irq` | Violated: section 5. | |
| `disk_driver` | Does the driver copy what it says? | Two sectors, a buffer of two, requests of zero to two sectors that fit, run off the end, or are illegal; two polls for the ready bit, so that it gives up before and after the disk is ready. |
| `cpu` | Stack, interrupts, link, user mode. | Two lines, two exceptions (one with a special service routine), two addresses, four status words that software writes. |
| `two_tasks` | Does each task have its own machine, and does each instruction complete? | One fixed and two random entries: the least with which an instruction's two misses can or cannot collide; three pages per task of which one is unmapped, and a page outside of the two page tables, to go astray with; two values; three instruction addresses, in the code page, the data page and the unmapped page, so that fetches hit, miss and fault; system pages only in the TLB (an access to one is refused before the TLB is asked); at power-on a TLB whose entries are all alike or all different, and any software that runs before the system. |
| `serial_disk` | Does the protocol survive late answers, resets and a killed server? | Two attempts to connect, so that an answer to the first can come during the second or after the last; two sectors; one kill; a line that keeps three messages for a server that is not there. |
| `sd_card` | Do driver and card stay in step, when the monitor is restarted between any two commands? | Capacity in units of two sectors with one sector left over; three ACMD41 until the card is ready and two the second time, of four tries; eight bytes for an answer (the code's limit) and for a data token (the code has 2048, also a multiple of the length of a command plus its gap). |

Every bound is a constant of the module it limits, named in its
`.cfg`: `MAX_TIMERS`, `MAX_CHARS` and `MAX_OPS` guard the actions that would
exceed them, and so do `LINE_SIZE` and `MAX_KILLS` in the serial disk. `NUMBER_TIMERS`,
`TLB_SIZE`, `TRIES`, `ANSWER_POLLS` and `TOKEN_POLLS` are no bounds but the
code's own numbers made small. The timer run
switches deadlock checking off since the simulator really stops when
the pool is empty.

Fairness, and why the code justifies it:

* *Timers expire* (weak fairness of `XmtrCallback`, `Output`, `Callback`): the CPU
  loop calls `timerTick` before every instruction, and `NoneOverdue` says that a
  started timer runs in the first tick at or after its time. A CPU stopped in
  the console makes no progress, and none is claimed for it.
* *Drivers go on* (`InPoll`, `OutStore`, `Cap`, `Io`, ...): the CPU executes the next instruction.
  Nobody is obliged to call a driver or to type.
* *The processor goes on* (`Cpu` of `TwoTasks`, `Driver` of `SdDriver`, `Client`
  and `Server` of `SerialDisk`): programs are executed. The timer need not
  interrupt, nobody has to boot, kill or restart anything.
* *`timerTick` is run to its end* (`Expire`, `TickEnd`): it is a C function.
* *A thread in its critical section goes on* (`Critical(t)`), and the CPU
  thread gets the mutex if it is free again and again (strong fairness of
  `Lock(CPU)`). The latter is more than POSIX promises; window events are
  milliseconds apart while the mutex is held for microseconds. Window threads
  need no fairness for locking.

Liveness properties: `TickTerminates`, `CallsReturn`, `CommandsFinish`,
`InstructionsComplete` and three named `DriverReturns`, one per disk driver. For the IDE disk
`DriverReturns` holds only because the driver waits for the ready bit before
it starts a command: the controller drops a command that comes earlier and clears the
done bit.

What the last three runs show in more detail:

* `two_tasks`. `flushTLB` gives *every* entry, fixed ones included, a direct page of its own,
  which no miss can ever be for; so `userMiss` can write without searching. An
  instruction whose own page and operand's page both miss completes since the two writes are
  25 translations apart (2 to the end of `userMiss`, one fetch, one access, 21), 24 in the other
  order: neither is a multiple of the 28 random entries. If translations of direct
  pages did not move the index, or nothing did, the two entries would replace each other for ever.
* `serial_disk`. A late answer can only spoil the *handshake*: the driver takes the second ACK for
  the capacity's status and reports no disk, and the server, which gets a `c` or a
  SYN instead of an ACK, may give up. Transfers are never mixed up.
  An acknowledged write can be lost if the server is killed, but at most the last
  one, because the next command positions the stream and thereby writes it out.
* `sd_card`. The driver ignores the results of `sndCmd...`, so it is a block device only
  because the card refuses nothing it is asked. A monitor restarted between CMD55 and
  ACMD41 finds a card that takes CMD0 for an application command and refuses it, and CMD8 and CMD59
  likewise; the driver then reads one answer too long. The first ACMD41 brings both
  back in step before anything is transferred.


## 4. Proofs

All theorems are proved for every value of the constants that satisfies the
named assumptions (`DCacheAssumption`, `TimerAssumption`, ...). The assumptions
say what the code says: one or two ways, a tick that is at least one cycle and at most
the wrap-around period, machine words larger than two ticks, an SD card driver that waits
for as many bytes and tries as often as the card needs at most (`DelaysFit`). One theorem has an
assumption of its own: `RefillsSpareEachOther` that the number of random TLB entries, 28 in
the code, does not divide 25; `InputIsQueue` and `InputIrqIsExact` name theirs below.

An invariant is seldom inductive as it stands. Each module names the strengthening it uses. The two that
follow a protocol step by step, `ProtocolInv` and `IInv` of the SD card, were checked with TLC on the
instances of section 3 before they were proved.

* **`MemSysProofs`**, first about the data cache by itself: `DInv` is the conjunction of the type
  invariant, `NoDuplicates`, `CleanLinesMatchMemory` and `OnlyBackedCached`. The conjuncts
  need each other: a line can be replaced without write-back because clean lines
  match memory; writing back one line leaves the others clean because no other line holds
  the same block; a write-back stays inside memory because only backed blocks are cached.
  The proof has one lemma per outcome of an access (hit, failing eviction, miss)
  and one for each cache control operation.
  `CacheIsTransparent` maps each operation to a step of `BufferedMemory` or a stutter:
  evictions and refills change neither the view nor, for a backed block, what will
  become of it. The second half, about both caches, uses the data cache only as the
  buffered memory it was shown to be. `MInv` says of every block not stored to since the
  last synchronising `cctl` that the data cache's view of it agrees with memory, and so does
  a line of the instruction cache that holds it; the first half of this is what makes a later refill right.
* **`TimerProofs`**: `QInv` strengthens the queue's properties by `Parallel` (the
  alarms are the true times left, relative to the current time), `Sorted` (time
  left, then age) and `NotOverdue`. From sortedness the list head is a minimum, so
  looking at the head only is enough. The insertion is defined by counting the elements of an
  initial segment; `InitialSegment` and `RankPosition` turn the count into
  a position and `InsertAtElements` says what the new list holds.
  `CInv` adds the counters: with a divisor not shorter than a tick the new
  value is always positive, so arithmetic modulo the word size is exact.
* **`SerialProofs`**: `DevInv` for the device under arbitrary software, then `OutInv` for the driver, which adds
  that the transmitter is ready exactly if no timer runs, and that the driver
  stores only then. Every step of the driver is a step of the device, so
  `DevInv` carries over; a step on another line changes nothing the driver sees
  (`ElsewhereLine`). `InInv` is the invariant of the other direction: what was
  received, followed by a character that waits in the register, is a subsequence of
  what was typed. `SubsequenceOfLonger` and `SubsequenceAppend` say what typing and receiving do to it.

  The module's second half is the serial disk. `ProtocolInv` relates the client, the server and the two
  lines. `LineInv`: at most one answer is on its way, always to the message sent last, and a connected
  client's message is under way, being answered or answered, never two of these; a server that waits, or
  that serves a client which does not know it, finds nothing but SYNs. `ServedInv`: unless it was killed, the
  server serves every client that got its capacity. `LateInv`: as long as no SYN was sent too
  early there is never a second one to read, so the server does not give up. `BufferInv`: only
  the sector written last is still in the stream. With a server that was never killed,
  `SerialDiskIsBlockDevice` maps a write to a transfer when the server answers and
  a read when the driver stores what it got; everything else, the whole handshake
  included, is a stutter.
* **`DiskProofs`**: `DiskInv` for arbitrary software, which includes that
  transfers stay within buffer and image (`TransferFitsBuffer`), and `PollInv`
  for the driver: at most one operation runs, and only while the driver polls with
  the done bit clear. That driver and controller implement `BlockDevice` needs more,
  `CopyInv`: what the driver has put into registers and buffer at each point of its
  code, and what the callback has made of it when the done bit is seen. The driver
  takes one sector at a time, so a request maps to as many steps of the block device
  as sectors were moved before an error.
* **`CpuProofs`**: `CpuInv`, with one lemma for `Complete` and one for
  `Throw`, the two ways an instruction ends. That an accepted interrupt exists
  whenever one is enabled needs a maximum of a set of numbers, which comes from
  well-foundedness. `UserModeIsConfined` is an action property;
  `NestedReturnRestoresModes` is about two acceptances and two returns.

* **`TwoTasksProofs`**: `OInv` for the kernel. `NoPageTwice` is not inductive by itself: `userMiss`
  writes an entry without searching. `KernelInv` adds what holds at each point of the kernel, above all
  that between a miss and the write of its entry the page missed is in no entry. With
  that and `TlbIsCurrent` each instruction of a task is one of its own machine
  (`TasksAreIsolated`), and every step of the kernel a stutter; `OriginInv` adds that what is executed
  was fetched from a page of the task. A walk that goes astray keeps types and `NoPageTwice`, since it
  writes once and for a page that missed; of `TlbIsCurrent` nothing is left to keep. `RefillInv` says how far the random
  index has moved past the entry of the instruction's page at each point between the two refills of an instruction: 2 at
  the fetch, 3 at the access, 4 at the second miss, whose `tbwr` comes 21 later. So `NoMutualEviction`
  is a matter of 25 translations modulo the number of random entries, whatever that number is.
* **`InputDeviceProofs`**: the interrupt line first, which needs only the control register. Then `IInv`: types,
  `MutexInv` (a thread is between lock and unlock exactly if it holds the mutex) and
  `WorkInv` (the two stores of `kbdBufInit` follow each other). `RingInv` makes it a queue:
  what was accepted fits; a comparison of the pointers still holds when
  the subtraction uses it, though the reader has moved on meanwhile; between
  the two stores of a reset, writers stay clear of the old read pointer. `StorePut`,
  `StoreBump` and `StoreLatch` are the arithmetic of the ring, for any size: a store at the write pointer is invisible,
  moving the pointer appends it, moving the other takes the first. `InputIsQueue` assumes
  `RacingResets = FALSE`, `InputIrqIsExact` that software leaves the transmitter's interrupt disabled.
* **`SdDriverProofs`**: `IInv` relates driver and card, byte by byte. Its `CardInv` says what
  the card is in and has collected at each point of the driver. Ordinarily that is the part of the
  frame sent so far; after a restart between CMD55 and ACMD41 the card, which expects ACMD41,
  stays up to four bytes ahead or behind (`FourBehind`, `SendingLate`, `AnswerLate`, `MoreLate`) through
  CMD0, CMD8 and CMD59, until an ACMD41 is what it seems. `PhaseInv`: each phase belongs to its command and
  no command ends without an answer. `ActInv`: the card leaves its idle state before the driver gives
  up. From these, `CardIsInStep` and `FoundCardIsActive`; for `SdDriverIsBlockDevice`, `CopyInv` adds where
  the sector is while it is transferred, as for the IDE disk.

Every invariant and action property and every refinement that a passing run checks is stated by a
theorem. Only model-checked are the liveness properties of section 3, whose proofs would need fairness
and `ENABLED`, which the prover does not handle.


## 5. Where the code and the manual disagree

One of them is shown by a run that finds the violation.

* **A command lowers the receiver's interrupt** (`keyboard_irq`). The manual says of
  the keyboard that the interrupt is asserted if ready and enable flag are
  both set. Receiver and transmitter share one line; a write of the data register lowers
  it (`sim/kbd.c:409`) if the transmitter's interrupt is enabled, also while a received byte
  is waiting. The line comes back with the next callback or access that raises it.

Found while modelling and left without a run, because one look at the line is
enough or because they are outside the models:

* The manual says the status word can be accessed from kernel mode only
  (`doc/manual/architecture.tex:116`). `OP_MVTS` tests for user mode, `OP_MVFS`
  (`sim/cpu.c:470`) does not: user mode can read the status word.
* The simulator installs an SD card even if no image was given
  (`sim/sdcard.c:600`), with the default size register. The driver
  finds a disk, the card refuses every transfer, and `dskiosdc`, which looks at no result, returns success.
* The SD card's size is rounded to units of 1024 sectors; an image that is smaller has
  size 0 (`sdcard.c:595`: the size field wraps, and so does the driver's addition).
* A client of the disk server that is reset while it writes a sector leaves the
  server waiting for the rest: its next SYN and what follows are stored as data
  (`disk/diskserv/diskserv.c:270`); and what the server still sends to a client that was reset while it
  read is met by the new handshake. The comment at line 196, "this happens if the client has been
  reset", covers resets between two commands only, as does `ResetClient`.

* A task of `stdalone/twotasks-2` is not confined to its pages. `userMiss` does not test the
  page directory's entry (`start.s:44-50`), and only the first and the last are set
  (`main.c:275-281`): for a page in between it loads a word of the task's page 0, which the task may
  have prepared in its program, as page table entry, and so installs any frame. If page 0 is
  not in the TLB the miss routine misses itself and loses the task's resumption address. Module
  `TwoTasks` has both steps and ends its description there.

* The disk's write bit, sector and count register are said not to be modifiable while an
  action is in progress (`doc/manual/demosoc.tex:259`); `sim/disk.c:149-187` modifies
  them, and the operation uses the new values. Module `Disk` models what the code does.
* The done bit is said to be reset by writing the control register
  (`doc/manual/demosoc.tex:249`); `sim/disk.c:149` ignores the value written.
* A counter is said to be reset to its divisor at zero (`doc/manual/demosoc.tex:66`).
  For a divisor shorter than a tick (18) `sim/timer.c:159` drives it below zero, and it
  next expires after about 2^32 cycles. `CounterKeepsPeriod` excludes
  these divisors; the runs include them, and type correctness covers them.


## 6. What is not modelled, and the plan

Not modelled: statistics counters, the console's breakpoints, single steps and
parsing, formatting of any kind, opening of files and pseudo terminals, host I/O
errors (in the simulator they end it; the disk server answers them with `POSERR`, `RDERR` or
`WRERR`, `diskserv.c:238-248` and `278-288`, which the driver reports as it does any other error),
arithmetic of the CPU, graphics and sound, the
window half of the mouse, the program loader, the
hardware descriptions. Data are abstracted to small sets: values, characters,
sectors, packets. Hazards that no property covers carry a note in
`PROJECT.json`.

The models cover a small share of the repository's lines, because most of it is not
the machine: three copies of a C compiler with its tests (`lcc`, and again under
`binutils/dynlink/ex7` and `ex8`), assemblers and linkers (text to bytes, one pass,
no state that outlives it), Verilog for several boards, and tables. What
keeps state over time and has someone to interact with, devices, caches, MMU, processor control,
drivers, the disk server and the task switch, is modelled.

Done, in this order, which is that of importance: memory system, event queue and
counters, serial line with driver, input devices, disk with driver, CPU control,
MMU with a system on it, serial disk with its server, SD card with its driver.

Left:

1. `Mouse`: the window half of `mouse.c` in front of `InputDevice`: position,
   buttons, data reporting, commands with arguments.
2. The program loader (`load.c`, `loadserv.c`), which has the shape of `SerialDisk` without its
   commands.
3. `TwoTasks` on `Cpu`: nested exceptions of a kernel that has them; and on `MemSys`: frames
   behind the caches.

Hazards of this code that no property covers, besides those with a note in `PROJECT.json`:

* A keyboard reset sorts the table of scan codes again (`sim/kbd.c:180`) while a window
  thread may search it. `InputDevice` takes the table as a set of packets.
* `sim/disk.c:74`, `sim/sdcard.c:45` and `diskserv.c` (lines 238 and 278) compute offsets in 32 bits: images
  of 4 GiB and more are read at the wrong place. The models' sectors have no width.
* A monitor restarted in the middle of an SD command or transfer, and the client of a serial disk
  reset in the middle of a transfer. Restarts between two commands are modelled.
* Instruction and data cache with lines of different lengths (options `-icl`, `-dcl` of the
  simulator). `MemSys` gives both the same line length.
* A failed search sets the top bit of the index register (`sim/mmu.c:285`), and a write by index
  ignores it; the system of `TwoTasks` never writes by index after a search.
* Mouse buttons released while data reporting is off stay pressed in later packets
  (`sim/mouse.c:157`), which is in the half of the mouse that is not modelled.
* The SD card driver ignores every result (`dsksdc.c:486`, `493`) once the card is initialized.
