# isaac-os in TLA+

isaac-os is a small RISC-V system in C: a machine mode firmware (`src/sbi`), a
supervisor mode kernel (`src/src`, `src/asm`) and user programs (`src/user`), for
a machine of eight harts. This directory models its concurrent core, its memory, its
drivers and its file systems in TLA+, checks the models with TLC on small instances,
and proves the invariants of the scheduler and of the firmware's hart management with TLAPS,
for any number of harts and processes.

## The system

The firmware starts on every hart. Hart 0 clears the firmware's data, releases
the others from a barrier and enters the kernel; the others park until they are
started. The kernel on hart 0 initialises the devices, makes one idle process per
hart, starts harts 1 to 7 with `schedule_schedule` and then runs the console for
ever. Harts 1 to 7 only run processes: a program, until a timer interrupt or a
system call traps into `c_trap`, which schedules the next one.

Hart 0's kernel code runs with interrupts enabled; on the other harts the kernel
runs with supervisor interrupts off. Machine mode interrupts (timer, software,
UART) are taken everywhere outside machine mode.

| component | state | operations | interacts with |
|---|---|---|---|
| scheduler (`schedule.c`, `ctrap.c`, `syscall.c`, `process.c`, `spawn.S`) | run list by vruntime, current process and trap stack per hart, process state | `schedule_schedule` = park, pop, run; SYS_EXIT, SYS_SLEEP; `exec` | firmware (hart start, timer), heap and page allocator |
| firmware hart management (`sbi/src/hart.c`, `main.c`, `clint.c`) | status, target and lock per hart, barrier, software interrupts | `hart_start`, `hart_stop`, `hart_handle_msip`, boot | scheduler |
| firmware timer (`clint.c`, `svccall.c`) | compare register and STIP per hart | add, acknowledge, expire | scheduler |
| UART and console (`sbi/src/uart.c`, `console.c`) | receive FIFO, ring, command buffer | interrupt handler, `sbi_getchar`, line editing | console commands, exec |
| input (`input.c`, `virtio.c`, `plic.c`) | two virtqueues, event ring | interrupt handlers, SYS_OLD_GET_EVENTS | user programs |
| GPU, block, entropy drivers | virtqueue, request table | request, poll, interrupt handler | heap, system calls, file systems |
| page allocator, heap, page tables | page bits, free list, tables | allocate, free, map, translate | everything |
| locks (`lock.c`, twice) | mutex, semaphore, barrier words | try, lock, unlock, up, down, wait, release | everything |
| file systems (`vfs.c`, `minix3.c`, `ext4.c`, `filepath.c`) | mount tree, inode caches | mount, look up, read | block driver, program loading |
| PCI enumeration (`pci.c`) | bus numbers, BAR windows | discover, allocate | drivers |
| user programs (`user/paint.c`) | cursor, buttons, last brush | event loop, lines | input, GPU |

What is hard in it: kernel code of several harts interleaves on data that is
only partly under a lock; a hart keeps running on a stack that it has made
available to others; interrupts arrive between a test and the sleep that relies
on it; handlers on hart 0 free what other harts poll; rings and index arithmetic
wrap; and little of it can be reached by a test, since there is none in the
repository. `PROJECT.json` lists the hazards with their lines.

## Modules

| module | models |
|---|---|
| `Scheduler` | the scheduler with everything that calls it |
| `SchedulerProofs` | its inductive invariant and proofs |
| `ListLemmas` | lemmas on lists, index arithmetic and rings that the proofs share |
| `Hart` | the firmware's boot and hart management |
| `HartProofs` | the inductive invariant of `Hart`, and its refinement of `HartService` |
| `HartService` | what it promises: the abstract specification `Hart` implements |
| `UartRing`, `EventRing` | the two input rings, as operators on a record |
| `DropOldest` | what both rings promise: a bounded queue that drops its oldest value |
| `Console` | UART, its interrupt handler, `UartRing` and `get_command` on hart 0 |
| `ConsoleProofs` | its inductive invariant, and its ring as an implementation of `DropOldest` |
| `Input` | two virtio input devices, hart 0's handlers, `EventRing` and the programs that read events |
| `Paint` | the program `paint.c` at the end of `Input` |
| `InputProofs` | the inductive invariants of `Input` and `Paint`, and the ring as an implementation of `DropOldest` |
| `RequestService` | what polled requests promise: performed once, in order, and returned after that |
| `Gpu` | `gpu_request` on every hart, the device, hart 0's handler; implements `RequestService` |
| `GpuProofs` | its inductive invariant, and the refinement step by step |
| `PageAlloc`, `Mmu` | the page bits and the page tables, as operators on records |
| `Memory` | the heap and the making and freeing of processes, on several harts |
| `MemoryProofs` | its type invariant, the page bits against what was handed out, whom each table belongs to, what the heap's blocks tile and what backs it, and the inductive invariants |
| `KernelLocks` | which locks the kernel's routines hold while they take which, and the handlers of hart 0 |
| `KernelLocksProofs` | what its routines may do as a relation that composes as they do, and its inductive invariant |
| `Pci` | the numbering of buses, the memory windows, the drivers' start |
| `ByteDisk` | what the block and entropy drivers promise: an array of bytes |
| `Devices` | `block.c` and `rng.c` on the devices that `Pci` found; implements `ByteDisk` |
| `Filepath`, `BinaryMap`, `FileTree` | paths, `map.c`, and what the two file systems have in common |
| `Minix3`, `Ext4` | the two file systems, as functions of a disk |
| `Files` | the mount tree, the console's `read` and `exec`, the ELF loader, copies from user memory |
| `MC*` | the instances for TLC |

Operators named `X_<what>` are `X` with a plausible slip (a lost guard, a missing
reset, a swapped order). No specification uses them; replacing `X` by one shows
that a property notices.

### Scheduler

One action is one step of a hart's kernel code that other harts can see. A
critical section of `schedule_lock` is one action, since nothing else reads or
writes the list; between critical sections the code is cut wherever another hart
reads what it writes. `pc[h]` is that place. `schedule_schedule` on hart `h` is

    park -> ParkRemove -> ParkAdd -> ParkSave -> Pop -> RunAdd -> RunStart -> user

and `TimerTrap`, `SleepTrap`, `ExitTrap` and `FaultTrap` lead to it from a
program. SYS_EXIT goes through `schedule_park` twice, the second time with
nothing to park, with `ExitRemove` and `ExitFree` in between. What a program does
otherwise, the other system calls included, is `UserStep`: it does not touch the
scheduler's state. Idle processes are never listed, so one constant stands for
all of them.

Two parts of the state have no variable in the code. `stack[h]` is the process on
whose trap stack the kernel code of hart `h` runs: the stack pointer. `left_off`
remembers the next instruction of every process. `wild` becomes true when two
harts are on one stack, or when `exec` is given the page of a stack in use; it
stops the model, because what follows a wild write is anything. All properties
are therefore about the behaviour before the first wild write, and
`LeavingWindow` bounds the places where it can happen.

Assumed of the machine: the software interrupt a hart raises for itself in
`hart_start` is taken before its next instruction in supervisor mode. `RunStart`
is then one step. `Hart` does not assume it. Assumed also, of the boot: the harts have
left the firmware's `main` before the kernel first starts them, so that each enters the
address it was started at. `Hart` does not assume that either.

### Hart

`fw[h]` is the place in the firmware of hart `h`; handlers run with interrupts off.
The steps of `hart_start` (try the lock, check the status, write, raise the
interrupt, unlock) are separate, and so are those of `hart_handle_msip`, of
`hart_stop` and of `main`, which writes its hart's status (`ReadyStatus`) before its
target (`ReadyTarget`), both without the lock. The scratch word between them is always
the same. Before `clear_bss` the data hold arbitrary values. Any
hart that executes a program may start any hart or stop itself. The refinement
maps `status`, `target` and `at` to the variables of `HartService`, whose actions
are single steps: a refused call changes nothing, an accepted start is entered
once, at the program it named. The program is promised of harts that have settled: one
that was accepted between the two writes of `main` is entered at address 0 (`Settle`),
and nothing is modelled of what runs there.

### Console and Input

In `Console` the interrupt handler takes one character per step, and new characters
may arrive meanwhile. It cannot interrupt `sbi_getchar`, which is in machine mode
on the same hart. `wfi` sleeps until the next interrupt, also when one came just
before it. The ghosts `typed` and `seen` record what was received and what the
console got. Commands run in one step (`HandleCommand`); their effects are not
this module's.

In `Input` a device writes an event into the next lent buffer, advances its used
index and raises its interrupt; a handler reads the event, pushes it and lends the
buffer again, in three steps between which devices and readers run. Both devices
share a line, as PCI devices may. The index arithmetic is modulo `IDX_MOD`, 2^16 in
the code.

`Paint` closes it: one hart runs `paint.c`, another a program that asks for one event or
for none. What paint does with the events of one `get_events` is its own state and one
step with the end of that call. `LinesShown` compares the rectangles that `draw_line`
fills with the one it flushes. It does not cover lines between brushes of different
sizes, which the code does not flush to their ends: after the eraser, and on the first
stroke, which starts at the empty rectangle that `app_init` leaves in `prev_brush_rect`.
Near the bottom the brush jumps to the edge, since `get_brush_rect_from_pos` compares with
the canvas's height and not with where it ends; it stays on the canvas. A button event
right after an x is swallowed, and `FollowsReports` says exactly that. The answers of
`gpu_fill` and `gpu_flush` are ignored, in the model as in the code.

### Gpu

A caller takes the device's lock, fills descriptors, driver ring and `request_info`
from `at_idx` on, then publishes the indices and unlocks, then polls; these are four
steps. The device performs one request per step, in the order of the driver ring, as
QEMU's does with its control queue. The handler runs on hart 0, whose own callers wait
meanwhile; it sets `complete` in one step and then uses `req_info` in three more. A
caller on another hart may free `req_info` between them. What the handler then reads is
what was there or, once the memory is given out again, anything: the second outcome
sets `wild` and ends the model. `live` holds the heap blocks of requests. What
is drawn is one number per hart, the content of the hart's rectangle.

The refinement of `RequestService`, `ServiceSpec`, is split in two. `ServiceSafety` assumes
nothing of the scheduling. `Served` is its liveness: every request is performed and
every call returns, unless the handler hangs. The handler's two `kfree` spin on
`kmalloc_lock` (`gpu.c:90`), which the code that it interrupted on hart 0 may hold.
`HandlerMayHang` says where that can be: everywhere but inside `gpu_request` between its
allocations and the end of its polling. There neither the handler nor, as the heap may be
locked, a caller is under fairness, and `Served` promises nothing of behaviours that stay
there for ever.

### Memory

`PageAlloc` and `Mmu` are functions from one state to the next, since each routine runs
under its own lock. In `Memory` a call of `kmalloc` or `kfree` that does not grow the heap
is one step, because `kmalloc_lock` is held throughout; one that grows it is cut between
the pages, their clearing, the mapping and the insertion, where other harts take pages of
their own. `process_new`, `process_prepare` and `process_free` are cut likewise. The
allocator keeps no sizes, so `granted` (a ghost) remembers what was handed out and
`ExtentsKept` says that the two bits per page still tell it. A failed `page_zalloc` that
the code goes on to use sets `fault`; what follows is not modelled. The heap's pages are
the only part of the kernel's own table.

### KernelLocks

A routine is the sequence of its lock operations, device requests and waits, one
alternative per path through the code. Hart 0 may be interrupted between any two of them
and then runs a handler to its end, or until it waits. `WaitsFor` is the wait-for graph;
`LocksNest` says that the kernel's own nestings never close a circle, and
`OnlyTheHeapWedges` names the circles that the handlers do close: hart 0, in the GPU's
handler, frees blocks of another hart's request, and either it was interrupted inside the
heap or it holds a lock that the hart growing the heap waits for.

### Pci and Devices

`Pci` runs `pci_discover` one answering slot at a time on any of a set of machines: bus
numbers, base address registers, windows, capabilities and interrupt lines. Left as the
code has them: a nested bridge gets no subordinate bus of its own, so what is behind it is
never seen; the word index of the bitset of buses leaves it from bus 32 on (`PciTypeOK`);
the last capability of a device's list is not set up, and the computed line is the one
raised only if bridges fill the slots from 1 on (both in `AllAttached`). The
enumeration ends at a function that is neither device nor bridge, at a base address
register that is not of memory, and at a device whose set-up fails; a device that rejects
its reset or its acknowledgement is one with a capability `unknown`.

In `Devices` hart 0 makes requests on the disks and the entropy device, polls, and takes
their interrupts meanwhile. A write first makes a nested read of the same device, so
frames are a stack. `ByteDisk` is an array of bytes; the refinement maps each device's
contents to it. A status other than OK reaches no caller (`block.c:58`), and the promise
ends there.

### Files

`main` mounts two disks, each with one of the two file systems or none, in any order, and
the console then reads files and executes them. `Filepath`, `Minix3` and `Ext4` follow the
code's loops, and what is read is compared with a reference that finds each byte by its
position (`FilesRight`), and with the ELF segments as the program sees them through its
page table (`ProgramLoaded`). Both state the cases the code does not serve:

* names below "/mnt" on the root disk are hidden, and a second disk of one kind replaces
  the first (`vfs.c:112`); "." and ".." have no children; a backslash escapes a slash
  when splitting, and is dropped when the path is joined (`filepath.c:67`);
* ext4: blocks of 1024 bytes and checksummed directories (`ext4.c:14`, `ext4.c:151`), names
  with padding (`ext4.c:176`), no extent that begins at the end of the bytes wanted or
  behind it (`ext4.c:356`); such an extent is read with a count of 0 or less than 0. Zero
  bytes are a `page_alloc(0)`, which marks a page that it did not find free;
* a read of at least one byte, or of an empty file without zones or extents: `read`
  allocates as many bytes as its count says, and both file systems take 0 for the whole
  file, so that "0", or what is no number, writes the file over the heap (`console.c:311`);
* a hole shifts what follows it in a MINIX 3 file, and keeps the zeros in an ext4 one;
* the loader copies `p_memsz` bytes from the file and maps them from the start of each
  page (`process.c:310`).

Reads with effects that nobody can foresee, the last two included, are `Wild`, and the
model stops after one at the console. Directories are read whole when a disk is mounted, and
have no such extents (`DirectoriesAssumption`).

The bytes of an ELF header are one value, the file's first byte. Disks are not written,
since nothing in the repository writes a file, and their reads succeed. The magic numbers of
extents are right; the check of a directory's tail (`ext4.c:190`) only changes a result that
is ignored.

## Runs

| run | bounds | shows |
|---|---|---|
| `sched` | 2 process harts, 3 processes, clock to 1, programs of 1 instruction; 2.9 million states | all invariants of `Scheduler` and `PopsLeastServed` |
| `sched_resume` | 2 harts, 2 processes, programs of 2 instructions | a process resumes at an old address (a fault of the code) |
| `hart` | 3 harts, 2 programs, 3 calls; barrier starting at 3; 0.3 million states | locks, no lost or stray start, refinement of `HartService` with its liveness |
| `console` | ring of 2, command of 2, 4 characters of 5 kinds | order, editing, refinement of `DropOldest`, delivery |
| `console_asleep` | the same with 2 characters of 4 kinds | the console sleeps on a complete command (a fault of the code) |
| `input` | 2 devices, queues of 2, indices modulo 4, ring of 3 slots, 5 events of the tablet from 2 scripts and 1 of the keyboard, a screen of 30 by 32; 0.6 million states | no event overwritten or reordered, refinement of `DropOldest`, delivery; what paint draws |
| `gpu` | 3 harts, 6 descriptors, indices modulo 6, `gpu_init` and one fill and flush per hart | descriptors and blocks, refinement of `RequestService`, and its liveness unless the handler hangs |
| `memory` | 2 harts, 1 process (made and freed again and again), 11 pages of 12 units, 2 blocks of 2 sizes at a time; 0.4 million states | allocations disjoint and remembered, the heap tiled and backed |
| `memory_frame` | the same | a process's frame mapped to a foreign page (a fault of the code) |
| `locks` | 3 harts, 8 locks, handlers anywhere; 6.5 million states | lock order, and the circles that interrupts close |
| `devices` | machines of up to 6 functions on 3 slots and behind 2 levels of bridges, some with a function or register that is not supported; disk of 6 bytes in sectors of 2, queue of 4, 11 calls; 0.3 million states | windows, lines, refinement of `ByteDisk` with its liveness |
| `files` | 11 disks in 2 places, 16 paths below each mount, 9 counts, programs of 2 segments; 36 000 states | reading, paths, mounting, loading |

Why the bounds are enough for what is asked. Two process harts are enough for
every race of the scheduler between the hart that leaves a process and the one
that takes it, and the third process is the one popped meanwhile; the proofs
remove the bound. A clock of 0 to 1 distinguishes a sleep that is over from one
that is not, and a smaller vruntime from a larger. Three harts give `Hart` two
callers that race for a third; three calls suffice for a start, a competing start
and a restart or stop. The rings of two and three slots overrun within four
events and the indices wrap. Three harts with two descriptors each fill the queue of
`Gpu` exactly, and its ten requests take every index round. In `memory` a block of 12 needs
a second page and a process most of one, so that growths, splits and merges of
both neighbours occur and pages run out. Three harts can wait for each other in a circle of
three locks, more than any nesting of the kernel's is deep. A call of 3 bytes on sectors of 2
touches three sectors or two, aligned or not, and six bytes of disk hold them. The files of `files` have sizes on both sides of
each change from direct to indirect zones and of each extent's end, and the counts lie
before, at and behind the beginning of an extent. The strokes of `input`
are longer than a brush and steeper than it on one side, and the ring overruns between
the two coordinates of a report.

The bounds, all in guards: `MaxTime`, `MaxCalls`, `MaxTyped`, `MaxMade`, `MaxFills`,
`MaxBlocks`, and in `Devices` no call after a failed one. No run checks for
deadlock, because each stops when its bound is reached, and `Scheduler`, `Gpu`, `Memory` and
`Files` also, or only, after a wild access or a fault, `Scheduler` when every hart has faulted, and
`KernelLocks` in the circles that `OnlyTheHeapWedges` describes: there a deadlock is what
the property is about.

### Fairness

`Hart` assumes that every hart keeps executing and takes an interrupt that stays
pending (weak fairness of each hart's firmware steps). Taking a spin lock needs no
more than that, because only finitely many calls compete. `Console` assumes the
same of hart 0: of the pending UART interrupt, of its handler and of the console's
code, each by itself, and nothing of the user. `console` adds `SpecWoken`, in which
other interrupts recur, and there every command is delivered; without it, in
`console_asleep`, one may not be. `Input` assumes that hart 0 takes interrupts and
finishes handlers, whose one lock hart 0 does not hold when it is interrupted. `Gpu` assumes that the device works and, as long as
the handler cannot hang, that hart 0 takes interrupts and finishes handlers and every hart in
`gpu_request` runs. `HandlerMayHang` excludes the handler's `kfree` whenever hart 0 may hold the
heap's lock; where hart 0 cannot hold it, another hart does, which gives it back, and spinning
ends. The device's lock needs no more, because finitely many requests compete for it. `Devices` assumes that hart 0 runs and
takes a pending interrupt, and that a device performs the requests it was given. The other
modules state safety only.

### Findings

* `schedule_park` lists the process and stores its resume address afterwards.
  Another hart can start the process in between, at the address of the time slice
  before (`schedule.c:242`; run `sched_resume`, 35 steps).
* `blocking_getchar` goes to sleep with `wfi` after a test that an interrupt may
  have made stale (`console.c:35`; run `console_asleep`).
* `process_prepare` maps a process's frame as if it were contiguous in physical memory.
  It is not when the heap block lies across two growths of the heap: the second page of the
  frame is then mapped to a page that is not its own (`process.c:120`; run `memory_frame`).

More faults appear in the models and are bounded by properties rather
than reported by a run, since no comment or test of the repository says otherwise. In
`Scheduler`, a hart that has parked a process is still on its trap stack
(`schedule.c:239`), and SYS_EXIT frees the trap stack it runs on (`syscall.c:122`);
`LeavingWindow` and `Accounted` bound both. In `Gpu`, `gpu_handle_irq` uses `req_info` after
it has let the caller free it (`gpu.c:88`); `BlocksOwned` shows that only callers
on harts other than 0 are exposed. Its `kfree` can hang (`gpu.c:90`): `OnlyTheHeapWedges`
says when, and `Served` what is left. In `Files`, reads of 0 bytes take a page that
was not found free (`page_alloc.c:119`), and a count of 0 overruns its buffer
(`console.c:311`); `FilesRight` says which reads are free of both. In `Hart`, `main` of the
firmware makes a hart startable (`main.c:76`) before it writes the hart's target
(`main.c:78`): a start accepted in between is overwritten, and the hart enters address 0
(`ReadyTarget`); `ServiceSpec` shows that only such a start is lost.

## Proofs

`SchedulerProofs` proves every invariant of `Scheduler` that `sched` checks, for any
`NUM_HARTS`, any set of processes, any sleep times and programs, and no bound on
time, from the named assumptions in `Scheduler` alone (`HartsAssumption`,
`ValuesAssumption`, `BoundsAssumption`).

The properties are not inductive. What they lack is what a place in the code says
of the process in hand, and `IInv` adds it:

* `HartInv` - where a hart is determines whether it has a current process, which
  stack it is on, and what holds of the process it chose: not dead, and its sleep
  over (the list may change between the pop and the start, the process may not);
* `ExitInv` - a hart in SYS_EXIT holds its dead process until `ExitFree`; no other
  hart is in SYS_EXIT with it. Without it another hart could have taken the process
  between `ParkAdd` and `ExitRemove`, and the block would be freed in the list;
* `ProcessInv` - a process that runs has slept enough, and none was charged more
  than the age of the machine;
* `BootInv` - processes exist only once every hart has started, so that a failing
  `hart_start` meets idle processes only.

There is one lemma per action, `<Action>Keeps`; the list operations are covered by
`AddListed` and `RemoveListed`, which rest on `ListLemmas`. `NextIInv` puts them
together, `Invariance` is the temporal theorem and the others follow from it.

RunsEligible is what `ProcessInv` and `ExitInv` give for harts that run a program,
and `TimeSlice` what `HartInv` and `ProcessInv` give for their timers and charges.

`HartProofs` proves, for any number of harts, programs and calls, from `HartAssumption`
alone, the type invariant of `Hart`, `StartsDelivered`, and that `Hart` implements
`HartService` (its initial states and its steps; not its fairness). Its `IInv` adds:

* `BarrierInv` - until hart 0 releases it, the barrier has counted down once for each hart
  that has come to it, and so is still above 0: no hart passes before `clear_bss`, which
  would overwrite the status that it sets (`WaitInv`);
* `LockInv` - the holder of a hart's mutex is the one whose place in the code says so;
* `PlaceInv` - what each place implies of the hart that is worked on: between the check
  of its status and the write of it, it stays `HS_STOPPED`, because whoever could change
  it needs the mutex or is that hart itself, on its way out of main; and a hart between
  main's two writes executes nothing yet.

There is again one lemma per action. `StepsOfService` maps the steps: `StartWrite` accepts
a start, `MsipTest` enters it, `StopCheck` stops, `ReadyStatus` makes a hart known,
`ReadyTarget` settles it, and all others stutter, because nobody can see their writes before the mutex is given back.

`PopsLeastServedAlways` is about a step: whichever process schedule_pop returns, no other
that was available before had been served less. It needs that the list is sorted when it
is searched, which `Sorted` gives, and that the first process that satisfies
`is_available` is at the least index (`PoppedIsLeastServed`).

`ConsoleProofs` and `InputProofs` prove the invariants of `Console` and `Input` and that
their rings implement `DropOldest`, for rings of any capacity, any characters and events,
and any bound on them. `Received` and `draw_line` are recursive functions, because a proof can
expand those. The properties of `Console` are inductive but for one fact (`CharInv`): the ring
and the handler hold characters only, never the 0xff that means "none", which is also what
`sbi_getchar` returns for an empty ring. `Input` needs, for each device, how the four indices follow
from the number of events made and acknowledged (`Counts`, `Indices`), that an event not yet
acknowledged is still in its buffer (`Buffers`), because the device has at most `QUEUE_SIZE`
buffers ahead of the handler, what the handler has in hand (`Handling`), and that the ring
holds the events of each device in order (`InOrder`). `InputAssumption` says that
no device sends the value that an empty ring returns (`{-1, -1, -1}`, a type that virtio
does not define).

`InputProofs` also proves the safety of `Paint`, for any screen, brush sizes, colours, events and
numbers of them per call. Its invariant says that the program's record has the fields of
`struct app` with whole numbers in them, that the last line was drawn as `LinesShown` says and
that the cursor is where the reports put it. The work is in `draw_line`, whose loop tests with
`==` whether the brush has arrived: `StepNearer` shows that a turn brings each coordinate nearer
to its target by what `line_step` adds and never past it, and `LineDrawn` that the loop therefore
ends, at the target, after at most as many turns as the two distances add up to. Each
rectangle of the line lies between the two ends (`TurnOnTheWay`), and so in the rectangle that is
flushed. `EventsHandled` carries the invariant through the events of one `get_events`, by
induction over their number.

`GpuProofs` proves the invariants of `Gpu` and that it implements `RequestService` (`ServiceSafety`), for any
number of harts and fills, any queue with two descriptors per hart, and any index arithmetic that the
queue's size divides. The order of the requests is in no variable: their descriptors are in the
rings, the indices wrap, and a request's info may be freed. So `IInv` says that a sequence exists,
`w`, of the harts whose requests are written to the ring and not completed, with the numbers of
those performed, published and completed, and tells from it

* what is in each slot of the rings and of `request_info` (`InvRings`, `InvQueue`), and where
  each hart is in `gpu_request` (`InvCalls`, `InvLock`);
* which two descriptors each request's chain has: those of the k-th request in `w` are at
  a distance from `at_idx` that k determines (`InvChains`), so that two chains never meet as
  long as the queue holds two descriptors per hart. Only `gpu_init` makes a chain of three,
  and it runs alone;
* which answers are in which block (`InvAnswers`), what the handler has in hand
  (`InvHandler`), which blocks are allocated and who will free them (`InvLive`,
  `InvOwned`), and what is on the screen (`InvShown`).

`Enqueue` appends to `w`, `Complete` takes its head, and each action has a lemma. The
refinement maps the pending requests to `w` by its content, and `ServiceSteps` says what each
action of `RequestService` is under the map.

`KernelLocksProofs` proves the invariants of `KernelLocks` for any number of harts. A routine
is one of a few hundred sequences of operations, built by concatenation, and the proof follows
that construction instead of listing them. `Goes(w, s, x, y)` says that the operations `s`,
run by `w` (the console, a trap or one of the handlers) from the state `x` of its own, that is
the locks it holds and the device it has asked, obey `MayLock` at each step and end in `y`. It
is closed under concatenation (`GoesOn`) and under `Under` (`GoesUnder`), so each routine gets
one lemma from those of the routines it calls: it is `Neutral`, back where it began. `MayLock`
holds the whole discipline: locks are taken in the order schedule and the devices, then
kmalloc, mmu, page_alloc; the ring's lock is taken alone; a handler takes one lock at a time.
`IInv` says that every hart has a sequence left that `Goes` from where it is back to the idle
state (`Routines`), that the mutexes are held by whoever those states say (`Holding`), and
that a hart whose request a device has waits for that device with at most its lock (`Asking`).
In a circle without a handler, the hart that holds the highest lock waits for one that is
higher still, so there is none (`LocksNestAlways`). Which locks a handler asks for, and what
hart 0 can hold when it comes, then leave only the case of `OnlyTheHeapWedges`.

`MemoryProofs` proves `TypeOK`, `ExtentsKept` and `HeapTiled` for any number of pages, harts and processes,
tables of any shape, blocks and programs of any size, up to the first fault. `MemoryAssumption`
asks for more pages than a page table has levels, so that the kernel's first page can be mapped;
for room for two headers and the smallest node on a page, so that `kmalloc_init` splits it; and
for no more pages than one address space has page addresses, counted from where the heap
starts: with three levels of 512 entries 512 GiB, where the machine of the Makefile has 256 MiB.
Without the last the heap's addresses would come round again in `mmu_map`, which takes each index
modulo the entries of a table. By themselves
the bits are easy: `Sized(bk, g)` says that they mean what `g` says was handed out, and
`TakenSized`, `DeallocSized` and `GrownSized` that an allocation, a deallocation and the new
tables of a mapping keep it so. But `mmu_free` gives back whatever the tables' entries point to,
and `process_free` what the process remembers, so `IInv` needs to know that those are
allocations, that each is given back by one owner only, and that a table's own page is one page:

* `Tabled(m, T, lev)` - every address space `u` has a set of tables `T[u]`, disjoint from the
  others', and an entry of a table of level `lev[t]` is a leaf when the level is 0 and else
  points to a table of the same space, one level below. This is why `mmu_free`, which counts no
  levels, meets tables only (`TablesOfSpace`): `mmu_map` always adds a permission to the leaf;
* `Owns` - tables and stacks are allocations, no stack is a table or the stack of two processes,
  and the process's table is one of its space, of the highest level;
* `ProcOK` - which of its pages a process has at each stage;
* `HeapOK` - the blocks end where the heap does, so that the sizes asked of the allocator are
  numbers of pages.

`MapKeeps`, `MapManyKeeps` and `FreeKeeps` carry this through the walks of `mmu_map`,
`mmu_map_many` and `mmu_free` by induction over the levels, the pages and the tables; they hold
also for a walk that ends in a fault half-way. There is again one lemma per action.

For `BlocksTile` a second invariant, `HeapInv`, stands on the first. `Tiles(v, B)` says of a set
of blocks that no two overlap and that each begins where `free_head` or another ends and ends
where the heap or another begins; splitting, joining and growing keep that (`TilesSplit`,
`TilesJoin`, `TilesGrow`). `Tiling` adds that the free list is in the order of the addresses and
has no two neighbours. While `kfree` inserts a block it may have one on either side:
`CoalesceTiles` follows the one pass of `coalesce_free_list` with an invariant of its own
(`Merged`: what is done has no neighbours, and it and the rest are still in order and tile the
heap), by induction over the list. That `kfree` frees a block that is held, also when a process
ends, needs that each process keeps a block of its own that nobody else gives back.

The second half of `HeapTiled`, `PagesBacked`, asks what `mmu_translate` finds for each of the
heap's pages, and a third invariant, `BackInv`, says where it looks:

* `Placed` - each table of the kernel has a place `lab[t]` among those of its level, the leading
  part of the addresses it maps. Two tables could otherwise be reached on one way, or one on two.
  `Leads(va, p)` then says that the entries that lie on the way of `va` exist and end at page
  `p`; `LookupIs` and `TranslateIs` that `mmu_translate` follows that way;
* `HeapPages` - each page address of the heap leads to a page of its own out of an allocation
  that is nobody's table or stack (`Loose`);
* `Growing` - between the steps of a call that grows the heap, the pages it was given are such
  an allocation, not yet the heap's, and as many of them are mapped as `mapped` says. The last
  turn of `mmu_map_many` maps a page beyond (`mmu.c:79`), which the next growth maps again.

`KernelMaps` is the step that matters: `mmu_map` of one address leaves the ways of all others
as they were, because at every level it changes the entry of that address only, new tables are
pages that were not taken and so on nobody's way, and addresses that differ have some digit
that differs (`Digit`, `DigitsEnd`). That the heap's addresses stay among those that the tables
tell apart follows from counting: its pages are different ones (`HeapCount`). Of all other actions it is
enough that they leave the kernel's tables alone and give back nothing that is `Loose` (`Quiet`),
which the lemmas for `IInv` show on the way.

`TypeOK` comes last, because the entry that `process_prepare` writes for a frame holds what
`mmu_translate` found in the heap (`HeapTranslated`).

Induction over data is possible where the data's definition is a recursive function of
numbers: `ListLemmas` proves `InductionOverNat` for a set of numbers instead of a
predicate, and the facts about `Received` and the rings rest on it. It is not for
RECURSIVE operators and folds, which no backend expands.

Only model-checked: every liveness property, `Served` and the fairness of `HartService` among
them, which are out of the prover's reach; all properties of `Pci`, whose BARs and
interrupt lines are sums over sequences, written as folds; those of `Devices`, which rest on
them, with its refinement of `ByteDisk`; and all of the file systems. What `BinaryMap`,
`Minix3`, `Ext4` and the modules above them compute is defined with RECURSIVE operators and is
checked on the instances only.

## Not modelled, and what is left

* Process ids (`process.c:34`, `bitset.c`) and the wrap of a sleep's end (`syscall.c:137`):
  the models identify processes by themselves and let time grow without bound; the numbers
  matter only after 65535 programs or 2^63 ticks.
* The semaphores of both `lock.c`: nothing uses them.
* Fair shares: `PopsLeastServed` says which process is next, not how much each gets in
  the long run; an abstract scheduler for that, and liveness of its processes, would come next.
* `exit` and `quit` of the console, which end `run_console`: the machine is then powered off.
* The loader's copies of 64 bytes into a program header of 56 (`process.c:247`,
  `process.c:279`): what they overwrite on the stack is the compiler's choice.
* Branches without a caller: requests that do not poll, `block_flush`, GPU requests of an
  unknown type.
* `printf` (vendored, three times), string functions, and headers that are constants (ELF,
  input event codes, register layouts): no property is about them. `test_syscalls.c` makes
  each call once and prints.
