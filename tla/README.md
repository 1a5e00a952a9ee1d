# A TLA+ verification project for LevOS 6

LevOS 6 is a small x86 kernel: a pre-emptive round-robin scheduler, a boot-time
page and frame allocator, a heap (liballoc), a read-only ext2 driver on a polled
ATA disk, a keyboard driver, terminals on top of three consoles, and a debug
shell that runs as process 1. There is one processor. Concurrency comes from
interrupts: the timer may switch threads between any two instructions that run
with interrupts on, and the keyboard interrupt may fall there too. Interrupt and
system-call handlers run with interrupts off (every gate of `arch/x86/idt.c` is
an interrupt gate) and are atomic towards each other. The hardware (interrupt
controllers, serial line, disk) goes on at its own pace.

## 1. The system and its hard parts

| Component | State | Operations | What is hard, and what makes it correct |
|---|---|---|---|
| Scheduler (`kernel/sched.c`, `arch/x86/pit.c`) | `thread_queue[32]`, `sched_next`, `sched_current_threads`, `current`, state and slice of every thread | tick, voluntary yield (int 0x2F), make, add, exit | Additions run with interrupts on and touch the queue, the count and the state in three steps; `sched_select` loops with interrupts off. Nobody starves, the loop ends, the count agrees with the queue. |
| Frame bitmap (`mm/frame.c`) | `frames`, `nframes` | first run of n frames, set, clear | Ends of ranges, failure values. A frame has one owner. |
| Heap (`mm/heap.c`) | blocks and their allocations as linked lists, `l_memRoot`, `l_bestBet`, totals, a lock | malloc, free | Long call sequences, gap arithmetic, a cached pointer. Live allocations never overlap. |
| Paging set-up (`mm/page.c`, `mm/alloc.c`, `arch/x86/multiboot.c`) | bump pointer `plp`, page tables, bitmap | `set_nframes`, `arch_do_mboot`, `paging_fini` | Page tables are taken from the pointer that bounds the loop that marks memory as used. Kernel memory is mapped to itself and never handed out. |
| ext2 (`fs/ext2`, `strtok`) | `strtok`'s static `sp`, open file position | lookup, stat, open, read | State that survives a failed lookup; partial blocks; prefixes. A lookup returns what the path means. |
| Keyboard (`drivers/keyboard.c`) | `keybuf[256]`, `key_loc`, `keys_avail`, modifiers | interrupt, get a key | Interrupt against reader without a lock; 8-bit counter; full buffer. Keys come out in order. |
| Terminals, printk (`drivers/tty.c`, `kernel/printk.c`, `lib/itoa.c`) | `outputbuf` and `outputidx`, the static buffer of `itoa`, the emitter | printk, write, flush, read | Shared by all threads that print, without a lock; a flush works on an index that others move. Prints end and stay inside the buffer; a system call's output is whole. |
| Consoles (`kernel/console.c`, `kernel/kmsg.c`, `arch/x86/serial.c`, `textmode.c`) | message buffer, cursor and cells of the screen, the transmitter | send a character | No lock; limits of the buffer and of the screen; polling against other threads. No character is lost, every call returns. |
| File layer (`kernel/device.c`, `fs/vfs.c`, `kernel/syscall.c`, `kernel/shell.c`, `kernel/bin/elf.c`, `main.c`) | devices, mount table, file table of a process, the shell's line buffer | mount, open, read, write, close, stat, the shell's commands | What one command leaves for the next: open descriptors, `strtok`'s pointer, a path kept as a pointer into a reused buffer; results nobody looks at. A command works on the file that it names. |
| Context switch (`include/levos/x86.h`, `arch/x86/sched.c`) | saved registers, stacks | entry, save, switch, return | Constants that must fit what was pushed, global scratch variables, int 0x2F inside int 0x80. A thread never notices that it was interrupted. |
| Interrupts (`arch/x86/idt.c`, `irq.c`, `exception.c`, `pit.c`) | descriptor table, controllers | set gates, remap, acknowledge | Boot sets the gates one by one with interrupts on; an EOI names no line. No line stays blocked. |
| ATA (`drivers/ata.c`) | task file registers, the drive | identify, read | The drive answers late, fails, or is absent; IDENTIFY is not waited for. A read returns the sectors asked for. |

How they interact. The timer interrupt and int 0x2F call the scheduler; the
exit system call calls it from inside a handler. The shell (process 1) reads
keys through `tty_input_read` and `kbd_read`, yields while there are none, and
its commands make threads (`testmt`) or call the file system. Processes get
their structures from the heap and their stacks straight from the frame bitmap,
from which the heap takes its blocks too. The bitmap is filled in by the
paging set-up before the heap goes online.

Two conventions hold for all modules. A `panic`, a page fault and an endless
loop with interrupts off stop the machine: `halted` then says why and only
`Stopped` is enabled. And `pc` names the step at which a thread, or the one
caller of a component, is.

## 2. The modules

| Module | Models |
|---|---|
| `Sched`, `MCSched` | the scheduler |
| `SchedProofs` | its theorems |
| `FrameMap` | the frame bitmap, as the heap uses it |
| `Alloc` | what the callers of the heap rely on (abstract) |
| `Heap`, `MCHeap` | liballoc on top of `FrameMap`; implements `Alloc` |
| `Paging`, `MCPaging` | memory set-up at boot |
| `Ext2`, `MCExt2` | lookup, stat, open and read |
| `Lookup` | what one path lookup returns and leaves behind (a function) |
| `Keyboard`, `MCKeyboard` | interrupt handler and reader |
| `Files`, `MCFiles` | from the devices to the shell's file commands and the ELF loader, on `Lookup` |
| `Threads` | what the code of a thread relies on (abstract) |
| `Context`, `MCContext` | entry, exit and switch of handlers; implements `Threads` |
| `Irq`, `MCIrq` | gates, vectors, handlers and acknowledgements during and after boot |
| `Terminal`, `MCTerminal` | printk, `itoa` and the terminal's output |
| `Console`, `MCConsole` | `console_send` and the three consoles behind it |
| `Ata`, `MCAta` | the disk driver against a drive |
| `HeapProofs`, `Ext2Proofs`, `PagingProofs`, `FilesProofs`, `ContextProofs`, `ConsoleProofs` | the theorems of these modules (section 4) |
| `DeviceProofs` | the theorems of `Ata`, `Keyboard`, `Irq` and `Terminal`, which it extends as four separate systems; their names are told apart by prefixes (`KbdSpec`, `IrqSpec`, `TtySpec`) |

How they fit together. `Heap` is built on `FrameMap` and checked against
`Alloc`. `Ext2` follows a lookup token by token and is checked to agree with
`Lookup!Find`; `Files` then uses `Find` for every lookup that a system call
makes. `Context` lets any thread be chosen and is checked against `Threads`;
which one is chosen is the subject of `Sched`. `Terminal` takes `console_send` as
one step, whose steps `Console` has. The modules of different parts share no
variables: `Sched` justifies that the others may treat a thread as going on
whenever it is not blocked.

Definitions have the names of the functions they model; where a function is
several actions, these carry the function's prefix (`add_check`, `add_slot`,
`add_count`, `add_ready` of `sched_add_process`; `get_*` of
`keyboard_get_key`; `case1` to `case5` of `malloc`; `fini_*` of `paging_fini`).
A definition with a suffix after an underscore in front of the definition it
resembles (`Selects_FromSlotZero`) is a mistaken variant of it: putting it in
place of the original must violate a property, which shows that the property
depends on this piece of code.

### Sched

State: the globals of `sched.c`; per thread its state and `time_used`; the
statics `p1` and `p2` of `cmd_testmt`. A process has one thread, so pids name
threads; 0 is idle and 1 is init. `sched_select` is not a loop but a choice:
the acceptable slot that comes first from `sched_next` on (`Selects`); when
there is none the machine spins. `pit_irq` is enabled whenever interrupts are
on, so a tick may separate any two steps of a thread. The early returns of
`sched_mk_process`, before and after it takes a pid, are in the model as the
source has them, although no allocator below it returns NULL today.

### FrameMap, Alloc, Heap

`frames` is the set of bits that are set. Block and allocation headers are
records by address, with the two list pointers of the code. One action is one
turn of `malloc`'s loop over the blocks. `free` is one action, `free_last` the
case in which the block becomes empty. `mm_free_pages` then follows, one action
per page: `free_frame` is given the address of a page below the block as if it
were a page table entry, clears the bit of the frame that the word there names,
and zeroes that field. The word is the `prev` pointer of a block's header, or
whatever else lies there. Where it has no frame the code panics, where nothing is
mapped it faults; otherwise the calls go on with that bitmap. Two histories tell
how far things have come: `used` are the frames in use, whatever their bits say,
and `damage` is `"bits"` from the step on that clears the bit of a frame in use,
`"memory"` from the step on that hands memory in use out again, zeroes a word of a
header, or uses a block where there is no RAM. From then on the heap's
structures and other memory overwrite each other, and the model begins no more
calls: nothing is claimed of them. Only one caller is inside the heap at a time
(section 5). `Alloc` has a set of disjoint pieces `<<address, length>>` and a flag
`broken`; the mapping takes the aligned pointer and the requested size of every
live allocation, and `damage = "memory"`.

### Paging

One action per page that a loop of `paging_fini` maps. The part of the bitmap
that `set_nframes` does not clear starts with junk. `LayoutAssumption` says
where a kernel may end: behind the first MB, and so far below the heap that all
page tables (`AllTables`) fit in front of it (the real kernel: about 1.2 MB, with
the heap at 8 MB), or behind its start, which moves the heap by `GAP`; the heap
then still starts before its end. In between, page-table frames would not be
marked as used: the proof of `KernelKept` fails there, and TLC shows how.

Two things are simpler than in the code. The bitmap takes one unit of `plp`
(`set_nframes` takes `nframes / 4` bytes for it, `frame.c:18`). And a region of the
memory map lies below the end of RAM: one above it, which real maps have and
`multiboot.c:15` marks behind the end of the bitmap, is excluded by
`PagingAssumption`, so that nothing here is claimed of a machine with one.

### Ext2

A path is a sequence of components, and so is the string behind `sp`. Names
come with the relation `StartsWith`, as `ext2_read_directory` compares prefixes.
`Entries` says what the blocks of an inode look like when they are read as a
directory, for regular files too. A read looks the path up once per block, as
the code does. The uninitialized index of the indirect block is a choice.

`Whole` is `Lookup` with what `ext2_read_directory` returns in the place of its
`Dir`, `Meant` is `Lookup` with the entries of exactly the name asked for: what a
path means.

### Keyboard

`keyboard_get_key` has one action per access to the variables it shares with
the interrupt handler. A code behind the prefix 0xE0 counts as the plain one
(`_extended` is never read), so the fake shifts that a keyboard puts around some
keys (E0 2A, E0 AA) set and clear `_shift` like real ones: `kbd_irq_fake_shift`.
`typed`, `pending`, `raced` and `faked` are history, `held` is the keyboard itself.

### Files

One system call is one action: only the thread of boot, then of the shell, uses
files, so nothing interleaves. State: the devices and mounts, the file table of
process 1, the open files (as a sequence; nothing frees them), `strtok`'s
pointer, the line buffer with the command in it, and the locals of the command.
The path of an open file is its place in the line buffer (`respath`), so that it
changes with the line. Memory that the code does not clear is a choice: the
file table (case 4.1 of `malloc`), the buffer of `cat`, the four bytes of
`elf_probe`. A lookup and the leftovers of a read's lookups are functions over the
components of the path (`Walk`) and over the number of blocks (`Lefts`).

### Threads and Context

A stack is the sequence of its words. The prologue pushes what the processor,
`pushal` and the macro push; `save_pre_irq_regs` copies from there, and
`arch_sched_setup_stack` builds the frame for `popal` and `iretl`. A handler is
one action whichever way it ends; `syscall_exit` contains the nested int 0x2F.
`post_schedule_noirq` reaches its handler by a tail call, as the compiler makes
it with the options of the Makefile (`TailCall`). The refinement maps the frames
to the registers and stack a thread would go on with (`RegsOf`), and
`Threads!Spec` says that these change by the thread's own steps only.

### Irq

One action for each gate that boot sets, in two halves where interrupts are on;
one for the delivery of a line with the whole of its handler and its EOI. The
pair of 8259s is external: fixed priorities, the second on line 2 of the first,
and a non-specific EOI that ends the highest line in service.

### Terminal

The statements of `tty_output_write`, its flush and `printk` are steps, split
where an index is loaded and stored later. A print of a system call runs with
interrupts off. `wanted` and `overlap` are history.

### Console

`console_send` step by step over the consoles in their order of registration;
a test of the cursor, its load, its store, `x = 0` and the store of a cell are
steps of their own, and a scroll is one step per row. The row behind the screen is
a row of the model, since a scroll copies it up. The transmitter is external: it
empties a queue, and is ready when that is empty. `sent` and `mixed` are history.

### Ata

The driver sequential, the drive external and concurrent: it takes a command
some time after it was written, is busy, and ends with data or an error; a
command that comes while it is busy is lost (`ignored`). The bus may have no
drive or read as all ones.

## 3. The runs

| Run | Instance | Shows |
|---|---|---|
| `sched` | queue of 5, slice of 2 ticks, 6 pids: two `testmt`s, the second one meets a full queue | the queue, the choice of a thread, nobody starves; 100147 states |
| `heap` | 4 frames, blocks of 1 or 2 pages, requests of 4 and 25 units | the heap is sound in any order of calls and implements `Alloc`, also behind releases that cleared wrong bits; only these and a block past the end of RAM do damage; 213237 states |
| `ext2` | an image with a subdirectory, prefixes in both orders, 12 paths; blocks of 3 bytes, 3 direct and 1 indirect block | lookup and read, with leftovers; 37699 states |
| `keyboard` | a letter and a digit, a buffer of 3, counter modulo 3, 4 keys, fake shifts | reader against interrupt; 954228 states |
| `paging` | 6 kernel ends, 4 RAM sizes, 4 memory maps, 3 kinds of junk | boot of the memory; 3844 states |
| `files` | 6 inodes, 7 paths, a file table of 5, 3 commands, blocks of 1024 bytes | every sequence of three commands after every outcome of mounting; 859374 states |
| `context` | idle, init and one worker, 2 words of stack each | the refinement of `Threads`; 48478 states |
| `irq` | lines 0, 1 and 14 of the drivers, 4 and 12 without one | interrupts during boot and afterwards; 10128 states |
| `terminal` | two threads, a buffer of 1, 4 characters, 3 overlaps | prints that interrupt each other; 106795 states |
| `console` | two threads, 2 rows of 2 columns, message buffer and FIFO of 2; 7 characters while calls do not overlap, 3 when they do | what the three consoles keep and show, every call returns; 153927 states |
| `ata` | 2 words per sector, 16 sectors, 2 reads of up to 2 sectors | driver against drive; 4349 states |
| `elf_header` | as `files` | a violation: the ELF header is not read from the start of the file |

Why the bounds are enough. The scheduler's queue reaches its limit with two
workers beside idle and init, in every order of exits and ticks, and a second
`testmt` runs against zombies. The heap has room for two blocks with several
allocations each, so all five cases of `malloc`, all three places of a gap and an
emptied block at each end of the list occur, with another block below it, an
allocation below it, and neither. In `ext2` leftovers of length 0, 1 and more
occur, and reads that start and end at every offset of a block. In `keyboard` the
buffer overflows and the counter wraps within four keys. In `paging` the kernel
ends on, before and behind page limits and the RAM ends below, inside and behind
the heap; two of the ends are the last ones that leave room for the page tables.
In `files` a table of 5 has two descriptors for `cat` beside the three that are
never given out, so the third command meets a full table; three commands are one
that leaves something behind, one that meets it and one that meets what is left
then. In `context` a second worker would repeat the first, and a stack has words
of its thread above and below every frame. In `terminal` and `console` the
smallest buffers are full at once; each further overlap repeats the situation of
three. Seven characters fill both rows with an extra character each and scroll
more than once. `console` has as many threads as the transmitter has places, so
that no character may be lost; a real one queues 16 characters, and repeated
`testmt`s make up to 30 threads that print, for which the proof (any number of
threads) rules out only that one is repeated. In `ata` every register of the
address takes part, and the second read finds what the first has left.

Granularity. A step is a statement, split where it loads a shared variable and
stores it later; a word is loaded and stored at once, as on this processor.

### Properties

Scheduler: `NeverSpins` (the loop of `sched_select` ends), `SlotAccounting`
(count = occupied slots, up to the one step in which it is behind),
`RoundRobin` (every switch brings each other acceptable thread closer to its
turn), `StarvationFree`, `AddCompletes`, and `IInv`, the invariant of the proofs,
which has or implies the other facts of the queue (`RunningIsCurrent`,
`OneSlotEach`, `QueueNeverFull`).

Heap: `HeapSound` (allocations are disjoint, both levels of lists, the totals and
the best bet are right, no block is empty; with `PointersSound`, alignment and the
way back from a pointer to its header), `MallocEnds`, `ImplementsAlloc`. All of these
go on behind releases that cleared the bits of frames in use, until memory is
damaged; `OnlyReleaseDamages`: no sequence of calls leads there except through such a
release, or a block that reaches past the end of RAM.

Ext2: `CleanLookup` (a lookup that starts without a leftover returns what the
path means, for paths that the comparison of prefixes cannot mistake),
`LookupIsFind` (every lookup, with a leftover too, returns and leaves what
`Lookup!Find` says), `ReadDelivers` (a read has read the blocks that it copies).

Keyboard: `CountersSound`, `ShiftNotStuck` (shift outlasts the keys only by a fake
shift that the keyboard pressed), `InOrder` (first in, first out unless an
interrupt falls into the window of `keyboard_get_key`), `KeysDrain`.

Paging: `KernelKept` (the kernel's frames are marked, mapped to themselves and
given to nobody else), `TablesComplete`, `BootEnds`.

Files: `RootUsable`, `TableSound`, `ReadsWhatItOpened` (never through a descriptor
of an earlier command, whose path the line buffer no longer holds),
`CatWritesNamed` and `ElfJudgesNamed` (right although results are ignored, as
long as no leftover interferes).

Context: `ImplementsThreads`, `MagicFound`. Irq: `StopsOnlyInBoot` (when an
interrupt can stop the machine), `OwnLineAcknowledged`, `RequestsServed`.

Terminal: `IndexInBuffer`, `AloneInOrder`, `SystemCallWhole`, `PrintsEnd`. Console:
`CharactersKept` (message buffer and serial line), `ScreenShowsLines` (every cell, and
the cursor, while calls do not overlap; an increment or decrement of the cursor that
is lost when they do can leave it anywhere, so nothing is claimed then),
`SendReturns`.
Ata: `ReadsExact`, `StopsOnReadError`, `ReadEnds`.

### Disagreements between code and comments

`elf_header` ends in a violation: `elf_load` announces the header, but its probe
has moved the position to 4, so every field is taken from four bytes further on.

Others are behaviours of the models, outside of what the properties claim. Exited
threads are never removed, and a thread may run, and exit, before it is marked
READY (`sched.h` says otherwise). Running out of frames gives 0xFFFFF000 rather
than NULL. `liballoc_free` is to free the memory that it is given (`heap.c:66`),
but `mm_free_pages` (`frame.c:88`) passes addresses below the block to
`free_frame`, which takes page table entries: the block's frames stay marked, and
the frame that a word below it happens to name is marked free. One stack, one
`malloc` and its free are enough to get there, and frees of ordinary reads do.
After a failed lookup the next one goes on with the leftover, down to the root
directory for an empty one; a read may need a block that is not read when its
parts of blocks do not fit into one; entries are compared over their own length,
so a prefix matches (`dir.c:21`); the test for a directory is never true
(`dir.c:9`); the index into the indirect block is uninitialized (`file.c:68`).
Releasing one of two shift keys ends shift. The terminal's index has no bound once
threads interrupt each other's prints. `first_n_frames` keeps only the first frame
of a run below `nframes` (`frame.c:60`): the block's other frames may be behind
RAM, and their bits are not set (`PastRam`). The extra character of a full line
stays on the screen when the next line is empty. A disconnected ATA bus makes the
first read poll for ever.

### Fairness

`Sched`: weak fairness of the tick (the hardware timer), of the boot steps and
of the removal loop, none of which anything else can disable for good; strong
fairness of the steps of `sched_add_process`, as a thread that gets the
processor again and again executes its next instruction. Voluntary steps
(yield, exit, commands) have no fairness. `Heap` and `Paging`: a call, or boot,
goes on. `Keyboard`: the shell goes on polling, which `StarvationFree` of `Sched`
justifies; so do the prints of `Terminal` (weak fairness of each one's steps) and
the senders of `Console` (strong fairness, as the transmitter is ready only from
time to time while others fill it), with weak fairness of the transmitter. `Irq`:
boot goes on and threads yield again and again (weak), and a line that is again
and again the highest one deliverable is delivered (strong: the processor takes
an interrupt at the next instruction). `Ata`: drive and driver go on. `Ext2`,
`Context` and `Files` are checked for safety only.

## 4. What is proved

Each `...Proofs` module proves its theorems for every value of the constants that
the named assumptions of the module allow. The pattern is the same throughout:
an inductive invariant, a lemma per action (or group of actions) that it is
kept, and the properties from it. TLC has checked every inductive invariant
on the instance of the module's run before it was proved.

| Module | Assumptions | Inductive invariant | Theorems |
|---|---|---|---|
| `SchedProofs` | `SchedAssumption`: a queue of more than 2, any slice, any number of pids | `IInv` | `NeverSpins`, `RunningIsCurrent`, `SlotAccounting` with `OneSlotEach`, `QueueNeverFull`, the action property `RoundRobin` |
| `HeapProofs` | `HeapAssumption`, `FrameMapAssumption`, `RequestAssumption`: any RAM, page, sizes of headers that fit into a page, alignment and requests | `HInv` (`HeapInv`) | `HeapSound`, `PointersSound`, `ImplementsAlloc`, the action property `OnlyReleaseDamages` |
| `DeviceProofs` | `KeyboardAssumption`: any buffer, any width of `keys_avail`, any number of keys | `KInv` | `CountersSound`, `ShiftNotStuck`, the action property `InOrder` |
| `DeviceProofs` | `IrqAssumption`: any lines, those of the three drivers among them | `IrqInv` | `StopsOnlyInBoot`, the action property `OwnLineAcknowledged` |
| `DeviceProofs` | `AtaAssumption`: any size of a sector, of the registers and of a read | `AInv` | `ReadsExact`, `StopsOnReadError` |
| `DeviceProofs` | `TerminalAssumption`: any finite set of printers, any buffer, any numbers of two digits | `TtyInv` | `IndexInBuffer`, `AloneInOrder`, the action property `SystemCallWhole` |
| `ConsoleProofs` | `ConsoleAssumption`: any finite set of threads, any message buffer, transmitter and screen | `CoInv` | `CharactersKept`, `ScreenShowsLines` |
| `PagingProofs` | `PagingAssumption`, `LayoutAssumption`: any memory size, memory maps without a region above RAM, kernel ends as above, a bitmap of one unit | `PInv` | `KernelKept`, `TablesComplete` |
| `ContextProofs` | `ContextAssumption`: any threads, stacks of any depth | `CInv` | `MagicFound`, `ImplementsThreads` |
| `FilesProofs` | `FilesAssumption`: any tree of directories, files, paths, table of at least 4 | `FInv` | `RootUsable`, `TableSound`, `ReadsWhatItOpened`, `CatWritesNamed`, `ElfJudgesNamed` |
| `Ext2Proofs` | `Ext2Assumption`: any image, paths and size of a block | `EInv` | `LookupIsFind`, `CleanLookup`, `ReadDelivers` |

### The arguments

`SchedProofs`. `sched_select` ends because init, in slot 1, is never a zombie, or,
when init was not made, because idle is acceptable as long as at most one
thread is counted; that needs the count to agree with the queue in every state
in which a tick can come (`SlotAccounting`), which needs an addition to find its
thread absent from the queue and a slot free (`Window`, `Fresh`), which needs pids
to be new (`Fresh`: everything queued or ever marked has a smaller pid than
`global_pid`). `Residents` keeps idle and init in their slots; `Slices` bounds the
counter of the running thread; `BeforeBoot` describes the time without a current
thread. The run `sched` checks `IInv` too. The proof has a lemma for the
scheduler itself (`SwitchDispatches`, `ScheduleDispatches`: a call of
`sched_schedule` either changes nothing but the slice or dispatches one
acceptable thread), one for what a dispatch keeps (`DispatchKeeps`), and one per
group of actions. `RoundRobin` follows from the same lemmas and the arithmetic
of `Turn` (`TurnDecreases`, `SwitchCloser`).

`HeapProofs`. The invariant holds until memory is damaged, whatever the bits say, so it
cannot rest on the bitmap. A block is a run of frames in use (`InFrames`, over the
history `used`): a new one overlaps no older one unless it takes a frame in use,
which is the step that sets `damage`. That such a step needs a release before it is
`OnlyReleaseDamages`: up to there the frames in use are marked (`Marked`), so a run of
clear bits is free. Allocations lie in their blocks between their
neighbours (`Disjoint`, `Lists`: the neighbour of an allocation is in the same block
with nothing between). That the list of blocks has no circle is a rank
(`Ranked`): a new block comes behind the last one, and taking one out keeps the
rank of the others. The totals are sums over sets that change with every call
(`TotalsExact`). The fold behind such a sum is a recursive function; that it exists
and that one element more adds its value are lemmas (`SumExists`, `SumTakesAny`),
proved by a least counterexample. `Written` says what `malloc` wrote
in front of an aligned pointer, which is how `free` finds the allocation again;
`BestBetLives` and `EmptyBlocks` say that neither `l_bestBet` nor a half-finished
`malloc` leads to a block that was given back. `AllocImplemented` maps each of the
cases of `malloc` and both forms of `free` to a step of `Alloc`, and all turns of the
search to stutters.

`DeviceProofs`, the keyboard. `ShiftNotStuck` is inductive with `held` and `faked` as
they are. The counters are not inductive without where the reader is: the
`key_loc` that it has loaded is never above the one in memory, since the
interrupt only counts up, and is equal to it as long as no key came into the
window (`Removal`). `InOrder` needs the buffer itself (`Contents`): the n-th pending
key is in cell n, or one cell further up from the step that takes cell 0 until
the shift has reached it. The arithmetic of the counter modulo its width is in
`CountUp` and `CountBack`.

`DeviceProofs`, interrupts. An interrupt can stop the machine only through a gate, so the
invariant says what each gate may hold (`Gates`: a panic only for vectors of
exceptions, a driver only for the vector of its line) and in which stages of
boot the vectors have moved and a gate may be half stored (`BootOrder`).
`OwnLineAcknowledged` then needs that a line is delivered only when nothing of a
higher priority is in service (`HighestIs`), so that an EOI without a line ends it.

`DeviceProofs`, the disk. `Progress` ties the words in the buffer to sector and word counts,
`InStep` says what the drive does at each step of the driver: only the first
command of a read can meet a busy drive, and from the wait for it to the last
word the drive is at the sector that was asked for. `SplitAddress` is the
arithmetic: the four registers, put together again, are the sector's number,
whatever their width.

`DeviceProofs`, the terminal. Threads load the index, are interrupted, and store
it later, so no bound on it is inductive by itself. `Counted` has the measure:
the index, stored or still in a local variable, and the characters that any
print has yet to store (`Pending`) are together at most what was printed.
`Solos` says that a print that found nobody inside, and was not interrupted
since, has the buffer for itself; the two give the bound of `MaxMixed` behind
the end (`Bounded`). As long as only system calls interrupt a print, the index
that was loaded is still the right one when it is stored, for a call ends with
an empty buffer (`Emptied`: what is in the buffer has somebody who flushes it);
that gives `Space`. `Owned` follows a print that nobody can interrupt through the
conversion buffer, the output buffer and the flush: what it has sent is at the
end of the line, what it has not sent is in its local variables and the two
buffers (`InTbuf`, `InOutput`). `SystemCallWhole` is that at the last step of a
call, `AloneInOrder` that with nobody else inside (`Quiet`).

`PagingProofs`. The hazard is that the loops take page tables from the pointer
that bounds them. `PlpBounds` has the measure: `plp` plus what the tables that
are still missing would take (`Missing`) never grows, so it stays in front of the
heap. With it every page that a loop has passed has its table (`Tables`), every
frame below the loop is marked, mapped to itself or marked before (`Marked`), and
while nothing was marked in between, page and frame are the same (`Identity`).
`GetPage` is the lemma about the one operation that moves `plp`, `FirstFrame` about
the search in the bitmap.

`ContextProofs`. The lemmas follow a frame through the handler: what the
prologue leaves on the stack (`FrameWords`), that `save_pre_irq_regs` finds each
register there (`SavedRegs`), and that `popal` and `iretl` on the frame that
`arch_sched_setup_stack` builds give back the registers and the stack (`PopsWords`,
`PoppedRegs`, `Returned`). The invariant says that the stack pointer kept for a
thread that does not run is the one of its own words (`SavedStacks`): the frame
of the interrupt no longer counts. `ThreadsImplemented` maps every action to a step
of the one thread that takes it, or to a stutter (`NextThreads`); the nested
int 0x2F of `syscall_exit` is among them.

`FilesProofs`. The commands ignore results, so that what holds at a step depends
on which lookups came before. A lookup that succeeds leaves nothing in
`strtok`'s pointer (`FindIs`); hence the stat of `cat` and the first read of `elf` use
up a leftover, or fail (`CatInv`, `ElfInv`), and every further lookup of the same path
starts without one and finds the same inode (`LeftsAre`, `ReadNamed`). `OpenInv` says
that the command's descriptor is the last file that was opened, with the path of
the line that is still in the buffer; `TableInv` that it is in one slot only.
`BootInv` follows the loop over the devices.

`Ext2Proofs`. `WalkInv` says at each step of a lookup where it is in the string
that `strtok` really goes through (the leftover, if there is one): the token is
component i, the inode is the walk over the components before it, and `sp` is
the rest. At its end that is `Find`. On a path that prefixes cannot mistake the
walk over the entries as compared and the walk over the entries as meant agree,
component by component (`PlainSame`), which gives `CleanLookup`. `ReadInv` says
which blocks a read has; `LastBlock` is the arithmetic that the last byte lies in
one of them when the partial blocks at both ends fit into one.

`ConsoleProofs`. Each device has its own argument. Message buffer: the position that
a thread has loaded is never behind the end of what is stored (`KmsgIn`), so an
overlap overwrites characters but leaves no hole. Serial line: `SerialCounts` counts
the occurrences of each character, and a step of the line never adds one. A thread
that found the transmitter ready has its place in the queue, since that was empty
then (`FifoRoom`, which bounds the queue and such threads together by the number of
callers), so that no character is lost with as many threads as the queue has
places; a single caller always finds it (`OneCaller`). Screen: without overlaps the
cells are those of the last lines of the text in front of the character that is
under way (`Shown`), and `ScreenAt` says at each step of `__textmode_putchar` what is
different: the cursor that is stored in two steps, and in a scroll the rows that
are already copied. `Lines` is a fold over the text, of which the proofs use the
equation for one more character.

Facts about every length of a path or text, or about any number of blocks, are
not proved by induction, which the prover cannot use. `Walk` and `Lefts` are
recursive functions, as are the sums of `Heap` and the lines of `Console`; the
existence and the equations of such a function are proved by a least
counterexample (`Least`, from the well-foundedness of the naturals).

### Only model-checked

Liveness (`StarvationFree`, `AddCompletes`, `MallocEnds`, `KeysDrain`, `BootEnds`,
`RequestsServed`, `PrintsEnd`, `SendReturns`, `ReadEnds`): fairness and `ENABLED` are
out of the prover's reach. Every invariant and every other action property of the
passing runs is proved. `HeaderOfFile` is the property of the violation.

## 5. Not modelled

`calloc` and `realloc`, `keyboard_read_key`, the input side of `tty_input_write`,
reading of `kmsg` (no caller, or not implemented); the `gdt` and other loads of
descriptor registers (no state that another part reads); formats of `printk`
other than characters and numbers; the arithmetic of inodes and blocks on the
image (`inode.c`, `block.c`): a model of it would repeat the formulas. The heap's
lock, which panics when it is taken: only the thread of boot and of the shell
allocates (`testmt`'s workers and interrupt handlers do not), so that there is no
second caller. A line of more than 512 characters (`shell.c:40`) and the size of a
thread's stack (`sched.c:120`) are not tested by the code, so that there is no
guard to model; a kernel that ends within the page tables' room in front of
`KHEAP_START` (`page.c:128`) is excluded by `LayoutAssumption`. Page directories per
process share the kernel's page tables; `Context` has the register that names
them. The ARM port is a stub.

## 6. Plan

1. Done: `Sched` with proofs, `Heap` with `Alloc`, `Paging`, `Ext2`, `Keyboard`, and
   `Files`, `Context` with `Threads`, `Irq`, `Terminal`, `Console`, `Ata`. Every part
   of the system that keeps state has a module.
2. Done, proofs: every invariant of every module, the action properties `RoundRobin`,
   `InOrder`, `OwnLineAcknowledged`, `SystemCallWhole` and `OnlyReleaseDamages`, and
   the refinements of `Threads` by `Context` and of `Alloc` by `Heap`.
3. What stays with TLC is liveness. A part worth adding next is the arithmetic of
   inodes and blocks on the image.
