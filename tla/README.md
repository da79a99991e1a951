# LimineOS in TLA+

LimineOS is a small x86-64 kernel started by the Limine boot loader.  One
processor runs (the others stay parked: `goto_address` is commented out,
`kernel.cpp:141`), with interrupts.  This directory models the kernel's own
logic, checks small instances with TLC and proves theorems with TLAPS.

## 1. Inventory

Paths are relative to `src/src/` unless they begin with `src/`.

| Component | State | Operations | Interacts with | What is hard, what makes it correct |
|---|---|---|---|---|
| Physical page allocator, `mm/pmm.cpp` | bitmap (a bit per page), cursor `lastI`, `highest_addr`, `usedRam`, `freeRam` | `Initialize`, `alloc` (two `inner_alloc` passes), `free` | called by heap, page tables, threads, ELF loader; reads the boot loader's map | next-fit search with a cursor shared by all calls; a run that spans the cursor; rounding of the bitmap's size; wrapping counters. No page has two owners, none is leaked, a halt is justified |
| Scheduler, `sched/scheduler.cpp`, `cpu/cpu.cpp` | `cpus[].task_queue` (linked list, `current`, count), `curPid`, `sched_mutex` | `AddThread` twice, `Schedule` with `GetNextThread`, `DeleteCurThread`, `Initialize` | LAPIC timer, system calls, ELF loader, boot | ticks between `AddThread`'s unlocked stores; saving registers into the right thread; recursion over dead threads; every runnable thread gets its turn |
| Thread construction, `sched/task.cpp` | `ctxt`, `rootTable`, `next` | constructor, `MapPage` | page allocator, page tables | bytes passed as a page count; a stack, a kernel stack and a low-memory window mapped page by page |
| Boot, `kernel/kernel.cpp` | `smp_req`, order of the steps | `kernel_entry`, `BspKernelThread` | everything | what is initialised before what, with interrupts on from the second step; processor ids of two kinds. Every interrupt that is taken finds its handler and CPU, and a thread if the boot processor is the one that is given one; a boot ends at the first step its machine does not get past |
| LAPIC and IOAPIC, `dev/apic.cpp` | timer, redirection entries | `InitTimer`, `HandleTick`, `EOI`, `Initialize` | scheduler, ACPI | one EOI for each tick; the timer is going before its handler is entered |
| Kernel heap, `mm/liballoc.cpp` | blocks, boundary tags, bins, complete-block cache | `malloc`, `free`, `realloc`, `calloc` | page allocator, `new` | splitting, melting with neighbours, whole blocks given back; sizes in `unsigned int` |
| Virtual memory, `mm/vmm.cpp` | page tables, kernel table | `MapPage`, `Initialize`, `SetCurrentPML4` | page allocator | four levels of tables made on demand, in frames that hold anything, written through a window the tables map themselves. A mapping changes one page of one address space |
| System calls and user mode, `include/cpu/Syscall.cpp`, `syscall.asm`, `cpu/gdt.cpp`, `src/lib`, `src/umode` | MSRs, GDT, selectors | `syscall_handler`, `SyscallHandler`, both calls | scheduler, screen | selectors through `sysret`, the tick and `iretq`; one kernel stack for all calls |
| Interrupt dispatch, `cpu/idt.cpp`, `idt_asm.asm`, `pic.cpp` | IDT, `handlers[]` | `interrupt_handler`, `AddHandler`, `RemapAndDisable` | LAPIC, screen | exceptions and unhandled vectors print, which needs a lock, and halt |
| Spinlocks, `include/cpu/spinlock.h` | one flag | `lock`, `unlock` | scheduler, screen | unlocking what is not held, spinning with interrupts off |
| VFS, `fs/vfs.cpp` (with `src/lib/hash.h`) | mount table, `openFilesystems` | `open`, `read`, `lseek`, `tell`, `close` | ramdisk, loader | descriptors that outlive `close` |
| Initial ramdisk, `fs/initrd.cpp`, `src/tools/make_initrd.cpp` | open files, descriptor counter | the same, on an image | VFS | a counter used as a free list; offsets written by the tool |
| ELF loader, `fs/util.cpp` | none of its own | `LoadAndExecuteElf` | VFS, heap, threads | pages of a segment rounded down, one of them mapped. A program is whole exactly when its segments fit in one page each |
| Screen and `printf`, `drivers/Screen.cpp` | cursor, `screen_lock` | `PutChar`, `printf` | everyone | a lock taken with interrupts on and off; cursor limits. Messages stay whole, calls return |
| ACPI, `dev/acpi.cpp` | `gsis[]`, counts | `ParseTables` | APIC | walks over tables of unchecked lengths |
| HPET, `drivers/hpet.cpp` | its registers | `SetupHPET`, `msleep` | boot, LAPIC | a table that may be missing; a busy wait |
| PATA, NVMe, Intel graphics; font, CPU features, headers | | | | code nothing calls; data |

`PROJECT.json` lists the same components with what is modelled of each
("components"), and every place in the code that is hard to test ("hazards").

## 2. What is modelled

### PhysicalMemory: the page allocator

`PageAllocator` says what callers rely on: contiguous extents leave a pool and
come back whole.  `PhysicalMemory` is the code.  Its variables are the
file-scope variables (`bitmap`, `lastI`, `usedRam`, `freeRam`, `highest`),
the memory map, which `Initialize` edits, and the locals of a call in progress:
`pass` (which `inner_alloc` runs, 0 outside), `count`, `limit`, `p`, and
`start`, which is `alloc`'s local `i`.  `owned`, `home` and `uncounted` are ghosts: the
extents callers hold, the one the bitmap lies in, and how many pages first passes have
handed out, which `usedRam` does not count.

| Action | Code |
|---|---|
| `Initialize` | all of `Initialize`: highest page, first entry the bitmap fits in, carving, clearing the bits of usable pages |
| `InitializeFaults` | no entry is large enough: `buffer` is null and is written through |
| `InitializeOverruns` | the bitmap is too short; the model stops, since bitmap and first pages share memory from here on |
| `AllocCall(n)` | entry of `alloc` and of the first `inner_alloc` |
| `ScanUsed`, `ScanFree`, `ScanHit` | one iteration of the loop: a page in use, a free one, the free one that completes the run (marks it; the second pass also counts it) |
| `ScanWrap` | the first pass returned null: `lastI = 0`, second pass up to `start` |
| `OutOfMemory` | the second pass returned null: message, `HaltCatchFire` |
| `Free(e)` | `free` of an extent that was handed out |

The unit is the page: the boot loader aligns usable entries to 4096 bytes and all sizes are
multiples of it.  Bitmap sizes keep their arithmetic, with the bits in a byte and the bytes in a
page as constants; RAM counters wrap at `Word`. `memset` of the returned pages is left out: only the
second pass zeroes them, so callers have to take them to hold anything, and `VirtualMemory` does.  A
call is not interrupted by another: interrupts are off or only one thread allocates
(`BspKernelThread`).

### Scheduler

`RoundRobin` is the promise: threads stand in a ring in the order they joined and
a change of the running thread moves on to the next one that has not exited.
`Scheduler` is the code, on the processor that runs.  `queue`, `next`, `canRun`,
`pid`, `ctxt`, `processorId`, `curPid` and `sched_mutex` are the program's; `adding`,
`stores`, `oldTail` the locals of an `AddThread` in progress; `pc`, `picked`,
`depth` those of the interrupt handler; `regs`, `running`, `inService` the
processor's and the LAPIC's.  A context is abstracted to the amount of work
it has recorded, which is what a wrong save or restore would lose.

| Action | Code |
|---|---|
| `AddBspThread`, `NumberCpus`, `EnableInterrupts` | `kernel_entry` from the first `AddThread` to `sti` |
| `Work` | an instruction of the running context |
| `AddCall`, `StorePid`, `StoreLink`, `StoreTail`, `StoreCount`, `AddReturn` | `AddThread(Thread*)`, which takes no lock and runs with interrupts on: its four stores are plain, and the compiler may order them as it likes before the atomic store of `unlock`, so the model takes them in any order |
| `DeleteCurThread` | system call 0, interrupts masked by SFMASK |
| `Tick` | the LAPIC delivers the periodic tick |
| `LockAndSave` | `sched_mutex.lock()`, the save into `current->ctxt` |
| `GetNextThread` | one call, which may call itself |
| `ReturnFromTick` | no thread: `Schedule` returns, `HandleTick` writes EOI |
| `Dispatch` | unlock, EOI, `iretq` |

Within a store group, `StoreLink` writes `head` when the queue was empty and
`tail->next` when not: only one of the two takes effect, so it is one step.
`BspKernelThread` loads one program today; the model lets it load each of
`Users` once, which is what `LoadAndExecuteElf` allows.  Nothing sets `canRun`
again and `BspKernelThread` never exits.

### LibAlloc: the kernel heap

`Heap` is the promise: a caller's bytes are its own until it frees them and lie in
pages the heap holds.  `LibAlloc` is the code: `tags` (the boundary tags in
memory, by address), `l_freePages` and `l_completePages`, and the locals `tag`,
`size`, `index` of the call in progress.  `given` is a ghost: what callers
have.  Below it stands the page allocator, `pool` and `owned`; that the heap keeps to its
contract is the property `KeepsToPageAllocator`, with the same `PageAllocator` that
`PhysicalMemory` implements.

| Action | Code |
|---|---|
| `MallocCall(n)` | entry of `malloc`, up to the head of the bin |
| `SearchOn` | one iteration of the search: too small, next tag |
| `SearchHit` | a tag with room: `remove_tag`, count of whole blocks, `split_tag` with its `insert_tag`, return |
| `SearchMiss(p)` | `allocate_new_tag` with pages from `p` on, `split_tag`, return |
| `Halt` | `PhysicalMemory::alloc` halts the machine; it may do so while pages are free (see the finding), so the model does not tie it to the pool |
| `FreeCall(a)` | entry of `free`, up to the loops |
| `MeltLeft`, `MeltLeftEnds`, `AbsorbRight` | one iteration of each loop, and the end of the first |
| `GiveBack`, `Keep` | the end of `free`: whole block to the page allocator, or piece to its bin |

Addresses and sizes are bytes, with the size of a tag, of a page and the bins as
constants.  Left out: the magic number (it only tells pointers `malloc` never returned),
`free(NULL)`, the first call's reset of what is zero already, `calloc` and
`realloc` (nothing calls them; sequences of the two and of copying), and sizes
near 2^31.  `liballoc_lock` does nothing, and calls are not interleaved: after
`sti` only `BspKernelThread` allocates.  The
kernel frees only what it removes from a hash map (`src/lib/hash.h:129`); the
model lets callers free whatever they have, in any order.

### FileSystem: VFS and the initial ramdisk

`FileAccess` is the promise: a call on a descriptor moves the position of its file
and of no other; a call on one that is not open changes nothing.  `FileSystem` is
the code, from `make_initrd`'s image up.  `open_files` and `openFilesystems`
keep the chains of `src/lib/hash.h`; `files` is the ramdisk's list (a `FileInfo*`
is a place in it), `cur_fd` the counter.  `reply` and `got` are what the last call
returned and where in the image it read; `input` and `orderly` are ghosts.

| Action | Code |
|---|---|
| `Mount`, `NoModules`, `MountGarbage` | `VFS::Initialize` with the constructor of `Initrd`: an image, a halt, or an uninitialised pointer taken for an image |
| `Open(path)`, `OpenMissing`, `OpenOutside` | `VFS::open` and `Initrd::open`: a file, no such file (VFS notes descriptor -1), no such mountpoint |
| `Read`, `ReadRefused` | `read` with its unsigned check |
| `lseek`, `tell` | of an open descriptor |
| `close`, `CloseUnknown` | `close`, which counts down before it looks the descriptor up; VFS never forgets one |
| `ReadUnknown` | `read`, `lseek` and `tell` of a descriptor either table does not know |

Names are sequences of characters because `strncmp` here stops at the end of the shorter
one, so which file `open` finds depends on prefixes.  `Headers` gives every file the
offset of the first, as the tool does.  Left out: permissions (ignored by the code), messages, an
empty path (`open` would step past its end), truncation of names at 64.
The only caller today is `LoadAndExecuteElf`, on one thread.

### VirtualMemory: tables, threads' memory and the loader

`AddressSpaces` is the promise: mapping a page changes that page of that address
space and nothing else.  `VirtualMemory` is the code.  `mem` holds what frames
contain as page tables, `rootTable` the top tables (`kernelDir`,
`Thread::rootTable`), `currentDir` is CR3, `kstack_phys` is in `cpus[]`; `owner` tells
what each frame was handed out for.  `level` and `table` are the
place of `MapPage` on its way down, `todo` and `at` that of the loops that call
it, `segments` that of the loader.  `program`, `image` and `touched` are ghosts.

| Action | Code |
|---|---|
| `MakeTable`, `Descend`, `StoreEntry` | one level of `MapPage`: a new table in an empty entry, the table an entry names, the page's own entry |
| `RegionDone` | the end of a loop over `MapPage` |
| `MakeKernelDir`, `MapFramebuffer`, `NoFramebuffer`, `SwapToPageTable` | `VirtualMemory::Initialize` |
| `MakeKernelStack` | one turn of `Scheduler::Initialize` |
| `NewBspThread`, `MakeStack`, `MakeRoot`, `ThreadMade` | the constructor of `Thread` |
| `LoadFails`, `LoadAndExecuteElf`, `SkipSegment`, `MakeSegment`, `CopySegment`, `AddThread` | `LoadAndExecuteElf` by segments |
| `CopyOverruns` | `memcpy` runs into memory of someone else; the model stops |
| `SwitchTo(t)` | a tick's `SetCurrentPML4`, at any time once a thread is added |
| `OutOfMemory`, `PageFault` | `alloc` halts; a frame that is written lies outside the window |

Addresses are counted in pages.  The kernel writes tables through the higher-half
window, which those tables themselves map: `Reaches(f)` asks the tables in CR3
whether frame `f` is there, before every access.  New frames hold what they held.  Below stands
the page allocator, taken as any choice among the first `MaxSkip + 1` places where the
pages fit.  Left out: invalidation of the TLB (no mapping in use is changed), the bytes
of stacks, and contents of user pages other than which file bytes they are.

### UserMode: system calls, interrupts and the screen

How the processor gets into user mode and back, and what is printed on the way.
`cpu` is the processor's selectors and interrupt flag, `ctxt` the selectors in each
`Thread::ctxt`, `at` the place of each thread in its program, `inCall` who is
between `syscall` and `sysret`, `vector` what `interrupt_handler` reports.  `stage`,
`todo` and `left` are each printer's place in `_printf`; `screen_lock`, `x`, `y` are the
code's, `log` is the serial line, `said` and `drawn` are ghosts.

| Action | Code |
|---|---|
| `Lock`, `Put`, `Unlock` | `_printf`: taking the lock, one `putc` to serial line and screen, the end |
| `BspPrints`, `SysCallsInit`, `AddThread` | the steps of `BspKernelThread` |
| `Syscall(u)`, `Sysret(u)` | `syscall`, `syscall_handler` and the call; `sysret` with the selectors STAR gives |
| `Tick(t)` | the tick saves the running thread and resumes `t` with `iretq`, or `iretq` raises exception 13 |
| `UserFault`, `Spurious` | an exception in user code; vector 255, which has no handler |
| `HaltCatchFire` | the end of `interrupt_handler` for both |

Which thread a tick takes is `Scheduler`'s matter, so it is any live one.  Selectors
are looked up in the descriptors of `gdt.cpp`, and SFMASK, STAR and the access bytes have the
code's values.  `itoa`, `utoa` and the cursor are modelled by what they do; `Numeral`
and `ColumnAfter` are the reference definitions they are held against.  `itoa`'s buffer
has no room for a terminating zero, so `puts` goes on into `beyond`, whatever is there.
`CursorMoves` gives `LetterMoves` to every character that is neither newline nor tab.

### KernelEntry: the order of the boot

`kernel_entry` in its order, from `Screen::Initialize` to the idle loop, with what can interrupt it.
A machine says what its parts are: a screen, room for the bitmap, what each of the five steps
that allocate finds (`memory`: enough, no long enough run, or pages beyond the window), a framebuffer in
the memory map, the RSDP's signature, tables, the MADT's records, the boot processor's LAPIC id.  The
variables say what each step has done: interrupt flag, GDT, IDT, the PICs' masks, the IOAPIC's
entries, the timer, `handlers`, the CPU in GS, numbered processors, `queued`, the processors with
a thread in their queue, and `stop`, why the boot went no further.

| Action | Code |
|---|---|
| `ScreenInitialize` ... `EnableInterrupts` | the steps of `kernel_entry`, in its order |
| `RemapPic`, `DisablePic` | `RemapAndDisable`, whose first command resets the masks |
| `MapWindow`, `NoFramebuffer`, `MapFramebuffer` | `VirtualMemory::Initialize` |
| `ScreenFaults`, `MemoryFaults`, `OutOfMemory`, `NoFramebuffer`, `BadRSDP`, `HPETFaults`, `GSIsOverrun` | what ends a boot |
| `FindMadt`, `ParseRecord`, `MadtDone` | `ParseTables` and the turns of `ParseAPIC`'s loop |
| `AddBspThread` | `AddThread`, which fills the queue of `cpus[curCpuCore]`, always `cpus[0]` |
| `CountTicks`, `StartTimer`, `AddHandler` | `InitTimer` |
| `PicInterrupt`, `TimerInterrupt` | an interrupt taken: what its gate, its handler and `Schedule` find; without a thread in the queue that `processor_id` names, `Schedule` returns and the boot goes on |

Memory, page tables and the first thread are a step or two each here; they have their own modules,
and whether they find memory is a choice of the machine.  ISA interrupts have numbers below 16, as
the ACPI specification says.

### How the modules meet

`PageAllocator` stands between `PhysicalMemory`, which implements it, and `LibAlloc`,
which keeps to its contract; `VirtualMemory` takes extents from it as well.
`Scheduler` decides who runs; `UserMode` lets any live thread be chosen, which
covers what `Scheduler` does, and `Scheduler` keeps the list `UserMode` calls `alive`.
`KernelEntry` ends where the first tick finds a thread, at which `Scheduler` and `UserMode`
take over; on a boot processor whose LAPIC id is not 0 none does, and it idles.  `LoadAndExecuteElf` appears in three of them: what it maps and copies in
`VirtualMemory`, what `AddThread` does in `Scheduler`, what it means for printing
in `UserMode`.

### Variants that are wrong on purpose

Each property comes with a variant of one definition that a plausible mistake
in the code would give ("mutants" in `PROJECT.json`); the variant stands before
the definition it replaces, under a comment that begins "Wrong on purpose".
No specification uses one.

## 3. Runs

| Run | Bounds | Shows |
|---|---|---|
| `page_allocator` | four memory maps of up to twelve pages, requests of one to three pages | no page owned twice, bitmap exact, halt justified, counters conserved, calls end, `PageAllocator` implemented |
| `out_of_memory` | the same | the machine halts with "Out of memory" while a long enough run is free (finding) |
| `scheduler` | two processors, either as boot processor, a kernel thread, two user threads, one step of work by each | the list is whole at every tick, contexts are kept, ticks go on, every runnable thread runs, `RoundRobin` implemented |
| `bsp_queue` | the same | a boot processor whose LAPIC id is not 0 has no thread (finding) |
| `heap` | five pages of sixteen bytes, requests of 3, 12, 16 and 40 bytes, up to three in use | pieces tile blocks, bins hold every free piece once, neighbours melt, whole blocks are counted and go back as they came, `Heap` implemented, calls end |
| `heap_search` | the same | new pages are taken while a free piece is big enough (finding) |
| `files` | three images of two files, four paths, reads of one or two bytes, offsets -1 and 0, descriptors from -1 to 1 | when descriptors are fresh and what the first close out of order does, both tables whole, reads inside their file unless sought below zero, which files read back, `FileAccess` implemented |
| `initrd_missing` | the same | with modules but no ramdisk, an indeterminate pointer may be used as image (finding) |
| `address_spaces` | four machines, forty-two frames, tables of two entries (44 at the lowest level), three programs | tables are trees, user pages are private, tables hold the window they are written through, when a system call has a stack and when a program is whole, `AddressSpaces` implemented |
| `user_mode` | three messages of the kernel thread, two programs, a screen of three lines of four letters | lock and kernel stack have one user, messages come out whole, where letters are drawn, whom `iretq` can resume, calls and panics end |
| `sysret` | the same | after its first system call a program runs with the data segment in CS (finding) |
| `kernel_entry` | machines with each part missing or there and at most one step short of memory, every MADT of up to three of six records, either of two processors as boot processor | every tick finds handler and CPU, and a thread exactly on processor 0; where triple faults come from; every boot ends at the first step its machine does not get past |

Why the bounds are enough.  The memory maps have two stretches with a hole
between, an entry too short for the bitmap, a map whose bitmap falls on the
rounding edge and one where it fits nowhere; with three request sizes the
cursor wraps, runs end at a hole, at the limit and at the place where a search
began, and memory runs out.  A byte has four bits and a page two bytes, so that
a handful of pages reaches the edges which the machine meets every 32768 pages.
RAM counters wrap at four.  Three threads are the fewest with which a list has
a middle, a dead thread can be skipped and turns can be unfair; `MaxWork = 1`
lets a lost save be seen, and two steps of work (177 000 states) show nothing
else.

In the heap a block is at least two pages and there are bins for 8, 16 and 32 bytes.
The four sizes are one below the smallest bin, two that leave useful rests in the
smallest block and one that needs a larger block.  With three in use a block is cut in three,
a piece with neighbours on both sides is split and melts in every order, and two blocks
are whole at a time, which is one more than `MaxComplete = 1` keeps.

The file names are distinct in one image and one a prefix of the other in the second; in the third
the first file is empty, so that the second reads back as well.
Two hash values for three descriptors give chains of two, and descriptor -1, which a
counter below zero makes valid, shares a chain with 1.  Positions go from -1, where the
unsigned sum wraps, to the end of a file and seeks one beyond it.

For address spaces, two entries at each of the upper levels are enough for paths that share tables
at every level and for paths that part at every level; the lowest tables have 44 so that the window
of one machine's memory lies in one.  The machines have a hole in memory, a framebuffer listed
before the screen's, a `processor_id` that no LAPIC id equals, memory beyond the window, and no
framebuffer at all.  All frames begin with entries that would lead astray.  The programs have a
segment of one page, one of more, one that is skipped and one that begins inside a page, with a
later segment on the page after.  With `MaxSkip = 0` the allocator takes the first place that fits
(4483 states; with 1, which lets it pass over one such place at every call, the states are too many
to finish): that frames lie apart comes from the holes and from the pages `new` may take in between.
One program is loaded, as `BspKernelThread` does; with two (`Users = {u1, u2}`, 14 976 states, three
times as long) every property of the run holds as well, and the theorems are about any number.

In `user_mode` messages have a line longer than the screen is wide, a tab, numbers of either
sign and base, and more lines than the screen has; a call prints while others may hold the lock,
and two programs show that one's call never meets another's.  In `kernel_entry` three records
with `MaxGSIs = 2` fill and overrun `gsis[]`, repeat an input, and put a record and an override of
length 0 at every place.  A boot ends at the first step that finds no memory, so one such step
at a time is all there is to see (1540 machines).

Deadlock is checked for the scheduler only, which never stops.  The other systems may:
`HaltCatchFire`, faults and overruns are ends, a missing ramdisk halts the kernel, `MaxFd` ends
opens, and `kernel_entry` ends with the first tick that finds a thread, idles or stops before.

**Fairness.**  `PhysicalMemory`: weak fairness of `Scan`, since a call that has
begun is a loop with nothing to wait for; the same for `Step` of `LibAlloc`.
`Scheduler`: weak fairness of the boot steps, of the
handler's steps (its instructions execute; when it spins on `sched_mutex` its
step is disabled, so a deadlock would show) and of `Tick` (the timer is periodic,
LVT 0x20020, and is masked only while a tick is in service).  Strong fairness of
`AddStep`: a thread that gets the processor again and again executes some
instructions, though a tick always disables it for a while.  No fairness is
assumed of `Work`, of `DeleteCurThread` or of loading a program.
`UserMode`: weak fairness of `Kernel`, the steps of `printf`, of `HaltCatchFire` and of
`sysret`; the processor executes instructions, but nothing is assumed of ticks or of user code.
A printer that spins on `screen_lock` has no step, so `CallsEnd` would show a wait for
ever.  `KernelEntry`: weak fairness of the boot steps, and of `TimerInterrupt` (the timer is periodic).
`FileSystem` and `VirtualMemory` state none; they check safety only.

**Findings.**
* `alloc` halts although memory is free: its second pass stops where the first
  began (`mm/pmm.cpp:123`), so a run across that page is in neither.  The
  message says "Out of memory".  What does hold is `HaltJustified`: both stretches
  were searched without fault.
* The comment at `kernel/kernel.cpp:123` says the first `AddThread` makes sure that
  the boot processor has a thread.  `curCpuCore` is always 0, so this is so only
  when the boot processor's LAPIC id is 0.  What holds is `InterruptsFindTheWay`: a tick finds a
  thread exactly then.
* `malloc` says "Find one big enough" and "No page found. Make one"
  (`mm/liballoc.cpp:308`, `326`), but looks only into the bin of `getexp(size)`: a
  request is given new pages while the rest of a block, one bin higher, could hold it.
* The constructor of `Initrd` means to halt when no module is the ramdisk, but tests a
  pointer nothing has initialised (`fs/initrd.cpp:60`, `73`).
* The comment at `include/cpu/Syscall.cpp:31` says how `sysret` computes CS and SS; the
  value beneath it gives CS the user data segment and SS the code segment.
  `sysret` does not look, but a tick saves them and `iretq` does: a program that
  has made one system call gets exception 13 when it is next resumed.  What holds is
  `ResumableUntilCalled`.

Also seen while modelling: the first `close` in another order than `open` makes the next `open`
hand out a descriptor in use or one below zero (`DescriptorsFresh` states both halves); all files of an
image get the offset of the first, so that a file reads back exactly when those before it are empty
(`FilesReadBackIffFirst`); the bitmap is too short when one to seven pages lie past a multiple of
32768 (`OverrunOnlyAtEdge` states exactly when), and `usedRam` counts only what second passes
return, so it wraps (`RamConserved` states by how much it is short of the pages in use).  And:

* `IDT::Initialize` ends in `sti` ("Please don't triple fault", `cpu/idt.cpp:114`), before
  the PICs are masked and before the segments its gates name are loaded: an
  interrupt of the PIT in the few instructions between the PICs' reset and their
  masks is a triple fault (`InterruptsFindTheWay`).
* Redirections of the IOAPIC use the ISA interrupt's number, below 16, as their vector, which LAPICs
  refuse: no device interrupts.
* Only the first page of a segment is mapped, at the start of a page whatever its offset, and what
  follows the file's bytes is not cleared (`LoadedIffPageSized`).
* Kernel stacks are stored by `processor_id` and looked up by LAPIC id: when no processor has the boot
  processor's, system calls run on the first pages of memory (`KernelStackBacked`).  A
  thread's stack takes 4096 times the pages it needs (`StackExtent`).
* The framebuffer that is mapped is the memory map's first, at the place of the screen (`WindowHolds`).
* The cursor counts letters but wraps at pixels, and nothing scrolls (`LettersInPlace`); a `%d` prints on
  behind its digits (`OutputWhole`).
* An override of length 0 is noted again and again until it overruns `gsis[]`; any other record of
  length 0 keeps `ParseAPIC` in its loop; an image without a framebuffer entry, an RSDT without HPET
  and a bitmap without room each end the boot (`BootEnds` says which comes first).
* A spurious interrupt inside a message waits for ever for `screen_lock` (`CallsEnd`).
* Only that `BspKernelThread` prints nothing once it has added a thread keeps system calls
  from waiting for ever for `screen_lock` (`CallsEnd`; the mutant prints once more).

## 4. Proofs

`PhysicalMemoryProofs` proves, for every set of memory maps, requests and unit
sizes that meet the assumptions named in `PhysicalMemory`:

* `InductiveInvariant`: `Spec => []IInv`;
* `TypeCorrect`, `NoPageOwnedTwice`, `BitmapIsExact`, `HaltIsJustified`;
* `RamIsConserved`, `OverrunsOnlyAtEdge`;
* `Implementation`: `Spec => ImplementsPageAllocator`.

**Assumptions.**  `MapsAssumption` is what the Limine protocol guarantees and the
code relies on: usable entries are not empty, do not overlap, lie below
`AddressPages` and do not hold page 0 (`alloc` tells a failed search from page 0 by
nothing).  `RequestsAssumption`: nobody asks for 0 pages.  `UnitsAssumption`: units
are positive.

**Argument.**  `OwnedDisjoint` is not inductive: whether a hit may be handed out depends on what the
search remembers of the pages it passed.  `SearchInv` says so: the `p` pages before the cursor are
free and, unless the pass began there, the page before them is in use; no run of `count` pages lies
wholly in what the pass has covered; in the second pass, none lies above `start` either. With
`BitmapExact`, a run of `count` free pages is a set of usable pages nobody owns, which gives
disjointness and the refinement; at a halt, `SearchInv` with `lastI = limit` is `HaltJustified`. 
`IInv` is an invariant of the `page_allocator` run too.  The lemmas at the head of the module (the
highest page bounds every usable one; carving loses no page but the bitmap's) and those of
`NaturalLemmas` (a set of naturals has a least and, when bounded, a greatest element, from the
well-foundedness of <) replace the inductions the prover cannot do.  `CountersInv` adds to
`RamConserved` that nothing is in use before `Initialize` and that the model stops exactly where the
bitmap is too short.  A hit adds its pages, which nobody owned, to `usedRam` or to `uncounted`, and a
free takes them off `usedRam` (`HitIsAccounted`, `FreeIsAccounted`); `SumWraps`, `SameRemainder`,
`WrappedAdds`, `OneRemainder` and `WordRemainder` are what is needed of remainders, and `ShortBitmap`
computes when the rounding gives too few bytes.

`SchedulerProofs` proves, for every set of processors, every boot processor and
every set of user threads:

* `InductiveInvariant`: `Spec => []IInv`;
* `TypeCorrect`, `QueueStaysWhole`, `CurrentRuns`, `ContextsAreKept`,
  `RecursionIsBounded`;
* `Implementation`: `Spec => ImplementsRoundRobin`.

**Assumptions.**  `CpusAssumption` (processor 0 exists and the boot processor is one of
them), `ThreadsAssumption` (null, the boot context and the kernel thread are distinct
from user threads and each other), `BoundAssumption`.

**Argument.**  `BootInv` says that `order` begins with the kernel thread from its
`AddThread` on and that all other processors' queues stay empty; `AddInv` what an
`AddThread` between two stores has still to do.  Together they keep the list whole and
show that `num_threads` is never 0 on processor 0, so that a tick returns
without a thread only on a processor that never had one.  `HandlerInv`
follows the walk: `current` is `depth - 1` places ahead of the interrupted
thread and every thread passed is dead.  The kernel thread never exits and is met
within one turn (`AheadCovers`), which bounds the recursion; the thread found is
therefore the nearest one alive, which is `RoundRobin`'s `Successor`.

`FileSystemProofs` proves, for any images, paths, counts, offsets and sizes of the hash tables:

* `InductiveInvariant`: `Spec => []IInv`;
* `DescriptorsAreFresh`, `TablesAreWhole`, `ReadsAreInside`;
* `FilesReadBack`: `Spec => []FilesReadBackIffFirst`;
* `Implementation`: `Spec => ImplementsFileAccess`.

**Assumptions.**  `SizesAssumption` (positive sizes; the bounds include 0), `CallsAssumption` (paths are
not empty, counts are natural numbers), `InputsAssumption` (an image has at least one file),
`NumbersAssumption` (sizes have 32 bits of `Word`'s 64, and a count does not make a position at or
above zero wrap; one below zero may).

**Argument.**  `PutIs` and `RemoveIs` say what the two operations that change a chain do to the
table as a whole: one key gets or loses its value, every other keeps what it had,
and the table stays whole.  They rest on `ChainChange`, which shows it for any change of a chain that
touches one key's entry.  With them `IInv` is inductive: as long as callers close the newest
descriptor first, `cur_fd` is not negative and the keys are those below it, so `open`
adds the next and `close` removes the last; descriptors name files of the list, which
exists once an image is mounted.  The refinement maps the table to the function it stands for.
The place of a key in its chain is the least element of a set, so no induction over chains is needed.
`ReadInv` bounds the positions and says what the last read got; `UnsignedCheck` is the arithmetic of
the check in `read`: the sum wraps only for a position below zero whose read reaches back over zero.
For `DescriptorsFresh`, the counter that the first `close` out of order leaves is the
newest one's descriptor, which is still in use, or -1 when none is open.  For `FilesReadBack`, every file of
the list has the one offset the tool writes, and `ReadInv` says that what a read got lies there, at the
position it began at; an image is a sequence of parts put one behind the other, and an empty
part is the next one's place too (`PlacedFirst`, `PlacedNext`), so what stands there are the bytes of the first
file that has any.

`UserModeProofs` proves, for any set of user threads and any programs and messages:

* `InductiveInvariant`: `Spec => []IInv`;
* `ResumableUntilTheFirstCall`: `Spec => []ResumableUntilCalled`;
* `LettersStayInPlace`: `Spec => []LettersInPlace`;
* `OutputStaysWhole`: `Spec => []OutputWhole`.

**Assumptions.**  `ProgramsAssumption` (scripts and programs are finite sequences), `NamesAssumption`
(threads, handler and boot are distinct), `FaultsAssumption` (exception 13 is raised by `iretq`
only), `MessagesAssumption` (the handler's messages), `FormatsAssumption` (what is printed is a
finite sequence of characters and numbers, and a number's digits fit the buffer they are written
to), `ScreenAssumption` (letters are more than one pixel wide, newline and tab differ).

**Argument.**  A tick needs the interrupt flag, which `syscall` clears and `sysret` sets, so
that whoever is inside a system call is who runs (`KernelStackExclusive`).  Hence what a tick saves are
a thread's selectors outside the kernel, and these are `Selectors(t)`: the ones its constructor
sets, or, once a call of it has returned, those `sysret` leaves.  The former `iretq`
accepts, the latter it refuses; all three are computed from the descriptors.
`LettersInv` follows the cursor while everything drawn fits: where it stands is `ColumnAfter` and
the row of what the log holds, and every character moves both alike; once one is drawn off the screen
nothing more is claimed.  `OutputInv` says that the log, followed by what the holder of `screen_lock`
has still to put, is what was said, written out.  Digits are compared with `Numeral` through powers of the base: after
each division what is left is the number without its last digits.

`KernelEntryProofs` proves, for any machines, inputs and size of `gsis[]`:

* `InductiveInvariant`: `Spec => []IInv`;
* `InterruptsAreAnswered`: `Spec => []InterruptsFindTheWay`;
* `BootsStopAtTheirEnd`: `Spec => []StopsAtItsEnd`, the safe half of `BootEnds`.

**Assumptions.**  `MachinesAssumption` (the boot processor is one of the processors; ISA interrupts
are below 16; frames beyond the window turn up only once the kernel's own tables are in use),
`BoundsAssumption`.

**Argument.**  `FlagsInv`, `DevicesInv`, `CpusInv` and `TablesInv` tie what the steps have set up to
the step that is next; where the flag is set and the timer is going, everything a tick needs is
there, but for the thread: `queued` is then `{curCpuCore}`, and the tick looks into the boot
processor's.  `MadtInv` follows `ParseAPIC`: it has come to its record over none of length 0, and
`gsis[]` holds as many entries as there are overrides before it, unless it stays at an override of length
0.  With it `StopsAtItsEnd` is inductive: each step but the last is one its machine gets past, and
`gsis[]` overruns only on a MADT that is `Crowded`.  That the boot does come to its end is liveness and
is left to TLC.

`LibAllocProofs` proves, for any requests and pages and any sizes of pages, tags, bins and cache:

* `InductiveInvariant`: `Spec => []IInv`;
* `PiecesTile`, `BinsStayWhole`, `FreePiecesComeTogether`, `WholeBlocksCounted`;
* `AllocatorObeyed`: `Spec => KeepsToPageAllocator`;
* `Implementation`: `Spec => ImplementsHeap`.

**Assumptions.**  `SizesAssumption` (positive sizes, at least one bin), `RequestsAssumption`
(nobody asks for 0 bytes), `PagesAssumption` (page 0 is not the heap's).

**Argument.**  `Tiled` and `BinsWhole` need each other and four more parts.  `BlocksInv`: blocks are
extents of pages that do not meet.  `Unlinked`: a piece outside the lists has no links, so that
`insert_tag` starts from none.  `CallInv`: where `malloc` is in its list, and that the piece `free`
has taken back is nobody's.  `Apart`: no two free pieces are neighbours even while `free` is at work,
since the piece at hand is in no list; `Coalesced` follows from it.  Lists are
followed without induction: `BinsWhole` says that no set of free pieces is closed under `prev`, which
taking a piece out, putting one in front and changing a neighbour's size all keep.  Splitting and
melting replace one piece by two or two by one between the same ends.  For the refinement, what a
caller has lies inside one piece (`PieceInPages`), pieces do not meet, and `malloc` returns a piece
that was free.

`VirtualMemoryProofs` proves, for any machines, programs, contents of new frames and numbers of
entries at the four levels:

* `InductiveInvariant`: `Spec => []Inv`;
* `TablesStayTrees` (`Spec => []IInv`), `UserPagesStayPrivate`;
* `Implementation`: `Spec => ImplementsAddressSpaces`;
* `LayoutInvariant`: `Spec => []LayoutInv`;
* `WindowsHold`, `KernelStacksAreBacked`;
* `ProgramsLoadWhole`: `SegmentsApart => (Spec => []LoadedIffPageSized)`.

**Assumptions.**  `NamesAssumption` (null, the boot loader's tables, spaces and frames are
distinct), `SizesAssumption` (pages have numbers below the product of the four table sizes),
`MachinesAssumption` and `ProgramsAssumption` (types), `ContentsAssumption` (new frames hold entries
of any kind), `LayoutAssumption`: window and kernel stack with the page beyond it lie apart, no
program has a segment that begins in either, and the screen is no usable memory.  The layout of the
kernel (`task.cpp:49-62`), the linker script of user programs and the boot loader's map justify it,
but the loader checks none of it: a segment at an address of the window would be mapped there.
`SegmentsApart`, the hypothesis of `ProgramsLoadWhole`, says that the segments of a program begin on
pages of their own, none of them a page that every thread maps (window, kernel, stack).  So
`src/lib/umode_link.ld` lays programs out: sections are aligned to 4096 bytes, far from the
addresses of stack and kernel stack.  It is a hypothesis of one theorem and no assumption of the
module because everything else holds without it; TLC evaluates it for the run's programs
(`ProgramsApart` in `MCVirtualMemory`).

**Argument.**  A page's indexes are the digits of its number (`Quotient` and the lemmas after it),
so two pages that have all four in common are one.  `TablesAreTrees` says that an entry of a table
names a table one level lower of the same space, and that no two entries name one; then pages whose
indexes agree, and no others, share a table (the lemmas on paths), a new empty table changes no
translation, and the entry `StoreEntry` writes is found for one page of one space.  `SpacesInv` says
which spaces have tables, `TodoInv` and `UserIn` that what is to be mapped and what is mapped for
the user was made for that space.  For the refinement, each step is of one kind: it changes no
tables, hands out frames that are none, makes a root, makes a table, or maps a page.  `LayoutInv`
adds how far the loops have come: what is before the current place is mapped as its region says,
later regions and segments lie elsewhere, and finished spaces are not touched again.  For the part
of `WindowHolds` about faults, tables are made in usable frames, which the screen's place is not, so
that the window's page for them is never the aliased one.

`LoadedIffPageSized` needs to know what frames hold when the loader is done, so `LoadInv` adds how
far it has come.  `ProgramInv` says which program a thread is made from and that the
segments still to come are the end of it; `ExpectedInv` that the pages a thread has mapped
are the common ones and the first pages of the segments before the current one; `CopiedInv` and
`FirstInv` that each of those first pages leads to a frame of its own, which holds what was
copied and is none of the frames being written.  A segment that fits in a page is then in place,
and of a longer one the second page is mapped by nothing (`PageCount` is the arithmetic of the
rounding).  Without the hypothesis it fails: a segment longer than a page overruns its frame; when
the next one has no bytes in the file, follows it by one page and happens to be given the frame
behind, which is not cleared, the overrun's bytes appear where they belong.  And of two segments
on one page the later hides the earlier.

`NaturalLemmas` is what several of these proofs need and the library states with an operator as
parameter, which no prover here can instantiate.  `NatInduct` is induction for a set of numbers
instead: a set that has 0 and with every number the next is all of them.  From it come `Recursion`
(a recursive function on the naturals exists and follows its equation), the lemmas on joining a sequence
of sequences (`FlattenSeq` chooses such a function: `JoinExists` and `JoinUnique` say that there is
one and only one, `Begins` what its value begins with), and those on quotients.

**What is left to TLC.**  The liveness properties: `AllocEnds`, `TicksGoOn`, `RunnableRuns`,
`CallsEnd` of both modules and `BootEnds`, which TLAPS cannot prove under fairness.  Every
invariant, action property and refinement that a run checks is a theorem too; only the five that
state what the code does not do (the findings) are refuted instead.

## 5. What is not modelled

* PATA, NVMe and Intel graphics drivers, CPU features: nothing calls them.
* Font, the Limine headers: data and a vendored protocol.
* Other processors: they stay parked, so `start_ap`, `gdt_lock` and `cpu_lock` have no one to meet.
* `calloc` and `realloc`: nothing calls them, and they are sequences of `malloc`, `free` and copying;
  sizes near 2^31 in the heap.
* Pixels of letters, colours; the contents of `%s`, which are characters of a message here.
* How many LAPIC ticks pass in 10 ms, and the waiting in `msleep`.
* Registers other than the selectors and the flag in `UserMode`: a context's other registers are the work it
  has recorded in `Scheduler`.

## 6. Plan

Open, should the code change: `calloc` and `realloc` as soon as something calls them, and the other
processors once `goto_address` is no longer commented out, which would bring `start_ap`, `gdt_lock`,
`cpu_lock` and a second `Schedule` into play.
