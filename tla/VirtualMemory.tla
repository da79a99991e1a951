--------------------------- MODULE VirtualMemory ---------------------------
(***************************************************************************)
(* Address spaces: MapPage and Initialize of src/src/mm/vmm.cpp, the       *)
(* kernel stacks of Scheduler::Initialize, the constructor of Thread       *)
(* (src/src/sched/task.cpp) and the segments LoadAndExecuteElf             *)
(* (src/src/fs/util.cpp) maps and fills.                                   *)
(*                                                                         *)
(* Everything is counted in pages.  Frames hold page tables in `mem`; the  *)
(* other contents of memory are left out, but for the images of programs.  *)
(* Tables are reached through the window at the higher-half offset, which  *)
(* the tables themselves map: every access is checked against the tables   *)
(* the processor uses.                                                     *)
(***************************************************************************)
EXTENDS Integers, Sequences, FiniteSets, Functions

CONSTANTS
  Span,        \* entries of a table of level 1, 2, 3 and 4 (512 each)
  Indexes,     \* indexes of entries
  Frames,      \* physical pages
  Virt,        \* the virtual pages anyone maps
  Machines,    \* what the boot loader may report: usable frames, pages of the
               \* window (4 GiB), the kernel's place and pages, the first
               \* framebuffer entry, the screen's frame, the processor_ids
               \* in order and the LAPIC id of the boot processor
  Contents,    \* what frames may hold before anyone writes to them
  Programs,    \* what "/test.elf" may hold: sequences of segments
  Unloadable,  \* it is missing, or no ELF file
  Users,       \* the threads LoadAndExecuteElf may make
  BspThread,   \* the thread of BspKernelThread
  Kernel,      \* stands for kernelDir among the address spaces
  None,        \* nullptr, or no entry
  Limine,      \* the boot loader's tables
  KernelVirt, HhdmVirt, StackVirt, KStackVirt,  \* where regions begin
  StackPages,  \* DEFAULT_THREAD_STACK_SIZE in pages
  KStackPages, \* 16 * 1024 bytes in pages
  PageBytes,   \* 4096
  MaxSkip      \* bound: free places the page allocator passes over

Threads == Users \cup {BspThread}
Spaces == Threads \cup {Kernel}

ASSUME NamesAssumption ==
  /\ None \notin Spaces /\ None \notin Frames /\ None \notin Programs
  /\ Limine \notin Frames /\ Limine # None
  /\ Kernel \notin Threads /\ BspThread \notin Users
ASSUME SizesAssumption ==
  /\ Span \in [1 .. 4 -> Nat \ {0}] /\ Frames \subseteq Nat
  /\ \A l \in 1 .. 4 : 0 .. (Span[l] - 1) \subseteq Indexes
  /\ Virt \subseteq 0 .. (Span[1] * Span[2] * Span[3] * Span[4] - 1)
  /\ {KernelVirt, HhdmVirt, StackVirt, KStackVirt, StackPages, KStackPages} \subseteq Nat
  /\ PageBytes \in Nat \ {0}
ASSUME MachinesAssumption ==
  Machines \subseteq
    [usable : SUBSET Nat, window : Nat, kernel : Nat, kernelPages : Nat,
     framebuffer : {<<>>} \cup (Nat \X Nat), screen : Nat,
     cpus : Seq(0 .. 255), bsp : 0 .. 255]
Segment == [load : BOOLEAN, virt : Nat, offset : Nat, filesz : Nat, memsz : Nat]
ASSUME ProgramsAssumption == Programs \subseteq Seq(Segment)

\* Where regions lie: the window and the kernel stack, with the page beyond it, do not
\* meet, no segment is made for their pages, and the screen, at as many pages
\* as the first framebuffer has, is no usable memory.
KStackRange == KStackVirt .. (KStackVirt + KStackPages)
WindowRange(m) == HhdmVirt .. (HhdmVirt + m.window - 1)
ScreenFrames(m) ==
  IF m.framebuffer = <<>> THEN {} ELSE m.screen .. (m.screen + m.framebuffer[2] - 1)
ASSUME LayoutAssumption ==
  /\ KStackRange \subseteq Virt
  /\ \A m \in Machines :
       /\ WindowRange(m) \subseteq Virt \ KStackRange
       /\ {HhdmVirt + f : f \in ScreenFrames(m)} \subseteq Virt
       /\ ScreenFrames(m) \cap m.usable = {}
       /\ \A p \in Programs : \A i \in DOMAIN p :
            p[i].load /\ p[i].memsz # 0 =>
              p[i].virt \in Virt \ (KStackRange \cup WindowRange(m))

\* PageFlags, and an entry of a table.
Rw == {"present", "readwrite"}
RwUser == Rw \cup {"user"}
Entry == [frame : Nat, flags : {Rw, RwUser}]

ASSUME ContentsAssumption ==
  None \notin Entry /\ Contents \subseteq [Frames -> [Indexes -> Entry \cup {None}]]

\* What frames are handed out for, to which address space, at which level.
Owner == [use : {"free", "hole", "heap", "table", "stack", "kstack", "segment"},
          space : Spaces \cup {None}, level : 0 .. 4]

VARIABLES
  machine,      \* what the boot loader reports
  mem,          \* frame -> index -> entry, as frames hold page tables
  owner,        \* frame -> what it was handed out for
  rootTable,    \* space -> its top table: kernelDir, Thread::rootTable
  currentDir,   \* the tables in CR3
  kstack_phys,  \* cpus[id].kstack_phys
  pc,           \* where the kernel is
  cpu,          \* Scheduler::Initialize's local `i`
  space,        \* the address space being built
  stackAddr,    \* the constructor's local; segment of LoadAndExecuteElf
  todo, at,     \* the mapping loops still to run, and the place in the first
  level, table, \* MapPage's place in the tables
  segments,     \* the segments still to load
  added,        \* threads the scheduler may switch to
  program,      \* ghost: thread -> what it was made from
  image,        \* ghost: frame -> <<thread, segment, page>> copied to it
  touched       \* ghost: the frame of a page fault

machineVars == <<machine, currentDir, kstack_phys, cpu>>
memVars == <<mem, owner, rootTable>>
loadVars == <<space, stackAddr, segments, added>>
walkVars == <<todo, at, level, table>>
ghosts == <<program, image, touched>>
vars == <<machineVars, memVars, pc, loadVars, walkVars, ghosts>>

-----------------------------------------------------------------------------
(* Tables *)

\* vaddr >> 12, 21, 30, 39
Shift(l) == CASE l = 1 -> 1
              [] l = 2 -> Span[1]
              [] l = 3 -> Span[1] * Span[2]
              [] l = 4 -> Span[1] * Span[2] * Span[3]

\* Wrong on purpose: the shift of the level below.
IndexLow(v, l) == (v \div (IF l = 3 THEN Shift(2) ELSE Shift(l))) % Span[l]

\* tableindex, dirindex, dirptrindex and pml4index
Index(v, l) == (v \div Shift(l)) % Span[l]

\* The entries for v in the tables T, of one level; and the tables they name.
EntriesFor(T, v, l) == {mem[f][Index(v, l)] : f \in T} \ {None}
Below(T, v, l) == {e.frame : e \in EntriesFor(T, v, l)}

\* What the processor finds for v below the top table r: one entry, or none.
Translation(r, v) ==
  EntriesFor(Below(Below(Below({r}, v, 4), v, 3), v, 2), v, 1)

\* Can the kernel write to frame f at its place in the window?  The boot loader
\* maps all of memory there, and the low 4 GiB one to one, where
\* Initialize clears kernelDir.
Reaches(f) ==
  CASE pc = "boot" -> f < machine.window
    [] currentDir = Limine -> TRUE
    [] OTHER -> {e.frame : e \in Translation(currentDir, HhdmVirt + f)} = {f}

-----------------------------------------------------------------------------
(* Frames from the page allocator, anywhere it may find them *)

Run(f, n) == f .. (f + n - 1)
Fits(n) == {f \in Frames : \A g \in Run(f, n) : g \in Frames /\ owner[g].use = "free"}
Places(n) == {f \in Fits(n) : Cardinality({g \in Fits(n) : g < f}) <= MaxSkip}

\* PhysicalMemory::alloc(n) at f.
Given(f, n, use, s, l) ==
  [g \in Frames |-> IF g \in Run(f, n) THEN [use |-> use, space |-> s, level |-> l]
                    ELSE owner[g]]

Zeroes == [x \in Indexes |-> None]

\* Wrong on purpose: a new table keeps what its frame held.
ClearedNot(f) == mem

\* memset of a new table.
Cleared(f) == [mem EXCEPT ![f] = Zeroes]

-----------------------------------------------------------------------------
(* The regions everyone maps *)

Region(v, f, n, fl) == [virt |-> v, phys |-> f, pages |-> n, flags |-> fl]

KernelRegion == Region(KernelVirt, machine.kernel, machine.kernelPages, Rw)
WindowRegion == Region(HhdmVirt, 0, machine.window, Rw)

\* The first framebuffer entry of the memory map, at the address of the screen,
\* which is the window's place for it; nothing when there is no such entry.
FramebufferRegion ==
  IF machine.framebuffer = <<>> THEN Region(HhdmVirt, 0, 0, Rw)
  ELSE Region(HhdmVirt + machine.screen, machine.framebuffer[1],
              machine.framebuffer[2], Rw)

\* The place of the screen, when the first framebuffer entry is another.
Aliased(f) ==
  /\ f \in ScreenFrames(machine)
  /\ machine.framebuffer[1] # machine.screen

StackRegion == Region(StackVirt, stackAddr, StackPages, RwUser)

\* Wrong on purpose: user code may use the kernel stack.
KStackRegionUser == Region(KStackVirt, kstack_phys[machine.bsp], KStackPages + 1, RwUser)

\* One page more than Scheduler::Initialize allocates.
KStackRegion == Region(KStackVirt, kstack_phys[machine.bsp], KStackPages + 1, Rw)

\* Wrong on purpose: no window in a thread's tables.
ThreadRegionsNoWindow == <<KernelRegion, FramebufferRegion, StackRegion, KStackRegion>>

KernelRegions == <<KernelRegion, WindowRegion>>
ThreadRegions ==
  <<KernelRegion, FramebufferRegion, StackRegion, WindowRegion, KStackRegion>>

Init ==
  /\ machine \in Machines
  /\ mem \in Contents
  /\ owner = [f \in Frames |->
                [use |-> IF f \in machine.usable THEN "free" ELSE "hole",
                 space |-> None, level |-> 0]]
  /\ rootTable = [s \in Spaces |-> None]
  /\ currentDir = Limine
  /\ kstack_phys = [c \in 0 .. 255 |-> 0]
  /\ pc = "boot" /\ cpu = 0
  /\ space = Kernel /\ stackAddr = 0
  /\ todo = <<>> /\ at = 0 /\ level = 4 /\ table = None
  /\ segments = <<>> /\ added = {}
  /\ program = [t \in Threads |-> None]
  /\ image = [f \in Frames |-> None]
  /\ touched = None

-----------------------------------------------------------------------------
(* MapPage, once for each page of each region in `todo` *)

\* Mapping goes on in the thread that began it, whatever ran in between.
AtHome == BspThread \in added => currentDir = rootTable[BspThread]

Mapping == {"dir", "framebuffer", "thread", "segment"}
Walking == AtHome /\ pc \in Mapping /\ todo # <<>> /\ at < Head(todo).pages
vaddr == Head(todo).virt + at
Here == mem[table][Index(vaddr, level)]

\* An entry is empty: a new table, which everyone may write to.
MakeTable ==
  /\ Walking /\ Reaches(table)
  /\ level > 1 /\ Here = None
  /\ \E f \in Places(1) :
       /\ Reaches(f)
       /\ owner' = Given(f, 1, "table", space, level - 1)
       /\ mem' = [Cleared(f) EXCEPT ![table][Index(vaddr, level)] =
                     [frame |-> f, flags |-> RwUser]]
  /\ UNCHANGED <<machineVars, rootTable, pc, loadVars, walkVars, ghosts>>

\* The next table, with the flag bits of the entry masked.
Descend ==
  /\ Walking /\ Reaches(table)
  /\ level > 1 /\ Here # None
  /\ table' = Here.frame
  /\ level' = level - 1
  /\ UNCHANGED <<machineVars, memVars, pc, loadVars, todo, at, ghosts>>

\* The page's entry, whatever it was; and the next turn of the loop.
StoreEntry ==
  /\ Walking /\ Reaches(table)
  /\ level = 1
  /\ mem' = [mem EXCEPT ![table][Index(vaddr, 1)] =
                [frame |-> Head(todo).phys + at, flags |-> Head(todo).flags]]
  /\ at' = at + 1
  /\ level' = 4 /\ table' = rootTable[space]
  /\ UNCHANGED <<machineVars, owner, rootTable, pc, loadVars, todo, ghosts>>

\* The end of one loop.
RegionDone ==
  /\ AtHome /\ pc \in Mapping /\ todo # <<>> /\ at = Head(todo).pages
  /\ todo' = Tail(todo)
  /\ at' = 0
  /\ UNCHANGED <<machineVars, memVars, pc, loadVars, level, table, ghosts>>

\* A new address space, and what is to be mapped in it.
NewTables(f, regions) ==
  /\ owner' = Given(f, 1, "table", space, 4)
  /\ mem' = Cleared(f)
  /\ rootTable' = [rootTable EXCEPT ![space] = f]
  /\ todo' = regions /\ at' = 0 /\ level' = 4 /\ table' = f

-----------------------------------------------------------------------------
(* VirtualMemory::Initialize and Scheduler::Initialize *)

MakeKernelDir ==
  /\ pc = "boot"
  /\ \E f \in Places(1) : Reaches(f) /\ NewTables(f, KernelRegions)
  /\ pc' = "dir"
  /\ UNCHANGED <<machineVars, loadVars, ghosts>>

\* The framebuffer's loop, or a halt when there is none.
MapFramebuffer ==
  /\ pc = "dir" /\ todo = <<>>
  /\ FramebufferRegion.phys # 0
  /\ todo' = <<FramebufferRegion>>
  /\ pc' = "framebuffer"
  /\ UNCHANGED <<machineVars, memVars, loadVars, at, level, table, ghosts>>

NoFramebuffer ==
  /\ pc = "dir" /\ todo = <<>>
  /\ FramebufferRegion.phys = 0
  /\ pc' = "halted"
  /\ UNCHANGED <<machineVars, memVars, loadVars, walkVars, ghosts>>

SwapToPageTable ==
  /\ pc = "framebuffer" /\ todo = <<>>
  /\ currentDir' = rootTable[Kernel]
  /\ pc' = "cpus"
  /\ UNCHANGED <<machine, kstack_phys, cpu, memVars, loadVars, walkVars, ghosts>>

\* Wrong on purpose: one page for each kernel stack.
KStackExtentShort == 1

KStackExtent == KStackPages

\* A kernel stack for each processor, indexed by processor_id.
MakeKernelStack ==
  /\ pc = "cpus" /\ cpu < Len(machine.cpus)
  /\ \E f \in Places(KStackExtent) :
       /\ owner' = Given(f, KStackExtent, "kstack", None, 0)
       /\ kstack_phys' = [kstack_phys EXCEPT ![machine.cpus[cpu + 1]] = f]
  /\ cpu' = cpu + 1
  /\ UNCHANGED <<machine, currentDir, mem, rootTable, pc, loadVars, walkVars, ghosts>>

-----------------------------------------------------------------------------
(* The constructor of Thread *)

\* `new Thread`, for which the heap may take pages.
NewThread(t, p) ==
  /\ \E taken \in {{}} \cup {{f} : f \in Places(1)} :
       owner' = [f \in Frames |->
                  IF f \in taken THEN [use |-> "heap", space |-> None, level |-> 0]
                  ELSE owner[f]]
  /\ pc' = "stack"
  /\ space' = t
  /\ segments' = p
  /\ program' = [program EXCEPT ![t] = p]
  /\ UNCHANGED <<machineVars, mem, rootTable, stackAddr, added, walkVars, image, touched>>

\* kernel_entry's AddThread(BspKernelThread).
NewBspThread == pc = "cpus" /\ cpu = Len(machine.cpus) /\ NewThread(BspThread, <<>>)

\* alloc(ALIGN_UP(DEFAULT_THREAD_STACK_SIZE, 4096)): bytes for pages.
StackExtent == StackPages * PageBytes

MakeStack ==
  /\ pc = "stack" /\ AtHome
  /\ \E f \in Places(StackExtent) :
       /\ \A g \in Run(f, StackPages) : Reaches(g)
       /\ owner' = Given(f, StackExtent, "stack", space, 0)
       /\ stackAddr' = f
  /\ pc' = "root"
  /\ UNCHANGED <<machineVars, mem, rootTable, space, segments, added, walkVars, ghosts>>

MakeRoot ==
  /\ pc = "root" /\ AtHome
  /\ \E f \in Places(1) : Reaches(f) /\ NewTables(f, ThreadRegions)
  /\ pc' = "thread"
  /\ UNCHANGED <<machineVars, loadVars, ghosts>>

\* The constructor's end.
ThreadMade ==
  /\ pc = "thread" /\ todo = <<>> /\ AtHome
  /\ pc' = "load"
  /\ UNCHANGED <<machineVars, memVars, loadVars, walkVars, ghosts>>

-----------------------------------------------------------------------------
(* LoadAndExecuteElf *)

\* No such file, or not an ELF file: -1.
LoadFails(t) ==
  /\ pc = "idle" /\ AtHome
  /\ program[t] = None
  /\ program' = [program EXCEPT ![t] = Unloadable]
  /\ UNCHANGED <<machineVars, memVars, pc, loadVars, walkVars, image, touched>>

LoadAndExecuteElf(t, p) ==
  /\ pc = "idle" /\ AtHome
  /\ program[t] = None
  /\ NewThread(t, p)

Loaded == Len(program[space]) - Len(segments)

\* `p_type != 1 || !p_memsz`
SkipSegment ==
  /\ pc = "load" /\ AtHome /\ segments # <<>>
  /\ ~Head(segments).load \/ Head(segments).memsz = 0
  /\ segments' = Tail(segments)
  /\ UNCHANGED <<machineVars, memVars, pc, space, stackAddr, added, walkVars, ghosts>>

\* The pages of a segment, rounded down, but one at least.
SegmentExtent(s) == IF s.memsz \div PageBytes < 1 THEN 1 ELSE s.memsz \div PageBytes

\* Memory for the segment; its first page is to be mapped.
MakeSegment ==
  /\ pc = "load" /\ AtHome /\ segments # <<>>
  /\ Head(segments).load /\ Head(segments).memsz # 0
  /\ LET s == Head(segments)
     IN  \E f \in Places(SegmentExtent(s)) :
           /\ owner' = Given(f, SegmentExtent(s), "segment", space, 0)
           /\ stackAddr' = f
           /\ todo' = <<Region(s.virt, f, 1, RwUser)>>
  /\ at' = 0 /\ level' = 4 /\ table' = rootTable[space]
  /\ pc' = "segment"
  /\ UNCHANGED <<machineVars, mem, rootTable, space, segments, added, ghosts>>

\* Wrong on purpose: whole pages only.
WrittenWhole(s) == Run(stackAddr, s.filesz \div PageBytes)

\* The frames memcpy writes: filesz bytes from the segment's first.
Written(s) == Run(stackAddr, (s.filesz + PageBytes - 1) \div PageBytes)
Overrun(s) == Written(s) \ Run(stackAddr, SegmentExtent(s))

\* memcpy of the segment.  Past its pages it may write to free memory.
CopySegment ==
  /\ pc = "segment" /\ todo = <<>> /\ AtHome
  /\ LET s == Head(segments)
     IN  /\ \A g \in Written(s) : g \in Frames /\ Reaches(g)
         /\ \A g \in Overrun(s) : owner[g].use = "free"
         /\ image' = [g \in Frames |->
                        IF g \in Written(s) THEN <<space, Loaded + 1, g - stackAddr>>
                        ELSE image[g]]
  /\ segments' = Tail(segments)
  /\ pc' = "load"
  /\ UNCHANGED <<machineVars, memVars, space, stackAddr, added, walkVars, program, touched>>

\* It writes to memory of someone else; the model stops here.
CopyOverruns ==
  /\ pc = "segment" /\ todo = <<>> /\ AtHome
  /\ \E g \in Overrun(Head(segments)) : g \in Frames /\ owner[g].use # "free"
  /\ pc' = "overrun"
  /\ UNCHANGED <<machineVars, memVars, loadVars, walkVars, ghosts>>

\* Scheduler::AddThread.
AddThread ==
  /\ pc = "load" /\ AtHome /\ segments = <<>>
  /\ added' = added \cup {space}
  /\ pc' = "idle"
  /\ UNCHANGED <<machineVars, memVars, space, stackAddr, segments, walkVars, ghosts>>

-----------------------------------------------------------------------------
(* What may happen at any time *)

Stopped == {"halted", "fault", "overrun"}

\* Schedule: SetCurrentPML4, and CR3.
SwitchTo(t) ==
  /\ pc \notin Stopped
  /\ BspThread \in added /\ t \in added
  /\ currentDir' = rootTable[t]
  /\ UNCHANGED <<machine, kstack_phys, cpu, memVars, pc, loadVars, walkVars, ghosts>>

\* How many pages the next step asks for, and which frames it touches.
Asked ==
  CASE pc \in {"boot", "root"} \/ (Walking /\ level > 1 /\ Here = None) -> 1
    [] pc = "cpus" /\ cpu < Len(machine.cpus) -> KStackExtent
    [] pc = "stack" -> StackExtent
    [] pc = "load" /\ segments # <<>> /\ Head(segments).load /\ Head(segments).memsz # 0
           -> SegmentExtent(Head(segments))
    [] OTHER -> 0

Accesses ==
  CASE pc = "stack" -> UNION {Run(f, StackPages) : f \in Places(StackExtent)}
    [] pc \in {"boot", "root"} -> Places(1)
    [] Walking -> {table} \cup (IF Asked = 1 THEN Places(1) ELSE {})
    [] pc = "segment" /\ todo = <<>> -> Written(Head(segments)) \cap Frames
    [] OTHER -> {}

\* PhysicalMemory::alloc halts, which it may do while pages are free.
OutOfMemory ==
  /\ AtHome /\ Asked > 0
  /\ pc' = "halted"
  /\ UNCHANGED <<machineVars, memVars, loadVars, walkVars, ghosts>>

\* A frame is not in the window: exception 14.
PageFault ==
  /\ AtHome
  /\ \E f \in Accesses : ~Reaches(f) /\ touched' = f
  /\ pc' = "fault"
  /\ UNCHANGED <<machineVars, memVars, loadVars, walkVars, program, image>>

Next ==
  \/ MakeTable
  \/ Descend
  \/ StoreEntry
  \/ RegionDone
  \/ MakeKernelDir
  \/ MapFramebuffer
  \/ NoFramebuffer
  \/ SwapToPageTable
  \/ MakeKernelStack
  \/ NewBspThread
  \/ MakeStack
  \/ MakeRoot
  \/ ThreadMade
  \/ \E t \in Users : LoadFails(t)
  \/ \E t \in Users, p \in Programs : LoadAndExecuteElf(t, p)
  \/ SkipSegment
  \/ MakeSegment
  \/ CopySegment
  \/ CopyOverruns
  \/ AddThread
  \/ \E t \in added : SwitchTo(t)
  \/ OutOfMemory
  \/ PageFault

Spec == Init /\ [][Next]_vars

-----------------------------------------------------------------------------
(* Properties *)

TypeOK ==
  /\ machine \in Machines
  /\ mem \in [Frames -> [Indexes -> Entry \cup {None}]]
  /\ owner \in [Frames -> Owner]
  /\ rootTable \in [Spaces -> Frames \cup {None}]
  /\ currentDir \in Frames \cup {Limine}
  /\ pc \in {"boot", "cpus", "stack", "root", "load", "idle"} \cup Mapping \cup Stopped
  /\ cpu \in Nat /\ at \in Nat /\ level \in 1 .. 4 /\ stackAddr \in Nat
  /\ space \in Spaces /\ added \subseteq Threads
  /\ todo \in Seq([virt : Nat, phys : Nat, pages : Nat, flags : {Rw, RwUser}])
  /\ table \in Frames \cup {None}

Table(s, l) == [use |-> "table", space |-> s, level |-> l]
Links == {p \in Frames \X Indexes : /\ owner[p[1]].use = "table" /\ owner[p[1]].level > 1
                                   /\ mem[p[1]][p[2]] # None}
Child(p) == mem[p[1]][p[2]].frame

\* Page tables are trees: an entry above the lowest level names a table one level
\* down that was made for the same address space, no other entry names it, and
\* a space has one top table; each step of MapPage, which makes tables as it goes
\* (vmm.cpp:41-69), stands on the path to its page.
TablesAreTrees ==
  /\ \A s \in Spaces : \A f \in Frames :
       rootTable[s] = f <=> owner[f] = Table(s, 4)
  /\ \A p \in Links : /\ Child(p) \in Frames
                      /\ owner[Child(p)] = Table(owner[p[1]].space, owner[p[1]].level - 1)
  /\ \A p, q \in Links : Child(p) = Child(q) => p = q

\* Where MapPage stands.
WalkInv ==
  pc \in Mapping =>
    /\ rootTable[space] \in Frames
    /\ {table} =
         LET r == rootTable[space]
             w == Head(todo).virt + at
             t3 == Below({r}, w, 4)
             t2 == Below(t3, w, 3)
             t1 == Below(t2, w, 2)
         IN  IF level = 4 THEN {r} ELSE <<t1, t2, t3>>[level]
    /\ level < 4 => todo # <<>> /\ at < Head(todo).pages

IInv == TypeOK /\ TablesAreTrees /\ WalkInv

\* MapPage maps the page it is asked to and changes no other page of any address
\* space, though it makes tables from frames that hold anything and
\* overwrites entries (vmm.cpp:32-74).
Maps == INSTANCE AddressSpaces WITH
  Entries <- Entry,
  map <- [s \in {x \in Spaces : rootTable[x] # None} |->
           [w \in Virt |-> Translation(rootTable[s], w)]]
ImplementsAddressSpaces == Maps!Spec

\* What user code of a thread can reach is the thread's own: a page mapped for
\* the user lies in the stack or a segment made for that thread.  The kernel stack
\* and one page beyond it (task.cpp:61), the window and the kernel are not.
UserPagesPrivate ==
  \A t \in added : \A w \in Virt : \A e \in Translation(rootTable[t], w) :
    "user" \in e.flags => /\ e.frame \in Frames
                         /\ owner[e.frame].space = t
                         /\ owner[e.frame].use \in {"stack", "segment"}

\* The tables of every finished address space map the window through which tables
\* are written, so that a fault means memory above 4 GiB (vmm.cpp:100,
\* task.cpp:58).  kernelDir may map another framebuffer over the
\* window's place for the screen when the memory map lists it first.
WindowHolds ==
  /\ pc = "fault" => touched >= machine.window
  /\ \A s \in added \cup {x \in {Kernel} : rootTable[x] = currentDir} :
       \A f \in 0 .. (machine.window - 1) :
         \E e \in Translation(rootTable[s], HhdmVirt + f) :
           e.frame = f \/ (s = Kernel /\ Aliased(f))

\* System calls of a thread run on pages made for kernel stacks exactly when the
\* boot processor's LAPIC id is also some processor_id, and on the first pages of
\* memory otherwise: Scheduler::Initialize indexes cpus[] by the one
\* (scheduler.cpp:156), GetCurCPU by the other.
KernelStackBacked ==
  \A t \in added : \A k \in 0 .. (KStackPages - 1) :
    \E e \in Translation(rootTable[t], KStackVirt + k) :
      IF machine.bsp \in Range(machine.cpus)
      THEN e.frame \in Frames /\ owner[e.frame].use = "kstack"
      ELSE e.frame = k

\* A program finds the bytes of its file where the file says exactly when each of
\* its segments fits in one page and begins at its start: only one page of
\* a segment is mapped (util.cpp:84-87), and a later segment does not disturb an
\* earlier one's page.
PageSized(s) == s.load /\ s.memsz # 0 => s.offset = 0 /\ s.filesz <= PageBytes
InPlace(t, k) ==
  LET s == program[t][k]
  IN  s.load /\ s.memsz # 0 =>
        \A j \in 0 .. ((s.offset + s.filesz + PageBytes - 1) \div PageBytes - 1) :
          \E e \in Translation(rootTable[t], s.virt + j) :
            /\ e.frame \in Frames
            /\ image[e.frame] = <<t, k, j>>
            /\ s.offset = 0
LoadedIffPageSized ==
  \A t \in added :
    LET p == program[t]
    IN  (\A k \in DOMAIN p : InPlace(t, k)) <=> (\A k \in DOMAIN p : PageSized(p[k]))

\* The pages the tables of every thread map, and those the bytes of a segment
\* belong to.
CommonPages(m) ==
  (KernelVirt .. (KernelVirt + m.kernelPages - 1)) \cup {HhdmVirt + f : f \in ScreenFrames(m)}
    \cup (StackVirt .. (StackVirt + StackPages - 1)) \cup WindowRange(m) \cup KStackRange
Loads(s) == s.load /\ s.memsz # 0
PagesOf(s) ==
  {s.virt} \cup (s.virt .. (s.virt + (s.offset + s.filesz + PageBytes - 1) \div PageBytes - 1))

\* The layout of umode_link.ld, which begins each section on a page of its own
\* (lib/umode_link.ld:10-31): a segment begins on no page of another, and leaves the pages
\* that everyone maps alone.
SegmentsApart ==
  \A m \in Machines :
    /\ CommonPages(m) \subseteq Virt
    /\ \A p \in Programs : \A k \in DOMAIN p : Loads(p[k]) =>
         /\ PagesOf(p[k]) \subseteq Virt \ CommonPages(m)
         /\ \A i \in DOMAIN p : i # k /\ Loads(p[i]) => p[i].virt \notin PagesOf(p[k])
=============================================================================
