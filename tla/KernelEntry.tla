---------------------------- MODULE KernelEntry ----------------------------
(***************************************************************************)
(* kernel_entry (src/src/kernel/kernel.cpp) in its order, with what can    *)
(* interrupt it: the two PICs (cpu/pic.cpp), the IOAPIC and the LAPIC      *)
(* timer (dev/apic.cpp), programmed from the MADT (dev/acpi.cpp) and timed *)
(* with the HPET (drivers/hpet.cpp).  Memory, page tables and threads have *)
(* modules of their own; here each is done in one step, or ends the boot.  *)
(***************************************************************************)
EXTENDS Integers, Sequences, FiniteSets

CONSTANTS
  Machines,   \* what the kernel may be started on, see below
  MaxGSIs,    \* entries of gsis[] (256)
  Inputs,     \* inputs of the IOAPIC
  None

\* A machine: did the boot loader find a screen (screen); is there room for the
\* bitmap (room); what the steps that allocate find (memory); does the memory map
\* have a framebuffer (framebuffer); does the RSDP have its signature (rsdp); the
\* signatures of the RSDT's tables (tables); the MADT's records (madt); the
\* LAPIC ids of the boot processor and of all (bsp, cpus).
Allocating == {"gdt", "virtual", "framebuffer", "scheduler", "thread"}
Record(type, len, irq, gsi) == [type |-> type, len |-> len, irq |-> irq, gsi |-> gsi]

\* ISA interrupts have numbers below 16, as the ACPI specification has it.
IsRecord(r) == r \in [type : Nat, len : Nat, irq : 0 .. 15, gsi : Nat]

ASSUME MachinesAssumption ==
  \A m \in Machines :
    /\ \A b \in {m.screen, m.room, m.framebuffer, m.rsdp} : b \in BOOLEAN
    /\ m.memory \in [Allocating -> {"enough", "short", "far"}]
    /\ \A at \in Allocating : m.memory[at] = "far" => at \in {"scheduler", "thread"}
    /\ \A i \in 1 .. Len(m.madt) : IsRecord(m.madt[i])
    /\ Len(m.madt) \in Nat
    /\ m.bsp \in m.cpus /\ None \notin m.cpus

ASSUME BoundsAssumption == MaxGSIs \in Nat

VARIABLES
  machine,
  pc,          \* the step of kernel_entry that is next
  flag,        \* the interrupt flag
  gdt, idt,    \* does the processor use the kernel's?
  pic,         \* are lines of the PICs masked?
  redirection, \* the IOAPIC: input -> masked, vector
  record,      \* ParseAPIC's place in the MADT
  gsis,        \* gsis[0 .. numGSIs - 1]
  lapic_addr,  \* is it known?
  timer,       \* the LAPIC's timer: off, counting once, periodic
  handlers,    \* vectors with a handler
  gs,          \* whose CPU the MSR holds
  processor_ids, \* processors whose processor_id is their own, not 0
  queued,      \* processors with a thread in their queue
  returned,    \* has a tick found no thread and returned?
  stop         \* why the kernel went no further

vars == <<machine, pc, flag, gdt, idt, pic, redirection, record, gsis, lapic_addr, timer,
          handlers, gs, processor_ids, queued, returned, stop>>
apicVars == <<redirection, timer, handlers>>
tableVars == <<record, gsis, lapic_addr>>
cpuVars == <<gs, processor_ids, queued, returned>>

Running == stop = None
Goes(from, to) == Running /\ pc = from /\ pc' = to
Stops(from, why, by) == Running /\ pc = from /\ pc' = from /\ stop' = [why |-> why, by |-> by]

\* An exception in the kernel itself: without the kernel's GDT its gate
\* leads nowhere, for 0x08 is no 64-bit segment before SetupGdt.
Exception == IF idt /\ gdt THEN "panic" ELSE "triple fault"

-----------------------------------------------------------------------------
(* Before the APICs *)

\* Screen::Initialize, which takes the first framebuffer of a response that may be null.
ScreenInitialize ==
  /\ machine.screen
  /\ Goes("screen", "idt")
  /\ UNCHANGED <<machine, flag, gdt, idt, pic, apicVars, tableVars, cpuVars, stop>>

ScreenFaults ==
  /\ ~machine.screen
  /\ Stops("screen", Exception, "screen")
  /\ UNCHANGED <<machine, flag, gdt, idt, pic, apicVars, tableVars, cpuVars>>

\* IDT::Initialize, which ends in `sti`.
IDTInitialize ==
  /\ Goes("idt", "pic")
  /\ idt' = TRUE /\ flag' = TRUE
  /\ UNCHANGED <<machine, gdt, pic, apicVars, tableVars, cpuVars, stop>>

\* RemapAndDisable: the first commands reset the PICs, which unmasks their lines.
RemapPic ==
  /\ Goes("pic", "mask")
  /\ pic' = "open"
  /\ UNCHANGED <<machine, flag, gdt, idt, apicVars, tableVars, cpuVars, stop>>

\* Its last two mask all lines.
DisablePic ==
  /\ Goes("mask", "memory")
  /\ pic' = "masked"
  /\ UNCHANGED <<machine, flag, gdt, idt, apicVars, tableVars, cpuVars, stop>>

\* PhysicalMemory::Initialize, which faults when the bitmap fits nowhere.
MemoryInitialize ==
  /\ Goes("memory", "gdt")
  /\ machine.room
  /\ UNCHANGED <<machine, flag, gdt, idt, pic, apicVars, tableVars, cpuVars, stop>>

MemoryFaults ==
  /\ ~machine.room
  /\ Stops("memory", Exception, "bitmap")
  /\ UNCHANGED <<machine, flag, gdt, idt, pic, apicVars, tableVars, cpuVars>>

\* The steps that allocate: they halt when no run of pages is long enough, and once the
\* kernel's own tables are in use they fault on pages beyond the window.
Enough(at) == machine.memory[at] = "enough"
Short(at) == IF machine.memory[at] = "short" THEN "halt" ELSE Exception

OutOfMemory ==
  /\ pc \in Allocating /\ ~Enough(pc)
  /\ pc = "framebuffer" => machine.framebuffer
  /\ Stops(pc, Short(pc), "memory")
  /\ UNCHANGED <<machine, flag, gdt, idt, pic, apicVars, tableVars, cpuVars>>

\* SetupGdt(0), which takes a stack for the TSS first.
SetupGdt ==
  /\ Enough("gdt")
  /\ Goes("gdt", "virtual")
  /\ gdt' = TRUE
  /\ UNCHANGED <<machine, flag, idt, pic, apicVars, tableVars, cpuVars, stop>>

\* VirtualMemory::Initialize: the kernel and the window are mapped, then the
\* framebuffer, if the memory map has one, and the tables are loaded.
MapWindow ==
  /\ Enough("virtual")
  /\ Goes("virtual", "framebuffer")
  /\ UNCHANGED <<machine, flag, gdt, idt, pic, apicVars, tableVars, cpuVars, stop>>

NoFramebuffer ==
  /\ ~machine.framebuffer
  /\ Stops("framebuffer", "halt", "framebuffer")
  /\ UNCHANGED <<machine, flag, gdt, idt, pic, apicVars, tableVars, cpuVars>>

MapFramebuffer ==
  /\ machine.framebuffer /\ Enough("framebuffer")
  /\ Goes("framebuffer", "acpi")
  /\ UNCHANGED <<machine, flag, gdt, idt, pic, apicVars, tableVars, cpuVars, stop>>

-----------------------------------------------------------------------------
(* ACPI::ParseTables *)

BadRSDP ==
  /\ ~machine.rsdp
  /\ Stops("acpi", "halt", "RSDP")
  /\ UNCHANGED <<machine, flag, gdt, idt, pic, apicVars, tableVars, cpuVars>>

FindTable(sig) == sig \in machine.tables

\* ParseAPIC up to its loop.
FindMadt ==
  /\ machine.rsdp
  /\ IF FindTable("APIC") THEN Goes("acpi", "madt") /\ lapic_addr' = TRUE
     ELSE Goes("acpi", "lapic") /\ lapic_addr' = lapic_addr
  /\ UNCHANGED <<machine, flag, gdt, idt, pic, apicVars, record, gsis, cpuVars, stop>>

\* Wrong on purpose: only records with a case are passed over.
PassedKnown(r) == IF r.len = 0 \/ r.type > 2 THEN record ELSE record + 1

\* `pos += recordLen`, which goes nowhere when the length is 0.
Passed(r) == IF r.len = 0 THEN record ELSE record + 1

\* One turn of ParseAPIC's loop: an interrupt source override is noted.
ParseRecord ==
  /\ Running /\ pc = "madt" /\ record <= Len(machine.madt)
  /\ LET r == machine.madt[record]
     IN  /\ r.type = 2 => Len(gsis) < MaxGSIs
         /\ gsis' = IF r.type = 2 THEN Append(gsis, [irq |-> r.irq, gsi |-> r.gsi]) ELSE gsis
         /\ record' = Passed(r)
  /\ UNCHANGED <<machine, pc, flag, gdt, idt, pic, apicVars, lapic_addr, cpuVars, stop>>

\* It writes past gsis[]; the model stops here.
GSIsOverrun ==
  /\ record <= Len(machine.madt)
  /\ machine.madt[record].type = 2 /\ Len(gsis) = MaxGSIs
  /\ Stops("madt", "overrun", "MADT")
  /\ UNCHANGED <<machine, flag, gdt, idt, pic, apicVars, tableVars, cpuVars>>

MadtDone ==
  /\ record > Len(machine.madt)
  /\ Goes("madt", "lapic")
  /\ UNCHANGED <<machine, flag, gdt, idt, pic, apicVars, tableVars, cpuVars, stop>>

-----------------------------------------------------------------------------
(* LAPIC and IOAPIC *)

\* lapic_addr, which is 0 without a MADT: then the registers are memory.
LapicInitialize ==
  /\ Goes("lapic", "ioapic")
  /\ UNCHANGED <<machine, flag, gdt, idt, pic, apicVars, tableVars, cpuVars, stop>>

\* RedirectGSI of the overrides in their order, the last one for an input counts.
\* The vector is the ISA interrupt's number.
RedirectGSI(g) ==
  LET own == {i \in DOMAIN gsis : gsis[i].gsi = g}
  IN  IF own = {} THEN redirection[g]
      ELSE [masked |-> FALSE, vector |-> gsis[CHOOSE i \in own : \A j \in own : j <= i].irq]

IOAPICInitialize ==
  /\ Goes("ioapic", "gs")
  /\ redirection' = [g \in Inputs |-> RedirectGSI(g)]
  /\ UNCHANGED <<machine, flag, gdt, idt, pic, timer, handlers, tableVars, cpuVars, stop>>

\* kernel_entry's wrmsr.
SetGs ==
  /\ Goes("gs", "scheduler")
  /\ gs' = machine.bsp
  /\ UNCHANGED <<machine, flag, gdt, idt, pic, apicVars, tableVars, processor_ids, queued,
                 returned, stop>>

\* Scheduler::Initialize: empty queues, and a kernel stack for each processor.
SchedulerInitialize ==
  /\ Enough("scheduler")
  /\ Goes("scheduler", "thread")
  /\ queued' = {}
  /\ UNCHANGED <<machine, flag, gdt, idt, pic, apicVars, tableVars, gs, processor_ids,
                 returned, stop>>

\* AddThread, whose constructor reads the CPU of gs.  The thread goes into the queue of
\* cpus[curCpuCore], and nothing changes curCpuCore.
curCpuCore == 0

AddBspThread ==
  /\ gs # None /\ Enough("thread")
  /\ Goes("thread", "hpet")
  /\ queued' = queued \cup {curCpuCore}
  /\ UNCHANGED <<machine, flag, gdt, idt, pic, apicVars, tableVars, gs, processor_ids,
                 returned, stop>>

\* SetupHPET reads the table it has just found missing.
SetupHPET ==
  /\ FindTable("HPET")
  /\ Goes("hpet", "cli")
  /\ UNCHANGED <<machine, flag, gdt, idt, pic, apicVars, tableVars, cpuVars, stop>>

HPETFaults ==
  /\ ~FindTable("HPET")
  /\ Stops("hpet", Exception, "HPET")
  /\ UNCHANGED <<machine, flag, gdt, idt, pic, apicVars, tableVars, cpuVars>>

\* Wrong on purpose: interrupts stay on while the timer is set up.
ClearInterruptsNot ==
  /\ Goes("cli", "count")
  /\ UNCHANGED <<machine, flag, gdt, idt, pic, apicVars, tableVars, cpuVars, stop>>

ClearInterrupts ==
  /\ Goes("cli", "count")
  /\ flag' = FALSE
  /\ UNCHANGED <<machine, gdt, idt, pic, apicVars, tableVars, cpuVars, stop>>

\* InitTimer: the timer counts down, masked, while msleep waits for the HPET; then it is
\* set going, and last its handler is entered.  Without a MADT it writes to
\* memory instead.
CountTicks ==
  /\ Goes("count", "periodic")
  /\ timer' = IF lapic_addr THEN "once" ELSE timer
  /\ UNCHANGED <<machine, flag, gdt, idt, pic, redirection, handlers, tableVars, cpuVars,
                 stop>>

StartTimer ==
  /\ Goes("periodic", "handler")
  /\ timer' = IF lapic_addr THEN "periodic" ELSE timer
  /\ UNCHANGED <<machine, flag, gdt, idt, pic, redirection, handlers, tableVars, cpuVars,
                 stop>>

AddHandler ==
  /\ Goes("handler", "cpus")
  /\ handlers' = handlers \cup {32}
  /\ UNCHANGED <<machine, flag, gdt, idt, pic, redirection, timer, tableVars, cpuVars, stop>>

\* The loop over all processors, and the last `sti`.
NumberCpus ==
  /\ Goes("cpus", "sti")
  /\ processor_ids' = processor_ids \cup machine.cpus
  /\ UNCHANGED <<machine, flag, gdt, idt, pic, apicVars, tableVars, gs, queued, returned, stop>>

EnableInterrupts ==
  /\ Goes("sti", "idle")
  /\ flag' = TRUE
  /\ UNCHANGED <<machine, gdt, idt, pic, apicVars, tableVars, cpuVars, stop>>

-----------------------------------------------------------------------------
(* Interrupts *)

\* cpus[gs].processor_id, which is 0 until it is set.
processor_id == IF gs \in processor_ids THEN gs ELSE 0

\* What becomes of vector 32: its gate, interrupt_handler, HandleTick, and
\* Schedule, which reads the processor's CPU and takes a thread from the queue of the
\* CPU its processor_id names.
Outcome ==
  CASE ~idt \/ ~gdt -> "triple fault"
    [] idt /\ gdt /\ 32 \notin handlers -> "unhandled"
    [] idt /\ gdt /\ 32 \in handlers /\ gs = None -> "panic"
    [] OTHER -> IF processor_id \in queued THEN "scheduled" ELSE "no thread"

\* Without a thread Schedule returns, HandleTick sends its EOI and the boot goes on.
Interrupted(by) ==
  /\ Running /\ flag
  /\ returned' = (returned \/ Outcome = "no thread")
  /\ stop' = IF Outcome = "no thread" THEN stop ELSE [why |-> Outcome, by |-> by]
  /\ UNCHANGED <<machine, pc, flag, gdt, idt, pic, apicVars, tableVars, gs, processor_ids,
                 queued>>

\* With its lines unmasked a PIC sends the PIT's interrupt to vector 32.
PicInterrupt == pic = "open" /\ Interrupted("PIC")

\* From the first tick that is scheduled on, the kernel is Scheduler's.
TimerInterrupt == timer = "periodic" /\ Interrupted("timer")

Init ==
  /\ machine \in Machines
  /\ pc = "screen"
  /\ flag = FALSE /\ gdt = FALSE /\ idt = FALSE
  /\ pic = "masked"
  /\ redirection = [g \in Inputs |-> [masked |-> TRUE, vector |-> 0]]
  /\ record = 1 /\ gsis = <<>> /\ lapic_addr = FALSE
  /\ timer = "off" /\ handlers = {}
  /\ gs = None /\ processor_ids = {0} /\ queued = {} /\ returned = FALSE
  /\ stop = None

Boot ==
  \/ ScreenInitialize
  \/ ScreenFaults
  \/ IDTInitialize
  \/ RemapPic
  \/ DisablePic
  \/ MemoryInitialize
  \/ MemoryFaults
  \/ OutOfMemory
  \/ SetupGdt
  \/ MapWindow
  \/ NoFramebuffer
  \/ MapFramebuffer
  \/ BadRSDP
  \/ FindMadt
  \/ ParseRecord
  \/ GSIsOverrun
  \/ MadtDone
  \/ LapicInitialize
  \/ IOAPICInitialize
  \/ SetGs
  \/ SchedulerInitialize
  \/ AddBspThread
  \/ SetupHPET
  \/ HPETFaults
  \/ ClearInterrupts
  \/ CountTicks
  \/ StartTimer
  \/ AddHandler
  \/ NumberCpus
  \/ EnableInterrupts

Next ==
  \/ Boot
  \/ PicInterrupt
  \/ TimerInterrupt

\* kernel_entry's instructions execute; a periodic timer ticks.
Spec == Init /\ [][Next]_vars /\ WF_vars(Boot) /\ WF_vars(TimerInterrupt)
-----------------------------------------------------------------------------
(* Properties *)

\* An interrupt that is taken finds its way: each tick of the LAPIC's timer finds
\* the kernel's segments, its handler and the processor's CPU with its number; it
\* finds a thread exactly when the boot processor is the one whose queue AddThread
\* fills (scheduler.cpp:12-21, 65-70), and returns otherwise.  No ISA interrupt comes
\* through the IOAPIC, where each has a vector that LAPICs refuse.  `sti` is executed
\* long before (idt.cpp:114): until the kernel's segments are loaded an interrupt ends in
\* a triple fault, and what lets one through is RemapAndDisable, which resets
\* the PICs' masks before it sets them (pic.cpp:5-17).
InterruptsFindTheWay ==
  /\ stop # None =>
       /\ stop.by = "timer" => stop.why = "scheduled" /\ machine.bsp = curCpuCore
       /\ stop.why = "triple fault" => stop.by \in {"PIC", "bitmap", "screen"}
       /\ stop.by = "PIC" => pc = "mask"
  /\ returned => machine.bsp # curCpuCore
  /\ \A g \in Inputs : ~redirection[g].masked => redirection[g].vector < 16

\* The steps in their order.
BootOrder ==
  <<"screen", "idt", "pic", "mask", "memory", "gdt", "virtual", "framebuffer", "acpi", "madt",
    "lapic", "ioapic", "gs", "scheduler", "thread", "hpet", "cli", "count", "periodic",
    "handler", "cpus", "sti", "idle">>
Earlier(at) ==
  {BootOrder[i] : i \in {j \in DOMAIN BootOrder :
                           \E k \in DOMAIN BootOrder : BootOrder[k] = at /\ j < k}}

\* ParseAPIC comes to the record at k, for none before it has length 0 ...
ComesTo(madt, k) == \A i \in 1 .. (k - 1) : madt[i].len # 0

\* ... where it stays for ever, or finds one override too many, as it does in
\* the end when it stays at an override.
Endless(madt) == \E k \in DOMAIN madt : ComesTo(madt, k) /\ madt[k].len = 0
Overrides(madt, k) == {i \in 1 .. k : madt[i].type = 2}
Crowded(madt) ==
  \E k \in DOMAIN madt :
    /\ ComesTo(madt, k) /\ madt[k].type = 2
    /\ madt[k].len = 0 \/ Cardinality(Overrides(madt, k)) > MaxGSIs

\* Does the boot get past a step on this machine?
Passes(at) ==
  /\ at = "screen" => machine.screen
  /\ at = "memory" => machine.room
  /\ at \in Allocating => Enough(at)
  /\ at = "framebuffer" => machine.framebuffer
  /\ at = "acpi" => machine.rsdp
  /\ at = "madt" /\ FindTable("APIC") => ~Endless(machine.madt) /\ ~Crowded(machine.madt)
  /\ at = "hpet" => FindTable("HPET")
  /\ at # "idle"

\* The boot has come to the first step it does not get past.  There it stops,
\* unless it loops in the MADT or idles, with no tick or with ticks that find no thread.
AtItsEnd ==
  /\ ~Passes(pc) /\ \A at \in Earlier(pc) : Passes(at)
  /\ stop # None <=> /\ pc = "madt" => Crowded(machine.madt)
                     /\ pc = "idle" => FindTable("APIC") /\ machine.bsp = curCpuCore

\* Every boot that no PIC interrupts comes to the first step its machine does not
\* get past, and stays there: with a sound machine whose boot processor has LAPIC id 0 at
\* its first thread; it writes past gsis[] exactly when an override too many, or one of
\* length 0, comes before any other record of length 0, and loops for ever exactly when
\* such a record comes first (acpi.cpp:64-96, kernel.cpp:81-152).
BootEnds == <>[]((stop # None /\ stop.by = "PIC") \/ AtItsEnd)

\* The safe half of it: a boot gets past no step that should have ended it, and
\* where it stops, but for a PIC, is where it should.
StopsAtItsEnd ==
  /\ \A at \in Earlier(pc) : Passes(at)
  /\ stop # None /\ stop.by # "PIC" => AtItsEnd
-----------------------------------------------------------------------------
(* The inductive invariant *)

\* The steps before and up to some that matter.
ToIdt == {"screen", "idt"}
ToGdt == ToIdt \cup {"pic", "mask", "memory", "gdt"}
ToGs == ToGdt \cup {"virtual", "framebuffer", "acpi", "madt", "lapic", "ioapic", "gs"}
ToThread == ToGs \cup {"scheduler", "thread"}
ToCli == ToThread \cup {"hpet", "cli"}
ToPeriodic == ToCli \cup {"count", "periodic"}
ToHandler == ToPeriodic \cup {"handler"}
ToCpus == ToHandler \cup {"cpus"}
ToIdle == ToCpus \cup {"sti", "idle"}

\* What the steps so far have done.
FlagsInv ==
  /\ flag \in BOOLEAN /\ (flag <=> pc \in (ToCli \ ToIdt) \cup {"idle"})
  /\ idt \in BOOLEAN /\ (idt <=> pc \notin ToIdt)
  /\ gdt \in BOOLEAN /\ (gdt <=> pc \notin ToGdt)
  /\ lapic_addr \in BOOLEAN
  /\ queued = IF pc \in ToThread THEN {} ELSE {curCpuCore}
  /\ returned \in BOOLEAN

\* The timer goes only if a MADT has told where the LAPIC is.
DevicesInv ==
  /\ pic = IF pc = "mask" THEN "open" ELSE "masked"
  /\ timer \in {"off", "once", "periodic"}
  /\ timer = "periodic" => pc \notin ToPeriodic
  /\ lapic_addr => FindTable("APIC")
  /\ timer = "periodic" => lapic_addr
  /\ pc \notin ToHandler => 32 \in handlers

CpusInv ==
  /\ gs = IF pc \in ToGs THEN None ELSE machine.bsp
  /\ 0 \in processor_ids
  /\ pc \notin ToCpus => machine.cpus \subseteq processor_ids

TablesInv ==
  /\ redirection \in [Inputs -> [masked : BOOLEAN, vector : Nat]]
  /\ record \in Nat \ {0}
  /\ gsis \in Seq([irq : 0 .. 15, gsi : Nat]) /\ Len(gsis) <= MaxGSIs

\* What ParseAPIC has noted: the overrides of the records it has passed, and one of length 0
\* as often as it has met it.
MadtInv ==
  /\ pc \in ToGdt \cup {"virtual", "framebuffer", "acpi"} => record = 1 /\ gsis = <<>>
  /\ pc = "madt" =>
       /\ FindTable("APIC")
       /\ record <= Len(machine.madt) + 1
       /\ ComesTo(machine.madt, record)
       /\ \/ Len(gsis) = Cardinality(Overrides(machine.madt, record - 1))
          \/ /\ record <= Len(machine.madt)
             /\ machine.madt[record].type = 2 /\ machine.madt[record].len = 0

BootInv ==
  /\ machine \in Machines
  /\ pc \in ToIdle
  /\ FlagsInv
  /\ DevicesInv
  /\ CpusInv
  /\ TablesInv
  /\ MadtInv

IInv == BootInv /\ InterruptsFindTheWay /\ StopsAtItsEnd
=============================================================================
