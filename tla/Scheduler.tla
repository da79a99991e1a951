----------------------------- MODULE Scheduler -----------------------------
(***************************************************************************)
(* The scheduler of src/src/sched/scheduler.cpp on the one processor that  *)
(* runs (kernel.cpp leaves the others parked): the per-CPU task queues,    *)
(* the boot steps that fill them, the timer interrupt that switches        *)
(* threads, AddThread racing with it, and DeleteCurThread.                 *)
(*                                                                         *)
(* Interrupts are off inside the handler and inside a system call, so the  *)
(* handler interleaves with thread code only at its start.  AddThread runs *)
(* with interrupts on: its stores are plain, nothing orders them before    *)
(* the unlock, and the tick may fall between any two.                      *)
(***************************************************************************)
EXTENDS Integers, Sequences, FiniteSets, Functions

CONSTANTS
  CpuIds,     \* indexes of cpus[]: the LAPIC ids of the processors
  BspIds,     \* the values bsp_lapic_id may have
  BspThread,  \* the thread of BspKernelThread
  Users,      \* the threads LoadAndExecuteElf may add
  None,       \* nullptr
  Idle,       \* kernel_entry's own context, which no Thread describes
  MaxWork     \* bound: steps of work done by one context

Threads == Users \cup {BspThread}

Contexts == Threads \cup {Idle}

ASSUME CpusAssumption == CpuIds \subseteq Nat /\ 0 \in CpuIds /\ BspIds \subseteq CpuIds
ASSUME ThreadsAssumption ==
  /\ BspThread \notin Users
  /\ None \notin Contexts
  /\ Idle \notin Threads
ASSUME BoundAssumption == MaxWork \in Nat

VARIABLES
  bspId,        \* smp_req.response->bsp_lapic_id
  boot,         \* how far kernel_entry has come
  queue,        \* cpus[id].task_queue
  next,         \* Thread::next
  canRun,       \* Thread::canRun
  pid,          \* Thread::pid
  ctxt,         \* Thread::ctxt, as the amount of work it has recorded
  processorId,  \* cpus[id].processor_id
  curPid,
  sched_mutex,
  adding,       \* the thread AddThread(Thread*) is adding, or None
  stores,       \* AddThread's stores that have not happened yet
  oldTail,      \* the queue's tail AddThread has read
  pc,           \* "run": thread code; otherwise a place in the handler
  picked,       \* Schedule's local `next_thread`
  depth,        \* calls of GetNextThread on the stack
  regs,         \* the interrupted or running context, as ctxt
  running,      \* the context on the processor
  inService,    \* LAPIC: a tick was delivered and no EOI written since
  order,        \* ghost: threads in the order they were linked
  progress      \* ghost: the work each context has really done

bootVars == <<bspId, boot, processorId>>
threadVars == <<next, canRun, pid, curPid>>
addVars == <<adding, stores, oldTail>>
handlerVars == <<pc, picked, depth>>
cpuVars == <<regs, running, inService>>
ghosts == <<order, progress>>
vars == <<bootVars, queue, threadVars, ctxt, sched_mutex, addVars,
          handlerVars, cpuVars, ghosts>>

\* AddThread never moves on: the increment is commented out.
curCpuCore == 0

\* GetCurCPU(), an index of cpus[]; and the queue GetNextThread is told to use.
CurCpu == bspId
NextQueue == processorId[CurCpu]

EmptyQueue == [head |-> None, tail |-> None, current |-> None, num_threads |-> 0]

\* The state Scheduler::Initialize leaves.
Init ==
  /\ bspId \in BspIds
  /\ boot = "initialized"
  /\ queue = [c \in CpuIds |-> EmptyQueue]
  /\ next = [t \in Threads |-> None]
  /\ canRun = [t \in Threads |-> TRUE]
  /\ pid = [t \in Threads |-> -1]
  /\ ctxt = [t \in Threads |-> 0]
  /\ processorId = [c \in CpuIds |-> 0]
  /\ curPid = 0
  /\ sched_mutex = FALSE
  /\ adding = None /\ stores = {} /\ oldTail = None
  /\ pc = "run" /\ picked = None /\ depth = 0
  /\ regs = 0 /\ running = Idle /\ inService = FALSE
  /\ order = <<>>
  /\ progress = [c \in Contexts |-> 0]

-----------------------------------------------------------------------------
(* kernel_entry, from the first thread to the idle loop *)

\* Wrong on purpose: the queue's tail is read when the link is stored; the new
\* thread is put behind the head.
LinkedNextLate(tail, t) ==
  IF tail = None THEN next ELSE [next EXCEPT ![queue[curCpuCore].tail] = t]
LinkedNextAtHead(tail, t) ==
  IF tail = None THEN next ELSE [next EXCEPT ![queue[curCpuCore].head] = t]

\* `if (!queue.head) ...; if (queue.tail) queue.tail->next = t`, with the tail
\* read before: the stores that make t reachable.
LinkedHead(q, t) == IF q.head = None THEN t ELSE q.head
LinkedNext(tail, t) == IF tail = None THEN next ELSE [next EXCEPT ![tail] = t]

\* AddThread(entry, is_user) for the first thread: the timer does not run yet,
\* so that the locked function is one step.
AddBspThread ==
  /\ boot = "initialized"
  /\ ~sched_mutex
  /\ boot' = "added"
  /\ pid' = [pid EXCEPT ![BspThread] = curPid]
  /\ curPid' = curPid + 1
  /\ LET q == queue[curCpuCore]
     IN  /\ queue' = [queue EXCEPT ![curCpuCore] =
                        [head |-> LinkedHead(q, BspThread),
                         tail |-> BspThread,
                         current |-> q.current,
                         num_threads |-> q.num_threads + 1]]
         /\ next' = LinkedNext(q.tail, BspThread)
  /\ order' = Append(order, BspThread)
  /\ UNCHANGED <<bspId, processorId, canRun, ctxt, sched_mutex, addVars,
                 handlerVars, cpuVars, progress>>

\* Wrong on purpose: no number is stored; numbers begin with 1.
CpuNumbersUnset == processorId
CpuNumbersFromOne == [c \in CpuIds |-> c + 1]

\* The loop that numbers cpus[] by LAPIC id.
CpuNumbers == [c \in CpuIds |-> c]
NumberCpus ==
  /\ boot = "added"
  /\ boot' = "numbered"
  /\ processorId' = CpuNumbers
  /\ UNCHANGED <<bspId, queue, threadVars, ctxt, sched_mutex, addVars,
                 handlerVars, cpuVars, ghosts>>

\* `sti`, with the timer running and its handler in place.
EnableInterrupts ==
  /\ boot = "numbered"
  /\ boot' = "on"
  /\ UNCHANGED <<bspId, processorId, queue, threadVars, ctxt, sched_mutex,
                 addVars, handlerVars, cpuVars, ghosts>>

-----------------------------------------------------------------------------
(* Thread code *)

InThread == boot = "on" /\ pc = "run"

\* The running context computes.
Work ==
  /\ InThread
  /\ regs < MaxWork
  /\ regs' = regs + 1
  /\ progress' = [progress EXCEPT ![running] = @ + 1]
  /\ UNCHANGED <<bootVars, queue, threadVars, ctxt, sched_mutex, addVars,
                 handlerVars, running, inService, order>>

\* System call 0: DeleteCurThread, interrupts masked.
DeleteCurThread ==
  /\ InThread
  /\ running \in Users
  /\ canRun' = [canRun EXCEPT ![queue[NextQueue].current] = FALSE]
  /\ UNCHANGED <<bootVars, queue, next, pid, curPid, ctxt, sched_mutex,
                 addVars, handlerVars, cpuVars, ghosts>>

\* Wrong on purpose: AddThread(Thread*) takes the lock, as AddThread(entry) does.
AddCallLocked(t) ==
  /\ InThread
  /\ running = BspThread
  /\ adding = None
  /\ t \notin Range(order)
  /\ ~sched_mutex
  /\ sched_mutex' = TRUE
  /\ adding' = t
  /\ stores' = {"pid", "link", "tail", "count"}
  /\ oldTail' = queue[curCpuCore].tail
  /\ UNCHANGED <<bootVars, queue, threadVars, ctxt, handlerVars, cpuVars, ghosts>>

\* LoadAndExecuteElf in the BSP's kernel thread calls AddThread(Thread*), which
\* does not take sched_mutex.
AddCall(t) ==
  /\ InThread
  /\ running = BspThread
  /\ adding = None
  /\ t \notin Range(order)
  /\ adding' = t
  /\ stores' = {"pid", "link", "tail", "count"}
  /\ oldTail' = queue[curCpuCore].tail
  /\ UNCHANGED <<bootVars, queue, threadVars, ctxt, sched_mutex, handlerVars,
                 cpuVars, ghosts>>

\* One of AddThread's stores, in whichever order the build performs them.
Store(s) ==
  /\ InThread
  /\ running = BspThread
  /\ s \in stores
  /\ stores' = stores \ {s}
  /\ UNCHANGED <<bootVars, canRun, ctxt, sched_mutex, adding, oldTail,
                 handlerVars, cpuVars, progress>>

StorePid ==
  /\ Store("pid")
  /\ pid' = [pid EXCEPT ![adding] = curPid]
  /\ curPid' = curPid + 1
  /\ UNCHANGED <<queue, next, order>>

StoreLink ==
  /\ Store("link")
  /\ queue' = [queue EXCEPT ![curCpuCore].head = LinkedHead(queue[curCpuCore], adding)]
  /\ next' = LinkedNext(oldTail, adding)
  /\ order' = Append(order, adding)
  /\ UNCHANGED <<pid, curPid>>

StoreTail ==
  /\ Store("tail")
  /\ queue' = [queue EXCEPT ![curCpuCore].tail = adding]
  /\ UNCHANGED <<next, pid, curPid, order>>

StoreCount ==
  /\ Store("count")
  /\ queue' = [queue EXCEPT ![curCpuCore].num_threads = @ + 1]
  /\ UNCHANGED <<next, pid, curPid, order>>

\* sched_mutex.unlock() at the end, of a mutex AddThread does not hold.
AddReturn ==
  /\ InThread
  /\ running = BspThread
  /\ adding # None /\ stores = {}
  /\ sched_mutex' = FALSE
  /\ adding' = None /\ oldTail' = None
  /\ UNCHANGED <<bootVars, queue, threadVars, ctxt, stores, handlerVars,
                 cpuVars, ghosts>>

AddStep == StorePid \/ StoreLink \/ StoreTail \/ StoreCount \/ AddReturn

-----------------------------------------------------------------------------
(* The timer interrupt: HandleTick, Schedule, GetNextThread *)

\* The LAPIC delivers a tick; the registers are on the interrupt frame.
Tick ==
  /\ InThread
  /\ ~inService
  /\ inService' = TRUE
  /\ pc' = "lock"
  /\ UNCHANGED <<bootVars, queue, threadVars, ctxt, sched_mutex, addVars,
                 picked, depth, regs, running, ghosts>>

\* The thread one call of GetNextThread moves `current` to.  A null `current`
\* becomes the head first, so that the head is passed over if it has a next.
NextInQueue(q) ==
  LET cur == IF q.current = None THEN q.head ELSE q.current
  IN  IF next[cur] # None THEN next[cur] ELSE q.head

\* `if (current) current->ctxt = *regs`.
\* Wrong on purpose: the registers are saved after `current` has moved.
SavedAfterMove(q) ==
  IF q.current = None THEN ctxt ELSE [ctxt EXCEPT ![NextInQueue(q)] = regs]
Saved(q) == IF q.current = None THEN ctxt ELSE [ctxt EXCEPT ![q.current] = regs]

\* sched_mutex.lock(), and the save.
LockAndSave ==
  /\ pc = "lock"
  /\ ~sched_mutex
  /\ sched_mutex' = TRUE
  /\ ctxt' = Saved(queue[CurCpu])
  /\ pc' = "pick"
  /\ depth' = 1
  /\ UNCHANGED <<bootVars, queue, threadVars, addVars, picked, cpuVars, ghosts>>

\* Wrong on purpose: a thread that has exited can run.
CanRunAlways(t) == TRUE
CanRun(t) == canRun[t]

\* GetNextThread, one call: done when the thread it moved to can run, and
\* calling itself when it cannot.
GetNextThread ==
  /\ pc = "pick"
  /\ queue[NextQueue].num_threads # 0
  /\ LET t == NextInQueue(queue[NextQueue])
     IN  /\ queue' = [queue EXCEPT ![NextQueue].current = t]
         /\ \/ CanRun(t) /\ picked' = t /\ pc' = "dispatch" /\ UNCHANGED depth
            \/ ~CanRun(t) /\ depth' = depth + 1 /\ UNCHANGED <<pc, picked>>
  /\ UNCHANGED <<bootVars, threadVars, ctxt, sched_mutex, addVars, cpuVars, ghosts>>

\* The queue is empty: Schedule returns, HandleTick writes EOI and the
\* interrupted context goes on.
ReturnFromTick ==
  /\ pc = "pick"
  /\ queue[NextQueue].num_threads = 0
  /\ sched_mutex' = FALSE
  /\ inService' = FALSE
  /\ pc' = "run"
  /\ depth' = 0
  /\ UNCHANGED <<bootVars, queue, threadVars, ctxt, addVars, picked, regs,
                 running, ghosts>>

\* unlock, EOI, and the iretq into the thread's saved context.
Dispatch ==
  /\ pc = "dispatch"
  /\ sched_mutex' = FALSE
  /\ inService' = FALSE
  /\ running' = picked
  /\ regs' = ctxt[picked]
  /\ pc' = "run" /\ picked' = None /\ depth' = 0
  /\ UNCHANGED <<bootVars, queue, threadVars, ctxt, addVars, order, progress>>

Handler == LockAndSave \/ GetNextThread \/ ReturnFromTick \/ Dispatch

Next ==
  \/ AddBspThread
  \/ NumberCpus
  \/ EnableInterrupts
  \/ Work
  \/ DeleteCurThread
  \/ \E t \in Users : AddCall(t)
  \/ StorePid
  \/ StoreLink
  \/ StoreTail
  \/ StoreCount
  \/ AddReturn
  \/ Tick
  \/ LockAndSave
  \/ GetNextThread
  \/ ReturnFromTick
  \/ Dispatch

Spec == Init /\ [][Next]_vars

\* kernel_entry runs on, the LAPIC timer is periodic, the handler's
\* instructions execute, and a thread that gets the processor again and again
\* executes some instructions of its own.
Fairness ==
  /\ WF_vars(AddBspThread \/ NumberCpus \/ EnableInterrupts)
  /\ WF_vars(Tick)
  /\ WF_vars(Handler)
  /\ SF_vars(AddStep)

FairSpec == Spec /\ Fairness

-----------------------------------------------------------------------------
(* Properties *)

QueueType == [head : Threads \cup {None}, tail : Threads \cup {None},
              current : Threads \cup {None}, num_threads : Nat]

\* Types of the scheduler's variables (cpu.h, task.h, scheduler.cpp:10-12).
TypeOK ==
  /\ bspId \in BspIds
  /\ boot \in {"initialized", "added", "numbered", "on"}
  /\ queue \in [CpuIds -> QueueType]
  /\ next \in [Threads -> Threads \cup {None}]
  /\ canRun \in [Threads -> BOOLEAN]
  /\ pid \in [Threads -> Int]
  /\ ctxt \in [Threads -> Nat]
  /\ processorId \in [CpuIds -> CpuIds]
  /\ curPid \in Nat
  /\ sched_mutex \in BOOLEAN
  /\ adding \in Threads \cup {None}
  /\ stores \subseteq {"pid", "link", "tail", "count"}
  /\ oldTail \in Threads \cup {None}
  /\ pc \in {"run", "lock", "pick", "dispatch"}
  /\ picked \in Threads \cup {None}
  /\ depth \in Nat
  /\ regs \in Nat
  /\ running \in Contexts
  /\ inService \in BOOLEAN
  /\ order \in Seq(Threads)
  /\ progress \in [Contexts -> Nat]

\* The linked list every tick walks is the threads in the order they were
\* added, whole, at every point of an AddThread that a tick may interrupt and
\* in whatever order its stores happen; the tail is never ahead of it by more
\* than the thread being added (scheduler.cpp:41-63).
QueueWellFormed ==
  LET q == queue[curCpuCore]
      n == Len(order)
      Pending(s) == adding # None /\ s \in stores
  IN  /\ q.head = IF n = 0 THEN None ELSE order[1]
      /\ \A i \in 1 .. n : next[order[i]] = IF i < n THEN order[i + 1] ELSE None
      /\ \A i, j \in 1 .. n : order[i] = order[j] => i = j
      /\ q.current # None => q.current \in Range(order)
      /\ n > 0 => q.tail = IF adding = None THEN order[n]
                           ELSE IF Pending("tail") THEN oldTail ELSE adding
      /\ q.num_threads = n + (IF Pending("link") THEN 1 ELSE 0)
                           - (IF Pending("count") THEN 1 ELSE 0)

\* The thread whose code runs is the one the queue calls current, so that the
\* next tick saves its registers where they belong: Schedule saves through
\* GetCurCPU() and picks through processor_id (scheduler.cpp:99-106).
RunningIsCurrent ==
  pc = "run" =>
    queue[CurCpu].current = IF running = Idle THEN None ELSE running

\* No work is lost or done twice: a thread that does not run has all its work
\* in its saved context, and the processor holds all of the running one's
\* (scheduler.cpp:103-140).
ContextIntegrity ==
  /\ \A t \in Threads : t # running => ctxt[t] = progress[t]
  /\ regs = progress[running]

\* The timer never falls silent: the handler never spins on sched_mutex held by
\* the very thread it interrupted, GetNextThread ends, and every way out of the
\* handler writes an EOI (scheduler.cpp:41-60, 91-92, 101, 110-113; apic.cpp:21-26).
TicksGoOn == []<>inService /\ []<>~inService

\* A thread linked into the queue of the processor that runs gets its turn.
RunnableRuns ==
  \A t \in Threads :
    (t \in Range(order) /\ canRun[t] /\ CurCpu = curCpuCore)
      ~> (running = t \/ ~canRun[t])

\* What the comment of kernel.cpp:123 says of the first AddThread: it makes
\* sure that the boot processor has a thread in its queue.
BspHasThread == boot = "on" => queue[CurCpu].head # None

-----------------------------------------------------------------------------
(* Ticks, calls and stores together implement a ring of threads. *)

RR == INSTANCE RoundRobin WITH
  ring    <- order,
  dead    <- {t \in Threads : ~canRun[t]},
  running <- running

\* Every step of the code is a step of RoundRobin or changes nothing a thread
\* can see: dispatches follow the ring and never return to a thread that has
\* exited, and only the caller of system call 0 exits (scheduler.cpp:65-147).
ImplementsRoundRobin == RR!Spec

-----------------------------------------------------------------------------
(* The inductive invariant. *)

\* What the steps of kernel_entry have done so far.
BootInv ==
  /\ boot = "initialized" => order = <<>> /\ queue[curCpuCore] = EmptyQueue
  /\ boot # "initialized" => order # <<>> /\ order[1] = BspThread
  /\ boot # "on" => pc = "run" /\ running = Idle /\ adding = None
  /\ boot \in {"numbered", "on"} => processorId = [c \in CpuIds |-> c]
  /\ \A c \in CpuIds \ {curCpuCore} : queue[c] = EmptyQueue

\* The thread an AddThread in progress adds, before and after it is linked.
AddInv ==
  /\ \A t \in Threads \ Range(order) : next[t] = None
  /\ adding = None => stores = {}
  /\ adding # None =>
       /\ adding \in Users
       /\ order # <<>>
       /\ IF "link" \in stores
          THEN adding \notin Range(order) /\ oldTail = order[Len(order)]
          ELSE adding = order[Len(order)]

\* The threads GetNextThread has met: the ring ahead of the interrupted one,
\* k places of it, all dead.
Passed(k) == \A j \in 1 .. k : ~canRun[RR!Ahead(j)]

\* The handler between its steps.
HandlerInv ==
  /\ canRun[BspThread]
  /\ running # Idle => running \in Range(order) /\ CurCpu = curCpuCore
  /\ pc \in {"run", "lock"} =>
       /\ depth = 0
       /\ queue[CurCpu].current = IF running = Idle THEN None ELSE running
  /\ pc \in {"pick", "dispatch"} =>
       /\ running # Idle => ctxt[running] = progress[running]
       /\ depth \in 1 .. Len(order)
       /\ Passed(depth - 1)
  /\ pc = "pick" =>
       queue[CurCpu].current =
         IF depth > 1 THEN RR!Ahead(depth - 1) ELSE IF running = Idle THEN None ELSE running
  /\ pc = "dispatch" =>
       /\ CurCpu = curCpuCore
       /\ picked = queue[CurCpu].current
       /\ picked = RR!Ahead(depth)
       /\ canRun[picked]

IInv ==
  /\ TypeOK
  /\ BootInv
  /\ QueueWellFormed
  /\ AddInv
  /\ HandlerInv
  /\ ContextIntegrity
=============================================================================
