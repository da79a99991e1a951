------------------------------ MODULE UserMode ------------------------------
(***************************************************************************)
(* The way into user mode and back, and what printf makes of messages on   *)
(* the way: BspKernelThread (src/src/kernel/kernel.cpp), system calls      *)
(* (include/cpu/Syscall.cpp, syscall.asm), the descriptor table            *)
(* (cpu/gdt.cpp), the common interrupt handler (cpu/idt.cpp), printf and   *)
(* the screen (drivers/Screen.cpp), the user library (src/lib).            *)
(*                                                                         *)
(* Which thread the tick picks is Scheduler's matter: here it is any that  *)
(* can run.  The place of a thread in its code is kept by thread, and a    *)
(* context is the two selectors it is resumed with.                        *)
(***************************************************************************)
EXTENDS Integers, Sequences, FiniteSets, SequencesExt

CONSTANTS
  Bsp,        \* BspKernelThread's thread
  Users,      \* user threads
  Boot,       \* kernel_entry after `sti`, which is no thread
  Handler,    \* interrupt_handler
  None,
  Script,     \* what BspKernelThread does: see Step
  Calls,      \* thread -> the system calls of its program, in order
  Faults,     \* exceptions user code may raise, besides 13
  PanicMessages, UnhandledMessages,  \* what interrupt_handler prints
  Newline, Tab, Digit, Minus,  \* characters; Digit[0 .. 15]
  Beyonds,    \* what may follow itoa's buffer, up to a zero
  Width, Height, Letter,  \* of the framebuffer and of a letter (8), in pixels
  BufBytes    \* 64

Threads == Users \cup {Bsp}
Printers == Threads \cup {Handler}

\* One step of BspKernelThread: a printf, SysCalls::Init, or AddThread.
Message(format) == [op |-> "print", format |-> format, thread |-> None]
InitSysCalls == [op |-> "init", format |-> <<>>, thread |-> None]
Add(t) == [op |-> "add", format |-> <<>>, thread |-> t]

\* Part of a format: a character, or a conversion of a number.
Char(c) == [spec |-> "c", value |-> 0, char |-> c]
Conversion(spec, v) == [spec |-> spec, value |-> v, char |-> None]

\* Everything that is ever printed.
Formats ==
  Range(PanicMessages) \cup Range(UnhandledMessages)
    \cup {Script[i].format : i \in DOMAIN Script}
    \cup UNION {{<<Char(Calls[u][i].char)>> : i \in DOMAIN Calls[u]} : u \in Users}

IsSequence(s) == s \in Seq(Range(s))

ASSUME ProgramsAssumption ==
  /\ IsSequence(Script)
  /\ \A i \in DOMAIN Script : Script[i].op = "add" => Script[i].thread \in Users
  /\ \A u \in Users : IsSequence(Calls[u])
ASSUME NamesAssumption ==
  /\ Bsp \notin Users
  /\ Handler \notin Threads /\ Boot \notin Threads
  /\ None \notin 0 .. 255
\* Numbers fit in the buffers they are written to, as 64 bits do in 64 bytes.
Powers(base) == LET p[k \in 0 .. BufBytes] == IF k = 0 THEN 1 ELSE base * p[k - 1] IN p
Fits(item) ==
  LET v == item.value IN
  CASE item.spec = "c" -> TRUE
    [] item.spec = "x" -> v \in 0 .. (Powers(16)[BufBytes - 2] - 1)
    [] item.spec = "u" -> v \in 0 .. (Powers(10)[BufBytes - 2] - 1)
    [] item.spec = "d" -> /\ v \in Int /\ v < Powers(10)[BufBytes - 1]
                          /\ -v < Powers(10)[BufBytes - 1]
ASSUME FormatsAssumption ==
  /\ BufBytes \in Nat /\ BufBytes > 2
  /\ \A format \in Formats :
       /\ IsSequence(format)
       /\ \A i \in DOMAIN format : /\ format[i].spec \in {"c", "x", "u", "d"}
                                    /\ Fits(format[i])
  /\ \A b \in Beyonds : IsSequence(b)
ASSUME ScreenAssumption ==
  Width \in Nat /\ Height \in Nat /\ Letter \in Nat \ {0, 1} /\ Newline # Tab
ASSUME FaultsAssumption == Faults \subseteq (0 .. 31) \ {13}
ASSUME MessagesAssumption ==
  /\ PanicMessages # <<>> /\ PanicMessages \in Seq(Formats)
  /\ UnhandledMessages # <<>> /\ UnhandledMessages \in Seq(Formats)

VARIABLES
  running,   \* whose code the processor executes
  cpu,       \* its selectors and interrupt flag
  ctxt,      \* thread -> Thread::ctxt
  alive,     \* threads in the queue with canRun set
  at,        \* thread -> its next step, or call
  enabled,   \* SCE: SysCalls::Init was here
  inCall,    \* threads between syscall and sysret, on the one kernel stack
  vector,    \* what interrupt_handler reports
  halted,
  screen_lock,
  stage,     \* printer -> where it is in _printf
  todo,      \* printer -> formats still to print, the current one first
  left,      \* printer -> characters vprintf has still to put
  x, y,      \* the cursor
  log,       \* what putc_com0 was given
  beyond,    \* what follows itoa's buffer
  said,      \* ghost: formats in the order printf took the lock
  drawn      \* ghost: where letters were drawn

printVars == <<screen_lock, stage, todo, left, x, y, log, said, drawn>>
vars == <<running, cpu, ctxt, alive, at, enabled, inCall, vector, halted, beyond,
          printVars>>

-----------------------------------------------------------------------------
(* Selectors *)

\* The access bytes of the descriptors, by selector.
Gdt == [s \in {8, 16, 24, 32} |-> IF s = 8 THEN 154         \* kernel_code 0x9A
                                  ELSE IF s = 16 THEN 146   \* kernel_data 0x92
                                  ELSE IF s = 24 THEN 250   \* user_code 0xFA
                                  ELSE 242]                 \* user_data 0xF2
Executable(access) == (access \div 8) % 2 = 1
Dpl(access) == (access \div 32) % 4
Names(sel, code) ==
  LET d == Gdt[8 * (sel \div 8)] IN Executable(d) = code /\ Dpl(d) = sel % 4

\* What iretq asks of the selectors it loads.
Resumable(c) == c.cs % 4 = c.ss % 4 /\ Names(c.cs, TRUE) /\ Names(c.ss, FALSE)

\* Thread's constructor.
NewContext(t) == IF t = Bsp THEN [cs |-> 8, ss |-> 16] ELSE [cs |-> 27, ss |-> 35]

\* The fields of STAR, and the interrupt flag's bit in SFMASK.
sysretSelectors == 16
syscallSelectors == 32
SFMASK == 4161493  \* 0x3F7FD5

\* Wrong on purpose: the flag's bit is missing in SFMASK.
MasksInterruptsNot == ((SFMASK - 512) \div 512) % 2 = 1
MasksInterrupts == (SFMASK \div 512) % 2 = 1

OnSyscall == [cs |-> syscallSelectors, ss |-> syscallSelectors + 8,
              if |-> ~MasksInterrupts]
OnSysret == [cs |-> sysretSelectors + 16 + 3, ss |-> sysretSelectors + 8 + 3, if |-> TRUE]

-----------------------------------------------------------------------------
(* Numbers, as itoa and utoa write them into their buffers *)

\* `for (; val && i; --i, val /= base)`, from place i of the buffer down.
Loop(v, base, i) ==
  LET f[k \in 0 .. i] ==  \* what is left of the number when place k is due
        IF k = i THEN v ELSE f[k + 1] \div base
      used == {k \in 1 .. i : f[k] # 0}
  IN  [j \in 1 .. Cardinality(used) |-> Digit[f[i - Cardinality(used) + j] % base]]

utoa(v, base) == IF v = 0 THEN <<Digit[0]>> ELSE Loop(v, base, BufBytes - 2)

\* Its digits end with the buffer, so puts goes on to whatever follows.
itoa(v, base) ==
  IF v = 0 THEN <<Digit[0]>>
  ELSE (IF v < 0 THEN <<Minus>> \o Loop(-v, base, BufBytes - 1)
        ELSE Loop(v, base, BufBytes - 1)) \o beyond

\* vprintf: the characters a format comes to.
Text(format) ==
  FlattenSeq([i \in DOMAIN format |->
    CASE format[i].spec = "c" -> <<format[i].char>>
      [] format[i].spec = "x" -> utoa(format[i].value, 16)
      [] format[i].spec = "u" -> utoa(format[i].value, 10)
      [] format[i].spec = "d" -> itoa(format[i].value, 10)])

-----------------------------------------------------------------------------
(* _printf *)

\* Whose next instruction the processor can execute.
Executes(p) == IF vector = None THEN running = p ELSE p = Handler

\* Wrong on purpose: a lock that lets everyone in.
FreeAlways == TRUE

Free == ~screen_lock

Lock(p) ==
  /\ Executes(p) /\ stage[p] = "lock" /\ Free
  /\ screen_lock' = TRUE
  /\ stage' = [stage EXCEPT ![p] = "put"]
  /\ left' = [left EXCEPT ![p] = Text(Head(todo[p]))]
  /\ said' = Append(said, Head(todo[p]))
  /\ UNCHANGED <<running, cpu, ctxt, alive, at, enabled, inCall, vector, halted, beyond,
                 todo, x, y, log, drawn>>

\* Wrong on purpose: a new line begins under the end of the last.
NewlineKeepsColumn == y' = y + 1 /\ x' = x

NewlineMoves == y' = y + 1 /\ x' = 0

\* To the next multiple of four, however wide the screen is.
TabMoves == x' = 4 * (x \div 4 + 1) /\ y' = y

LetterMoves ==
  IF x + 1 = Width THEN x' = 0 /\ y' = y + 1 ELSE x' = x + 1 /\ y' = y

CursorMoves(c) ==
  CASE c = Newline -> NewlineMoves
    [] c = Tab -> TabMoves
    [] OTHER -> LetterMoves

\* putc, to the serial line and to the screen.
Put(p) ==
  /\ Executes(p) /\ stage[p] = "put" /\ left[p] # <<>>
  /\ LET c == Head(left[p])
     IN  /\ log' = Append(log, c)
         /\ CursorMoves(c)
         /\ drawn' = IF c \in {Newline, Tab} THEN drawn ELSE drawn \cup {<<x, y>>}
  /\ left' = [left EXCEPT ![p] = Tail(left[p])]
  /\ UNCHANGED <<running, cpu, ctxt, alive, at, enabled, inCall, vector, halted, beyond,
                 screen_lock, stage, todo, said>>

Unlock(p) ==
  /\ Executes(p) /\ stage[p] = "put" /\ left[p] = <<>>
  /\ screen_lock' = FALSE
  /\ todo' = [todo EXCEPT ![p] = Tail(todo[p])]
  /\ stage' = [stage EXCEPT ![p] = IF Len(todo[p]) > 1 THEN "lock" ELSE "idle"]
  /\ UNCHANGED <<running, cpu, ctxt, alive, at, enabled, inCall, vector, halted, beyond,
                 left, x, y, log, said, drawn>>

\* printf is called, for each of some formats.
Prints(p, formats) ==
  /\ stage' = [stage EXCEPT ![p] = "lock"]
  /\ todo' = [todo EXCEPT ![p] = formats]
  /\ UNCHANGED <<screen_lock, left, x, y, log, said, drawn>>

-----------------------------------------------------------------------------
(* BspKernelThread *)

\* Wrong on purpose: the loader says what it did once the thread is in the queue.
StepsChatty == Script \o <<Script[1]>>

Steps == Script

Step == Steps[at[Bsp]]
BspRuns == vector = None /\ running = Bsp /\ stage[Bsp] = "idle" /\ at[Bsp] <= Len(Steps)
BspGoesOn == at' = [at EXCEPT ![Bsp] = @ + 1]

BspPrints ==
  /\ BspRuns /\ Step.op = "print"
  /\ Prints(Bsp, <<Step.format>>)
  /\ BspGoesOn
  /\ UNCHANGED <<running, cpu, ctxt, alive, enabled, inCall, vector, halted, beyond>>

SysCallsInit ==
  /\ BspRuns /\ Step.op = "init"
  /\ enabled' = TRUE
  /\ BspGoesOn
  /\ UNCHANGED <<running, cpu, ctxt, alive, inCall, vector, halted, beyond, printVars>>

AddThread ==
  /\ BspRuns /\ Step.op = "add"
  /\ alive' = alive \cup {Step.thread}
  /\ BspGoesOn
  /\ UNCHANGED <<running, cpu, ctxt, enabled, inCall, vector, halted, beyond, printVars>>

-----------------------------------------------------------------------------
(* System calls *)

InUserCode(u) == vector = None /\ running = u /\ u \notin inCall
Call(u) == Calls[u][at[u]]

\* An interrupt or exception v: its gate turns interrupts off.
Raise(v) ==
  /\ vector' = v
  /\ Prints(Handler, IF v < 32 THEN PanicMessages ELSE UnhandledMessages)

\* syscall, syscall_handler and the call's beginning: putc's printf, or
\* DeleteCurThread.
Enter(u) ==
  /\ cpu' = OnSyscall
  /\ inCall' = inCall \cup {u}
  /\ vector' = None
  /\ IF Call(u).op = "putc"
     THEN Prints(u, <<<<Char(Call(u).char)>>>>) /\ alive' = alive
     ELSE alive' = alive \ {u} /\ UNCHANGED printVars

\* Before SysCalls::Init, syscall is an undefined instruction.
Undefined ==
  /\ Raise(6)
  /\ cpu' = [cpu EXCEPT !.if = FALSE]
  /\ UNCHANGED <<alive, inCall>>

Syscall(u) ==
  /\ InUserCode(u) /\ at[u] <= Len(Calls[u])
  /\ IF enabled THEN Enter(u) ELSE Undefined
  /\ UNCHANGED <<running, ctxt, at, enabled, halted, beyond>>

Sysret(u) ==
  /\ vector = None /\ running = u /\ u \in inCall /\ stage[u] = "idle"
  /\ cpu' = OnSysret
  /\ inCall' = inCall \ {u}
  /\ at' = [at EXCEPT ![u] = @ + 1]
  /\ UNCHANGED <<running, ctxt, alive, enabled, vector, halted, beyond, printVars>>

UserFault(u, v) ==
  /\ InUserCode(u)
  /\ Raise(v)
  /\ cpu' = [cpu EXCEPT !.if = FALSE]
  /\ UNCHANGED <<running, ctxt, alive, at, enabled, inCall, halted, beyond>>

-----------------------------------------------------------------------------
(* Interrupts *)

Interruptible == vector = None /\ cpu.if

\* Wrong on purpose: the selectors a thread began with stay in its context.
SavedCtxtNot == ctxt

\* The tick saves the running thread's registers and resumes a thread, which may
\* be the same.
SavedCtxt ==
  IF running = Boot THEN ctxt
  ELSE [ctxt EXCEPT ![running] = [cs |-> cpu.cs, ss |-> cpu.ss]]

Tick(t) ==
  /\ Interruptible /\ t \in alive
  /\ ctxt' = SavedCtxt
  /\ running' = t
  /\ IF Resumable(SavedCtxt[t])
     THEN /\ cpu' = [cs |-> SavedCtxt[t].cs, ss |-> SavedCtxt[t].ss, if |-> TRUE]
          /\ vector' = None
          /\ UNCHANGED printVars
     ELSE cpu' = [cs |-> 8, ss |-> 16, if |-> FALSE] /\ Raise(13)
  /\ UNCHANGED <<alive, at, enabled, inCall, halted, beyond>>

\* The LAPIC's spurious interrupt, which has no handler.
Spurious ==
  /\ Interruptible
  /\ Raise(255)
  /\ cpu' = [cpu EXCEPT !.if = FALSE]
  /\ UNCHANGED <<running, ctxt, alive, at, enabled, inCall, halted, beyond>>

HaltCatchFire ==
  /\ vector # None /\ stage[Handler] = "idle" /\ ~halted
  /\ halted' = TRUE
  /\ UNCHANGED <<running, cpu, ctxt, alive, at, enabled, inCall, vector, beyond, printVars>>

Init ==
  /\ running = Boot
  /\ cpu = [cs |-> 8, ss |-> 16, if |-> TRUE]
  /\ ctxt = [t \in Threads |-> NewContext(t)]
  /\ alive = {Bsp}
  /\ at = [t \in Threads |-> 1]
  /\ enabled = FALSE /\ inCall = {} /\ vector = None /\ halted = FALSE
  /\ beyond \in Beyonds
  /\ screen_lock = FALSE
  /\ stage = [p \in Printers |-> "idle"]
  /\ todo = [p \in Printers |-> <<>>]
  /\ left = [p \in Printers |-> <<>>]
  /\ x = 0 /\ y = 0 /\ log = <<>>
  /\ said = <<>> /\ drawn = {}

Printing == \E p \in Printers : Lock(p) \/ Put(p) \/ Unlock(p)

Next ==
  \/ Printing
  \/ BspPrints
  \/ SysCallsInit
  \/ AddThread
  \/ \E u \in Users : Syscall(u)
  \/ \E u \in Users : Sysret(u)
  \/ \E u \in Users, v \in Faults : UserFault(u, v)
  \/ \E t \in Threads : Tick(t)
  \/ Spurious
  \/ HaltCatchFire

\* The processor executes instructions; nothing is assumed of the tick, nor of
\* user code.
Kernel == Printing \/ HaltCatchFire \/ \E u \in Users : Sysret(u)
Spec == Init /\ [][Next]_vars /\ WF_vars(Kernel)

-----------------------------------------------------------------------------
(* Properties *)

ThreadsOK ==
  /\ running \in Threads \cup {Boot}
  /\ cpu \in [cs : Nat, ss : Nat, if : BOOLEAN]
  /\ ctxt \in [Threads -> [cs : Nat, ss : Nat]]
  /\ alive \subseteq Threads /\ Bsp \in alive
  /\ at \in [Threads -> Nat \ {0}]
  /\ inCall \subseteq Users
  /\ vector \in 0 .. 255 \cup {None}
  /\ halted \in BOOLEAN
PrintersOK ==
  /\ screen_lock \in BOOLEAN
  /\ stage \in [Printers -> {"idle", "lock", "put"}]
  /\ todo \in [Printers -> Seq(Formats)]

TypeOK == ThreadsOK /\ PrintersOK

\* The lock is held exactly while one printer puts characters.
LockInv ==
  /\ screen_lock <=> \E p \in Printers : stage[p] = "put"
  /\ \A p, q \in Printers : stage[p] = "put" /\ stage[q] = "put" => p = q
  /\ \A p \in Printers : stage[p] = "idle" <=> todo[p] = <<>>

\* The interrupt handler prints only what it reports, a user thread only in a
\* system call.
WhoPrints ==
  /\ vector = None => stage[Handler] = "idle"
  /\ \A u \in Users : stage[u] # "idle" => u \in inCall

\* All system calls run on one stack (gs:0x30, Thread's constructor): a thread
\* inside one is never switched away from (Syscall.cpp:36-38).
KernelStackExclusive == inCall # {} => inCall = {running} /\ ~cpu.if

\* The selectors of a thread, on the processor or in its context: those it was
\* made with, or after its first system call those sysret left.
Selectors(t) ==
  IF t = Bsp \/ at[t] = 1 THEN NewContext(t) ELSE [cs |-> 35, ss |-> 27]
ContextInv ==
  /\ \A t \in Threads \ {running} : ctxt[t] = Selectors(t)
  /\ (vector = None /\ running \in Threads \ inCall) =>
        cpu.cs = Selectors(running).cs /\ cpu.ss = Selectors(running).ss
  /\ inCall # {} => vector = None
  /\ vector = 13 => running \in Users /\ at[running] > 1

IInv == TypeOK /\ LockInv /\ WhoPrints /\ KernelStackExclusive /\ ContextInv

\* The digits of v, by place value.
Numeral(v, base) ==
  LET p == Powers(base)
      n == CHOOSE k \in 1 .. BufBytes : v < p[k] /\ (k = 1 \/ p[k - 1] <= v)
  IN  [j \in 1 .. n |-> Digit[(v \div p[n - j]) % base]]

Written(item) ==
  LET v == item.value IN
  CASE item.spec = "c" -> <<item.char>>
    [] item.spec = "x" -> Numeral(v, 16)
    [] item.spec = "u" -> Numeral(v, 10)
    [] item.spec = "d" /\ v = 0 -> Numeral(v, 10)
    [] item.spec = "d" /\ v > 0 -> Numeral(v, 10) \o beyond
    [] item.spec = "d" /\ v < 0 -> <<Minus>> \o Numeral(-v, 10) \o beyond

Output == FlattenSeq([i \in DOMAIN said |->
            FlattenSeq([j \in DOMAIN said[i] |-> Written(said[i][j])])])

\* The serial line shows every message in one piece, in the order their printers took
\* the lock, with numbers as one would write them; only after a %d other than
\* 0 comes what lies behind itoa's buffer, which has no room for a zero
\* (Screen.cpp:47-66, 240-249).
OutputWhole == IsPrefix(log, Output) /\ (~screen_lock => log = Output)

Columns == Width \div Letter
Rows == Height \div Letter
ColumnAfter(s) ==
  LET column[i \in 0 .. Len(s)] ==
        IF i = 0 \/ s[i] = Newline THEN 0
        ELSE IF s[i] = Tab THEN column[i - 1] + 4 - (column[i - 1] % 4)
        ELSE column[i - 1] + 1
  IN  column[Len(s)]
RowAfter(s) == Cardinality({i \in DOMAIN s : s[i] = Newline})
OnScreen == (0 .. (Columns - 1)) \X (0 .. (Rows - 1))

\* Letters are drawn where they belong, and inside the framebuffer, exactly as long as
\* no line is longer than the screen is wide and there are no more lines
\* than it is high: the cursor counts letters but wraps at pixels, and
\* nothing scrolls (Screen.cpp:125-169).
LettersInPlace ==
  LET letters == {i \in DOMAIN log : log[i] \notin {Newline, Tab}}
      places == {LET s == SubSeq(log, 1, i - 1) IN <<ColumnAfter(s), RowAfter(s)>> :
                   i \in letters}
  IN  /\ drawn \subseteq OnScreen <=> places \subseteq OnScreen
      /\ places \subseteq OnScreen => drawn = places

\* A thread that does not run can be resumed, a user thread just as long as no
\* system call of it has returned: sysret leaves it selectors that iretq
\* refuses (Syscall.cpp:32, gdt.h:51-56, task.cpp:18-19).  So exception 13
\* comes to no other thread.
ResumableUntilCalled ==
  /\ \A t \in Threads \ {running} : Resumable(ctxt[t]) <=> (t = Bsp \/ at[t] = 1)
  /\ vector = 13 => running # Bsp /\ at[running] > 1

\* Every system call returns, and what user code does wrong is always reported: no
\* thread is preempted in printf while another can wait for its lock with
\* interrupts off, because BspKernelThread prints nothing from AddThread on
\* (kernel.cpp:61-79, util.cpp:90).  Only a spurious interrupt in one of its
\* messages waits for ever.
CallsEnd ==
  /\ \A u \in Users : u \in inCall ~> u \notin inCall
  /\ (vector # None /\ (vector < 32 \/ ~screen_lock)) ~> halted

\* Syscall.cpp:31: "User CS selector set to this field + 16, SS this field + 8".
UserRunsInUserCode ==
  \A u \in Users : InUserCode(u) => cpu.cs % 4 = 3 /\ Names(cpu.cs, TRUE)
=============================================================================
