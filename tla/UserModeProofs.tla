--------------------------- MODULE UserModeProofs ---------------------------
(***************************************************************************)
(* Proofs about UserMode: for any number of programs and whatever they     *)
(* print, one printer at a time has the lock, one thread at a time is in   *)
(* the kernel on the one system call stack, and the threads iretq can      *)
(* resume are those no system call has returned to; the serial line shows  *)
(* whole messages, and letters are drawn where the text before them says.  *)
(***************************************************************************)
EXTENDS UserMode, NaturalLemmas, SequenceTheorems, FiniteSetTheorems

-----------------------------------------------------------------------------
(* Selectors *)

\* iretq accepts the kernel's selectors, and those a user thread begins with.
LEMMA NewContextsResumable ==
  /\ Resumable([cs |-> 8, ss |-> 16])
  /\ Resumable([cs |-> 27, ss |-> 35])
BY SMT DEF Resumable, Names, Gdt, Executable, Dpl

\* It refuses those sysret leaves.
LEMMA SysretNotResumable == ~Resumable([cs |-> 35, ss |-> 27])
BY SMT DEF Resumable, Names, Gdt, Executable, Dpl

\* syscall clears the interrupt flag.
LEMMA SyscallMasks ==
  OnSyscall \in [cs : Nat, ss : Nat, if : BOOLEAN] /\ ~OnSyscall.if
<1>1. 4161493 \div 512 = 8127
  BY SMT
<1>2. 8127 % 2 = 1
  BY SMT
<1>3. (~MasksInterrupts) = FALSE
  BY <1>1, <1>2, SMT DEF MasksInterrupts, SFMASK
<1>4. OnSyscall = [cs |-> syscallSelectors, ss |-> syscallSelectors + 8, if |-> FALSE]
  BY <1>3, Zenon DEF OnSyscall
<1> QED
  BY <1>4, SMT DEF syscallSelectors

LEMMA SysretSelectors == OnSysret = [cs |-> 35, ss |-> 27, if |-> TRUE]
BY SMT DEF OnSysret, sysretSelectors

\* A thread can be resumed with its selectors just as long as it has not come
\* back from a system call.
LEMMA SelectorsResumable ==
  ASSUME TypeOK, NEW t \in Threads
  PROVE  /\ Selectors(t) \in [cs : Nat, ss : Nat]
         /\ Resumable(Selectors(t)) <=> (t = Bsp \/ at[t] = 1)
         /\ t # Bsp => t \in Users
BY NewContextsResumable, SysretNotResumable, SMT
   DEF Selectors, NewContext, Threads, TypeOK, ThreadsOK

-----------------------------------------------------------------------------
(* Printers *)

\* A call of printf by a printer that is idle: it waits for the lock.
LEMMA PrintsInv ==
  ASSUME PrintersOK, LockInv, NEW p \in Printers, stage[p] = "idle",
         NEW formats \in Seq(Formats), formats # <<>>, Prints(p, formats)
  PROVE  /\ PrintersOK' /\ LockInv'
         /\ \A q \in Printers \ {p} : stage'[q] = stage[q]
<1>1. stage' = [stage EXCEPT ![p] = "lock"] /\ todo' = [todo EXCEPT ![p] = formats]
      /\ screen_lock' = screen_lock
  BY DEF Prints, printVars
<1>2. PrintersOK'
  BY <1>1 DEF PrintersOK
<1>3. \A q \in Printers : stage'[q] = "put" <=> stage[q] = "put"
  BY <1>1 DEF PrintersOK
<1>4. \A q \in Printers : stage'[q] = "idle" <=> todo'[q] = <<>>
  BY <1>1 DEF PrintersOK, LockInv
<1>5. LockInv'
  BY <1>1, <1>3, <1>4 DEF LockInv
<1> QED
  BY <1>1, <1>2, <1>5 DEF PrintersOK

\* What printing leaves alone.
LEMMA PrintingFrame ==
  ASSUME ThreadsOK, KernelStackExclusive, ContextInv,
         UNCHANGED <<running, cpu, ctxt, alive, at, inCall, vector, halted>>
  PROVE  ThreadsOK' /\ KernelStackExclusive' /\ ContextInv'
<1>1. ThreadsOK' /\ KernelStackExclusive'
  BY DEF ThreadsOK, KernelStackExclusive
<1>2. ContextInv'
  BY DEF ContextInv, Selectors
<1> QED
  BY <1>1, <1>2

\* The lock goes to a printer only when it is free.
LEMMA LockKeepsInv ==
  ASSUME IInv, NEW p \in Printers, Lock(p)
  PROVE  IInv'
<1> USE DEF IInv, TypeOK
<1>1. stage' = [stage EXCEPT ![p] = "put"] /\ stage[p] = "lock" /\ ~screen_lock
      /\ screen_lock' = TRUE /\ todo' = todo
  BY DEF Lock, Free
<1>2. UNCHANGED <<running, cpu, ctxt, alive, at, inCall, vector, halted>>
  BY DEF Lock
<1>3. PrintersOK'
  BY <1>1 DEF PrintersOK
<1>4. \A q \in Printers : stage'[q] = "put" <=> q = p
  BY <1>1 DEF PrintersOK, LockInv
<1>5. \A q \in Printers : stage'[q] = "idle" <=> stage[q] = "idle"
  BY <1>1 DEF PrintersOK
<1>6. LockInv'
  BY <1>1, <1>4, <1>5 DEF LockInv
<1>7. WhoPrints'
  BY <1>2, <1>5 DEF WhoPrints, Printers, Threads
<1> QED
  BY <1>2, <1>3, <1>6, <1>7, PrintingFrame

\* Characters are put by the printer that has the lock.
LEMMA PutKeepsInv ==
  ASSUME IInv, NEW p \in Printers, Put(p)
  PROVE  IInv'
<1> USE DEF IInv, TypeOK
<1>1. UNCHANGED <<running, cpu, ctxt, alive, at, inCall, vector, halted>>
      /\ UNCHANGED <<screen_lock, stage, todo>>
  BY DEF Put
<1>2. PrintersOK' /\ LockInv' /\ WhoPrints'
  BY <1>1 DEF PrintersOK, LockInv, WhoPrints
<1> QED
  BY <1>1, <1>2, PrintingFrame

\* What is left of a sequence without its first element.
LEMMA TailOfSeq ==
  ASSUME NEW S, NEW s \in Seq(S), s # <<>>
  PROVE  /\ Tail(s) \in Seq(S)
         /\ Tail(s) = <<>> <=> ~(Len(s) > 1)
<1>1. Len(s) \in Nat /\ Len(s) # 0
  BY EmptySeq
<1>2. Tail(s) \in Seq(S) /\ Len(Tail(s)) = Len(s) - 1
  BY HeadTailProperties
<1>3. Tail(s) = <<>> <=> Len(Tail(s)) = 0
  BY <1>2, EmptySeq
<1> QED
  BY <1>1, <1>2, <1>3

\* A printer that lets go of the lock was the only one in printf's inside.
LEMMA UnlockKeepsInv ==
  ASSUME IInv, NEW p \in Printers, Unlock(p)
  PROVE  IInv'
<1> USE DEF IInv, TypeOK
<1>1. UNCHANGED <<running, cpu, ctxt, alive, at, inCall, vector, halted>>
      /\ stage[p] = "put" /\ screen_lock' = FALSE
      /\ todo' = [todo EXCEPT ![p] = Tail(todo[p])]
      /\ stage' = [stage EXCEPT ![p] = IF Len(todo[p]) > 1 THEN "lock" ELSE "idle"]
  BY DEF Unlock
<1>2. todo[p] \in Seq(Formats) /\ todo[p] # <<>>
  BY <1>1 DEF PrintersOK, LockInv
<1>3. /\ Tail(todo[p]) \in Seq(Formats)
      /\ Tail(todo[p]) = <<>> <=> ~(Len(todo[p]) > 1)
  BY <1>2, TailOfSeq
<1>4. PrintersOK'
  BY <1>1, <1>3 DEF PrintersOK
<1>5. \A q \in Printers : stage'[q] # "put"
  BY <1>1 DEF PrintersOK, LockInv
<1>6. \A q \in Printers : stage'[q] = "idle" <=> todo'[q] = <<>>
  BY <1>1, <1>3 DEF PrintersOK, LockInv
<1>7. LockInv'
  BY <1>1, <1>5, <1>6 DEF LockInv
<1>8. \A q \in Printers : stage[q] = "idle" => stage'[q] = "idle"
  BY <1>1 DEF PrintersOK
<1>9. \A u \in Users : u \in Printers
  BY DEF Printers, Threads
<1>10. WhoPrints'
  BY <1>1, <1>8, <1>9 DEF WhoPrints, Printers
<1> QED
  BY <1>1, <1>4, <1>7, <1>10, PrintingFrame

-----------------------------------------------------------------------------
(* BspKernelThread *)

\* The loader goes on to its next step while it runs itself.
LEMMA BspFrame ==
  ASSUME ThreadsOK, KernelStackExclusive, ContextInv, BspRuns, BspGoesOn,
         UNCHANGED <<running, cpu, ctxt, inCall, vector, halted>>,
         alive' \subseteq Threads, Bsp \in alive'
  PROVE  ThreadsOK' /\ KernelStackExclusive' /\ ContextInv'
<1>1. \A t \in Threads : at'[t] \in Nat \ {0} /\ (t # Bsp => at'[t] = at[t])
  BY DEF BspGoesOn, ThreadsOK
<1>2. \A t \in Threads : Selectors(t)' = Selectors(t)
  BY <1>1 DEF Selectors
<1>3. Bsp \in Threads /\ running = Bsp
  BY DEF Threads, BspRuns
<1>4. ThreadsOK'
  <2>1. at' \in [Threads -> Nat \ {0}]
    BY <1>1 DEF BspGoesOn, ThreadsOK
  <2> QED
    BY <2>1 DEF ThreadsOK
<1>5. KernelStackExclusive'
  BY DEF KernelStackExclusive
<1>6. \A t \in Threads \ {running'} : ctxt'[t] = Selectors(t)'
  BY <1>2 DEF ContextInv
<1>7. (vector' = None /\ running' \in Threads \ inCall') =>
        cpu'.cs = Selectors(running)'.cs /\ cpu'.ss = Selectors(running)'.ss
  <2>1. Selectors(running)' = Selectors(running)
    BY <1>3 DEF Selectors
  <2> QED
    BY <2>1 DEF ContextInv
<1>8. (inCall' # {} => vector' = None)
      /\ (vector' = 13 => running' \in Users /\ at'[running'] > 1)
  BY <1>3, NamesAssumption DEF ContextInv
<1> QED
  BY <1>4, <1>5, <1>6, <1>7, <1>8 DEF ContextInv

\* A format the loader's printf is given, and the thread it adds.
LEMMA StepHere ==
  ASSUME ThreadsOK, BspRuns
  PROVE  /\ <<Step.format>> \in Seq(Formats) /\ <<Step.format>> # <<>>
         /\ Step.op = "add" => Step.thread \in Users
<1>1. at[Bsp] \in DOMAIN Script
  BY ProgramsAssumption DEF IsSequence, BspRuns, Steps, ThreadsOK, Threads
<1>2. Step = Script[at[Bsp]]
  BY DEF Step, Steps
<1>3. Step.format \in Formats
  BY <1>1, <1>2 DEF Formats
<1> QED
  BY <1>1, <1>2, <1>3, ProgramsAssumption

\* The loader's steps.
LEMMA BspKeepsInv ==
  ASSUME IInv, BspPrints \/ SysCallsInit \/ AddThread
  PROVE  IInv'
<1> USE DEF IInv, TypeOK
<1>1. BspRuns /\ BspGoesOn /\ Bsp \in Printers /\ Bsp \notin Users /\ Bsp # Handler
      /\ UNCHANGED <<running, cpu, ctxt, inCall, vector, halted>>
      /\ stage[Bsp] = "idle"
  BY NamesAssumption DEF BspPrints, SysCallsInit, AddThread, BspRuns, Printers, Threads
<1>2. alive' \subseteq Threads /\ Bsp \in alive'
  BY <1>1, StepHere DEF BspPrints, SysCallsInit, AddThread, ThreadsOK, Threads
<1>3. ThreadsOK' /\ KernelStackExclusive' /\ ContextInv'
  BY <1>1, <1>2, BspFrame
<1>4. PrintersOK' /\ LockInv' /\ \A q \in Printers \ {Bsp} : stage'[q] = stage[q]
  <2>1. CASE BspPrints
    BY <1>1, <2>1, StepHere, PrintsInv DEF BspPrints
  <2>2. CASE SysCallsInit \/ AddThread
    BY <2>2 DEF SysCallsInit, AddThread, printVars, PrintersOK, LockInv
  <2> QED
    BY <2>1, <2>2
<1>5. \A u \in Users : u \in Printers \ {Bsp}
  BY <1>1 DEF Printers, Threads
<1>6. Handler \in Printers \ {Bsp}
  BY <1>1 DEF Printers
<1>7. WhoPrints'
  BY <1>1, <1>4, <1>5, <1>6 DEF WhoPrints
<1> QED
  BY <1>3, <1>4, <1>7

-----------------------------------------------------------------------------
(* System calls and interrupts *)

\* Where an interrupt can come, and in user code, nobody is in a system call.
LEMMA NobodyInCall ==
  ASSUME KernelStackExclusive,
         Interruptible \/ \E u \in Users : InUserCode(u)
  PROVE  inCall = {} /\ vector = None
BY DEF KernelStackExclusive, Interruptible, InUserCode

\* What interrupt_handler prints waits for the lock as every message does.
LEMMA RaiseInv ==
  ASSUME PrintersOK, LockInv, WhoPrints, vector = None, NEW v \in 0 .. 255, Raise(v),
         inCall' = inCall
  PROVE  PrintersOK' /\ LockInv' /\ WhoPrints' /\ vector' = v /\ vector' # None
<1> DEFINE messages == IF v < 32 THEN PanicMessages ELSE UnhandledMessages
<1>1. messages \in Seq(Formats) /\ messages # <<>>
  BY MessagesAssumption
<1>2. Handler \in Printers /\ stage[Handler] = "idle"
  BY DEF Printers, WhoPrints
<1>3. Prints(Handler, messages) /\ vector' = v
  BY DEF Raise
<1> HIDE DEF messages
<1>4. PrintersOK' /\ LockInv' /\ \A q \in Printers \ {Handler} : stage'[q] = stage[q]
  BY <1>1, <1>2, <1>3, PrintsInv
<1>5. \A u \in Users : u \in Printers \ {Handler}
  BY NamesAssumption DEF Printers, Threads
<1>6. vector' # None
  BY <1>3, NamesAssumption
<1> QED
  BY <1>3, <1>4, <1>5, <1>6 DEF WhoPrints

\* An exception or interrupt ends in interrupt_handler, in the thread it came to.
LEMMA PanicInv ==
  ASSUME IInv, Interruptible \/ \E u \in Users : InUserCode(u),
         NEW v \in (0 .. 255) \ {13}, Raise(v),
         cpu' = [cpu EXCEPT !.if = FALSE],
         UNCHANGED <<running, ctxt, alive, at, inCall, halted>>
  PROVE  IInv'
<1> USE DEF IInv, TypeOK
<1>1. inCall = {} /\ vector = None
  BY NobodyInCall
<1>2. PrintersOK' /\ LockInv' /\ WhoPrints' /\ vector' = v /\ vector' # None
  BY <1>1, RaiseInv
<1>3. cpu' \in [cs : Nat, ss : Nat, if : BOOLEAN]
  BY DEF ThreadsOK
<1>4. ThreadsOK'
  BY <1>2, <1>3 DEF ThreadsOK
<1>5. KernelStackExclusive'
  BY <1>1 DEF KernelStackExclusive
<1>6. ContextInv'
  BY <1>1, <1>2 DEF ContextInv, Selectors
<1> QED
  BY <1>2, <1>4, <1>5, <1>6

\* What a thread goes into the kernel with.
LEMMA EnterInv ==
  ASSUME IInv, NEW u \in Users, InUserCode(u), at[u] <= Len(Calls[u]), Enter(u),
         UNCHANGED <<running, ctxt, at, halted>>
  PROVE  IInv'
<1> USE DEF IInv, TypeOK
<1>1. inCall = {} /\ vector = None /\ running = u /\ inCall' = {u} /\ vector' = None
  BY NobodyInCall DEF InUserCode, Enter
<1>2. u \in Printers /\ u \in Threads /\ u # Bsp /\ u # Handler /\ stage[u] = "idle"
  BY <1>1, NamesAssumption DEF WhoPrints, Printers, Threads
<1>3. alive' \subseteq Threads /\ Bsp \in alive'
  BY <1>2 DEF Enter, ThreadsOK
<1>4. PrintersOK' /\ LockInv' /\ \A q \in Printers \ {u} : stage'[q] = stage[q]
  <2>1. CASE Call(u).op = "putc"
    <3> DEFINE format == <<Char(Call(u).char)>>
    <3>1. at[u] \in DOMAIN Calls[u]
      BY <1>2, ProgramsAssumption DEF IsSequence, ThreadsOK
    <3>2. format \in {<<Char(Calls[u][i].char)>> : i \in DOMAIN Calls[u]}
      BY <3>1 DEF Call
    <3>3. format \in Formats
      BY <3>2 DEF Formats
    <3>4. Prints(u, <<format>>)
      BY <2>1 DEF Enter
    <3> HIDE DEF format
    <3>5. <<format>> \in Seq(Formats) /\ <<format>> # <<>>
      BY <3>3
    <3> QED
      BY <1>2, <3>4, <3>5, PrintsInv
  <2>2. CASE Call(u).op # "putc"
    BY <2>2 DEF Enter, printVars, PrintersOK, LockInv
  <2> QED
    BY <2>1, <2>2
<1>5. ThreadsOK'
  BY <1>1, <1>3, SyscallMasks DEF ThreadsOK, Enter
<1>6. WhoPrints'
  <2>1. stage'[Handler] = "idle"
    BY <1>1, <1>2, <1>4 DEF WhoPrints, Printers
  <2>2. \A t \in Users \ {u} : stage'[t] = "idle"
    BY <1>1, <1>4 DEF WhoPrints, Printers, Threads
  <2> QED
    BY <1>1, <2>1, <2>2 DEF WhoPrints
<1>7. KernelStackExclusive'
  BY <1>1, SyscallMasks DEF KernelStackExclusive, Enter
<1>8. ContextInv'
  BY <1>1, <1>2, NamesAssumption DEF ContextInv, Selectors
<1> QED
  BY <1>4, <1>5, <1>6, <1>7, <1>8

\* syscall.
LEMMA SyscallInv ==
  ASSUME IInv, NEW u \in Users, Syscall(u)
  PROVE  IInv'
<1>1. CASE enabled
  BY <1>1, EnterInv DEF Syscall
<1>2. CASE ~enabled
  <2>1. Undefined /\ InUserCode(u) /\ UNCHANGED <<running, ctxt, at, halted>>
    BY <1>2 DEF Syscall
  <2>2. Raise(6) /\ cpu' = [cpu EXCEPT !.if = FALSE] /\ UNCHANGED <<alive, inCall>>
    BY <2>1 DEF Undefined
  <2> QED
    BY <2>1, <2>2, PanicInv
<1> QED
  BY <1>1, <1>2

\* sysret: the thread goes on with selectors iretq will refuse.
LEMMA SysretInv ==
  ASSUME IInv, NEW u \in Users, Sysret(u)
  PROVE  IInv'
<1> USE DEF IInv, TypeOK
<1>1. /\ running = u /\ inCall = {u} /\ inCall' = {} /\ vector = None /\ stage[u] = "idle"
      /\ at' = [at EXCEPT ![u] = @ + 1]
      /\ UNCHANGED <<running, ctxt, alive, vector, halted>>
      /\ cpu' = [cs |-> 35, ss |-> 27, if |-> TRUE]
  BY SysretSelectors DEF Sysret, KernelStackExclusive
<1>2. u \in Threads /\ u # Bsp
  BY NamesAssumption DEF Threads
<1>3. /\ at' \in [Threads -> Nat \ {0}] /\ at'[u] > 1
      /\ \A t \in Threads \ {u} : at'[t] = at[t]
  <2>1. at \in [Threads -> Nat \ {0}]
    BY DEF ThreadsOK
  <2>2. at[u] + 1 \in Nat \ {0} /\ at[u] + 1 > 1
    BY <1>2, <2>1
  <2>3. at' = [at EXCEPT ![u] = at[u] + 1]
    BY <1>1
  <2> HIDE <1>1
  <2> QED
    BY <1>2, <2>1, <2>2, <2>3
<1>4. cpu' \in [cs : Nat, ss : Nat, if : BOOLEAN]
  BY <1>1
<1>5. ThreadsOK'
  BY <1>1, <1>3, <1>4 DEF ThreadsOK
<1>6. PrintersOK' /\ LockInv'
  BY DEF Sysret, printVars, PrintersOK, LockInv
<1>7. WhoPrints'
  BY <1>1 DEF Sysret, printVars, WhoPrints
<1>8. KernelStackExclusive'
  BY <1>1 DEF KernelStackExclusive
<1>9. \A t \in Threads \ {u} : ctxt'[t] = Selectors(t)'
  <2>1. \A t \in Threads \ {u} : Selectors(t)' = Selectors(t)
    BY <1>3 DEF Selectors
  <2> QED
    BY <1>1, <2>1 DEF ContextInv
<1>10. Selectors(u)' = [cs |-> 35, ss |-> 27]
  BY <1>2, <1>3 DEF Selectors
<1>11. ContextInv'
  BY <1>1, <1>9, <1>10, NamesAssumption DEF ContextInv
<1> QED
  BY <1>5, <1>6, <1>7, <1>8, <1>11

\* The tick leaves each thread that does not run its selectors.
LEMMA SavedSelectors ==
  ASSUME IInv, Interruptible
  PROVE  \A t \in Threads : SavedCtxt[t] = Selectors(t)
<1> USE DEF IInv, TypeOK
<1>1. inCall = {} /\ vector = None
  BY NobodyInCall
<1>2. CASE running = Boot
  BY <1>2, NamesAssumption DEF SavedCtxt, ContextInv
<1>3. CASE running # Boot
  <2> DEFINE c == [cs |-> cpu.cs, ss |-> cpu.ss]
  <2>1. running \in Threads
    BY <1>3 DEF ThreadsOK
  <2>2. SavedCtxt = [ctxt EXCEPT ![running] = c]
    BY <1>3 DEF SavedCtxt
  <2>3. cpu.cs = Selectors(running).cs /\ cpu.ss = Selectors(running).ss
    BY <1>1, <2>1 DEF ContextInv
  <2>4. Selectors(running) \in [cs : Nat, ss : Nat]
    BY <2>1, SelectorsResumable
  <2>5. c = Selectors(running)
    BY <2>3, <2>4
  <2> HIDE DEF c
  <2> QED
    BY <2>1, <2>2, <2>5 DEF ContextInv, ThreadsOK
<1> QED
  BY <1>2, <1>3

\* A tick: the thread it picks is resumed, or is one iretq refuses.
LEMMA TickInv ==
  ASSUME IInv, NEW t \in Threads, Tick(t)
  PROVE  IInv'
<1> USE DEF IInv, TypeOK
<1> DEFINE S == SavedCtxt
<1>1. inCall = {} /\ vector = None
  BY NobodyInCall DEF Tick
<1>2. /\ ctxt' = S /\ running' = t
      /\ UNCHANGED <<alive, at, inCall, halted>>
  BY DEF Tick
<1>3. \A r \in Threads : S[r] = Selectors(r) /\ S[r] \in [cs : Nat, ss : Nat]
  BY SavedSelectors, SelectorsResumable DEF Tick
<1>4. S \in [Threads -> [cs : Nat, ss : Nat]]
  <2>1. \E f \in [Threads -> [cs : Nat, ss : Nat]] :
          S = f \/ \E c \in [cs : Nat, ss : Nat] : S = [f EXCEPT ![running] = c]
    <3>1. [cs |-> cpu.cs, ss |-> cpu.ss] \in [cs : Nat, ss : Nat]
      BY DEF ThreadsOK
    <3> QED
      BY <3>1 DEF SavedCtxt, ThreadsOK
  <2> QED
    BY <2>1
<1>5. Selectors(t)' = Selectors(t)
  BY <1>2 DEF Selectors
<1>6. CASE Resumable(S[t])
  <2>1. /\ cpu' = [cs |-> S[t].cs, ss |-> S[t].ss, if |-> TRUE] /\ vector' = None
        /\ UNCHANGED printVars
    BY <1>6 DEF Tick
  <2>2. cpu' \in [cs : Nat, ss : Nat, if : BOOLEAN]
    BY <1>3, <2>1
  <2>3. ThreadsOK'
    BY <1>2, <1>4, <2>1, <2>2 DEF ThreadsOK
  <2>4. PrintersOK' /\ LockInv' /\ WhoPrints'
    BY <1>1, <1>2, <2>1 DEF printVars, PrintersOK, LockInv, WhoPrints
  <2>5. cpu'.cs = Selectors(t)'.cs /\ cpu'.ss = Selectors(t)'.ss
    BY <1>3, <1>5, <2>1
  <2>6. \A r \in Threads : ctxt'[r] = Selectors(r)'
    BY <1>2, <1>3 DEF Selectors
  <2>7. ContextInv'
    BY <1>1, <1>2, <2>1, <2>5, <2>6, NamesAssumption DEF ContextInv
  <2> QED
    BY <1>1, <1>2, <2>3, <2>4, <2>7 DEF KernelStackExclusive
<1>7. CASE ~Resumable(S[t])
  <2>1. cpu' = [cs |-> 8, ss |-> 16, if |-> FALSE] /\ Raise(13)
    BY <1>7 DEF Tick
  <2>2. PrintersOK' /\ LockInv' /\ WhoPrints' /\ vector' = 13 /\ vector' # None
    BY <1>1, <1>2, <2>1, RaiseInv
  <2>3. ThreadsOK'
    BY <1>2, <1>4, <2>1, <2>2 DEF ThreadsOK
  <2>4. t \in Users /\ at[t] > 1
    <3>1. t # Bsp /\ at[t] # 1
      BY <1>3, <1>7, SelectorsResumable
    <3> QED
      BY <3>1 DEF Threads, ThreadsOK
  <2>5. \A r \in Threads : ctxt'[r] = Selectors(r)'
    BY <1>2, <1>3 DEF Selectors
  <2>6. ContextInv'
    BY <1>1, <1>2, <2>2, <2>4, <2>5 DEF ContextInv
  <2> QED
    BY <1>1, <1>2, <2>2, <2>3, <2>6 DEF KernelStackExclusive
<1> QED
  BY <1>6, <1>7

\* The processor stops.
LEMMA HaltInv ==
  ASSUME IInv, HaltCatchFire
  PROVE  IInv'
<1> USE DEF IInv, TypeOK
<1>1. UNCHANGED <<running, cpu, ctxt, alive, at, inCall, vector>>
      /\ UNCHANGED <<screen_lock, stage, todo>> /\ halted' = TRUE
  BY DEF HaltCatchFire, printVars
<1>2. ThreadsOK' /\ PrintersOK' /\ LockInv' /\ WhoPrints' /\ KernelStackExclusive'
  BY <1>1 DEF ThreadsOK, PrintersOK, LockInv, WhoPrints, KernelStackExclusive
<1>3. ContextInv'
  BY <1>1 DEF ContextInv, Selectors
<1> QED
  BY <1>2, <1>3

-----------------------------------------------------------------------------

\* The initial state.
LEMMA InitInv == Init => IInv
<1> SUFFICES ASSUME Init
             PROVE  IInv
  OBVIOUS
<1> USE DEF Init
<1>1. \A t \in Threads : NewContext(t) \in [cs : Nat, ss : Nat]
  BY DEF NewContext
<1>2. ThreadsOK
  <2>1. ctxt \in [Threads -> [cs : Nat, ss : Nat]]
    BY <1>1
  <2>2. cpu \in [cs : Nat, ss : Nat, if : BOOLEAN]
    OBVIOUS
  <2>3. at \in [Threads -> Nat \ {0}]
    OBVIOUS
  <2> QED
    BY <2>1, <2>2, <2>3 DEF ThreadsOK, Threads
<1>3. PrintersOK
  <2>1. <<>> \in Seq(Formats)
    OBVIOUS
  <2> QED
    BY <2>1 DEF PrintersOK
<1>4. LockInv /\ WhoPrints /\ KernelStackExclusive
  BY DEF LockInv, WhoPrints, KernelStackExclusive, Printers, Threads
<1>5. ContextInv
  BY NamesAssumption DEF ContextInv, Selectors
<1> QED
  BY <1>2, <1>3, <1>4, <1>5 DEF IInv, TypeOK

\* Every step keeps the invariant.
LEMMA NextInv == IInv /\ [Next]_vars => IInv'
<1> SUFFICES ASSUME IInv, [Next]_vars
             PROVE  IInv'
  OBVIOUS
<1>1. CASE UNCHANGED vars
  <2> USE DEF IInv, TypeOK
  <2>1. UNCHANGED <<running, cpu, ctxt, alive, at, inCall, vector, halted>>
        /\ UNCHANGED <<screen_lock, stage, todo>>
    BY <1>1 DEF vars, printVars
  <2>2. PrintersOK' /\ LockInv' /\ WhoPrints'
    BY <2>1 DEF PrintersOK, LockInv, WhoPrints
  <2> QED
    BY <2>1, <2>2, PrintingFrame
<1>2. CASE Printing
  BY <1>2, LockKeepsInv, PutKeepsInv, UnlockKeepsInv DEF Printing
<1>3. CASE BspPrints \/ SysCallsInit \/ AddThread
  BY <1>3, BspKeepsInv
<1>4. CASE \E u \in Users : Syscall(u) \/ Sysret(u)
  BY <1>4, SyscallInv, SysretInv
<1>5. CASE \E u \in Users, v \in Faults : UserFault(u, v)
  <2>1. PICK u \in Users, v \in Faults : UserFault(u, v)
    BY <1>5
  <2>2. v \in (0 .. 255) \ {13} /\ InUserCode(u) /\ Raise(v)
        /\ cpu' = [cpu EXCEPT !.if = FALSE]
        /\ UNCHANGED <<running, ctxt, alive, at, inCall, halted>>
    BY <2>1, FaultsAssumption DEF UserFault
  <2> QED
    BY <2>2, PanicInv
<1>6. CASE \E t \in Threads : Tick(t)
  BY <1>6, TickInv
<1>7. CASE Spurious
  <2>1. Interruptible /\ Raise(255) /\ cpu' = [cpu EXCEPT !.if = FALSE]
        /\ UNCHANGED <<running, ctxt, alive, at, inCall, halted>>
    BY <1>7 DEF Spurious
  <2> QED
    BY <2>1, PanicInv
<1>8. CASE HaltCatchFire
  BY <1>8, HaltInv
<1> QED
  BY <1>1, <1>2, <1>3, <1>4, <1>5, <1>6, <1>7, <1>8 DEF Next

\* screen_lock has one holder, and the system call stack one user, whatever the
\* programs do and whenever a tick or a spurious interrupt comes
\* (Screen.cpp:240-249, Syscall.cpp:36-38, syscall.asm:4-60).
THEOREM InductiveInvariant == Spec => []IInv
BY InitInv, NextInv, PTL DEF Spec

\* iretq can resume a thread just as long as no system call of it has returned
\* (Syscall.cpp:32, task.cpp:18-19, scheduler.cpp:97-141).
THEOREM ResumableUntilTheFirstCall == Spec => []ResumableUntilCalled
<1>1. IInv => ResumableUntilCalled
  <2> SUFFICES ASSUME IInv
               PROVE  ResumableUntilCalled
    OBVIOUS
  <2>1. \A t \in Threads \ {running} : Resumable(ctxt[t]) <=> (t = Bsp \/ at[t] = 1)
    BY SelectorsResumable DEF IInv, ContextInv
  <2>2. vector = 13 => running # Bsp /\ at[running] > 1
    BY NamesAssumption DEF IInv, ContextInv
  <2> QED
    BY <2>1, <2>2 DEF ResumableUntilCalled
<1> QED
  BY <1>1, InductiveInvariant, PTL

-----------------------------------------------------------------------------
(* The cursor *)

\* f gives the column after each part of s.
ColumnOf(f, s, n) ==
  f = [i \in 0 .. n |->
        IF i = 0 \/ s[i] = Newline THEN 0
        ELSE IF s[i] = Tab THEN f[i - 1] + 4 - (f[i - 1] % 4)
        ELSE f[i - 1] + 1]

LEMMA ColumnExists ==
  ASSUME NEW s, NEW m \in Nat
  PROVE  \E f \in [0 .. m -> Nat] : ColumnOf(f, s, m)
<1> DEFINE step == [p \in Nat \X Nat |->
                      IF s[p[1]] = Newline THEN 0
                      ELSE IF s[p[1]] = Tab THEN p[2] + 4 - (p[2] % 4)
                      ELSE p[2] + 1]
<1>1. step \in [Nat \X Nat -> Nat]
  <2>1. \A k \in Nat : k + 4 - (k % 4) \in Nat /\ k + 1 \in Nat
    OBVIOUS
  <2> QED
    BY <2>1
<1>2. \A n, k \in Nat : step[<<n, k>>] = IF s[n] = Newline THEN 0
                                         ELSE IF s[n] = Tab THEN k + 4 - (k % 4)
                                         ELSE k + 1
  OBVIOUS
<1> HIDE DEF step
<1>3. PICK f \in [0 .. m -> Nat] :
        f[0] = 0 /\ \A n \in 1 .. m : f[n] = step[<<n, f[n - 1]>>]
  <2> DEFINE N == Nat
             zero == 0
  <2>1. zero \in N /\ step \in [Nat \X N -> N]
    BY <1>1
  <2> HIDE DEF N, zero
  <2>2. \E f : Follows(f, N, zero, step, m)
    BY <2>1, Recursion
  <2> QED
    BY <2>2 DEF Follows, N, zero
<1>4. \A n \in 1 .. m : f[n] = IF s[n] = Newline THEN 0
                               ELSE IF s[n] = Tab THEN f[n - 1] + 4 - (f[n - 1] % 4)
                               ELSE f[n - 1] + 1
  <2> TAKE n \in 1 .. m
  <2>1. n \in Nat /\ f[n - 1] \in Nat
    BY <1>3
  <2> QED
    BY <1>2, <1>3, <2>1
<1> DEFINE g == [i \in 0 .. m |->
                  IF i = 0 \/ s[i] = Newline THEN 0
                  ELSE IF s[i] = Tab THEN f[i - 1] + 4 - (f[i - 1] % 4)
                  ELSE f[i - 1] + 1]
<1>5. \A i \in 0 .. m : f[i] = g[i]
  BY <1>3, <1>4
<1>6. f = g
  <2>1. f = [i \in 0 .. m |-> f[i]] /\ g = [i \in 0 .. m |-> g[i]]
    OBVIOUS
  <2> HIDE DEF g
  <2> QED
    BY <1>5, <2>1
<1> QED
  BY <1>6 DEF ColumnOf

\* The column after a part of a sequence is a matter of that part.
LEMMA ColumnUnique ==
  ASSUME NEW s, NEW t, NEW n \in Nat, NEW m \in Nat, n <= m,
         NEW f, ColumnOf(f, s, n), NEW g, ColumnOf(g, t, m), Agree(s, t, n)
  PROVE  \A i \in 0 .. n : f[i] = g[i]
<1>1. f[0] = 0 /\ g[0] = 0
  BY DEF ColumnOf
<1>2. ASSUME NEW i \in 1 .. n, f[i - 1] = g[i - 1]
      PROVE  f[i] = g[i]
  <2>1. f[i] = IF s[i] = Newline THEN 0
               ELSE IF s[i] = Tab THEN f[i - 1] + 4 - (f[i - 1] % 4)
               ELSE f[i - 1] + 1
    BY DEF ColumnOf
  <2>2. g[i] = IF t[i] = Newline THEN 0
               ELSE IF t[i] = Tab THEN g[i - 1] + 4 - (g[i - 1] % 4)
               ELSE g[i - 1] + 1
    BY DEF ColumnOf
  <2> QED
    BY <1>2, <2>1, <2>2 DEF Agree
<1> QED
  BY <1>1, <1>2, AgreeAlong

LEMMA ColumnIs ==
  ASSUME NEW s, Len(s) \in Nat
  PROVE  \E f \in [0 .. Len(s) -> Nat] :
           ColumnOf(f, s, Len(s)) /\ ColumnAfter(s) = f[Len(s)]
<1> DEFINE n == Len(s)
           c == CHOOSE f : ColumnOf(f, s, n)
<1>1. PICK f \in [0 .. n -> Nat] : ColumnOf(f, s, n)
  BY ColumnExists
<1>2. ColumnAfter(s) = c[n]
  BY DEF ColumnAfter, ColumnOf
<1>3. ColumnOf(c, s, n)
  BY <1>1
<1> HIDE DEF c
<1>4. \A i \in 0 .. n : c[i] = f[i]
  BY <1>1, <1>3, ColumnUnique DEF Agree
<1> QED
  BY <1>1, <1>2, <1>4

\* What one more character does to the column.
LEMMA ColumnStep ==
  ASSUME NEW S, NEW s \in Seq(S), NEW c \in S
  PROVE  /\ ColumnAfter(s) \in Nat
         /\ ColumnAfter(Append(s, c)) =
              IF c = Newline THEN 0
              ELSE IF c = Tab THEN ColumnAfter(s) + 4 - (ColumnAfter(s) % 4)
              ELSE ColumnAfter(s) + 1
<1> DEFINE n == Len(s)
           t == Append(s, c)
<1>1. n \in Nat /\ Len(t) = n + 1 /\ t[n + 1] = c /\ \A i \in 1 .. n : s[i] = t[i]
  OBVIOUS
<1> HIDE DEF t
<1>2. PICK f : f \in [0 .. n -> Nat] /\ ColumnOf(f, s, n) /\ ColumnAfter(s) = f[n]
  BY <1>1, ColumnIs
<1>3. PICK g : ColumnOf(g, t, n + 1) /\ ColumnAfter(t) = g[n + 1]
  <2>1. Len(t) \in Nat
    BY <1>1
  <2> QED
    BY <1>1, <2>1, ColumnIs
<1>4. g[n] = f[n]
  <2> DEFINE m == n + 1
  <2>1. m \in Nat /\ n <= m /\ n \in Nat /\ ColumnOf(f, s, n) /\ ColumnOf(g, t, m)
        /\ Agree(s, t, n)
    BY <1>1, <1>2, <1>3 DEF Agree
  <2> HIDE DEF n, m
  <2>2. \A i \in 0 .. n : f[i] = g[i]
    BY <2>1, ColumnUnique
  <2>3. n \in 0 .. n
    BY <2>1
  <2> QED
    BY <2>2, <2>3
<1>5. g[n + 1] = IF t[n + 1] = Newline THEN 0
                 ELSE IF t[n + 1] = Tab THEN g[n] + 4 - (g[n] % 4)
                 ELSE g[n] + 1
  <2> DEFINE i == n + 1
  <2>1. i \in 0 .. (n + 1) /\ i # 0 /\ i - 1 = n
    BY <1>1
  <2> HIDE DEF i
  <2>2. g[i] = IF t[i] = Newline THEN 0
               ELSE IF t[i] = Tab THEN g[i - 1] + 4 - (g[i - 1] % 4)
               ELSE g[i - 1] + 1
    BY <1>3, <2>1 DEF ColumnOf
  <2> QED
    BY <2>1, <2>2 DEF i
<1> QED
  BY <1>1, <1>2, <1>3, <1>4, <1>5 DEF t

LEMMA ColumnNone == ColumnAfter(<<>>) = 0
<1>1. Len(<<>>) = 0
  OBVIOUS
<1>2. PICK f \in [0 .. 0 -> Nat] : ColumnOf(f, <<>>, 0) /\ ColumnAfter(<<>>) = f[0]
  BY <1>1, ColumnIs
<1> QED
  BY <1>2 DEF ColumnOf

\* And to the row.
LEMMA RowStep ==
  ASSUME NEW S, NEW s \in Seq(S), NEW c \in S
  PROVE  /\ RowAfter(s) \in Nat
         /\ RowAfter(Append(s, c)) = IF c = Newline THEN RowAfter(s) + 1 ELSE RowAfter(s)
<1> DEFINE n == Len(s)
           t == Append(s, c)
           R == {i \in DOMAIN s : s[i] = Newline}
           Q == {i \in DOMAIN t : t[i] = Newline}
<1>1. /\ n \in Nat /\ Len(t) = n + 1 /\ t[n + 1] = c /\ \A i \in 1 .. n : s[i] = t[i]
      /\ DOMAIN s = 1 .. n /\ DOMAIN t = 1 .. (n + 1)
  OBVIOUS
<1> HIDE DEF t
<1>2. Q = IF c = Newline THEN R \cup {n + 1} ELSE R
  BY <1>1
<1>3. IsFiniteSet(R) /\ Cardinality(R) \in Nat
  <2>1. IsFiniteSet(1 .. n) /\ R \in SUBSET (1 .. n)
    BY <1>1, FS_Interval
  <2>2. IsFiniteSet(R)
    BY <2>1, FS_Subset
  <2> HIDE DEF R
  <2> QED
    BY <2>2, FS_CardinalityType
<1>4. n + 1 \notin R
  BY <1>1
<1>5. RowAfter(s) = Cardinality(R) /\ RowAfter(t) = Cardinality(Q)
  BY DEF RowAfter
<1> HIDE DEF R, Q
<1>6. Cardinality(R \cup {n + 1}) = Cardinality(R) + 1
  BY <1>3, <1>4, FS_AddElement
<1> QED
  BY <1>2, <1>3, <1>5, <1>6 DEF t

LEMMA RowNone == RowAfter(<<>>) = 0
<1>1. {i \in DOMAIN <<>> : <<>>[i] = Newline} = {}
  OBVIOUS
<1> QED
  BY <1>1, FS_EmptySet DEF RowAfter

-----------------------------------------------------------------------------
(* Where letters belong *)

Letters(l) == {i \in DOMAIN l : l[i] \notin {Newline, Tab}}
Place(l, i) == <<ColumnAfter(SubSeq(l, 1, i - 1)), RowAfter(SubSeq(l, 1, i - 1))>>
Places(l) == {Place(l, i) : i \in Letters(l)}

\* One more letter belongs where those before it end.
LEMMA PlacesStep ==
  ASSUME NEW S, NEW s \in Seq(S), NEW c \in S
  PROVE  Places(Append(s, c)) =
           IF c \in {Newline, Tab} THEN Places(s)
           ELSE Places(s) \cup {<<ColumnAfter(s), RowAfter(s)>>}
<1> DEFINE n == Len(s)
           t == Append(s, c)
<1>1. /\ n \in Nat /\ Len(t) = n + 1 /\ t[n + 1] = c /\ \A i \in 1 .. n : s[i] = t[i]
      /\ DOMAIN s = 1 .. n /\ DOMAIN t = 1 .. (n + 1)
  OBVIOUS
<1>2. SubSeq(t, 1, n) = s
  <2>1. t \in Seq(S)
    OBVIOUS
  <2>2. Len(SubSeq(t, 1, n)) = n /\ \A i \in 1 .. n : SubSeq(t, 1, n)[i] = t[i]
    BY <1>1, <2>1
  <2>3. SubSeq(t, 1, n) \in Seq(S)
    BY <1>1, <2>1
  <2> HIDE DEF t
  <2> QED
    BY <1>1, <2>2, <2>3, SeqEqual
<1>3. \A i \in 1 .. n : SubSeq(t, 1, i - 1) = SubSeq(s, 1, i - 1)
  <2> SUFFICES ASSUME NEW i \in 1 .. n
               PROVE  SubSeq(t, 1, i - 1) = SubSeq(s, 1, i - 1)
    OBVIOUS
  <2>1. t \in Seq(S)
    OBVIOUS
  <2> HIDE DEF t
  <2> DEFINE k == i - 1
  <2>2. k \in 0 .. n /\ k <= n + 1 /\ \A j \in 1 .. k : j \in 1 .. n
    BY <1>1
  <2> HIDE DEF k
  <2>3. Len(SubSeq(t, 1, k)) = k /\ \A j \in 1 .. k : SubSeq(t, 1, k)[j] = t[j]
    BY <1>1, <2>1, <2>2
  <2>4. Len(SubSeq(s, 1, k)) = k /\ \A j \in 1 .. k : SubSeq(s, 1, k)[j] = s[j]
    BY <1>1, <2>2
  <2>5. SubSeq(t, 1, k) \in Seq(S) /\ SubSeq(s, 1, k) \in Seq(S)
    BY <1>1, <2>1, <2>2
  <2>6. SubSeq(t, 1, k) = SubSeq(s, 1, k)
    BY <1>1, <2>2, <2>3, <2>4, <2>5, SeqEqual
  <2> QED
    BY <2>6 DEF k
<1> HIDE DEF t
<1>4. Letters(t) = IF c \in {Newline, Tab} THEN Letters(s) ELSE Letters(s) \cup {n + 1}
  BY <1>1 DEF Letters
<1>5. \A i \in Letters(s) : Place(t, i) = Place(s, i)
  BY <1>1, <1>3 DEF Letters, Place
<1>6. Place(t, n + 1) = <<ColumnAfter(s), RowAfter(s)>>
  <2>1. (n + 1) - 1 = n
    BY <1>1
  <2> QED
    BY <1>2, <2>1 DEF Place
<1>7. Places(t) = IF c \in {Newline, Tab} THEN Places(s) ELSE Places(s) \cup {Place(t, n + 1)}
  <2> HIDE DEF n
  <2> QED
    BY <1>4, <1>5 DEF Places
<1> QED
  BY <1>6, <1>7 DEF t

-----------------------------------------------------------------------------
(* Letters in place *)

\* The cursor is where the letters end, until one is drawn in the last of the
\* pixels' columns, which no letter fits in.
LettersInv ==
  /\ \E S : log \in Seq(S)
  /\ \/ drawn = Places(log) /\ x = ColumnAfter(log) /\ y = RowAfter(log)
     \/ ~(drawn \subseteq OnScreen) /\ ~(Places(log) \subseteq OnScreen)

\* Nothing is on screen there.
LEMMA LastColumn ==
  ASSUME NEW k \in Nat, k + 1 = Width, NEW r
  PROVE  <<k, r>> \notin OnScreen
<1> DEFINE q == Width \div Letter
<1>1. Width \in Nat /\ Letter \in Nat /\ Letter >= 2 /\ Width >= 1
  BY ScreenAssumption
<1>2. q \in Nat /\ q * Letter <= Width
  <2> DEFINE m == Width % Letter
  <2>1. q \in Nat /\ m \in 0 .. (Letter - 1) /\ Width = q * Letter + m
    <3>1. Letter \in Nat \ {0}
      BY <1>1
    <3> QED
      BY <1>1, <3>1, Quotient
  <2> HIDE DEF q, m
  <2> QED
    BY <1>1, <2>1
<1> HIDE DEF q
<1>3. q * 2 <= q * Letter /\ q * Letter \in Nat
  BY <1>1, <1>2
<1>4. q <= k
  BY <1>1, <1>2, <1>3
<1>5. k \notin 0 .. (q - 1)
  BY <1>2, <1>4
<1> QED
  BY <1>5 DEF OnScreen, Columns, q

\* putc draws a letter where it belongs and moves on, or wraps off the screen.
LEMMA PutLetters ==
  ASSUME LettersInv, NEW p \in Printers, Put(p)
  PROVE  LettersInv'
<1> DEFINE c == Head(left[p])
<1>1. /\ log' = Append(log, c) /\ CursorMoves(c)
      /\ drawn' = IF c \in {Newline, Tab} THEN drawn ELSE drawn \cup {<<x, y>>}
  BY DEF Put
<1> HIDE DEF c
<1>2. PICK S : log \in Seq(S)
  BY DEF LettersInv
<1> DEFINE U == S \cup {c}
<1>3. log \in Seq(U) /\ c \in U /\ Append(log, c) \in Seq(U)
  BY <1>2
<1> HIDE DEF U
<1>4. /\ ColumnAfter(log) \in Nat /\ RowAfter(log) \in Nat
      /\ ColumnAfter(log') = IF c = Newline THEN 0
                             ELSE IF c = Tab THEN ColumnAfter(log) + 4 - (ColumnAfter(log) % 4)
                             ELSE ColumnAfter(log) + 1
      /\ RowAfter(log') = IF c = Newline THEN RowAfter(log) + 1 ELSE RowAfter(log)
  BY <1>1, <1>3, ColumnStep, RowStep
<1>5. Places(log') = IF c \in {Newline, Tab} THEN Places(log)
                     ELSE Places(log) \cup {<<ColumnAfter(log), RowAfter(log)>>}
  BY <1>1, <1>3, PlacesStep
<1>6. \E T : log' \in Seq(T)
  BY <1>1, <1>3
<1> DEFINE Together == drawn = Places(log) /\ x = ColumnAfter(log) /\ y = RowAfter(log)
           Apart == ~(drawn \subseteq OnScreen) /\ ~(Places(log) \subseteq OnScreen)
<1>7. CASE Apart
  <2>1. Apart'
    <3>1. drawn \subseteq drawn' /\ Places(log) \subseteq Places(log') /\ OnScreen' = OnScreen
      BY <1>1, <1>5 DEF OnScreen, Columns, Rows
    <3> QED
      BY <1>7, <3>1
  <2> QED
    BY <1>6, <2>1 DEF LettersInv
<1>8. CASE Together
  <2>1. drawn' = Places(log')
    BY <1>1, <1>5, <1>8
  <2>2. CASE c = Newline
    <3>1. x' = 0 /\ y' = y + 1
      BY <1>1, <2>2, ScreenAssumption DEF CursorMoves, NewlineMoves
    <3>2. Together'
      BY <1>4, <1>8, <2>1, <2>2, <3>1
    <3> QED
      BY <1>6, <3>2 DEF LettersInv
  <2>3. CASE c = Tab
    <3>1. c # Newline
      BY <2>3, ScreenAssumption
    <3>2. x' = 4 * (x \div 4 + 1) /\ y' = y
      BY <1>1, <2>3, <3>1 DEF CursorMoves, TabMoves
    <3>3. x \in Nat
      BY <1>4, <1>8
    <3>4. x' = x + 4 - (x % 4)
      BY <3>2, <3>3
    <3>5. x' = ColumnAfter(log') /\ y' = RowAfter(log')
      BY <1>4, <1>8, <2>3, <3>1, <3>2, <3>4
    <3>6. Together'
      BY <2>1, <3>5
    <3> QED
      BY <1>6, <3>6 DEF LettersInv
  <2>4. CASE c \notin {Newline, Tab}
    <3>1. LetterMoves
      BY <1>1, <2>4 DEF CursorMoves
    <3>2. CASE x + 1 = Width
      <4>1. <<x, y>> \notin OnScreen
        BY <1>4, <1>8, <3>2, LastColumn
      <4>2. <<x, y>> \in drawn'
        BY <1>1, <2>4
      <4>3. Apart'
        <5>1. OnScreen' = OnScreen
          BY DEF OnScreen, Columns, Rows
        <5> QED
          BY <2>1, <4>1, <4>2, <5>1
      <4> QED
        BY <1>6, <4>3 DEF LettersInv
    <3>3. CASE x + 1 # Width
      <4>1. x' = x + 1 /\ y' = y
        BY <3>1, <3>3 DEF LetterMoves
      <4>2. Together'
        BY <1>4, <1>8, <2>1, <2>4, <4>1
      <4> QED
        BY <1>6, <4>2 DEF LettersInv
    <3> QED
      BY <3>2, <3>3
  <2> QED
    BY <2>2, <2>3, <2>4
<1> QED
  BY <1>7, <1>8 DEF LettersInv

\* Whatever goes to the screen is drawn where it belongs as long as it fits
\* (Screen.cpp:125-169).
THEOREM LettersStayInPlace == Spec => []LettersInPlace
<1>1. Init => LettersInv
  <2> SUFFICES ASSUME Init
               PROVE  LettersInv
    OBVIOUS
  <2>1. log = <<>> /\ drawn = {} /\ x = 0 /\ y = 0
    BY DEF Init
  <2>2. Places(<<>>) = {}
    BY DEF Places, Letters
  <2>3. <<>> \in Seq({})
    OBVIOUS
  <2> QED
    BY <2>1, <2>2, <2>3, ColumnNone, RowNone DEF LettersInv
<1>2. LettersInv /\ [Next]_vars => LettersInv'
  <2> SUFFICES ASSUME LettersInv, [Next]_vars
               PROVE  LettersInv'
    OBVIOUS
  <2>1. CASE \E p \in Printers : Put(p)
    BY <2>1, PutLetters
  <2>2. CASE UNCHANGED <<x, y, log, drawn>>
    BY <2>2 DEF LettersInv, OnScreen, Columns, Rows
  <2>3. (\E p \in Printers : Put(p)) \/ UNCHANGED <<x, y, log, drawn>>
    <3>1. CASE UNCHANGED vars
      BY <3>1 DEF vars, printVars
    <3>2. CASE Printing
      BY <3>2 DEF Printing, Lock, Unlock
    <3>3. CASE BspPrints \/ SysCallsInit \/ AddThread
      BY <3>3 DEF BspPrints, SysCallsInit, AddThread, Prints, printVars
    <3>4. CASE \E u \in Users : Syscall(u) \/ Sysret(u)
      BY <3>4 DEF Syscall, Sysret, Enter, Undefined, Raise, Prints, printVars
    <3>5. CASE \E u \in Users, v \in Faults : UserFault(u, v)
      BY <3>5 DEF UserFault, Raise, Prints
    <3>6. CASE \E t \in Threads : Tick(t)
      BY <3>6 DEF Tick, Raise, Prints, printVars
    <3>7. CASE Spurious \/ HaltCatchFire
      BY <3>7 DEF Spurious, HaltCatchFire, Raise, Prints, printVars
    <3> QED
      BY <3>1, <3>2, <3>3, <3>4, <3>5, <3>6, <3>7 DEF Next
  <2> QED
    BY <2>1, <2>2, <2>3
<1>3. LettersInv => LettersInPlace
  BY DEF LettersInv, LettersInPlace, Places, Place, Letters
<1> QED
  BY <1>1, <1>2, <1>3, PTL DEF Spec

-----------------------------------------------------------------------------
(* Sequences put together *)

\* What FlattenSeq comes to is the last of the running concatenations.
LEMMA FlattenIs ==
  ASSUME NEW s, Len(s) \in Nat \ {0}
  PROVE  \E f : JoinOf(f, s, Len(s)) /\ FlattenSeq(s) = f[Len(s)]
<1> DEFINE n == Len(s)
           c == CHOOSE f : JoinOf(f, s, n)
<1>1. FlattenSeq(s) = c[n]
  BY DEF FlattenSeq, JoinOf
<1>2. JoinOf(c, s, n)
  BY JoinExists
<1> HIDE DEF c
<1> QED
  BY <1>1, <1>2

LEMMA FlattenNone == FlattenSeq(<<>>) = <<>>
BY DEF FlattenSeq

LEMMA FlattenTyped ==
  ASSUME NEW S, NEW s \in Seq(Seq(S))
  PROVE  FlattenSeq(s) \in Seq(S)
<1>1. CASE Len(s) = 0
  <2>1. s = <<>>
    BY <1>1, EmptySeq
  <2>2. FlattenSeq(s) = <<>>
    BY <2>1, FlattenNone, Zenon
  <2>3. <<>> \in Seq(S)
    OBVIOUS
  <2> QED
    BY <2>2, <2>3
<1>2. CASE Len(s) # 0
  <2>1. Len(s) \in Nat \ {0} /\ Len(s) \in 1 .. Len(s)
    BY <1>2
  <2>2. PICK f : JoinOf(f, s, Len(s)) /\ FlattenSeq(s) = f[Len(s)]
    BY <2>1, FlattenIs
  <2>3. \A i \in 1 .. Len(s) : f[i] \in Seq(S) /\ Begins(s[1], f[i])
    BY <2>2, JoinTyped
  <2> QED
    BY <2>1, <2>2, <2>3
<1> QED
  BY <1>1, <1>2

\* One more sequence comes at the end.
LEMMA FlattenStep ==
  ASSUME NEW S, NEW s \in Seq(Seq(S)), NEW e \in Seq(S)
  PROVE  FlattenSeq(Append(s, e)) = FlattenSeq(s) \o e
<1> DEFINE n == Len(s)
           m == n + 1
           t == Append(s, e)
<1>1. /\ n \in Nat /\ m \in Nat /\ Len(t) = m /\ n <= m /\ t[m] = e
      /\ \A i \in 1 .. n : s[i] = t[i]
  OBVIOUS
<1> HIDE DEF t
<1>2. PICK g : JoinOf(g, t, m) /\ FlattenSeq(t) = g[m]
  <2>1. Len(t) \in Nat \ {0}
    BY <1>1
  <2> QED
    BY <1>1, <2>1, FlattenIs
<1>3. g[m] = IF m = 1 THEN e ELSE g[n] \o e
  <2>1. m \in 1 .. m /\ m - 1 = n
    BY <1>1
  <2> HIDE DEF m, n
  <2>2. g[m] = IF m = 1 THEN t[m] ELSE g[m - 1] \o t[m]
    BY <1>2, <2>1 DEF JoinOf
  <2> QED
    BY <1>1, <2>1, <2>2
<1>4. CASE n = 0
  <2>1. s = <<>> /\ FlattenSeq(s) = <<>>
    BY <1>4, FlattenNone
  <2> HIDE DEF n
  <2>2. FlattenSeq(t) = e /\ <<>> \o e = e
    BY <1>2, <1>3, <1>4
  <2> QED
    BY <2>1, <2>2 DEF t
<1>5. CASE n # 0
  <2>1. n \in Nat \ {0} /\ m # 1 /\ n \in 1 .. n
    BY <1>1, <1>5
  <2>2. PICK f : JoinOf(f, s, n) /\ FlattenSeq(s) = f[n]
    BY <2>1, FlattenIs
  <2>3. f[n] = g[n]
    <3>1. n \in Nat /\ m \in Nat /\ n <= m /\ JoinOf(f, s, n) /\ JoinOf(g, t, m)
          /\ Agree(s, t, n)
      BY <1>1, <1>2, <2>2 DEF Agree
    <3> HIDE DEF n, m
    <3>2. \A i \in 1 .. n : f[i] = g[i]
      BY <3>1, JoinUnique
    <3> QED
      BY <2>1, <3>2
  <2> HIDE DEF n, m
  <2> QED
    BY <1>2, <1>3, <2>1, <2>2, <2>3 DEF t
<1> QED
  BY <1>4, <1>5

-----------------------------------------------------------------------------
(* Powers of a base *)

PowersOf(p, base) ==
  p = [k \in 0 .. BufBytes |-> IF k = 0 THEN 1 ELSE base * p[k - 1]]

LEMMA PowersExist ==
  ASSUME NEW base \in Nat \ {0}
  PROVE  \E p \in [0 .. BufBytes -> Nat \ {0}] : PowersOf(p, base)
<1> DEFINE V == Nat \ {0}
           one == 1
           m == BufBytes
           step == [q \in Nat \X V |-> base * q[2]]
<1>1. one \in V /\ step \in [Nat \X V -> V] /\ m \in Nat
  <2>1. \A v \in V : base * v \in V
    OBVIOUS
  <2> QED
    BY <2>1, FormatsAssumption
<1>2. \A n \in Nat, v \in V : step[<<n, v>>] = base * v
  OBVIOUS
<1> HIDE DEF V, one, step, m
<1>3. PICK f : Follows(f, V, one, step, m)
  BY <1>1, Recursion
<1>4. /\ f \in [0 .. m -> V] /\ f[0] = one
      /\ \A n \in 1 .. m : f[n] = base * f[n - 1]
  <2>1. f \in [0 .. m -> V] /\ f[0] = one
    BY <1>3 DEF Follows
  <2>2. ASSUME NEW n \in 1 .. m
        PROVE  f[n] = base * f[n - 1]
    <3>1. n \in Nat /\ n - 1 \in 0 .. m
      BY <1>1
    <3>2. f[n - 1] \in V /\ f[n] = step[<<n, f[n - 1]>>]
      BY <1>3, <2>1, <3>1 DEF Follows
    <3> QED
      BY <1>2, <3>1, <3>2
  <2> QED
    BY <2>1, <2>2
<1> DEFINE g == [k \in 0 .. m |-> IF k = 0 THEN 1 ELSE base * f[k - 1]]
<1>5. \A k \in 0 .. m : f[k] = g[k]
  BY <1>1, <1>4 DEF one
<1>6. f = [k \in 0 .. m |-> f[k]] /\ g = [k \in 0 .. m |-> g[k]]
  BY <1>4
<1> HIDE DEF g
<1>7. f = g
  BY <1>5, <1>6
<1> QED
  BY <1>4, <1>7 DEF PowersOf, g, m, V

\* They grow.
LEMMA PowersAre ==
  ASSUME NEW base \in Nat \ {0}
  PROVE  /\ Powers(base)[0] = 1
         /\ \A k \in 0 .. BufBytes : Powers(base)[k] \in Nat \ {0}
         /\ \A k \in 1 .. BufBytes : Powers(base)[k] = base * Powers(base)[k - 1]
<1> DEFINE p == CHOOSE q : PowersOf(q, base)
<1>1. Powers(base) = p
  BY DEF Powers, PowersOf
<1>2. PICK f : f \in [0 .. BufBytes -> Nat \ {0}] /\ PowersOf(f, base)
  BY PowersExist
<1>3. PowersOf(p, base)
  BY <1>2
<1> HIDE DEF p
<1> DEFINE b == BufBytes
<1>7. b \in Nat
  BY FormatsAssumption
<1> HIDE DEF b
<1>4. p[0] = 1 /\ \A k \in 1 .. b : p[k] = base * p[k - 1]
  <2>1. p = [k \in 0 .. b |-> IF k = 0 THEN 1 ELSE base * p[k - 1]]
    BY <1>3 DEF PowersOf, b
  <2> QED
    BY <1>7, <2>1
<1>5. f[0] = 1 /\ \A k \in 1 .. b : f[k] = base * f[k - 1]
  <2>1. f = [k \in 0 .. b |-> IF k = 0 THEN 1 ELSE base * f[k - 1]]
    BY <1>2 DEF PowersOf, b
  <2> QED
    BY <1>7, <2>1
<1>6. \A k \in 0 .. b : p[k] = f[k]
  <2>1. \A k \in 1 .. b : p[k - 1] = f[k - 1] => p[k] = f[k]
    BY <1>4, <1>5
  <2>2. p[0] = f[0]
    BY <1>4, <1>5
  <2> QED
    BY <1>7, <2>1, <2>2, AgreeAlong
<1> QED
  BY <1>1, <1>2, <1>4, <1>6 DEF b

LEMMA PowersGrow ==
  ASSUME NEW base \in Nat \ {0}
  PROVE  \A j \in 0 .. BufBytes : \A i \in 0 .. j : Powers(base)[i] <= Powers(base)[j]
<1> DEFINE p == Powers(base)
           T == {j \in Nat : j \in 0 .. BufBytes => \A i \in 0 .. j : p[i] <= p[j]}
<1>1. /\ BufBytes \in Nat /\ \A k \in 0 .. BufBytes : p[k] \in Nat \ {0}
      /\ \A k \in 1 .. BufBytes : p[k] = base * p[k - 1]
  BY PowersAre, FormatsAssumption
<1> HIDE DEF p
<1>2. 0 \in T
  BY <1>1
<1>3. ASSUME NEW k \in Nat, k \in T
      PROVE  k + 1 \in T
  <2> DEFINE j == k + 1
  <2> SUFFICES ASSUME j \in 0 .. BufBytes, NEW i \in 0 .. j
               PROVE  p[i] <= p[j]
    OBVIOUS
  <2>1. /\ j \in 1 .. BufBytes /\ j - 1 = k /\ k \in 0 .. BufBytes
        /\ i \in 0 .. BufBytes /\ (i # j => i \in 0 .. k)
    BY <1>1
  <2> HIDE DEF j
  <2>2. p[j] = base * p[k] /\ p[k] \in Nat \ {0} /\ p[j] \in Nat /\ p[i] \in Nat
    BY <1>1, <2>1
  <2>3. p[k] <= p[j]
    <3>1. \A v \in Nat : v <= base * v
      OBVIOUS
    <3> QED
      BY <2>2, <3>1
  <2>4. i # j => p[i] <= p[k]
    BY <1>3, <2>1
  <2> QED
    BY <2>2, <2>3, <2>4
<1>4. T = Nat
  <2> HIDE DEF T
  <2>1. T \in SUBSET Nat
    BY DEF T
  <2> QED
    BY <1>2, <1>3, <2>1, NatInduct
<1> QED
  BY <1>4 DEF p

-----------------------------------------------------------------------------
(* Numbers *)

\* The number of digits of v.
Digits(v, base, n) ==
  n \in 1 .. BufBytes /\ v < Powers(base)[n] /\ (n = 1 \/ Powers(base)[n - 1] <= v)

LEMMA DigitsExist ==
  ASSUME NEW base \in Nat \ {0}, NEW v \in Nat, NEW i \in 1 .. BufBytes,
         v < Powers(base)[i]
  PROVE  \E n : Digits(v, base, n)
<1> DEFINE p == Powers(base)
           T == {k \in 1 .. BufBytes : v < p[k]}
<1>1. BufBytes \in Nat /\ \A k \in 0 .. BufBytes : p[k] \in Nat \ {0}
  BY PowersAre, FormatsAssumption
<1> HIDE DEF p
<1>2. PICK n \in T : \A k \in T : n <= k
  <2>1. T \in SUBSET Nat /\ i \in T
    BY <1>1 DEF p
  <2> HIDE DEF T
  <2> QED
    BY <2>1, LeastNat
<1>3. n = 1 \/ p[n - 1] <= v
  <2> SUFFICES ASSUME n # 1
               PROVE  p[n - 1] <= v
    OBVIOUS
  <2>1. n - 1 \in 1 .. BufBytes /\ ~(n <= n - 1) /\ n - 1 \in 0 .. BufBytes
    BY <1>1
  <2>2. n - 1 \notin T
    BY <1>2, <2>1
  <2>3. ~(v < p[n - 1]) /\ p[n - 1] \in Nat
    BY <1>1, <2>1, <2>2
  <2> QED
    BY <2>3
<1> QED
  BY <1>1, <1>2, <1>3 DEF Digits, p

LEMMA NumeralIs ==
  ASSUME NEW base \in Nat \ {0}, NEW v \in Nat, NEW i \in 1 .. BufBytes,
         v < Powers(base)[i]
  PROVE  \E n : /\ Digits(v, base, n)
                /\ Numeral(v, base) =
                     [j \in 1 .. n |-> Digit[(v \div Powers(base)[n - j]) % base]]
<1> DEFINE n == CHOOSE k \in 1 .. BufBytes :
                  v < Powers(base)[k] /\ (k = 1 \/ Powers(base)[k - 1] <= v)
<1>1. Digits(v, base, n)
  <2>1. \E k \in 1 .. BufBytes :
          v < Powers(base)[k] /\ (k = 1 \/ Powers(base)[k - 1] <= v)
    BY DigitsExist DEF Digits
  <2> QED
    BY <2>1 DEF Digits
<1>2. Numeral(v, base) = [j \in 1 .. n |-> Digit[(v \div Powers(base)[n - j]) % base]]
  BY DEF Numeral
<1> HIDE DEF n
<1> QED
  BY <1>1, <1>2

LEMMA NumeralZero ==
  ASSUME NEW base \in Nat \ {0, 1}
  PROVE  Numeral(0, base) = <<Digit[0]>>
<1> DEFINE p == Powers(base)
<1>1. /\ BufBytes \in Nat /\ BufBytes > 2 /\ p[0] = 1
      /\ \A k \in 0 .. BufBytes : p[k] \in Nat \ {0}
  BY PowersAre, FormatsAssumption
<1>2. PICK n : /\ Digits(0, base, n)
               /\ Numeral(0, base) = [j \in 1 .. n |-> Digit[(0 \div p[n - j]) % base]]
  <2> DEFINE zero == 0
             i == 1
  <2>1. zero \in Nat /\ i \in 1 .. BufBytes /\ zero < p[i] /\ base \in Nat \ {0}
    BY <1>1
  <2> HIDE DEF zero, i, p
  <2>2. \E n : /\ Digits(zero, base, n)
               /\ Numeral(zero, base) = [j \in 1 .. n |-> Digit[(zero \div p[n - j]) % base]]
    BY <2>1, NumeralIs DEF p
  <2> QED
    BY <2>2 DEF zero
<1> HIDE DEF p
<1>3. n = 1
  <2>1. n \in 1 .. BufBytes /\ (n = 1 \/ p[n - 1] <= 0)
    BY <1>2 DEF Digits, p
  <2>2. n - 1 \in 0 .. BufBytes
    BY <1>1, <2>1
  <2> QED
    BY <1>1, <2>1, <2>2
<1>4. \A j \in 1 .. 1 : (0 \div p[n - j]) % base = 0
  <2>1. \A j \in 1 .. 1 : n - j = 0
    BY <1>3
  <2>2. (0 \div 1) % base = 0
    <3>1. 0 \div 1 = 0
      OBVIOUS
    <3>2. 0 % base = 0
      OBVIOUS
    <3> QED
      BY <3>1, <3>2
  <2> QED
    BY <1>1, <2>1, <2>2
<1>5. Numeral(0, base) = [j \in 1 .. 1 |-> Digit[0]]
  BY <1>2, <1>3, <1>4
<1>6. [j \in 1 .. 1 |-> Digit[0]] = <<Digit[0]>>
  OBVIOUS
<1> QED
  BY <1>5, <1>6

-----------------------------------------------------------------------------
(* What itoa's loop leaves of a number *)

LeftOf(f, v, base, i) ==
  f = [k \in 0 .. i |-> IF k = i THEN v ELSE f[k + 1] \div base]

LEMMA LeftUnique ==
  ASSUME NEW v, NEW base, NEW i \in Nat, NEW f, LeftOf(f, v, base, i),
         NEW g, LeftOf(g, v, base, i)
  PROVE  \A k \in 0 .. i : f[k] = g[k]
<1> DEFINE a == [n \in 0 .. i |-> f[i - n]]
           b == [n \in 0 .. i |-> g[i - n]]
<1>1. \A n \in 0 .. i : i - n \in 0 .. i /\ a[n] = f[i - n] /\ b[n] = g[i - n]
  OBVIOUS
<1>2. a[0] = b[0]
  <2>1. i \in 0 .. i /\ 0 \in 0 .. i /\ i - 0 = i
    OBVIOUS
  <2>2. f[i] = v /\ g[i] = v
    BY <2>1 DEF LeftOf
  <2> HIDE DEF a, b
  <2> QED
    BY <1>1, <2>1, <2>2
<1>3. ASSUME NEW n \in 1 .. i, a[n - 1] = b[n - 1]
      PROVE  a[n] = b[n]
  <2> DEFINE k == i - n
  <2>1. /\ k \in 0 .. i /\ k # i /\ i - (n - 1) = k + 1 /\ n - 1 \in 0 .. i /\ n \in 0 .. i
    OBVIOUS
  <2>2. f[k + 1] = g[k + 1]
    <3>1. a[n - 1] = f[k + 1] /\ b[n - 1] = g[k + 1]
      <4> HIDE DEF a, b, k
      <4> QED
        BY <1>1, <2>1
    <3> HIDE DEF a, b, k
    <3> QED
      BY <1>3, <3>1
  <2> HIDE DEF k
  <2>3. f[k] = f[k + 1] \div base /\ g[k] = g[k + 1] \div base
    BY <2>1 DEF LeftOf
  <2>4. a[n] = f[k] /\ b[n] = g[k]
    <3> HIDE DEF a, b
    <3> QED
      BY <1>1, <2>1 DEF k
  <2> HIDE DEF a, b
  <2> QED
    BY <2>2, <2>3, <2>4
<1> HIDE DEF a, b
<1>4. \A n \in 0 .. i : a[n] = b[n]
  BY <1>2, <1>3, AgreeAlong
<1>5. ASSUME NEW k \in 0 .. i
      PROVE  f[k] = g[k]
  <2> DEFINE n == i - k
  <2>1. n \in 0 .. i /\ i - n = k
    OBVIOUS
  <2> HIDE DEF n
  <2> QED
    BY <1>1, <1>4, <2>1
<1> QED
  BY <1>5

\* It is the number divided by a power of the base.
LEMMA LeftIs ==
  ASSUME NEW base \in Nat \ {0}, NEW v \in Nat, NEW i \in 0 .. BufBytes
  PROVE  LeftOf([k \in 0 .. i |-> v \div Powers(base)[i - k]], v, base, i)
<1> DEFINE p == Powers(base)
           g == [k \in 0 .. i |-> v \div p[i - k]]
           h == [k \in 0 .. i |-> IF k = i THEN v ELSE g[k + 1] \div base]
<1>1. /\ BufBytes \in Nat /\ p[0] = 1 /\ \A k \in 0 .. BufBytes : p[k] \in Nat \ {0}
      /\ \A k \in 1 .. BufBytes : p[k] = base * p[k - 1]
  BY PowersAre, FormatsAssumption
<1> HIDE DEF p
<1>2. i \in Nat
  BY <1>1
<1>3. ASSUME NEW k \in 0 .. i
      PROVE  g[k] = h[k]
  <2>1. CASE k = i
    <3>1. i - k = 0 /\ v \div 1 = v
      BY <1>2, <2>1
    <3>2. g[k] = v \div p[i - k]
      OBVIOUS
    <3>3. h[k] = v
      BY <2>1
    <3> HIDE DEF g, h
    <3> QED
      BY <1>1, <3>1, <3>2, <3>3
  <2>2. CASE k # i
    <3> DEFINE m == i - k
    <3>1. m \in 1 .. BufBytes /\ i - (k + 1) = m - 1 /\ k + 1 \in 0 .. i /\ m - 1 \in 0 .. BufBytes
      BY <1>1, <1>2, <2>2
    <3>2. g[k] = v \div p[m] /\ g[k + 1] = v \div p[m - 1]
      BY <3>1
    <3>3. h[k] = g[k + 1] \div base
      BY <2>2
    <3> HIDE DEF g, h, m
    <3>4. p[m] = p[m - 1] * base /\ p[m - 1] \in Nat \ {0}
      <4> DEFINE w == p[m - 1]
      <4>1. p[m] = base * w /\ w \in Nat \ {0}
        BY <1>1, <3>1
      <4> HIDE DEF w
      <4>2. base * w = w * base
        BY <4>1
      <4> QED
        BY <4>1, <4>2 DEF w
    <3>5. (v \div p[m - 1]) \div base = v \div (p[m - 1] * base)
      BY <3>4, QuotientTwice
    <3> QED
      BY <3>2, <3>3, <3>4, <3>5
  <2> QED
    BY <2>1, <2>2
<1>4. g = [k \in 0 .. i |-> g[k]] /\ h = [k \in 0 .. i |-> h[k]]
  OBVIOUS
<1>5. g = h
  <2> HIDE DEF g, h
  <2> QED
    BY <1>3, <1>4
<1> DEFINE q == [k \in 0 .. i |-> v \div Powers(base)[i - k]]
<1>6. g = q
  BY DEF p
<1> QED
  BY <1>5, <1>6 DEF LeftOf, p

LEMMA QuotientZero ==
  ASSUME NEW a \in Nat, NEW d \in Nat \ {0}
  PROVE  a \div d # 0 <=> d <= a
<1> DEFINE q == a \div d
<1>1. q \in Nat /\ q * d <= a /\ a < q * d + d
  <2> DEFINE m == a % d
  <2>1. q \in Nat /\ m \in 0 .. (d - 1) /\ a = q * d + m
    BY Quotient
  <2> HIDE DEF q, m
  <2> QED
    BY <2>1
<1> HIDE DEF q
<1>2. q # 0 => d <= q * d
  BY <1>1
<1>3. q = 0 => q * d = 0
  OBVIOUS
<1>4. q * d \in Nat
  BY <1>1
<1> QED
  BY <1>1, <1>2, <1>3, <1>4 DEF q

\* The places the loop writes to are the last ones, as many as v has digits.
LEMMA UsedPlaces ==
  ASSUME NEW base \in Nat \ {0}, NEW v \in Nat \ {0}, NEW i \in 1 .. BufBytes,
         v < Powers(base)[i], NEW n, Digits(v, base, n)
  PROVE  /\ n \in 1 .. i
         /\ {k \in 1 .. i : v \div Powers(base)[i - k] # 0} = (i - n + 1) .. i
         /\ Cardinality((i - n + 1) .. i) = n
<1> DEFINE p == Powers(base)
<1>1. /\ BufBytes \in Nat /\ p[0] = 1 /\ \A k \in 0 .. BufBytes : p[k] \in Nat \ {0}
      /\ \A j \in 0 .. BufBytes : \A k \in 0 .. j : p[k] <= p[j]
  BY PowersAre, PowersGrow, FormatsAssumption
<1>2. v < p[i] /\ n \in 1 .. BufBytes /\ v < p[n] /\ (n = 1 \/ p[n - 1] <= v)
  BY DEF Digits
<1> HIDE DEF p
<1>3. n \in 1 .. i
  <2> SUFFICES ASSUME i < n
               PROVE  FALSE
    BY <1>1, <1>2
  <2> DEFINE m == n - 1
  <2>1. m \in 0 .. BufBytes /\ i \in 0 .. m /\ n # 1 /\ i \in 0 .. BufBytes
    BY <1>1, <1>2
  <2>2. p[m] <= v
    BY <1>2, <2>1
  <2> HIDE DEF m
  <2>3. p[i] <= p[m] /\ p[i] \in Nat /\ p[m] \in Nat
    BY <1>1, <2>1
  <2> QED
    BY <1>2, <2>2, <2>3
<1>4. ASSUME NEW k \in 1 .. i
      PROVE  v \div p[i - k] # 0 <=> k \in (i - n + 1) .. i
  <2> DEFINE m == i - k
  <2>1. m \in 0 .. BufBytes /\ (k \in (i - n + 1) .. i <=> m <= n - 1)
    BY <1>1, <1>2
  <2> HIDE DEF m
  <2>2. p[m] \in Nat \ {0} /\ p[n] \in Nat /\ n - 1 \in 0 .. BufBytes /\ n \in 0 .. BufBytes
        /\ p[n - 1] \in Nat
    BY <1>1, <1>2, <2>1
  <2>3. v \div p[m] # 0 <=> p[m] <= v
    BY <2>2, QuotientZero
  <2>4. m <= n - 1 => p[m] <= v
    <3> SUFFICES ASSUME m <= n - 1
                 PROVE  p[m] <= v
      OBVIOUS
    <3>1. CASE n = 1
      <4>1. m = 0
        BY <2>1, <3>1
      <4> QED
        BY <1>1, <4>1
    <3>2. CASE n # 1
      <4> DEFINE l == n - 1
      <4>1. l \in 0 .. BufBytes /\ m \in 0 .. l /\ p[l] <= v /\ p[l] \in Nat
        BY <1>2, <2>1, <2>2, <3>2
      <4> HIDE DEF l
      <4>2. p[m] <= p[l]
        BY <1>1, <4>1
      <4> QED
        BY <2>2, <4>1, <4>2
    <3> QED
      BY <3>1, <3>2
  <2>5. ~(m <= n - 1) => ~(p[m] <= v)
    <3> SUFFICES ASSUME ~(m <= n - 1)
                 PROVE  ~(p[m] <= v)
      OBVIOUS
    <3>1. n \in 0 .. m
      BY <1>1, <1>2, <2>1
    <3>2. p[n] <= p[m]
      BY <1>1, <2>1, <3>1
    <3> QED
      BY <1>2, <2>2, <3>2
  <2> QED
    BY <2>1, <2>3, <2>4, <2>5 DEF m
<1>5. {k \in 1 .. i : v \div p[i - k] # 0} = (i - n + 1) .. i
  <2>1. (i - n + 1) .. i \subseteq 1 .. i
    BY <1>1, <1>3
  <2> QED
    BY <1>4, <2>1
<1>6. Cardinality((i - n + 1) .. i) = n
  <2> DEFINE a == i - n + 1
  <2>1. a \in Int /\ i \in Int /\ ~(a > i) /\ i - a + 1 = n
    BY <1>1, <1>3
  <2> HIDE DEF a
  <2>2. Cardinality(a .. i) = n
    BY <2>1, FS_Interval
  <2> QED
    BY <2>2 DEF a
<1> QED
  BY <1>3, <1>5, <1>6 DEF p

\* itoa and utoa write the digits of a number.
LEMMA LoopIsNumeral ==
  ASSUME NEW base \in Nat \ {0}, NEW v \in Nat \ {0}, NEW i \in 1 .. BufBytes,
         v < Powers(base)[i]
  PROVE  Loop(v, base, i) = Numeral(v, base)
<1> DEFINE p == Powers(base)
           f == CHOOSE g : LeftOf(g, v, base, i)
           used == {k \in 1 .. i : f[k] # 0}
           q == [k \in 0 .. i |-> v \div p[i - k]]
<1>1. Loop(v, base, i) = [j \in 1 .. Cardinality(used) |->
                            Digit[f[i - Cardinality(used) + j] % base]]
  BY DEF Loop, LeftOf
<1>2. BufBytes \in Nat /\ i \in Nat /\ i \in 0 .. BufBytes
  BY FormatsAssumption
<1>3. LeftOf(q, v, base, i)
  BY <1>2, LeftIs
<1>4. LeftOf(f, v, base, i)
  <2> HIDE DEF q
  <2> QED
    BY <1>3
<1>5. \A k \in 0 .. i : f[k] = v \div p[i - k]
  <2>1. \A k \in 0 .. i : q[k] = v \div p[i - k]
    OBVIOUS
  <2> HIDE DEF f, q, p
  <2>2. \A k \in 0 .. i : f[k] = q[k]
    BY <1>2, <1>3, <1>4, LeftUnique
  <2> QED
    BY <2>1, <2>2
<1> HIDE DEF f
<1>6. PICK n : /\ Digits(v, base, n)
               /\ Numeral(v, base) = [j \in 1 .. n |-> Digit[(v \div p[n - j]) % base]]
  BY NumeralIs
<1>7. /\ n \in 1 .. i
      /\ {k \in 1 .. i : v \div p[i - k] # 0} = (i - n + 1) .. i
      /\ Cardinality((i - n + 1) .. i) = n
  BY <1>6, UsedPlaces
<1> HIDE DEF p
<1>8. used = (i - n + 1) .. i
  <2>1. used = {k \in 1 .. i : v \div p[i - k] # 0}
    BY <1>2, <1>5
  <2> HIDE DEF used
  <2> QED
    BY <1>7, <2>1
<1>9. Cardinality(used) = n
  BY <1>7, <1>8
<1>10. ASSUME NEW j \in 1 .. n
       PROVE  f[i - n + j] = v \div p[n - j]
  <2> DEFINE k == i - n + j
  <2>1. k \in 0 .. i /\ i - k = n - j
    BY <1>2, <1>7
  <2> HIDE DEF k
  <2>2. f[k] = v \div p[i - k]
    BY <1>5, <2>1
  <2> QED
    BY <2>1, <2>2 DEF k
<1> HIDE DEF used
<1>11. Loop(v, base, i) = [j \in 1 .. n |-> Digit[f[i - n + j] % base]]
  BY <1>1, <1>9
<1> QED
  BY <1>6, <1>10, <1>11

-----------------------------------------------------------------------------
(* Messages *)

\* What messages are made of.
Symbols ==
  {Digit[n] : n \in Nat} \cup {Minus} \cup Range(beyond)
    \cup UNION {{format[j].char : j \in DOMAIN format} : format \in Formats}

LEMMA SymbolsAre ==
  /\ Minus \in Symbols
  /\ \A n \in Nat : Digit[n] \in Symbols
  /\ \A format \in Formats : \A j \in Nat : j \in DOMAIN format => format[j].char \in Symbols
  /\ beyond \in Beyonds => beyond \in Seq(Symbols)
<1>1. beyond \in Beyonds => beyond \in Seq(Range(beyond))
  BY FormatsAssumption DEF IsSequence
<1>2. Range(beyond) \subseteq Symbols
  BY DEF Symbols
<1>3. beyond \in Seq(Range(beyond)) => beyond \in Seq(Symbols)
  <2> DEFINE R == Range(beyond)
             S == Symbols
  <2> SUFFICES ASSUME beyond \in Seq(R)
               PROVE  beyond \in Seq(S)
    OBVIOUS
  <2>1. R \subseteq S
    BY <1>2
  <2> HIDE DEF R, S
  <2> QED
    BY <2>1
<1>4. ASSUME NEW format \in Formats, NEW j \in Nat, j \in DOMAIN format
      PROVE  format[j].char \in Symbols
  <2>1. format[j].char \in {format[k].char : k \in DOMAIN format}
    BY <1>4
  <2> QED
    BY <2>1 DEF Symbols
<1> QED
  BY <1>1, <1>3, <1>4 DEF Symbols

LEMMA NumeralTyped ==
  ASSUME NEW base \in Nat \ {0}, NEW v \in Nat, NEW i \in 1 .. BufBytes,
         v < Powers(base)[i]
  PROVE  Numeral(v, base) \in Seq(Symbols)
<1> DEFINE p == Powers(base)
           S == Symbols
<1>1. PICK n : /\ Digits(v, base, n)
               /\ Numeral(v, base) = [j \in 1 .. n |-> Digit[(v \div p[n - j]) % base]]
  BY NumeralIs
<1>2. /\ BufBytes \in Nat /\ \A k \in 0 .. BufBytes : p[k] \in Nat \ {0}
      /\ \A k \in Nat : Digit[k] \in S
  BY PowersAre, FormatsAssumption, SymbolsAre
<1>3. n \in 1 .. BufBytes
  BY <1>1 DEF Digits
<1> HIDE DEF p, S
<1>4. ASSUME NEW j \in 1 .. n
      PROVE  Digit[(v \div p[n - j]) % base] \in S
  <2> DEFINE d == p[n - j]
             a == v \div d
  <2>1. n - j \in 0 .. BufBytes
    BY <1>2, <1>3
  <2>2. d \in Nat \ {0}
    BY <1>2, <2>1
  <2> HIDE DEF d
  <2>3. a \in Nat
    BY <2>2, Quotient
  <2> HIDE DEF a
  <2>4. a % base \in Nat
    BY <2>3, Quotient
  <2>5. Digit[a % base] \in S
    BY <1>2, <2>4
  <2> QED
    BY <2>5 DEF a, d
<1>5. [j \in 1 .. n |-> Digit[(v \div p[n - j]) % base]] \in Seq(S)
  BY <1>3, <1>4
<1> QED
  BY <1>1, <1>5 DEF S

\* What vprintf puts for a part of a format.
Converted(item) ==
  CASE item.spec = "c" -> <<item.char>>
    [] item.spec = "x" -> utoa(item.value, 16)
    [] item.spec = "u" -> utoa(item.value, 10)
    [] item.spec = "d" -> itoa(item.value, 10)

LEMMA UnsignedWritten ==
  ASSUME NEW base \in Nat \ {0, 1}, NEW v, v \in 0 .. (Powers(base)[BufBytes - 2] - 1)
  PROVE  utoa(v, base) = Numeral(v, base) /\ Numeral(v, base) \in Seq(Symbols)
<1> DEFINE i == BufBytes - 2
           p == Powers(base)
<1>1. i \in 1 .. BufBytes /\ \A k \in 0 .. BufBytes : p[k] \in Nat \ {0}
  BY PowersAre, FormatsAssumption
<1>2. v \in Nat /\ v < p[i] /\ base \in Nat \ {0}
  <2> HIDE DEF i, p
  <2>1. BufBytes \in Nat
    BY FormatsAssumption
  <2>2. p[i] \in Nat /\ v \in 0 .. (p[i] - 1)
    BY <1>1, <2>1 DEF i, p
  <2> QED
    BY <2>2
<1> HIDE DEF i
<1>3. Numeral(v, base) \in Seq(Symbols)
  BY <1>1, <1>2, NumeralTyped
<1>4. v = 0 => utoa(v, base) = Numeral(v, base)
  BY NumeralZero DEF utoa
<1>5. v # 0 => utoa(v, base) = Numeral(v, base)
  <2> SUFFICES ASSUME v # 0
               PROVE  utoa(v, base) = Numeral(v, base)
    OBVIOUS
  <2>1. v \in Nat \ {0}
    BY <1>2
  <2>2. Loop(v, base, i) = Numeral(v, base)
    BY <1>1, <1>2, <2>1, LoopIsNumeral
  <2> QED
    BY <2>2 DEF utoa, i
<1> QED
  BY <1>3, <1>4, <1>5

\* The number of a %d without its sign.
LEMMA SignedWritten ==
  ASSUME NEW v \in Nat, v < Powers(10)[BufBytes - 1]
  PROVE  /\ v # 0 => Loop(v, 10, BufBytes - 1) = Numeral(v, 10)
         /\ Numeral(v, 10) \in Seq(Symbols)
<1> DEFINE i == BufBytes - 1
           base == 10
<1>1. i \in 1 .. BufBytes /\ base \in Nat \ {0} /\ v < Powers(base)[i]
  BY FormatsAssumption
<1> HIDE DEF i, base
<1>2. Numeral(v, base) \in Seq(Symbols)
  BY <1>1, NumeralTyped
<1>3. v # 0 => Loop(v, base, i) = Numeral(v, base)
  <2> SUFFICES ASSUME v # 0
               PROVE  Loop(v, base, i) = Numeral(v, base)
    OBVIOUS
  <2>1. v \in Nat \ {0}
    OBVIOUS
  <2> QED
    BY <1>1, <2>1, LoopIsNumeral
<1> QED
  BY <1>2, <1>3 DEF i, base

LEMMA ItemWritten ==
  ASSUME beyond \in Beyonds, NEW format \in Formats, NEW j \in DOMAIN format
  PROVE  Converted(format[j]) = Written(format[j]) /\ Written(format[j]) \in Seq(Symbols)
<1> DEFINE item == format[j]
           v == item.value
<1>1. format \in Seq(Range(format)) /\ item.spec \in {"c", "x", "u", "d"} /\ Fits(item)
  BY FormatsAssumption DEF IsSequence
<1>2. item.char \in Symbols /\ beyond \in Seq(Symbols) /\ Minus \in Symbols
  <2>1. j \in Nat
    BY <1>1
  <2> QED
    BY <2>1, SymbolsAre
<1>3. 16 \in Nat \ {0, 1} /\ 10 \in Nat \ {0, 1}
  OBVIOUS
<1> HIDE DEF item
<1>4. CASE item.spec = "c"
  <2>1. Converted(item) = <<item.char>> /\ Written(item) = <<item.char>>
    BY <1>4 DEF Converted, Written
  <2> QED
    BY <1>2, <2>1 DEF item
<1>5. CASE item.spec = "x"
  <2>1. v \in 0 .. (Powers(16)[BufBytes - 2] - 1)
    BY <1>1, <1>5 DEF Fits
  <2>2. Converted(item) = utoa(v, 16) /\ Written(item) = Numeral(v, 16)
    BY <1>5 DEF Converted, Written
  <2> DEFINE base == 16
  <2>3. base \in Nat \ {0, 1} /\ v \in 0 .. (Powers(base)[BufBytes - 2] - 1)
    BY <2>1
  <2> HIDE DEF base
  <2>4. utoa(v, base) = Numeral(v, base) /\ Numeral(v, base) \in Seq(Symbols)
    BY <2>3, UnsignedWritten
  <2> QED
    BY <2>2, <2>4 DEF base, item
<1>6. CASE item.spec = "u"
  <2>1. v \in 0 .. (Powers(10)[BufBytes - 2] - 1)
    BY <1>1, <1>6 DEF Fits
  <2>2. Converted(item) = utoa(v, 10) /\ Written(item) = Numeral(v, 10)
    BY <1>6 DEF Converted, Written
  <2> DEFINE base == 10
  <2>3. base \in Nat \ {0, 1} /\ v \in 0 .. (Powers(base)[BufBytes - 2] - 1)
    BY <2>1
  <2> HIDE DEF base
  <2>4. utoa(v, base) = Numeral(v, base) /\ Numeral(v, base) \in Seq(Symbols)
    BY <2>3, UnsignedWritten
  <2> QED
    BY <2>2, <2>4 DEF base, item
<1>7. CASE item.spec = "d"
  <2>1. v \in Int /\ v < Powers(10)[BufBytes - 1] /\ -v < Powers(10)[BufBytes - 1]
    BY <1>1, <1>7 DEF Fits
  <2>2. Converted(item) = itoa(v, 10)
    BY <1>7 DEF Converted
  <2>3. CASE v = 0
    <3>1. Written(item) = Numeral(v, 10) /\ Converted(item) = <<Digit[0]>>
      BY <1>7, <2>2, <2>3 DEF Written, itoa
    <3>2. Numeral(v, 10) = <<Digit[0]>>
      BY <1>3, <2>3, NumeralZero
    <3>3. <<Digit[0]>> \in Seq(Symbols)
      BY SymbolsAre
    <3> QED
      BY <3>1, <3>2, <3>3 DEF item
  <2>4. CASE v > 0
    <3>1. Written(item) = Numeral(v, 10) \o beyond
          /\ Converted(item) = Loop(v, 10, BufBytes - 1) \o beyond
      <4>1. v # 0 /\ ~(v < 0)
        BY <2>1, <2>4
      <4>2. Written(item) = Numeral(v, 10) \o beyond
        BY <1>7, <2>4, <4>1 DEF Written
      <4>3. itoa(v, 10) = Loop(v, 10, BufBytes - 1) \o beyond
        BY <4>1 DEF itoa
      <4> QED
        BY <2>2, <4>2, <4>3
    <3>2. Loop(v, 10, BufBytes - 1) = Numeral(v, 10) /\ Numeral(v, 10) \in Seq(Symbols)
      <4>1. v \in Nat /\ v # 0
        BY <2>1, <2>4
      <4> HIDE DEF v
      <4> QED
        BY <2>1, <4>1, SignedWritten
    <3> QED
      BY <1>2, <3>1, <3>2 DEF item
  <2>5. CASE v < 0
    <3> DEFINE w == -v
    <3>1. w \in Nat /\ w # 0 /\ w < Powers(10)[BufBytes - 1]
      BY <2>1, <2>5
    <3>2. Written(item) = <<Minus>> \o Numeral(w, 10) \o beyond
          /\ Converted(item) = (<<Minus>> \o Loop(w, 10, BufBytes - 1)) \o beyond
      BY <1>7, <2>2, <2>5, <2>1 DEF Written, itoa
    <3> HIDE DEF w
    <3>3. Loop(w, 10, BufBytes - 1) = Numeral(w, 10) /\ Numeral(w, 10) \in Seq(Symbols)
      BY <3>1, SignedWritten
    <3> QED
      BY <1>2, <3>2, <3>3 DEF item
  <2> QED
    BY <2>1, <2>3, <2>4, <2>5
<1> QED
  BY <1>1, <1>4, <1>5, <1>6, <1>7

\* A message as one would write it.
WrittenOut(format) == FlattenSeq([j \in DOMAIN format |-> Written(format[j])])

\* printf puts its messages as one would write them.
LEMMA TextIsWritten ==
  ASSUME beyond \in Beyonds, NEW format \in Formats
  PROVE  Text(format) = WrittenOut(format) /\ WrittenOut(format) \in Seq(Symbols)
<1> DEFINE a == [j \in DOMAIN format |-> Converted(format[j])]
           b == [j \in DOMAIN format |-> Written(format[j])]
<1>1. a = b
  BY ItemWritten
<1>2. Text(format) = FlattenSeq(a)
  BY DEF Text, Converted
<1>3. b \in Seq(Seq(Symbols))
  <2> DEFINE n == Len(format)
  <2>1. n \in Nat /\ DOMAIN format = 1 .. n
    BY FormatsAssumption DEF IsSequence
  <2>2. \A j \in 1 .. n : Written(format[j]) \in Seq(Symbols)
    BY <2>1, ItemWritten
  <2>3. b = [j \in 1 .. n |-> Written(format[j])]
    BY <2>1
  <2> HIDE DEF b, n
  <2> QED
    BY <2>1, <2>2, <2>3
<1> HIDE DEF a, b
<1>4. FlattenSeq(b) \in Seq(Symbols)
  BY <1>3, FlattenTyped
<1> QED
  BY <1>1, <1>2, <1>4 DEF WrittenOut, b

-----------------------------------------------------------------------------
(* Output in one piece *)

\* The printer with the lock has still to put what the log lacks.
OutputInv ==
  /\ beyond \in Beyonds /\ said \in Seq(Formats) /\ log \in Seq(Symbols)
  /\ left \in [Printers -> Seq(Symbols)]
  /\ \A p \in Printers : stage[p] = "put" => log \o left[p] = Output
  /\ ~screen_lock => log = Output

\* Output is what was said, written out.
LEMMA OutputIs ==
  Output = FlattenSeq([i \in DOMAIN said |-> WrittenOut(said[i])])
BY DEF Output, WrittenOut

LEMMA OutputStep ==
  ASSUME OutputInv, NEW format \in Formats, said' = Append(said, format), beyond' = beyond
  PROVE  Output' = Output \o WrittenOut(format) /\ WrittenOut(format) \in Seq(Symbols)
<1> DEFINE W(f) == WrittenOut(f)
           n == Len(said)
           a == [i \in DOMAIN said |-> W(said[i])]
           e == W(format)
           b == [i \in DOMAIN said' |-> W(said'[i])]
           S == Symbols
<1>1. \A f \in Formats : W(f) \in Seq(S)
  BY TextIsWritten DEF OutputInv
<1>2. Output = FlattenSeq(a)
  BY OutputIs
<1>3. Output' = FlattenSeq(b)
  BY DEF Output, WrittenOut, Written
<1> HIDE DEF W, S
<1>4. /\ said \in Seq(Formats) /\ n \in Nat /\ DOMAIN said = 1 .. n
      /\ DOMAIN said' = 1 .. (n + 1) /\ said'[n + 1] = format
      /\ \A i \in 1 .. n : said'[i] = said[i]
      /\ \A i \in 1 .. n : said[i] \in Formats
  BY DEF OutputInv
<1>5. a = [i \in 1 .. n |-> W(said[i])] /\ b = [i \in 1 .. (n + 1) |-> W(said'[i])]
  BY <1>4
<1> HIDE DEF n, a, b
<1>6. a \in Seq(Seq(S)) /\ e \in Seq(S)
  BY <1>1, <1>4, <1>5
<1>7. b = Append(a, e)
  <2>1. Append(a, e) = [i \in 1 .. (n + 1) |-> IF i = n + 1 THEN e ELSE a[i]]
    BY <1>4, <1>5, <1>6
  <2>2. \A i \in 1 .. (n + 1) : W(said'[i]) = IF i = n + 1 THEN e ELSE a[i]
    BY <1>4, <1>5
  <2> HIDE DEF e
  <2> QED
    BY <1>5, <2>1, <2>2
<1> HIDE DEF e
<1>8. FlattenSeq(b) = FlattenSeq(a) \o e
  BY <1>6, <1>7, FlattenStep
<1> QED
  BY <1>2, <1>3, <1>6, <1>8 DEF e, W, S

\* What is left after the first character.
LEMMA HeadAndTail ==
  ASSUME NEW S, NEW s \in Seq(S), NEW t \in Seq(S), t # <<>>
  PROVE  /\ Append(s, Head(t)) \in Seq(S) /\ Tail(t) \in Seq(S)
         /\ Append(s, Head(t)) \o Tail(t) = s \o t
<1>1. Len(t) \in Nat \ {0} /\ Len(s) \in Nat
  BY EmptySeq
<1>2. Head(t) \in S /\ Tail(t) \in Seq(S) /\ Len(Tail(t)) = Len(t) - 1 /\ Head(t) = t[1]
      /\ \A i \in 1 .. (Len(t) - 1) : Tail(t)[i] = t[i + 1]
  BY HeadTailProperties, <1>1
<1> DEFINE u == Append(s, Head(t))
           v == u \o Tail(t)
           w == s \o t
<1>3. /\ u \in Seq(S) /\ Len(u) = Len(s) + 1 /\ u[Len(s) + 1] = Head(t)
      /\ \A i \in 1 .. Len(s) : u[i] = s[i]
  BY <1>2
<1>4. /\ v \in Seq(S) /\ Len(v) = Len(s) + Len(t)
      /\ \A i \in 1 .. Len(u) : v[i] = u[i]
      /\ \A i \in 1 .. Len(Tail(t)) : v[Len(u) + i] = Tail(t)[i]
  <2> DEFINE r == Tail(t)
  <2>1. u \in Seq(S) /\ r \in Seq(S) /\ Len(r) = Len(t) - 1
    BY <1>2, <1>3
  <2> HIDE DEF u, r
  <2>2. /\ u \o r \in Seq(S) /\ Len(u \o r) = Len(u) + Len(r)
        /\ \A i \in 1 .. Len(u) : (u \o r)[i] = u[i]
        /\ \A i \in 1 .. Len(r) : (u \o r)[Len(u) + i] = r[i]
    BY <2>1
  <2>3. Len(u \o r) = Len(s) + Len(t)
    BY <1>1, <1>3, <2>1, <2>2
  <2> QED
    BY <2>2, <2>3 DEF r
<1>5. /\ w \in Seq(S) /\ Len(w) = Len(s) + Len(t)
      /\ \A i \in 1 .. Len(s) : w[i] = s[i]
      /\ \A i \in 1 .. Len(t) : w[Len(s) + i] = t[i]
  BY Concatenated
<1> HIDE DEF u, v, w
<1>6. ASSUME NEW i \in 1 .. Len(v)
      PROVE  v[i] = w[i]
  <2>1. CASE i <= Len(s)
    BY <1>1, <1>3, <1>4, <1>5, <2>1
  <2>2. CASE i = Len(s) + 1
    <3>1. i \in 1 .. Len(u) /\ v[i] = Head(t)
      BY <1>1, <1>3, <1>4, <2>2
    <3>2. w[Len(s) + 1] = t[1]
      BY <1>1, <1>5
    <3> QED
      BY <1>2, <2>2, <3>1, <3>2
  <2>3. CASE i > Len(s) + 1
    <3> DEFINE k == i - Len(s) - 1
    <3>1. k \in 1 .. (Len(t) - 1) /\ i = Len(u) + k /\ i = Len(s) + (k + 1)
          /\ k + 1 \in 1 .. Len(t)
      BY <1>1, <1>3, <1>4, <2>3
    <3> HIDE DEF k
    <3>2. v[i] = Tail(t)[k]
      BY <1>2, <1>4, <3>1
    <3>3. w[Len(s) + (k + 1)] = t[k + 1]
      BY <1>5, <3>1
    <3> QED
      BY <1>2, <3>1, <3>2, <3>3
  <2> QED
    BY <1>1, <1>4, <2>1, <2>2, <2>3
<1>7. v = w
  BY <1>4, <1>5, <1>6, SeqEqual
<1> QED
  BY <1>2, <1>3, <1>7 DEF u, v, w

\* The lock is taken when everything said before is on the serial line.
LEMMA LockOutput ==
  ASSUME IInv, OutputInv, NEW p \in Printers, Lock(p)
  PROVE  OutputInv'
<1> DEFINE format == Head(todo[p])
<1>1. /\ stage[p] = "lock" /\ ~screen_lock /\ screen_lock' = TRUE
      /\ stage' = [stage EXCEPT ![p] = "put"]
      /\ left' = [left EXCEPT ![p] = Text(format)]
      /\ said' = Append(said, format)
      /\ UNCHANGED <<log, beyond>>
  BY DEF Lock, Free
<1>2. format \in Formats
  <2>1. todo[p] \in Seq(Formats) /\ todo[p] # <<>>
    BY <1>1 DEF IInv, TypeOK, PrintersOK, LockInv
  <2> QED
    BY <2>1, HeadTailProperties
<1> HIDE DEF format
<1>3. Output' = Output \o WrittenOut(format) /\ WrittenOut(format) \in Seq(Symbols)
      /\ Text(format) = WrittenOut(format)
  BY <1>1, <1>2, OutputStep, TextIsWritten DEF OutputInv
<1>4. left' \in [Printers -> Seq(Symbols)] /\ left'[p] = WrittenOut(format)
  BY <1>1, <1>3 DEF OutputInv
<1>5. Symbols' = Symbols
  BY <1>1 DEF Symbols
<1>6. said' \in Seq(Formats)
  BY <1>1, <1>2 DEF OutputInv
<1>7. \A q \in Printers : stage'[q] = "put" => q = p
  BY <1>1 DEF IInv, TypeOK, PrintersOK, LockInv
<1>8. log' \o left'[p] = Output'
  BY <1>1, <1>3, <1>4 DEF OutputInv
<1> QED
  BY <1>1, <1>4, <1>5, <1>6, <1>7, <1>8 DEF OutputInv

\* The output is a matter of what was said, and of what lies behind the buffer.
LEMMA OutputSame ==
  ASSUME UNCHANGED <<said, beyond>>
  PROVE  Output' = Output /\ Symbols' = Symbols
BY DEF Output, Written, Symbols

LEMMA PutOutput ==
  ASSUME IInv, OutputInv, NEW p \in Printers, Put(p)
  PROVE  OutputInv'
<1> DEFINE c == Head(left[p])
<1>1. /\ stage[p] = "put" /\ left[p] # <<>>
      /\ log' = Append(log, c)
      /\ left' = [left EXCEPT ![p] = Tail(left[p])]
      /\ UNCHANGED <<screen_lock, stage, said, beyond>>
  BY DEF Put
<1>2. Output' = Output /\ Symbols' = Symbols
  BY <1>1, OutputSame
<1>3. log \in Seq(Symbols) /\ left[p] \in Seq(Symbols) /\ log \o left[p] = Output
  BY <1>1 DEF OutputInv
<1>4. /\ log' \in Seq(Symbols) /\ Tail(left[p]) \in Seq(Symbols)
      /\ log' \o Tail(left[p]) = Output
  BY <1>1, <1>3, HeadAndTail
<1>5. left' \in [Printers -> Seq(Symbols)] /\ left'[p] = Tail(left[p])
  BY <1>1, <1>4 DEF OutputInv
<1>6. \A q \in Printers : stage'[q] = "put" => q = p
  BY <1>1 DEF IInv, LockInv
<1>7. screen_lock'
  BY <1>1 DEF IInv, LockInv
<1> QED
  BY <1>1, <1>2, <1>4, <1>5, <1>6, <1>7 DEF OutputInv

LEMMA UnlockOutput ==
  ASSUME IInv, OutputInv, NEW p \in Printers, Unlock(p)
  PROVE  OutputInv'
<1>1. /\ stage[p] = "put" /\ left[p] = <<>>
      /\ stage' = [stage EXCEPT ![p] = IF Len(todo[p]) > 1 THEN "lock" ELSE "idle"]
      /\ UNCHANGED <<left, log, said, beyond>>
  BY DEF Unlock
<1>2. Output' = Output /\ Symbols' = Symbols
  BY <1>1, OutputSame
<1>3. \A q \in Printers : stage'[q] # "put"
  BY <1>1 DEF IInv, TypeOK, PrintersOK, LockInv
<1>4. log = Output
  <2>1. log \o <<>> = Output /\ log \in Seq(Symbols)
    BY <1>1 DEF OutputInv
  <2> QED
    BY <2>1
<1> QED
  BY <1>1, <1>2, <1>3, <1>4 DEF OutputInv

\* Nothing else is put, and a printer that begins only waits for the lock.
LEMMA OtherOutput ==
  ASSUME IInv, OutputInv, UNCHANGED <<screen_lock, left, log, said, beyond>>,
         \/ stage' = stage
         \/ \E p \in Printers : stage' = [stage EXCEPT ![p] = "lock"]
  PROVE  OutputInv'
<1>1. Output' = Output /\ Symbols' = Symbols
  BY OutputSame
<1>2. \A q \in Printers : stage'[q] = "put" => stage[q] = "put"
  BY DEF IInv, TypeOK, PrintersOK
<1> QED
  BY <1>1, <1>2 DEF OutputInv

\* The steps that put nothing.
LEMMA OtherSteps ==
  ASSUME [Next]_vars, ~Printing
  PROVE  /\ UNCHANGED <<screen_lock, left, log, said, beyond>>
         /\ \/ stage' = stage
            \/ \E p \in Printers : stage' = [stage EXCEPT ![p] = "lock"]
<1>1. Bsp \in Printers /\ Handler \in Printers /\ \A u \in Users : u \in Printers
  BY DEF Printers, Threads
<1>2. CASE UNCHANGED vars
  BY <1>2 DEF vars, printVars
<1>3. CASE BspPrints \/ SysCallsInit \/ AddThread
  BY <1>1, <1>3 DEF BspPrints, SysCallsInit, AddThread, Prints, printVars
<1>4. CASE \E u \in Users : Syscall(u) \/ Sysret(u)
  <2>1. PICK u \in Users : Syscall(u) \/ Sysret(u)
    BY <1>4
  <2>2. CASE Sysret(u)
    BY <2>2 DEF Sysret, printVars
  <2>3. CASE Syscall(u)
    <3>1. beyond' = beyond
      BY <2>3 DEF Syscall
    <3>2. CASE Enter(u)
      BY <1>1, <3>1, <3>2 DEF Enter, Prints, printVars
    <3>3. CASE Undefined
      BY <1>1, <3>1, <3>3 DEF Undefined, Raise, Prints
    <3> QED
      BY <2>3, <3>2, <3>3 DEF Syscall
  <2> QED
    BY <2>1, <2>2, <2>3
<1>5. CASE \E u \in Users, v \in Faults : UserFault(u, v)
  BY <1>1, <1>5 DEF UserFault, Raise, Prints
<1>6. CASE \E t \in Threads : Tick(t)
  BY <1>1, <1>6 DEF Tick, Raise, Prints, printVars
<1>7. CASE Spurious \/ HaltCatchFire
  BY <1>1, <1>7 DEF Spurious, HaltCatchFire, Raise, Prints, printVars
<1> QED
  BY <1>2, <1>3, <1>4, <1>5, <1>6, <1>7 DEF Next

LEMMA PrefixOf ==
  ASSUME NEW S, NEW s \in Seq(S), NEW t \in Seq(S)
  PROVE  IsPrefix(s, s \o t)
<1> DEFINE w == s \o t
           n == Len(s)
<1>1. w \in Seq(S) /\ n \in Nat /\ n <= Len(w) /\ Len(w) \in Nat /\ \A i \in 1 .. n : w[i] = s[i]
  BY Concatenated
<1> HIDE DEF w
<1>2. SubSeq(w, 1, n) = SubSeq(s, 1, n)
  <2>1. /\ SubSeq(w, 1, n) \in Seq(S) /\ Len(SubSeq(w, 1, n)) = n
        /\ \A i \in 1 .. n : SubSeq(w, 1, n)[i] = w[i]
    BY <1>1
  <2>2. /\ SubSeq(s, 1, n) \in Seq(S) /\ Len(SubSeq(s, 1, n)) = n
        /\ \A i \in 1 .. n : SubSeq(s, 1, n)[i] = s[i]
    BY <1>1
  <2> QED
    BY <1>1, <2>1, <2>2, SeqEqual
<1> QED
  BY <1>1, <1>2 DEF IsPrefix, w

\* Every message comes out whole and as written, whatever the messages are and
\* wherever a tick or an exception comes (Screen.cpp:47-100, 171-249).
THEOREM OutputStaysWhole == Spec => []OutputWhole
<1>1. Init => OutputInv
  <2> SUFFICES ASSUME Init
               PROVE  OutputInv
    OBVIOUS
  <2>1. log = <<>> /\ said = <<>> /\ beyond \in Beyonds /\ ~screen_lock
        /\ left = [p \in Printers |-> <<>>] /\ stage = [p \in Printers |-> "idle"]
    BY DEF Init
  <2>2. <<>> \in Seq(Symbols) /\ <<>> \in Seq(Formats)
    OBVIOUS
  <2>3. Output = <<>>
    <3>1. [i \in DOMAIN said |-> WrittenOut(said[i])] = <<>>
      BY <2>1
    <3> QED
      BY <3>1, OutputIs, FlattenNone
  <2> QED
    BY <2>1, <2>2, <2>3 DEF OutputInv
<1>2. IInv /\ OutputInv /\ [Next]_vars => OutputInv'
  BY LockOutput, PutOutput, UnlockOutput, OtherOutput, OtherSteps DEF Printing
<1>3. IInv /\ OutputInv => OutputWhole
  <2> SUFFICES ASSUME IInv, OutputInv
               PROVE  OutputWhole
    OBVIOUS
  <2>1. <<>> \in Seq(Symbols)
    OBVIOUS
  <2>2. CASE ~screen_lock
    <3>1. log \in Seq(Symbols) /\ log = Output /\ log \o <<>> = log
      BY <2>2 DEF OutputInv
    <3> QED
      BY <2>1, <3>1, PrefixOf DEF OutputWhole
  <2>3. CASE screen_lock
    <3>1. PICK p \in Printers : stage[p] = "put"
      BY <2>3 DEF IInv, LockInv
    <3>2. log \in Seq(Symbols) /\ left[p] \in Seq(Symbols) /\ log \o left[p] = Output
      BY <3>1 DEF OutputInv
    <3>3. IsPrefix(log, Output)
      BY <3>2, PrefixOf
    <3> QED
      BY <2>3, <3>3 DEF OutputWhole
  <2> QED
    BY <2>2, <2>3
<1> QED
  BY <1>1, <1>2, <1>3, InductiveInvariant, PTL DEF Spec
=============================================================================
