-------------------------- MODULE SchedulerProofs --------------------------
(***************************************************************************)
(* Proofs about Scheduler, for every set of processors and threads.        *)
(***************************************************************************)
EXTENDS Scheduler, TLAPS

-----------------------------------------------------------------------------
(* Places in the ring *)

\* The part of QueueWellFormed that speaks of the list alone: no thread is
\* linked twice.
Distinct(s) == \A i, j \in 1 .. Len(s) : s[i] = s[j] => i = j

\* The place to move on from is a place of the ring: the running thread's.
LEMMA HereIsPlace ==
  ASSUME order \in Seq(Threads), order # <<>>, Distinct(order),
         running # Idle => running \in Range(order)
  PROVE  /\ RR!Here \in 1 .. Len(order)
         /\ running # Idle => order[RR!Here] = running
<1>1. 1 \in 1 .. Len(order)
  OBVIOUS
<1>2. CASE running = Idle
  BY <1>1, <1>2 DEF RR!Here
<1>3. CASE running # Idle
  <2>1. \E i \in DOMAIN order : order[i] = running
    BY <1>3 DEF Range
  <2>2. RR!Here \in DOMAIN order /\ order[RR!Here] = running
    BY <2>1, <1>3 DEF RR!Here
  <2> QED
    BY <2>2
<1> QED
  BY <1>2, <1>3

\* Every place is met on the way round, the last one after as many as there are.
LEMMA AheadCovers ==
  ASSUME order \in Seq(Threads), order # <<>>,
         RR!Here \in 1 .. Len(order), NEW i \in 1 .. Len(order)
  PROVE  \E j \in 1 .. Len(order) : RR!Ahead(j) = order[i]
<1> DEFINE h == RR!Here
           n == Len(order)
<1>1. n \in Nat
  OBVIOUS
<1> HIDE DEF h, n
<1>2. CASE i > h
  <2>1. i - h \in 1 .. n /\ h + (i - h) <= n /\ h + (i - h) = i
    BY <1>1, <1>2 DEF h, n
  <2> QED
    BY <2>1 DEF RR!Ahead, h, n
<1>3. CASE i <= h
  <2>1. /\ i + n - h \in 1 .. n
        /\ ~ (h + (i + n - h) <= n)
        /\ h + (i + n - h) - n = i
    BY <1>1, <1>3 DEF h, n
  <2> QED
    BY <2>1 DEF RR!Ahead, h, n
<1> QED
  BY <1>2, <1>3 DEF h, n

-----------------------------------------------------------------------------
(* What the invariant says of the handler and of AddThread *)

\* Names for the parts of QueueWellFormed.
ListPart ==
  /\ queue[curCpuCore].head = IF Len(order) = 0 THEN None ELSE order[1]
  /\ \A i \in 1 .. Len(order) :
       next[order[i]] = IF i < Len(order) THEN order[i + 1] ELSE None
  /\ Distinct(order)
TailPart ==
  Len(order) > 0 =>
    queue[curCpuCore].tail =
      IF adding = None THEN order[Len(order)]
      ELSE IF adding # None /\ "tail" \in stores THEN oldTail ELSE adding
CountPart ==
  queue[curCpuCore].num_threads =
    Len(order) + (IF adding # None /\ "link" \in stores THEN 1 ELSE 0)
               - (IF adding # None /\ "count" \in stores THEN 1 ELSE 0)
CurrentPart ==
  queue[curCpuCore].current # None => queue[curCpuCore].current \in Range(order)

LEMMA QueueParts ==
  QueueWellFormed <=> ListPart /\ TailPart /\ CountPart /\ CurrentPart
BY DEF QueueWellFormed, ListPart, TailPart, CountPart, CurrentPart, Distinct

LEMMA QueuePartsPrime ==
  QueueWellFormed' <=> ListPart' /\ TailPart' /\ CountPart' /\ CurrentPart'
BY DEF QueueWellFormed, ListPart, TailPart, CountPart, CurrentPart, Distinct

\* No pointer is a thread, and the boot context is not one.
LEMMA NoneIsNoThread == None \notin Threads /\ Idle \notin Threads
BY ThreadsAssumption DEF Contexts

\* The initial state.
LEMMA InitInv == Init => IInv
<1> SUFFICES ASSUME Init
             PROVE  IInv
  OBVIOUS
<1> USE DEF Init
<1>1. TypeOK
  <2>1. EmptyQueue \in QueueType
    BY DEF EmptyQueue, QueueType
  <2>2. queue \in [CpuIds -> QueueType]
    BY <2>1
  <2>3. /\ bspId \in BspIds
        /\ boot \in {"initialized", "added", "numbered", "on"}
        /\ next \in [Threads -> Threads \cup {None}]
        /\ canRun \in [Threads -> BOOLEAN]
    OBVIOUS
  <2>4. /\ pid \in [Threads -> Int]
        /\ ctxt \in [Threads -> Nat]
        /\ progress \in [Contexts -> Nat]
    OBVIOUS
  <2>5. processorId \in [CpuIds -> CpuIds] /\ curPid \in Nat
    BY CpusAssumption
  <2>6. /\ sched_mutex \in BOOLEAN
        /\ adding \in Threads \cup {None}
        /\ stores \subseteq {"pid", "link", "tail", "count"}
        /\ oldTail \in Threads \cup {None}
        /\ picked \in Threads \cup {None}
    OBVIOUS
  <2>7. /\ pc \in {"run", "lock", "pick", "dispatch"}
        /\ depth \in Nat
        /\ regs \in Nat
        /\ running \in Contexts
        /\ inService \in BOOLEAN
    BY DEF Contexts
  <2>8. order \in Seq(Threads)
    OBVIOUS
  <2> QED
    BY <2>2, <2>3, <2>4, <2>5, <2>6, <2>7, <2>8 DEF TypeOK
<1>2. BootInv
  BY CpusAssumption DEF BootInv, curCpuCore
<1>3. QueueWellFormed
  BY CpusAssumption DEF QueueWellFormed, EmptyQueue, curCpuCore
<1>4. AddInv
  BY DEF AddInv
<1>5. HandlerInv
  <2>1. queue[CurCpu].current = None
    BY CpusAssumption DEF CurCpu, EmptyQueue
  <2>2. canRun[BspThread]
    BY DEF Threads
  <2> QED
    BY <2>1, <2>2 DEF HandlerInv
<1>6. ContextIntegrity
  BY DEF ContextIntegrity, Contexts
<1> QED
  BY <1>1, <1>2, <1>3, <1>4, <1>5, <1>6 DEF IInv

\* What the list, the ring and the contexts are like does not change when their
\* variables do not.
LEMMA SameList ==
  ASSUME UNCHANGED <<queue, next, order, addVars>>
  PROVE  QueueWellFormed <=> QueueWellFormed'
BY DEF QueueWellFormed, addVars

LEMMA SamePassed ==
  ASSUME UNCHANGED <<order, running>>
  PROVE  /\ \A j : RR!Ahead(j)' = RR!Ahead(j)
         /\ canRun' = canRun => \A k : Passed(k)' <=> Passed(k)
<1>1. RR!Here' = RR!Here
  BY DEF RR!Here
<1>2. ASSUME NEW j
      PROVE  RR!Ahead(j)' = RR!Ahead(j)
  BY <1>1 DEF RR!Ahead
<1>3. ASSUME NEW k, canRun' = canRun
      PROVE  Passed(k)' <=> Passed(k)
  BY <1>2, <1>3 DEF Passed
<1> QED
  BY <1>2, <1>3

\* Storing one field of one queue leaves all else as it was.
LEMMA CurrentStored ==
  ASSUME queue \in [CpuIds -> QueueType], NEW c \in CpuIds, NEW t \in Threads,
         queue' = [queue EXCEPT ![c].current = t]
  PROVE  /\ queue' \in [CpuIds -> QueueType]
         /\ queue'[c].current = t
         /\ queue'[c].head = queue[c].head
         /\ queue'[c].tail = queue[c].tail
         /\ queue'[c].num_threads = queue[c].num_threads
         /\ \A d \in CpuIds \ {c} : queue'[d] = queue[d]
<1> DEFINE q == queue[c]
           r == [head |-> q.head, tail |-> q.tail, current |-> t,
                 num_threads |-> q.num_threads]
<1>1. q \in QueueType
  OBVIOUS
<1>2. r \in QueueType /\ [q EXCEPT !.current = t] = r
  BY <1>1 DEF QueueType
<1>3. queue' = [queue EXCEPT ![c] = r]
  BY <1>2
<1>4. /\ r.current = t /\ r.head = q.head /\ r.tail = q.tail
      /\ r.num_threads = q.num_threads
  OBVIOUS
<1> HIDE DEF r
<1>5. /\ queue' \in [CpuIds -> QueueType]
      /\ queue'[c] = r
      /\ \A d \in CpuIds \ {c} : queue'[d] = queue[d]
  BY <1>2, <1>3
<1> QED
  BY <1>4, <1>5

LEMMA TailStored ==
  ASSUME queue \in [CpuIds -> QueueType], NEW c \in CpuIds, NEW t \in Threads,
         queue' = [queue EXCEPT ![c].tail = t]
  PROVE  /\ queue' \in [CpuIds -> QueueType]
         /\ queue'[c].tail = t
         /\ queue'[c].head = queue[c].head
         /\ queue'[c].current = queue[c].current
         /\ queue'[c].num_threads = queue[c].num_threads
         /\ \A d \in CpuIds \ {c} : queue'[d] = queue[d]
<1> DEFINE q == queue[c]
           r == [head |-> q.head, tail |-> t, current |-> q.current,
                 num_threads |-> q.num_threads]
<1>1. q \in QueueType
  OBVIOUS
<1>2. r \in QueueType /\ [q EXCEPT !.tail = t] = r
  BY <1>1 DEF QueueType
<1>3. queue' = [queue EXCEPT ![c] = r]
  BY <1>2
<1>4. /\ r.tail = t /\ r.head = q.head /\ r.current = q.current
      /\ r.num_threads = q.num_threads
  OBVIOUS
<1> HIDE DEF r
<1>5. /\ queue' \in [CpuIds -> QueueType]
      /\ queue'[c] = r
      /\ \A d \in CpuIds \ {c} : queue'[d] = queue[d]
  BY <1>2, <1>3
<1> QED
  BY <1>4, <1>5

-----------------------------------------------------------------------------
(* One lemma for each action *)

LEMMA WorkInv ==
  ASSUME IInv, Work
  PROVE  IInv'
<1> USE DEF Work, bootVars, threadVars, addVars, handlerVars
<1>1. TypeOK'
  <2>1. regs' \in Nat
    BY DEF IInv, TypeOK
  <2>2. progress \in [Contexts -> Nat] /\ running \in Contexts
    BY DEF IInv, TypeOK
  <2>3. progress' \in [Contexts -> Nat]
    BY <2>2
  <2> QED
    BY <2>1, <2>3 DEF IInv, TypeOK
<1>2. BootInv'
  BY DEF IInv, BootInv
<1>3. QueueWellFormed'
  BY SameList DEF IInv
<1>4. AddInv'
  BY DEF IInv, AddInv
<1>5. HandlerInv'
  BY DEF IInv, HandlerInv, InThread, CurCpu
<1>6. ContextIntegrity'
  BY DEF IInv, TypeOK, ContextIntegrity, Contexts
<1> QED
  BY <1>1, <1>2, <1>3, <1>4, <1>5, <1>6 DEF IInv

LEMMA NumberCpusInv ==
  ASSUME IInv, NumberCpus
  PROVE  IInv'
<1> USE DEF NumberCpus, bootVars, threadVars, addVars, handlerVars, cpuVars, ghosts
<1>1. TypeOK'
  BY DEF IInv, TypeOK, CpuNumbers
<1>2. BootInv'
  BY DEF IInv, BootInv, CpuNumbers
<1>3. QueueWellFormed'
  BY SameList DEF IInv
<1>4. AddInv'
  BY DEF IInv, AddInv
<1>5. HandlerInv'
  BY DEF IInv, HandlerInv, BootInv, CurCpu
<1>6. ContextIntegrity'
  BY DEF IInv, ContextIntegrity
<1> QED
  BY <1>1, <1>2, <1>3, <1>4, <1>5, <1>6 DEF IInv

LEMMA EnableInterruptsInv ==
  ASSUME IInv, EnableInterrupts
  PROVE  IInv'
<1> USE DEF EnableInterrupts, threadVars, addVars, handlerVars, cpuVars, ghosts
<1>1. TypeOK'
  BY DEF IInv, TypeOK
<1>2. BootInv'
  BY DEF IInv, BootInv
<1>3. QueueWellFormed'
  BY SameList DEF IInv
<1>4. AddInv'
  BY DEF IInv, AddInv
<1>5. HandlerInv'
  BY DEF IInv, HandlerInv, BootInv, CurCpu
<1>6. ContextIntegrity'
  BY DEF IInv, ContextIntegrity
<1> QED
  BY <1>1, <1>2, <1>3, <1>4, <1>5, <1>6 DEF IInv

\* Only user threads exit, and the one that exits is the one that runs.
LEMMA DeleteCurThreadInv ==
  ASSUME IInv, DeleteCurThread
  PROVE  IInv' /\ canRun' = [canRun EXCEPT ![running] = FALSE]
<1> USE DEF DeleteCurThread, bootVars, addVars, handlerVars, cpuVars, ghosts
<1>1. NextQueue = CurCpu
  BY CpusAssumption DEF IInv, BootInv, TypeOK, InThread, NextQueue, CurCpu
<1>2. queue[NextQueue].current = running
  BY <1>1, NoneIsNoThread DEF IInv, HandlerInv, InThread, Threads
<1>3. TypeOK'
  <2>1. canRun \in [Threads -> BOOLEAN]
    BY DEF IInv, TypeOK
  <2>2. canRun' \in [Threads -> BOOLEAN]
    BY <1>2, <2>1
  <2> QED
    BY <2>2 DEF IInv, TypeOK
<1>4. BootInv'
  BY DEF IInv, BootInv
<1>5. QueueWellFormed'
  BY SameList DEF IInv
<1>6. AddInv'
  BY DEF IInv, AddInv
<1>7. HandlerInv'
  <2>1. running # BspThread
    BY ThreadsAssumption
  <2>2. canRun'[BspThread]
    BY <1>2, <2>1 DEF IInv, TypeOK, HandlerInv, Threads
  <2> QED
    BY <2>2 DEF IInv, HandlerInv, InThread, CurCpu
<1>8. ContextIntegrity'
  BY DEF IInv, ContextIntegrity
<1> QED
  BY <1>2, <1>3, <1>4, <1>5, <1>6, <1>7, <1>8 DEF IInv

\* AddThread(Thread*) begins, in the kernel thread, which is in the list.
LEMMA AddCallInv ==
  ASSUME IInv, NEW t \in Users, AddCall(t)
  PROVE  IInv'
<1> USE DEF AddCall, bootVars, threadVars, handlerVars, cpuVars, ghosts
<1>1. t \in Threads /\ t # None /\ running # Idle
  BY NoneIsNoThread DEF Threads
<1>2. order # <<>> /\ Len(order) \in Nat /\ Len(order) > 0
  BY DEF IInv, TypeOK, BootInv, InThread
<1>3. TypeOK'
  BY <1>1, CpusAssumption DEF IInv, TypeOK, QueueType, curCpuCore
<1>4. BootInv'
  BY DEF IInv, BootInv, InThread
<1>5. QueueWellFormed'
  <2>1. ListPart' /\ CurrentPart'
    BY QueueParts DEF IInv, ListPart, CurrentPart, curCpuCore, Distinct
  <2>2. TailPart'
    BY <1>1, <1>2, QueueParts DEF IInv, TailPart, curCpuCore
  <2>3. CountPart'
    BY <1>1, <1>2, QueueParts DEF IInv, CountPart, curCpuCore
  <2> QED
    BY <2>1, <2>2, <2>3, QueuePartsPrime
<1>6. AddInv'
  BY <1>1, <1>2, QueueParts DEF IInv, AddInv, TailPart
<1>7. HandlerInv'
  BY DEF IInv, HandlerInv, InThread, CurCpu
<1>8. ContextIntegrity'
  BY DEF IInv, ContextIntegrity
<1> QED
  BY <1>3, <1>4, <1>5, <1>6, <1>7, <1>8 DEF IInv

\* The thread being added is a thread, and the list it joins is not empty.
LEMMA Adding ==
  ASSUME IInv, adding # None
  PROVE  /\ adding \in Threads
         /\ order \in Seq(Threads) /\ Len(order) \in Nat /\ Len(order) > 0
         /\ order[Len(order)] \in Threads /\ order[Len(order)] # None
<1>1. adding \in Threads
  BY DEF IInv, TypeOK
<1>2. order \in Seq(Threads) /\ order # <<>>
  BY DEF IInv, TypeOK, AddInv
<1>3. Len(order) \in Nat /\ Len(order) > 0
  BY <1>2
<1>4. order[Len(order)] \in Threads
  BY <1>2, <1>3
<1> QED
  BY <1>1, <1>2, <1>3, <1>4, NoneIsNoThread

\* A store is pending only while a thread is being added.
LEMMA StoreAdds ==
  ASSUME IInv, NEW s, Store(s)
  PROVE  adding # None
BY DEF IInv, AddInv, Store

LEMMA StorePidInv ==
  ASSUME IInv, StorePid
  PROVE  IInv'
<1> USE DEF StorePid, Store, bootVars, handlerVars, cpuVars
<1>1. adding \in Threads /\ adding # None
  BY Adding DEF IInv, AddInv
<1>2. TypeOK'
  BY <1>1 DEF IInv, TypeOK
<1>3. BootInv'
  BY DEF IInv, BootInv
<1>4. QueueWellFormed'
  BY QueueParts, QueuePartsPrime DEF IInv, ListPart, TailPart, CountPart, CurrentPart, Distinct
<1>5. AddInv'
  BY <1>1 DEF IInv, AddInv
<1>6. HandlerInv'
  BY DEF IInv, HandlerInv, InThread, CurCpu
<1>7. ContextIntegrity'
  BY DEF IInv, ContextIntegrity
<1> QED
  BY <1>2, <1>3, <1>4, <1>5, <1>6, <1>7 DEF IInv

LEMMA StoreTailInv ==
  ASSUME IInv, StoreTail
  PROVE  IInv'
<1> USE DEF StoreTail, Store, bootVars, handlerVars, cpuVars
<1>1. adding \in Threads /\ adding # None
  BY Adding DEF IInv, AddInv
<1>2. /\ queue' \in [CpuIds -> QueueType]
      /\ queue'[curCpuCore].tail = adding
      /\ queue'[curCpuCore].head = queue[curCpuCore].head
      /\ queue'[curCpuCore].current = queue[curCpuCore].current
      /\ queue'[curCpuCore].num_threads = queue[curCpuCore].num_threads
      /\ \A c \in CpuIds \ {curCpuCore} : queue'[c] = queue[c]
      /\ queue'[CurCpu].current = queue[CurCpu].current
  <2>1. /\ curCpuCore \in CpuIds /\ CurCpu \in CpuIds
        /\ queue \in [CpuIds -> QueueType]
    BY CpusAssumption DEF IInv, TypeOK, curCpuCore, CurCpu
  <2>2. queue' = [queue EXCEPT ![curCpuCore].tail = adding]
    OBVIOUS
  <2> HIDE DEF StoreTail, Store
  <2> QED
    BY <1>1, <2>1, <2>2, TailStored
<1>3. TypeOK'
  <2>1. stores' \subseteq {"pid", "link", "tail", "count"}
    BY DEF IInv, TypeOK
  <2> QED
    BY <1>2, <2>1 DEF IInv, TypeOK
<1>4. BootInv'
  BY <1>2 DEF IInv, BootInv, InThread
<1>5. QueueWellFormed'
  <2>1. /\ queue'[curCpuCore].head = queue[curCpuCore].head
        /\ queue'[curCpuCore].current = queue[curCpuCore].current
        /\ queue'[curCpuCore].num_threads = queue[curCpuCore].num_threads
        /\ queue'[curCpuCore].tail = adding
    BY <1>2
  <2>2. /\ ListPart' /\ CurrentPart' /\ CountPart'
    BY <2>1, QueueParts DEF IInv, ListPart, CurrentPart, CountPart, Distinct, curCpuCore
  <2>3. TailPart'
    BY <2>1, <1>1 DEF TailPart, curCpuCore
  <2> QED
    BY <2>2, <2>3, QueuePartsPrime
<1>6. AddInv'
  BY <1>1 DEF IInv, AddInv
<1>7. HandlerInv'
  BY <1>2 DEF IInv, HandlerInv, InThread, CurCpu
<1>8. ContextIntegrity'
  BY DEF IInv, ContextIntegrity
<1> QED
  BY <1>3, <1>4, <1>5, <1>6, <1>7, <1>8 DEF IInv

LEMMA StoreCountInv ==
  ASSUME IInv, StoreCount
  PROVE  IInv'
<1> USE DEF StoreCount, Store, bootVars, handlerVars, cpuVars
<1>1. adding \in Threads /\ adding # None
  BY Adding DEF IInv, AddInv
<1>2. /\ queue[curCpuCore] \in QueueType
      /\ queue'[curCpuCore] =
           [queue[curCpuCore] EXCEPT !.num_threads = queue[curCpuCore].num_threads + 1]
      /\ \A c \in CpuIds \ {curCpuCore} : queue'[c] = queue[c]
      /\ queue'[CurCpu].current = queue[CurCpu].current
  BY CpusAssumption DEF IInv, TypeOK, curCpuCore, CurCpu, QueueType
<1>3. TypeOK'
  <2>1. queue'[curCpuCore] \in QueueType
    BY <1>2 DEF QueueType
  <2>2. queue' \in [CpuIds -> QueueType]
    BY <1>2, <2>1, CpusAssumption DEF IInv, TypeOK, curCpuCore
  <2> QED
    BY <2>2 DEF IInv, TypeOK
<1>4. BootInv'
  BY <1>2 DEF IInv, BootInv, InThread
<1>5. QueueWellFormed'
  <2>1. /\ queue'[curCpuCore].head = queue[curCpuCore].head
        /\ queue'[curCpuCore].current = queue[curCpuCore].current
        /\ queue'[curCpuCore].num_threads = queue[curCpuCore].num_threads + 1
        /\ queue'[curCpuCore].tail = queue[curCpuCore].tail
    BY <1>2 DEF QueueType
  <2>2. /\ ListPart' /\ CurrentPart' /\ TailPart'
    BY <2>1, QueueParts DEF IInv, ListPart, CurrentPart, TailPart, Distinct, curCpuCore
  <2>3. CountPart'
    <3>1. Len(order) \in Nat /\ order' = order
      BY <1>1, Adding DEF Contexts
    <3> QED
      BY <2>1, <1>1, <3>1, QueueParts DEF IInv, CountPart, curCpuCore
  <2> QED
    BY <2>2, <2>3, QueuePartsPrime
<1>6. AddInv'
  BY <1>1 DEF IInv, AddInv
<1>7. HandlerInv'
  BY <1>2 DEF IInv, HandlerInv, InThread, CurCpu
<1>8. ContextIntegrity'
  BY DEF IInv, ContextIntegrity
<1> QED
  BY <1>3, <1>4, <1>5, <1>6, <1>7, <1>8 DEF IInv

LEMMA AddReturnInv ==
  ASSUME IInv, AddReturn
  PROVE  IInv'
<1> USE DEF AddReturn, bootVars, threadVars, handlerVars, cpuVars, ghosts
<1>1. adding \in Threads /\ adding # None
  BY Adding
<1>2. TypeOK'
  BY DEF IInv, TypeOK
<1>3. BootInv'
  BY DEF IInv, BootInv
<1>4. QueueWellFormed'
  <2>1. ListPart' /\ CurrentPart'
    BY QueueParts DEF IInv, ListPart, CurrentPart, Distinct, curCpuCore
  <2>2. TailPart'
    BY QueueParts DEF IInv, TailPart, AddInv, curCpuCore
  <2>3. CountPart'
    BY QueueParts DEF IInv, CountPart, curCpuCore
  <2> QED
    BY <2>1, <2>2, <2>3, QueuePartsPrime
<1>5. AddInv'
  BY DEF IInv, AddInv
<1>6. HandlerInv'
  BY DEF IInv, HandlerInv, InThread, CurCpu
<1>7. ContextIntegrity'
  BY DEF IInv, ContextIntegrity
<1> QED
  BY <1>2, <1>3, <1>4, <1>5, <1>6, <1>7 DEF IInv

\* A list with one thread more.
LEMMA Appended ==
  ASSUME NEW s \in Seq(Threads), NEW t \in Threads
  PROVE  /\ Append(s, t) \in Seq(Threads)
         /\ Append(s, t) # <<>>
         /\ Len(Append(s, t)) = Len(s) + 1
         /\ Append(s, t)[Len(s) + 1] = t
         /\ \A i \in 1 .. Len(s) : Append(s, t)[i] = s[i]
         /\ Range(Append(s, t)) = Range(s) \cup {t}
         /\ \A i \in 1 .. Len(s) : s[i] \in Threads /\ s[i] \in Range(s)
<1>1. /\ Append(s, t) \in Seq(Threads)
      /\ Append(s, t) # <<>>
      /\ Len(s) \in Nat
      /\ Len(Append(s, t)) = Len(s) + 1
      /\ Append(s, t)[Len(s) + 1] = t
      /\ \A i \in 1 .. Len(s) : Append(s, t)[i] = s[i]
  OBVIOUS
<1>2. DOMAIN s = 1 .. Len(s) /\ DOMAIN Append(s, t) = 1 .. (Len(s) + 1)
  BY <1>1
<1>3. \A i : i \in 1 .. (Len(s) + 1) <=> i \in 1 .. Len(s) \/ i = Len(s) + 1
  BY <1>1
<1>4. Range(Append(s, t)) = Range(s) \cup {t}
  BY <1>1, <1>2, <1>3 DEF Range
<1>5. \A i \in 1 .. Len(s) : s[i] \in Threads /\ s[i] \in Range(s)
  BY <1>2 DEF Range
<1> QED
  BY <1>1, <1>4, <1>5

\* Linking: the old tail's `next` is the new thread, whose own is null.
LEMMA StoreLinkInv ==
  ASSUME IInv, StoreLink
  PROVE  IInv'
<1> USE DEF StoreLink, Store, bootVars, handlerVars, cpuVars
<1> DEFINE n == Len(order)
<1>1. /\ adding \in Threads /\ adding # None
      /\ order \in Seq(Threads) /\ n \in Nat /\ n > 0
      /\ order[n] \in Threads /\ order[n] # None
  BY Adding DEF IInv, AddInv
<1>2. adding \notin Range(order) /\ oldTail = order[n] /\ next[adding] = None
  BY <1>1 DEF IInv, AddInv
<1>3. /\ Len(order') = n + 1 /\ order'[n + 1] = adding
      /\ \A i \in 1 .. n : order'[i] = order[i]
      /\ Range(order') = Range(order) \cup {adding}
      /\ order' \in Seq(Threads) /\ order' # <<>>
      /\ \A i \in 1 .. n : order[i] \in Threads /\ order[i] \in Range(order)
  BY <1>1, Appended
<1>4. next' = [next EXCEPT ![order[n]] = adding] /\ next \in [Threads -> Threads \cup {None}]
  BY <1>1, <1>2 DEF LinkedNext, IInv, TypeOK
<1>5. queue' = queue
  <2>1. queue[curCpuCore].head # None
    BY <1>1, <1>3, NoneIsNoThread, QueueParts DEF IInv, ListPart
  <2>2. LinkedHead(queue[curCpuCore], adding) = queue[curCpuCore].head
    BY <2>1 DEF LinkedHead
  <2>3. queue \in [CpuIds -> QueueType] /\ curCpuCore \in CpuIds
    BY CpusAssumption DEF IInv, TypeOK, curCpuCore
  <2>4. [queue[curCpuCore] EXCEPT !.head = queue[curCpuCore].head] = queue[curCpuCore]
    BY <2>3 DEF QueueType
  <2>5. queue' = [queue EXCEPT ![curCpuCore] = [queue[curCpuCore] EXCEPT !.head = queue[curCpuCore].head]]
    BY <2>2
  <2> QED
    BY <2>3, <2>4, <2>5
<1>6. TypeOK'
  <2>1. next' \in [Threads -> Threads \cup {None}]
    BY <1>1, <1>4
  <2>2. stores' \subseteq {"pid", "link", "tail", "count"}
    BY DEF IInv, TypeOK
  <2> QED
    BY <1>3, <1>5, <2>1, <2>2 DEF IInv, TypeOK
<1>7. BootInv'
  BY <1>1, <1>3, <1>5 DEF IInv, BootInv, InThread
<1>8. Distinct(order) /\ Distinct(order)'
  <2>1. Distinct(order)
    BY QueueParts DEF IInv, ListPart
  <2>2. \A i \in 1 .. (n + 1) : i \in 1 .. n \/ i = n + 1
    BY <1>1
  <2>3. \A i \in 1 .. n : order'[i] # adding
    BY <1>2, <1>3
  <2> QED
    BY <2>1, <2>2, <2>3, <1>3 DEF Distinct
<1>9. QueueWellFormed'
  <2>1. ListPart'
    <3>1. queue'[curCpuCore].head = order'[1] /\ Len(order') # 0
      <4>1. 1 \in 1 .. n /\ Len(order) # 0 /\ n + 1 # 0
        BY <1>1
      <4>2. queue[curCpuCore].head = order[1]
        BY <4>1, QueueParts DEF IInv, ListPart
      <4> QED
        BY <4>1, <4>2, <1>3, <1>5
    <3>2. ASSUME NEW i \in 1 .. (n + 1)
          PROVE  next'[order'[i]] = IF i < n + 1 THEN order'[i + 1] ELSE None
      <4>1. CASE i = n + 1
        BY <4>1, <1>1, <1>2, <1>3, <1>4
      <4>2. CASE i = n
        BY <4>2, <1>1, <1>3, <1>4
      <4>3. CASE i < n
        <5>1. i \in 1 .. n /\ n \in 1 .. n /\ i + 1 \in 1 .. n
          BY <4>3, <1>1
        <5>2. order[i] # order[n]
          BY <5>1, <4>3, <1>1, <1>8 DEF Distinct
        <5>3. next[order[i]] = order[i + 1]
          BY <5>1, <4>3, QueueParts DEF IInv, ListPart
        <5>4. next'[order[i]] = next[order[i]]
          BY <5>1, <5>2, <1>3, <1>4
        <5> QED
          BY <5>1, <5>3, <5>4, <4>3, <1>1, <1>3
      <4> QED
        BY <4>1, <4>2, <4>3, <1>1
    <3> QED
      BY <3>1, <3>2, <1>3, <1>8 DEF ListPart, curCpuCore
  <2>2. TailPart'
    BY <1>1, <1>2, <1>3, <1>5, QueueParts DEF IInv, TailPart, curCpuCore
  <2>3. CountPart'
    BY <1>1, <1>3, <1>5, QueueParts DEF IInv, CountPart, curCpuCore
  <2>4. CurrentPart'
    BY <1>3, <1>5, QueueParts DEF IInv, CurrentPart, curCpuCore
  <2> QED
    BY <2>1, <2>2, <2>3, <2>4, QueuePartsPrime
<1>10. AddInv'
  BY <1>1, <1>2, <1>3, <1>4 DEF IInv, AddInv
<1>11. HandlerInv'
  BY <1>3, <1>5 DEF IInv, HandlerInv, InThread, CurCpu
<1>12. ContextIntegrity'
  BY DEF IInv, ContextIntegrity
<1> QED
  BY <1>6, <1>7, <1>9, <1>10, <1>11, <1>12 DEF IInv

\* The first thread goes into an empty queue.
LEMMA AddBspThreadInv ==
  ASSUME IInv, AddBspThread
  PROVE  IInv'
<1> DEFINE q == [head |-> BspThread, tail |-> BspThread,
                 current |-> None, num_threads |-> 1]
<1>1. /\ order = <<>> /\ queue[curCpuCore] = EmptyQueue
      /\ boot = "initialized" /\ pc = "run" /\ running = Idle /\ adding = None
  BY DEF AddBspThread, IInv, BootInv
<1>2. BspThread \in Threads /\ BspThread # None
  BY NoneIsNoThread DEF Threads
<1>3. /\ order' = <<BspThread>> /\ Range(order') = {BspThread}
      /\ order' \in Seq(Threads) /\ Len(order') = 1
  <2>1. order' = <<BspThread>>
    BY <1>1 DEF AddBspThread
  <2>2. DOMAIN <<BspThread>> = {1} /\ Len(<<BspThread>>) = 1 /\ <<BspThread>>[1] = BspThread
    OBVIOUS
  <2>3. Range(<<BspThread>>) = {BspThread}
    BY <2>2 DEF Range
  <2> QED
    BY <2>1, <2>2, <2>3, <1>2
<1>4. next' = next
  <2>1. queue[curCpuCore].tail = None
    BY <1>1 DEF EmptyQueue
  <2> QED
    BY <2>1 DEF AddBspThread, LinkedNext
<1>5. /\ queue' = [queue EXCEPT ![curCpuCore] = q]
      /\ queue \in [CpuIds -> QueueType]
      /\ curCpuCore \in CpuIds /\ CurCpu \in CpuIds
  <2>1. [head |-> BspThread, tail |-> BspThread, current |-> EmptyQueue.current,
         num_threads |-> EmptyQueue.num_threads + 1] = q
    BY DEF EmptyQueue
  <2>2. LinkedHead(EmptyQueue, BspThread) = BspThread
    BY DEF EmptyQueue, LinkedHead
  <2>3. queue' = [queue EXCEPT ![curCpuCore] =
                    [head |-> BspThread, tail |-> BspThread,
                     current |-> EmptyQueue.current,
                     num_threads |-> EmptyQueue.num_threads + 1]]
    BY <1>1, <2>2 DEF AddBspThread
  <2> HIDE DEF q
  <2> QED
    BY <2>1, <2>3, CpusAssumption DEF IInv, TypeOK, curCpuCore, CurCpu
<1>6. /\ q.head = BspThread /\ q.tail = BspThread
      /\ q.current = None /\ q.num_threads = 1 /\ q \in QueueType
  BY <1>2 DEF QueueType
<1> HIDE DEF q
<1>7. /\ queue' \in [CpuIds -> QueueType]
      /\ queue'[curCpuCore] = q
      /\ \A c \in CpuIds \ {curCpuCore} : queue'[c] = queue[c]
  BY <1>5, <1>6
<1>8. queue'[CurCpu].current = None
  <2>1. queue[CurCpu].current = None
    BY <1>1 DEF IInv, HandlerInv
  <2> QED
    BY <2>1, <1>5, <1>6, <1>7
<1>9. TypeOK'
  <2>1. /\ pid' \in [Threads -> Int]
        /\ curPid' \in Nat
    <3>1. pid \in [Threads -> Int] /\ curPid \in Nat
      BY DEF IInv, TypeOK
    <3>2. pid' = [pid EXCEPT ![BspThread] = curPid] /\ curPid' = curPid + 1
      BY DEF AddBspThread
    <3>3. curPid \in Int /\ curPid' \in Nat
      BY <3>1, <3>2
    <3>4. pid' \in [Threads -> Int]
      BY <3>1, <3>2, <3>3
    <3> QED
      BY <3>3, <3>4
  <2> QED
    BY <1>3, <1>4, <1>7, <2>1
    DEF AddBspThread, addVars, handlerVars, cpuVars, IInv, TypeOK
<1>10. BootInv'
  BY <1>1, <1>3, <1>7
  DEF AddBspThread, addVars, handlerVars, cpuVars, IInv, BootInv, curCpuCore
<1>11. QueueWellFormed'
  <2>1. next'[BspThread] = None
    <3>1. BspThread \notin Range(order)
      BY <1>1 DEF Range
    <3> QED
      BY <3>1, <1>2, <1>4 DEF IInv, AddInv
  <2>2. adding' = None
    BY <1>1 DEF AddBspThread, addVars
  <2>3. order'[1] = BspThread /\ 1 .. Len(order') = {1}
    BY <1>3
  <2>4. ListPart'
    <3>1. queue'[curCpuCore].head = order'[1]
      BY <2>3, <1>6, <1>7
    <3>2. \A i \in 1 .. Len(order') :
            next'[order'[i]] = IF i < Len(order') THEN order'[i + 1] ELSE None
      BY <2>1, <2>3, <1>3
    <3>3. Distinct(order)'
      BY <2>3 DEF Distinct
    <3> QED
      BY <3>1, <3>2, <3>3, <1>3 DEF ListPart, curCpuCore
  <2>5. TailPart'
    BY <2>2, <2>3, <1>3, <1>6, <1>7 DEF TailPart, curCpuCore
  <2>6. CountPart'
    BY <2>2, <1>3, <1>6, <1>7 DEF CountPart, curCpuCore
  <2>7. CurrentPart'
    BY <1>6, <1>7 DEF CurrentPart, curCpuCore
  <2> QED
    BY <2>4, <2>5, <2>6, <2>7, QueuePartsPrime
<1>12. AddInv'
  <2>1. Range(order) = {}
    BY <1>1 DEF Range
  <2> QED
    BY <2>1, <1>1, <1>3, <1>4 DEF AddBspThread, addVars, IInv, AddInv
<1>13. HandlerInv'
  BY <1>1, <1>8 DEF AddBspThread, handlerVars, cpuVars, IInv, HandlerInv, CurCpu
<1>14. ContextIntegrity'
  BY DEF AddBspThread, cpuVars, IInv, ContextIntegrity
<1> QED
  BY <1>9, <1>10, <1>11, <1>12, <1>13, <1>14 DEF IInv

LEMMA TickInv ==
  ASSUME IInv, Tick
  PROVE  IInv'
<1> USE DEF Tick, bootVars, threadVars, addVars, ghosts
<1>1. TypeOK'
  BY DEF IInv, TypeOK
<1>2. BootInv'
  BY DEF IInv, BootInv, InThread
<1>3. QueueWellFormed'
  BY SameList DEF IInv
<1>4. AddInv'
  BY DEF IInv, AddInv
<1>5. HandlerInv'
  BY DEF IInv, HandlerInv, InThread, CurCpu
<1>6. ContextIntegrity'
  BY DEF IInv, ContextIntegrity
<1> QED
  BY <1>1, <1>2, <1>3, <1>4, <1>5, <1>6 DEF IInv

\* While a tick is handled the system is up and the list not empty.
LEMMA InHandler ==
  ASSUME IInv, pc # "run"
  PROVE  /\ boot = "on" /\ NextQueue = CurCpu /\ CurCpu \in CpuIds
         /\ order \in Seq(Threads) /\ order # <<>>
         /\ Len(order) \in Nat /\ Len(order) > 0
         /\ order[1] = BspThread /\ BspThread \in Range(order)
         /\ Distinct(order)
         /\ RR!Here \in 1 .. Len(order)
         /\ running # Idle => order[RR!Here] = running
<1>1. boot = "on" /\ order \in Seq(Threads) /\ order # <<>> /\ order[1] = BspThread
  BY DEF IInv, BootInv, TypeOK
<1>2. CurCpu \in CpuIds /\ NextQueue = CurCpu
  BY <1>1, CpusAssumption DEF IInv, BootInv, TypeOK, CurCpu, NextQueue
<1>3. Len(order) \in Nat /\ Len(order) > 0 /\ 1 \in DOMAIN order
  BY <1>1
<1>4. BspThread \in Range(order)
  BY <1>1, <1>3 DEF Range
<1>5. Distinct(order)
  BY QueueParts DEF IInv, ListPart
<1>6. running # Idle => running \in Range(order)
  BY DEF IInv, HandlerInv
<1> QED
  BY <1>1, <1>2, <1>3, <1>4, <1>5, <1>6, HereIsPlace

\* The save puts the interrupted registers where they belong.
LEMMA LockAndSaveInv ==
  ASSUME IInv, LockAndSave
  PROVE  IInv'
<1> USE DEF LockAndSave, bootVars, threadVars, addVars, cpuVars, ghosts
<1>1. /\ queue[CurCpu].current = IF running = Idle THEN None ELSE running
      /\ running \in Threads \cup {Idle} /\ regs \in Nat
      /\ ctxt \in [Threads -> Nat]
  BY DEF IInv, TypeOK, HandlerInv, Contexts
<1>2. ctxt' = IF running = Idle THEN ctxt ELSE [ctxt EXCEPT ![running] = regs]
  BY <1>1, NoneIsNoThread DEF Saved
<1>3. TypeOK'
  <2>1. ctxt' \in [Threads -> Nat]
    BY <1>1, <1>2
  <2> QED
    BY <2>1 DEF IInv, TypeOK
<1>4. BootInv'
  BY DEF IInv, BootInv
<1>5. QueueWellFormed'
  BY SameList DEF IInv
<1>6. AddInv'
  BY DEF IInv, AddInv
<1>7. HandlerInv'
  <2>1. depth' \in 1 .. Len(order')
    BY InHandler
  <2>2. Passed(depth - 1)'
    BY DEF Passed
  <2>3. running # Idle => ctxt'[running] = progress[running]
    BY <1>1, <1>2 DEF IInv, ContextIntegrity
  <2> QED
    BY <2>1, <2>2, <2>3, <1>1 DEF IInv, HandlerInv, CurCpu
<1>8. ContextIntegrity'
  BY <1>1, <1>2 DEF IInv, ContextIntegrity
<1> QED
  BY <1>3, <1>4, <1>5, <1>6, <1>7, <1>8 DEF IInv

\* The queue of processor 0 is not counted empty, whichever of the stores that
\* link a further thread have happened.
LEMMA CountedNotEmpty ==
  ASSUME IInv, boot = "on"
  PROVE  queue[curCpuCore].num_threads # 0
<1>1. order \in Seq(Threads) /\ order # <<>> /\ order[1] = BspThread
  BY DEF IInv, TypeOK, BootInv
<1>2. Len(order) \in Nat /\ Len(order) > 0
  BY <1>1
<1>3. CountPart
  BY QueueParts DEF IInv
<1>4. CASE adding # None /\ "link" \notin stores
  <2>1. adding = order[Len(order)] /\ adding \in Users
    BY <1>4 DEF IInv, AddInv
  <2>2. Len(order) # 1
    BY <1>1, <2>1, ThreadsAssumption
  <2> QED
    BY <1>2, <1>3, <1>4, <2>2 DEF CountPart
<1>5. CASE adding = None \/ "link" \in stores
  BY <1>2, <1>3, <1>5 DEF CountPart
<1> QED
  BY <1>4, <1>5

\* Nothing to run: only on a processor whose queue was never filled.
LEMMA ReturnFromTickInv ==
  ASSUME IInv, ReturnFromTick
  PROVE  IInv'
<1> USE DEF ReturnFromTick, bootVars, threadVars, addVars, ghosts
<1>1. TypeOK'
  BY DEF IInv, TypeOK
<1>2. BootInv'
  BY DEF IInv, BootInv
<1>3. QueueWellFormed'
  BY SameList DEF IInv
<1>4. AddInv'
  BY DEF IInv, AddInv
<1>5. HandlerInv'
  <2>1. CurCpu # curCpuCore /\ CurCpu \in CpuIds
    BY InHandler, CountedNotEmpty
  <2>2. queue[CurCpu].current = None
    BY <2>1 DEF IInv, BootInv, EmptyQueue
  <2>3. running = Idle
    BY <2>1 DEF IInv, HandlerInv
  <2> QED
    BY <2>2, <2>3 DEF IInv, HandlerInv, CurCpu
<1>6. ContextIntegrity'
  BY DEF IInv, ContextIntegrity
<1> QED
  BY <1>1, <1>2, <1>3, <1>4, <1>5, <1>6 DEF IInv

\* GetNextThread moves one place on in the ring.
LEMMA NextIsAhead ==
  ASSUME IInv, pc = "pick", CurCpu = curCpuCore
  PROVE  NextInQueue(queue[CurCpu]) = RR!Ahead(depth)
<1> DEFINE h == RR!Here
           n == Len(order)
           q == queue[CurCpu]
<1>1. /\ h \in 1 .. n /\ n \in Nat /\ n > 0 /\ depth \in 1 .. n
      /\ running # Idle => order[h] = running
      /\ order \in Seq(Threads)
  BY InHandler DEF IInv, HandlerInv
<1>2. /\ q.head = order[1]
      /\ \A i \in 1 .. n : next[order[i]] = IF i < n THEN order[i + 1] ELSE None
  BY <1>1, QueueParts DEF IInv, ListPart
<1>3. \A i \in 1 .. n : order[i] \in Threads /\ order[i] # None
  BY <1>1, NoneIsNoThread
<1>4. q.current = IF depth > 1 THEN RR!Ahead(depth - 1)
                  ELSE IF running = Idle THEN None ELSE running
  BY DEF IInv, HandlerInv
<1> HIDE DEF q, h, n
\* The place of `current`, or of the head when there is none.
<1>5. ASSUME NEW i \in 1 .. n,
             q.current = order[i] \/ (q.current = None /\ i = 1)
      PROVE  NextInQueue(q) = IF i < n THEN order[i + 1] ELSE order[1]
  <2>1. (IF q.current = None THEN q.head ELSE q.current) = order[i]
    BY <1>2, <1>3, <1>5
  <2>2. CASE i < n
    <3>1. i + 1 \in 1 .. n
      BY <2>2, <1>1
    <3>2. next[order[i]] = order[i + 1] /\ order[i + 1] # None
      BY <3>1, <2>2, <1>2, <1>3
    <3> QED
      BY <2>1, <2>2, <3>2 DEF NextInQueue
  <2>3. CASE ~ (i < n)
    <3>1. next[order[i]] = None
      BY <2>3, <1>2
    <3> QED
      BY <2>1, <2>3, <3>1, <1>2 DEF NextInQueue
  <2> QED
    BY <2>2, <2>3
<1>6. RR!Ahead(depth) = order[IF h + depth <= n THEN h + depth ELSE h + depth - n]
  BY DEF RR!Ahead, h, n
<1>7. CASE depth = 1
  <2>1. q.current = order[h] \/ (q.current = None /\ h = 1)
    <3>1. running = Idle => h = 1
      BY DEF RR!Here, h
    <3> QED
      BY <3>1, <1>1, <1>4, <1>7
  <2>2. NextInQueue(q) = IF h < n THEN order[h + 1] ELSE order[1]
    BY <2>1, <1>1, <1>5
  <2>3. CASE h < n
    BY <2>2, <2>3, <1>1, <1>6, <1>7 DEF q
  <2>4. CASE ~ (h < n)
    <3>1. h + depth - n = 1 /\ ~ (h + depth <= n)
      BY <2>4, <1>1, <1>7
    <3> QED
      BY <2>2, <2>4, <3>1, <1>6 DEF q
  <2> QED
    BY <2>3, <2>4
<1>8. CASE depth > 1
  <2> DEFINE i == IF h + (depth - 1) <= n THEN h + (depth - 1) ELSE h + (depth - 1) - n
  <2>1. i \in 1 .. n
    BY <1>1, <1>8
  <2>2. q.current = order[i]
    <3>1. q.current = RR!Ahead(depth - 1)
      BY <1>4, <1>8
    <3> QED
      BY <3>1 DEF RR!Ahead, h, n
  <2>3. NextInQueue(q) = IF i < n THEN order[i + 1] ELSE order[1]
    BY <2>1, <2>2, <1>5
  <2>4. (IF h + depth <= n THEN h + depth ELSE h + depth - n)
          = IF i < n THEN i + 1 ELSE 1
    BY <1>1, <1>8
  <2> HIDE DEF i
  <2> QED
    BY <2>3, <2>4, <1>6 DEF q
<1> QED
  BY <1>1, <1>7, <1>8

\* The walk goes on to the next thread, and ends at the kernel thread at the
\* latest, which never exits.
LEMMA GetNextThreadInv ==
  ASSUME IInv, GetNextThread
  PROVE  IInv'
<1> USE DEF GetNextThread, bootVars, threadVars, addVars, cpuVars, ghosts
<1> DEFINE t == RR!Ahead(depth)
           n == Len(order)
<1>1. /\ boot = "on" /\ NextQueue = CurCpu /\ CurCpu \in CpuIds
      /\ order \in Seq(Threads) /\ n \in Nat /\ n > 0 /\ order[1] = BspThread
      /\ RR!Here \in 1 .. n
  BY InHandler
<1>2. CurCpu = curCpuCore
  <2>1. CASE CurCpu # curCpuCore
    BY <2>1, <1>1 DEF IInv, BootInv, EmptyQueue
  <2> QED
    BY <2>1
<1>3. NextInQueue(queue[NextQueue]) = t
  BY <1>1, <1>2, NextIsAhead
<1>4. depth \in 1 .. n /\ Passed(depth - 1)
  BY DEF IInv, HandlerInv
<1>5. t \in Threads /\ t # None /\ t \in Range(order)
  <2>1. (IF RR!Here + depth <= n THEN RR!Here + depth ELSE RR!Here + depth - n) \in 1 .. n
    BY <1>1, <1>4
  <2>2. \A i \in 1 .. n : order[i] \in Threads /\ order[i] \in Range(order)
    BY <1>1 DEF Range
  <2> QED
    BY <2>1, <2>2, NoneIsNoThread DEF RR!Ahead
<1>6. /\ queue \in [CpuIds -> QueueType]
      /\ queue' = [queue EXCEPT ![CurCpu].current = t]
  BY <1>1, <1>3 DEF IInv, TypeOK
<1> HIDE DEF t, n
<1>7. /\ queue' \in [CpuIds -> QueueType]
      /\ queue'[CurCpu].current = t
      /\ queue'[CurCpu].head = queue[CurCpu].head
      /\ queue'[CurCpu].tail = queue[CurCpu].tail
      /\ queue'[CurCpu].num_threads = queue[CurCpu].num_threads
      /\ \A c \in CpuIds \ {CurCpu} : queue'[c] = queue[c]
  <2> HIDE DEF GetNextThread
  <2> QED
    BY <1>1, <1>5, <1>6, CurrentStored
<1>8. TypeOK'
  <2>1. picked' \in Threads \cup {None} /\ depth' \in Nat
          /\ pc' \in {"run", "lock", "pick", "dispatch"}
    BY <1>3, <1>5 DEF IInv, TypeOK
  <2> QED
    BY <2>1, <1>7 DEF IInv, TypeOK
<1>9. BootInv'
  BY <1>1, <1>2, <1>7 DEF IInv, BootInv
<1>10. QueueWellFormed'
  <2>1. ListPart' /\ TailPart' /\ CountPart'
    BY <1>2, <1>7, QueueParts DEF IInv, ListPart, TailPart, CountPart, Distinct, curCpuCore
  <2>2. CurrentPart'
    BY <1>2, <1>5, <1>7 DEF CurrentPart, curCpuCore
  <2> QED
    BY <2>1, <2>2, QueuePartsPrime
<1>11. AddInv'
  BY DEF IInv, AddInv
<1>12. HandlerInv'
  <2>1. /\ \A j : RR!Ahead(j)' = RR!Ahead(j)
        /\ \A k : Passed(k)' <=> Passed(k)
    BY SamePassed
  <2>2. CurCpu' = CurCpu
    BY DEF CurCpu
  <2>3. CASE CanRun(t)
    <3>1. picked' = t /\ pc' = "dispatch" /\ depth' = depth
      BY <2>3, <1>3 DEF t
    <3>2. /\ depth' \in 1 .. Len(order)' /\ Passed(depth - 1)'
          /\ picked' = RR!Ahead(depth)'
          /\ canRun'[picked']
      BY <3>1, <2>1, <2>3, <1>4 DEF CanRun, t, n
    <3> QED
      BY <3>1, <3>2, <2>2, <1>2, <1>7 DEF IInv, HandlerInv
  <2>4. CASE ~ CanRun(t)
    <3>1. depth' = depth + 1 /\ pc' = "pick"
      BY <2>4, <1>3 DEF t
    <3>2. Passed(depth)
      <4> SUFFICES ASSUME NEW j \in 1 .. depth
                   PROVE  ~ canRun[RR!Ahead(j)]
        BY DEF Passed
      <4>1. CASE j = depth
        BY <4>1, <2>4 DEF CanRun, t
      <4>2. CASE j # depth
        <5>1. j \in 1 .. (depth - 1)
          BY <4>2, <1>4 DEF n
        <5> QED
          BY <5>1, <1>4 DEF Passed
      <4> QED
        BY <4>1, <4>2
    <3>3. depth # n
      <4>1. PICK j \in 1 .. n : RR!Ahead(j) = order[1]
        <5>1. 1 \in 1 .. n /\ order # <<>>
          BY <1>1 DEF n
        <5> QED
          BY <5>1, <1>1, AheadCovers DEF n
      <4>2. canRun[RR!Ahead(j)]
        BY <4>1, <1>1 DEF IInv, HandlerInv
      <4> QED
        BY <4>2, <3>2 DEF Passed
    <3>4. depth' \in 1 .. n /\ Len(order)' = n
      BY <3>1, <3>3, <1>1, <1>4 DEF n
    <3>5. Passed(depth - 1)'
      <4>1. depth' - 1 = depth
        BY <3>1, <1>1, <1>4 DEF n
      <4> QED
        BY <4>1, <3>2, <2>1 DEF Passed
    <3>6. queue'[CurCpu].current = RR!Ahead(depth - 1)' /\ depth' > 1
      <4>1. depth' - 1 = depth /\ depth' > 1
        BY <3>1, <1>1, <1>4 DEF n
      <4> QED
        BY <4>1, <2>1, <1>7 DEF t
    <3> QED
      BY <3>1, <3>4, <3>5, <3>6, <2>2 DEF IInv, HandlerInv
  <2> QED
    BY <2>3, <2>4
<1>13. ContextIntegrity'
  BY DEF IInv, ContextIntegrity
<1> QED
  BY <1>8, <1>9, <1>10, <1>11, <1>12, <1>13 DEF IInv

\* The iretq gives the thread back what it had saved.
LEMMA DispatchInv ==
  ASSUME IInv, Dispatch
  PROVE  IInv'
<1> USE DEF Dispatch, bootVars, threadVars, addVars
<1>1. /\ CurCpu = curCpuCore /\ picked = queue[CurCpu].current
      /\ running # Idle => ctxt[running] = progress[running]
      /\ picked \in Range(order) /\ picked \in Threads /\ picked # Idle
  <2>1. /\ CurCpu = curCpuCore /\ picked = queue[CurCpu].current
        /\ running # Idle => ctxt[running] = progress[running]
        /\ picked = RR!Ahead(depth) /\ depth \in 1 .. Len(order)
    BY DEF IInv, HandlerInv
  <2>2. /\ order \in Seq(Threads) /\ Len(order) \in Nat
        /\ RR!Here \in 1 .. Len(order)
    BY InHandler
  <2>3. picked \in Range(order) /\ picked \in Threads
    <3>1. (IF RR!Here + depth <= Len(order) THEN RR!Here + depth
           ELSE RR!Here + depth - Len(order)) \in 1 .. Len(order)
      BY <2>1, <2>2
    <3>2. \A i \in 1 .. Len(order) : order[i] \in Threads /\ order[i] \in Range(order)
      BY <2>2 DEF Range
    <3> QED
      BY <2>1, <3>1, <3>2 DEF RR!Ahead
  <2> QED
    BY <2>1, <2>3, NoneIsNoThread
<1>2. TypeOK'
  <2>1. regs' \in Nat /\ running' \in Contexts
    BY <1>1 DEF IInv, TypeOK, Contexts
  <2> QED
    BY <2>1 DEF IInv, TypeOK
<1>3. BootInv'
  BY DEF IInv, BootInv
<1>4. QueueWellFormed'
  BY SameList DEF IInv
<1>5. AddInv'
  BY DEF IInv, AddInv
<1>6. HandlerInv'
  BY <1>1 DEF IInv, HandlerInv, CurCpu
<1>7. ContextIntegrity'
  BY <1>1, ThreadsAssumption DEF IInv, TypeOK, ContextIntegrity, Contexts
<1> QED
  BY <1>2, <1>3, <1>4, <1>5, <1>6, <1>7 DEF IInv

LEMMA StutterInv ==
  ASSUME IInv, UNCHANGED vars
  PROVE  IInv'
<1> USE DEF vars, bootVars, threadVars, addVars, handlerVars, cpuVars, ghosts
<1>1. TypeOK' /\ BootInv' /\ AddInv' /\ ContextIntegrity'
  BY DEF IInv, TypeOK, BootInv, AddInv, ContextIntegrity
<1>2. QueueWellFormed'
  BY SameList DEF IInv
<1>3. HandlerInv'
  <2>1. /\ \A j : RR!Ahead(j)' = RR!Ahead(j)
        /\ \A k : Passed(k)' <=> Passed(k)
    BY SamePassed
  <2>2. Passed(depth - 1)' <=> Passed(depth - 1)
    BY <2>1 DEF Passed
  <2>3. RR!Ahead(depth - 1)' = RR!Ahead(depth - 1) /\ RR!Ahead(depth)' = RR!Ahead(depth)
    BY <2>1
  <2> QED
    BY <2>2, <2>3 DEF IInv, HandlerInv, CurCpu
<1> QED
  BY <1>1, <1>2, <1>3 DEF IInv

-----------------------------------------------------------------------------
(* The safety theorems *)

\* The inductive invariant: the list, the contexts, the walk of GetNextThread
\* and the steps of kernel_entry, as Scheduler's IInv puts them together.
THEOREM InductiveInvariant == Spec => []IInv
<1>1. Init => IInv
  BY InitInv
<1>2. IInv /\ [Next]_vars => IInv'
  <2> SUFFICES ASSUME IInv, [Next]_vars
               PROVE  IInv'
    OBVIOUS
  <2>1. CASE AddBspThread
    BY <2>1, AddBspThreadInv
  <2>2. CASE NumberCpus
    BY <2>2, NumberCpusInv
  <2>3. CASE EnableInterrupts
    BY <2>3, EnableInterruptsInv
  <2>4. CASE Work
    BY <2>4, WorkInv
  <2>5. CASE DeleteCurThread
    BY <2>5, DeleteCurThreadInv
  <2>6. CASE \E t \in Users : AddCall(t)
    BY <2>6, AddCallInv
  <2>7. CASE StorePid \/ StoreLink \/ StoreTail \/ StoreCount
    BY <2>7, StorePidInv, StoreLinkInv, StoreTailInv, StoreCountInv
  <2>8. CASE AddReturn
    BY <2>8, AddReturnInv
  <2>9. CASE Tick
    BY <2>9, TickInv
  <2>10. CASE LockAndSave
    BY <2>10, LockAndSaveInv
  <2>11. CASE GetNextThread
    BY <2>11, GetNextThreadInv
  <2>12. CASE ReturnFromTick
    BY <2>12, ReturnFromTickInv
  <2>13. CASE Dispatch
    BY <2>13, DispatchInv
  <2>14. CASE UNCHANGED vars
    BY <2>14, StutterInv
  <2> QED
    BY <2>1, <2>2, <2>3, <2>4, <2>5, <2>6, <2>7, <2>8, <2>9, <2>10, <2>11,
       <2>12, <2>13, <2>14 DEF Next
<1> QED
  BY <1>1, <1>2, PTL DEF Spec

\* Every variable of the scheduler keeps its type (cpu.h, task.h).
THEOREM TypeCorrect == Spec => []TypeOK
<1>1. IInv => TypeOK
  BY DEF IInv
<1> QED
  BY <1>1, InductiveInvariant, PTL

\* The list every tick walks is whole, wherever in AddThread the tick falls and
\* in whatever order its stores happen (scheduler.cpp:41-63).
THEOREM QueueStaysWhole == Spec => []QueueWellFormed
<1>1. IInv => QueueWellFormed
  BY DEF IInv
<1> QED
  BY <1>1, InductiveInvariant, PTL

\* The queue's current thread is the one whose code runs, so that the next save
\* goes where it belongs (scheduler.cpp:99-106).
THEOREM CurrentRuns == Spec => []RunningIsCurrent
<1>1. IInv => RunningIsCurrent
  BY DEF IInv, HandlerInv, RunningIsCurrent
<1> QED
  BY <1>1, InductiveInvariant, PTL

\* No switch loses or repeats work of a thread (scheduler.cpp:103-140).
THEOREM ContextsAreKept == Spec => []ContextIntegrity
<1>1. IInv => ContextIntegrity
  BY DEF IInv
<1> QED
  BY <1>1, InductiveInvariant, PTL

\* GetNextThread's recursion ends: it meets each linked thread at most once
\* before one that can run, so that the handler's stack is bounded
\* (scheduler.cpp:91-92).
RecursionBounded == depth <= Len(order)

\* GetNextThread never calls itself more often than there are threads, for any
\* number of threads and any of them dead (scheduler.cpp:91-92).
THEOREM RecursionIsBounded == Spec => []RecursionBounded
<1>1. IInv => RecursionBounded
  <2> SUFFICES ASSUME IInv
               PROVE  depth <= Len(order)
    BY DEF RecursionBounded
  <2>1. order \in Seq(Threads) /\ depth \in Nat /\ pc \in {"run", "lock", "pick", "dispatch"}
    BY DEF IInv, TypeOK
  <2>2. Len(order) \in Nat
    BY <2>1
  <2>3. CASE pc \in {"run", "lock"}
    BY <2>2, <2>3 DEF IInv, HandlerInv
  <2>4. CASE pc \in {"pick", "dispatch"}
    BY <2>2, <2>4 DEF IInv, HandlerInv
  <2> QED
    BY <2>1, <2>3, <2>4
<1> QED
  BY <1>1, InductiveInvariant, PTL

-----------------------------------------------------------------------------
(* The scheduler implements the ring. *)

LEMMA RefinesInit == Init => RR!Init
BY DEF Init, RR!Init

\* Linking a thread is its joining the ring.
LEMMA LinkRefines ==
  ASSUME IInv, AddBspThread \/ StoreLink
  PROVE  RR!Next
<1>1. ASSUME NEW t \in Threads, t \notin Range(order), order' = Append(order, t),
             UNCHANGED <<canRun, running>>
      PROVE  RR!Next
  BY <1>1 DEF RR!Next, RR!Join, RR!Range, Range
<1>2. CASE AddBspThread
  <2>1. BspThread \notin Range(order)
    BY <1>2 DEF AddBspThread, IInv, BootInv, Range
  <2> QED
    BY <1>1, <1>2, <2>1 DEF AddBspThread, cpuVars, Threads
<1>3. CASE StoreLink
  <2>1. adding \in Threads /\ adding \notin Range(order)
    BY <1>3, Adding, StoreAdds DEF StoreLink, Store, IInv, AddInv
  <2> QED
    BY <1>1, <1>3, <2>1 DEF StoreLink, Store, cpuVars
<1> QED
  BY <1>2, <1>3

\* The thread that a system call ends is the one that made it.
LEMMA ExitRefines ==
  ASSUME IInv, DeleteCurThread
  PROVE  RR!Next
<1>1. running \in Threads /\ running \in Range(order)
  BY NoneIsNoThread DEF DeleteCurThread, IInv, HandlerInv, Threads
<1>2. canRun' = [canRun EXCEPT ![running] = FALSE] /\ canRun \in [Threads -> BOOLEAN]
  BY DeleteCurThreadInv DEF IInv, TypeOK
<1>3. {t \in Threads : ~canRun'[t]} = {t \in Threads : ~canRun[t]} \cup {running}
  BY <1>1, <1>2
<1>4. UNCHANGED <<order, running>>
  BY DEF DeleteCurThread, ghosts, cpuVars
<1> QED
  BY <1>1, <1>3, <1>4 DEF RR!Next, RR!Exit, RR!Range, Range

\* The thread GetNextThread has found is the nearest one alive.
LEMMA DispatchRefines ==
  ASSUME IInv, Dispatch
  PROVE  RR!Next
<1> DEFINE Hits == {k \in 1 .. Len(order) : RR!Ahead(k) \in RR!Alive}
           Least(k) == \A j \in Hits : k <= j
<1>1. /\ depth \in 1 .. Len(order) /\ Passed(depth - 1)
      /\ picked = RR!Ahead(depth) /\ canRun[picked]
      /\ CurCpu = curCpuCore /\ picked = queue[CurCpu].current
  BY DEF Dispatch, IInv, HandlerInv
<1>2. picked \in Range(order)
  <2>1. /\ order \in Seq(Threads) /\ Len(order) \in Nat
        /\ RR!Here \in 1 .. Len(order)
    BY InHandler DEF Dispatch
  <2>2. (IF RR!Here + depth <= Len(order) THEN RR!Here + depth
         ELSE RR!Here + depth - Len(order)) \in 1 .. Len(order)
    BY <1>1, <2>1
  <2>3. \A i \in 1 .. Len(order) : order[i] \in Range(order)
    BY <2>1 DEF Range
  <2> QED
    BY <1>1, <2>2, <2>3 DEF RR!Ahead
<1>3. picked \in RR!Alive /\ depth \in Hits
  BY <1>1, <1>2 DEF RR!Alive, RR!Range, Range
<1>4. Least(depth)
  <2> SUFFICES ASSUME NEW j \in 1 .. Len(order), RR!Ahead(j) \in RR!Alive
               PROVE  depth <= j
    OBVIOUS
  <2>1. RR!Ahead(j) \in Range(order) /\ Range(order) \subseteq Threads
    <3>1. order \in Seq(Threads)
      BY InHandler DEF Dispatch
    <3> QED
      BY <3>1 DEF RR!Alive, RR!Range, Range
  <2>2. canRun[RR!Ahead(j)]
    BY <2>1 DEF RR!Alive
  <2>3. j \notin 1 .. (depth - 1)
    BY <2>2, <1>1 DEF Passed
  <2>4. Len(order) \in Nat
    BY InHandler DEF Dispatch
  <2> QED
    BY <2>3, <2>4, <1>1
<1>5. \A k \in Hits : Least(k) => k = depth
  <2>1. Len(order) \in Nat
    BY InHandler DEF Dispatch
  <2> QED
    BY <2>1, <1>3, <1>4
<1>6. (CHOOSE k \in Hits : Least(k)) = depth
  <2> HIDE DEF Hits, Least
  <2> QED
    BY <1>3, <1>4, <1>5
<1>7. RR!Successor = picked
  BY <1>1, <1>6 DEF RR!Successor
<1>8. RR!Dispatch
  BY <1>3, <1>7 DEF RR!Dispatch, Dispatch, threadVars
<1> QED
  BY <1>8 DEF RR!Next

\* All other steps change nothing of the ring.
LEMMA OthersStutter ==
  ASSUME \/ NumberCpus \/ EnableInterrupts \/ Work
         \/ (\E t \in Users : AddCall(t))
         \/ StorePid \/ StoreTail \/ StoreCount \/ AddReturn
         \/ Tick \/ LockAndSave \/ GetNextThread \/ ReturnFromTick
         \/ UNCHANGED vars
  PROVE  UNCHANGED RR!vars
<1>1. UNCHANGED <<order, canRun, running>>
  BY DEF NumberCpus, EnableInterrupts, Work, AddCall, StorePid, StoreTail, StoreCount,
         AddReturn, Tick, LockAndSave, GetNextThread, ReturnFromTick, Store,
         vars, threadVars, cpuVars, ghosts
<1> QED
  BY <1>1 DEF RR!vars

\* Threads take turns in the order they joined, and one that has exited is
\* never resumed: ticks, calls and stores implement RoundRobin
\* (scheduler.cpp:65-147).
THEOREM Implementation == Spec => ImplementsRoundRobin
<1>1. Init => RR!Init
  BY RefinesInit
<1>2. IInv /\ [Next]_vars => [RR!Next]_(RR!vars)
  <2> SUFFICES ASSUME IInv, [Next]_vars
               PROVE  RR!Next \/ UNCHANGED RR!vars
    OBVIOUS
  <2>1. CASE AddBspThread \/ StoreLink
    BY <2>1, LinkRefines
  <2>2. CASE DeleteCurThread
    BY <2>2, ExitRefines
  <2>3. CASE Dispatch
    BY <2>3, DispatchRefines
  <2>4. CASE \/ NumberCpus \/ EnableInterrupts \/ Work
             \/ (\E t \in Users : AddCall(t))
             \/ StorePid \/ StoreTail \/ StoreCount \/ AddReturn
             \/ Tick \/ LockAndSave \/ GetNextThread \/ ReturnFromTick
             \/ UNCHANGED vars
    BY <2>4, OthersStutter
  <2> QED
    BY <2>1, <2>2, <2>3, <2>4 DEF Next
<1> QED
  BY <1>1, <1>2, InductiveInvariant, PTL DEF Spec, ImplementsRoundRobin, RR!Spec
=============================================================================
